---------------------------- MODULE SimpleUnarchiver ----------------------------
(***************************************************************************)
(* XADSimpleUnarchiver: where the files of an archive end up, and what     *)
(* happens to the files that are there already.  It unpacks into an        *)
(* enclosing directory or beside it, asks what to do about collisions,     *)
(* remembers the answer for everything below a renamed or skipped          *)
(* directory, and, for an archive in an archive (.tar.gz), moves the       *)
(* result into its final place when it is known whether there was only one *)
(* top-level item.                                                         *)
(*                                                                         *)
(* The disk is a function from paths, relative to the destination, to what *)
(* is there.  A name is its text, the number added to make it unique, and  *)
(* whether it is the separate file of a resource fork.  The delegate, the  *)
(* extraction of one entry (see Unarchiver) and the platform are the       *)
(* environment; what fails in them is bounded by MaxSetbacks.              *)
(***************************************************************************)
EXTENDS Integers, Sequences, FiniteSets, SequencesExt

CONSTANTS
  Texts,          \* the texts of file names
  Archives,       \* archives: sequences of entries
  Disks,          \* what may be on the disk before
  Policies,       \* of "overwrite", "skip" (also without a delegate), "rename", "ask"
  MaxSetbacks

ASSUME TextsAssumption == {"enclosing", "temporary"} \subseteq Texts
ASSUME MaxSetbacksAssumption == MaxSetbacks \in Nat
ASSUME PoliciesAssumption == Policies \subseteq {"overwrite", "skip", "rename", "ask"}

VARIABLES
  archive, sub,                    \* the entries, and whether they are in a sub-archive
  policy, enclosingdir, removesolo,
  before, disk,                    \* the disk at the start and now
  pc,                              \* "begin", "next", "walk", "extract", "solo", "place",
                                   \* "replace", "move", "returned"
  i, c, path,                      \* the entry, and how far its path has been walked
  renames,                         \* archive path |-> path on disk, or Skipped
  toplevelname, lookslikesolo,
  unpackdestination, originaldest, finaldestination,
  work,                            \* the moves still to be made, next first
  numextracted, error, result, shouldstop,
  agreed, skips,                   \* history: existing paths that may be replaced, skips
  written,                         \* history: where every entry was written
  setbacks

configVars == <<archive, sub, policy, enclosingdir, removesolo, before>>
walkVars == <<i, c, path>>
soloVars == <<toplevelname, lookslikesolo>>
placeVars == <<unpackdestination, originaldest, finaldestination>>
collisionVars == <<agreed, skips>>
vars == <<configVars, disk, pc, walkVars, renames, soloVars, placeVars, work,
          numextracted, error, result, shouldstop, collisionVars, written, setbacks>>

Names == [text : Texts, number : Nat, fork : BOOLEAN]
Paths == Seq(Names)

Name(text) == [text |-> text, number |-> 0, fork |-> FALSE]
Enclosing == Name("enclosing")
Temporary == Name("temporary")
Skipped == <<>>
Nowhere == <<>>

Exists(p) == p \in DOMAIN disk
Node(dir, by) == [dir |-> dir, by |-> by]
Parents(p) == {SubSeq(p, 1, k) : k \in 1..Len(p) - 1}

EntryType == [path : Seq(Texts), dir : BOOLEAN, fork : BOOLEAN]

\* The name that uniqueDirectoryPathWithParentDirectory: makes up of the time
\* and the process is nobody else's.
ASSUME ArchivesAssumption ==
  \A es \in Archives :
    /\ es \in Seq(EntryType) /\ es # <<>>
    /\ \A j \in 1..Len(es) :
         es[j].path # <<>> /\ \A k \in 1..Len(es[j].path) : es[j].path[k] # Temporary.text

\* A disk is a tree of finitely many files.
ASSUME DisksAssumption ==
  \A d \in Disks :
    /\ IsFiniteSet(DOMAIN d) /\ DOMAIN d \subseteq Paths \ {<<>>}
    /\ d \in [DOMAIN d -> {Node(TRUE, 0), Node(FALSE, 0)}]
    /\ \A p \in DOMAIN d :
         /\ p[1].text # Temporary.text
         /\ \A q \in Parents(p) : q \in DOMAIN d /\ d[q].dir

\* adjustPathString: the file of a resource fork is named after its file.
Adjusted(e) ==
  [k \in 1..Len(e.path) |->
     [text |-> e.path[k], number |-> 0, fork |-> e.fork /\ k = Len(e.path)]]

Numbered(p, n) == [p EXCEPT ![Len(p)].number = n]

\* _findUniquePathForOriginalPath: the first name like p's last, with a number,
\* that is free.  One of so many is.
UniquePath(p) ==
  Numbered(p, CHOOSE n \in 1..Cardinality(DOMAIN disk) + 1 :
                ~Exists(Numbered(p, n)) /\ \A m \in 1..n - 1 : Exists(Numbered(p, m)))

\* Mutant: a renaming policy that trusts the original path.
CheckPathTrusting(p) ==
  IF policy \in {"overwrite", "rename"} \/ ~Exists(p) THEN {p} ELSE {Skipped}

\* _checkPath: where something meant for p may go.
CheckPath(p) ==
  IF policy = "overwrite" \/ ~Exists(p) THEN {p}
  ELSE CASE policy = "rename" -> {UniquePath(p)}
         [] policy = "ask" -> {p, UniquePath(p), Skipped}
         [] policy = "skip" -> {Skipped}

\* Records the answer: an existing path may be replaced if a delegate says so.
Answer(p, answer) ==
  /\ agreed' = IF policy = "ask" /\ answer = p /\ Exists(p) THEN agreed \cup {p} ELSE agreed
  /\ skips' = (skips \/ answer = Skipped)

\* f with x mapped to y.
Extended(f, x, y) == [z \in DOMAIN f \cup {x} |-> IF z = x THEN y ELSE f[z]]

Setback == setbacks < MaxSetbacks /\ setbacks' = setbacks + 1

PollStop == \E answer \in BOOLEAN : shouldstop' = (shouldstop \/ answer)

Return(res) == pc' = "returned" /\ result' = res
-----------------------------------------------------------------------------
(***************************************************************************)
(* The disk: a subtree moved or removed, and the missing parents of p.     *)
(***************************************************************************)
Moved(src, dest) ==
  LET kept == {q \in DOMAIN disk : ~IsPrefix(src, q)}
      Below(q) == SubSeq(q, Len(src) + 1, Len(q))
      to == {dest \o Below(q) : q \in DOMAIN disk \ kept}
  IN  [q \in kept \cup to |->
         IF q \in to THEN disk[src \o SubSeq(q, Len(dest) + 1, Len(q))] ELSE disk[q]]

Removed(p) == [q \in {r \in DOMAIN disk : ~IsPrefix(p, r)} |-> disk[q]]

ParentsFit(p) == \A q \in Parents(p) : Exists(q) => disk[q].dir
WithParents(p) ==
  [q \in DOMAIN disk \cup Parents(p) |-> IF Exists(q) THEN disk[q] ELSE Node(TRUE, i)]

Children(p) == {q \in DOMAIN disk : Len(q) = Len(p) + 1 /\ IsPrefix(p, q)}
-----------------------------------------------------------------------------
(***************************************************************************)
(* parse has found the entries of the archive, or a sub-archive.           *)
(***************************************************************************)
Init ==
  /\ archive \in Archives /\ sub \in BOOLEAN
  /\ policy \in Policies /\ enclosingdir \in BOOLEAN /\ removesolo \in BOOLEAN
  /\ before \in Disks /\ disk = before
  /\ pc = "begin" /\ i = 1 /\ c = 1 /\ path = Nowhere
  /\ renames = <<>> /\ toplevelname = "" /\ lookslikesolo = FALSE
  /\ unpackdestination = Nowhere /\ originaldest = Nowhere /\ finaldestination = Nowhere
  /\ work = <<>> /\ numextracted = 0 /\ error = "none" /\ result = "none"
  /\ shouldstop = FALSE /\ agreed = {} /\ skips = FALSE
  /\ written = <<>> /\ setbacks = 0

TopLevel(e) == e.path[1]

SameTop(es) == \A j, k \in 1..Len(es) : TopLevel(es[j]) = TopLevel(es[k])

\* Unpack into dest, which the collision check has approved.
UnpackInto(dest) ==
  /\ unpackdestination' = dest
  /\ finaldestination' = IF sub THEN finaldestination ELSE dest
  /\ pc' = "next"
  /\ UNCHANGED result

UnpackChecked(p) ==
  /\ \E answer \in CheckPath(p) :
       /\ Answer(p, answer)
       /\ IF answer = Skipped
            THEN Return("none") /\ UNCHANGED <<unpackdestination, finaldestination>>
            ELSE UnpackInto(answer)
  /\ UNCHANGED originaldest

UnpackBeside ==
  /\ UnpackInto(Nowhere)
  /\ UNCHANGED <<originaldest, collisionVars>>

\* The start of _unarchiveRegularArchive: the entries are known.
BeginRegular ==
  /\ pc = "begin" /\ ~sub
  /\ toplevelname' = TopLevel(archive[1]) /\ lookslikesolo' = SameTop(archive)
  /\ IF enclosingdir /\ ~(removesolo /\ lookslikesolo')
       THEN UnpackChecked(<<Enclosing>>)
       ELSE UnpackBeside
  /\ UNCHANGED <<configVars, disk, walkVars, renames, work, numextracted, error,
                 shouldstop, written, setbacks>>

\* The start of _unarchiveSubArchive: if the enclosing directory may have to
\* go, the collision is dealt with later and a unique name used for now.
BeginSub ==
  /\ pc = "begin" /\ sub
  /\ IF ~enclosingdir THEN UnpackBeside
     ELSE IF ~removesolo THEN UnpackChecked(<<Enclosing>>)
     ELSE /\ UnpackInto(IF Exists(<<Enclosing>>) THEN UniquePath(<<Enclosing>>) ELSE <<Enclosing>>)
          /\ originaldest' = IF Exists(<<Enclosing>>) THEN <<Enclosing>> ELSE Nowhere
          /\ UNCHANGED collisionVars
  /\ UNCHANGED <<configVars, disk, walkVars, renames, soloVars, work, numextracted, error,
                 shouldstop, written, setbacks>>
-----------------------------------------------------------------------------
(***************************************************************************)
(* One entry: unarchiver:shouldExtractEntryWithDictionary:suggestedPath:.  *)
(***************************************************************************)
Entry == archive[i]

\* Mutant: the walk starts at the destination, wherever the files should go.
StartAtDestination == Nowhere

\* Where the walk along the path of an entry starts.
Start == unpackdestination

\* _testForSoloItems, for the entries of a sub-archive as they are found.
TestForSolo(e) ==
  IF toplevelname = ""
    THEN toplevelname' = TopLevel(e) /\ lookslikesolo' = TRUE
    ELSE /\ lookslikesolo' = (lookslikesolo /\ toplevelname = TopLevel(e))
         /\ UNCHANGED toplevelname

NextEntry ==
  /\ pc = "next" /\ i <= Len(archive)
  /\ PollStop
  /\ IF shouldstop'
       THEN Return("break") /\ UNCHANGED <<c, path, soloVars>>
       ELSE /\ pc' = "walk" /\ c' = 1 /\ path' = Start
            /\ IF sub THEN TestForSolo(Entry) ELSE UNCHANGED soloVars
            /\ UNCHANGED result
  /\ UNCHANGED <<configVars, disk, i, renames, placeVars, work, numextracted, error,
                 collisionVars, written, setbacks>>

PassOver == pc' = "next" /\ i' = i + 1

\* Before the walk a filter or the encoding of the name rules the entry out,
\* after it the delegate.
RuleOut ==
  /\ pc = "extract" \/ (pc = "walk" /\ c = 1)
  /\ Setback
  /\ PassOver
  /\ UNCHANGED <<configVars, disk, c, path, renames, soloVars, placeVars, work,
                 numextracted, error, result, shouldstop, collisionVars, written>>

Walked == SubSeq(Adjusted(Entry), 1, c)

\* Mutant: the answers are not remembered.
KnownNever == pc = "walk" /\ c <= Len(Entry.path) /\ FALSE

\* This part of the path has been met before.
Known == pc = "walk" /\ c <= Len(Entry.path) /\ Walked \in DOMAIN renames

WalkKnown ==
  /\ Known
  /\ IF renames[Walked] = Skipped
       THEN PassOver /\ UNCHANGED <<c, path>>
       ELSE path' = renames[Walked] /\ c' = c + 1 /\ UNCHANGED <<pc, i>>
  /\ UNCHANGED <<configVars, disk, renames, soloVars, placeVars, work, numextracted, error,
                 result, shouldstop, collisionVars, written, setbacks>>

WalkNew ==
  LET p == Append(path, Adjusted(Entry)[c])
  IN  /\ pc = "walk" /\ c <= Len(Entry.path) /\ ~Known
      /\ \E answer \in CheckPath(p) :
           /\ Answer(p, answer)
           /\ renames' = Extended(renames, Walked, answer)
           /\ IF answer = Skipped
                THEN PassOver /\ UNCHANGED <<c, path>>
                ELSE path' = answer /\ c' = c + 1 /\ UNCHANGED <<pc, i>>
      /\ UNCHANGED <<configVars, disk, soloVars, placeVars, work, numextracted, error,
                     result, shouldstop, written, setbacks>>

WalkEnds ==
  /\ pc = "walk" /\ c > Len(Entry.path)
  /\ pc' = "extract"
  /\ UNCHANGED <<configVars, disk, walkVars, renames, soloVars, placeVars, work,
                 numextracted, error, result, shouldstop, collisionVars, written, setbacks>>

Writable == ParentsFit(path) /\ (Exists(path) => disk[path].dir = Entry.dir)

Written ==
  IF Exists(path) /\ Entry.dir THEN disk
  ELSE Extended(WithParents(path), path, Node(Entry.dir, i))

\* didExtractEntry: counts the entry whether or not there was an error.
ExtractEntry ==
  /\ pc = "extract"
  /\ Writable
  /\ disk' = Written
  /\ written' = Extended(written, i, path)
  /\ numextracted' = numextracted + 1
  /\ PassOver
  /\ UNCHANGED <<configVars, c, path, renames, soloVars, placeVars, work, error, result,
                 shouldstop, collisionVars, setbacks>>

\* The errors of single entries are not the caller's concern.
ExtractFails ==
  /\ pc = "extract"
  /\ IF Writable THEN Setback /\ disk' \in {disk, WithParents(path), Written}
     ELSE UNCHANGED <<disk, setbacks>>
  /\ numextracted' = numextracted + 1
  /\ PassOver
  /\ UNCHANGED <<configVars, c, path, renames, soloVars, placeVars, work, error, result,
                 shouldstop, collisionVars, written>>

\* The delegate stops the extraction in the middle of a file.
ExtractStopped ==
  /\ pc = "extract" /\ Writable /\ ~Entry.dir
  /\ shouldstop' = TRUE
  /\ disk' = Written /\ numextracted' = numextracted + 1
  /\ Return("break")
  /\ UNCHANGED <<configVars, walkVars, renames, soloVars, placeVars, work, error,
                 collisionVars, written, setbacks>>

\* A sub-archive turns out to be damaged.
SubFails ==
  /\ pc = "next" /\ sub /\ error = "none"
  /\ Setback
  /\ error' = "damaged" /\ i' = Len(archive) + 1
  /\ UNCHANGED <<configVars, disk, pc, c, path, renames, soloVars, placeVars, work,
                 numextracted, result, shouldstop, collisionVars, written>>
-----------------------------------------------------------------------------
(***************************************************************************)
(* After the last entry.                                                   *)
(***************************************************************************)
\* _finalizeExtraction, reached if nothing went wrong before.
Finalize(err) ==
  IF err # "none" THEN Return(err) /\ UNCHANGED setbacks
  ELSE \/ Return("none") /\ UNCHANGED setbacks
       \/ Return("attributes") /\ Setback

SettleHere == finaldestination' = unpackdestination /\ UNCHANGED originaldest

EntriesDone ==
  /\ pc = "next" /\ i > Len(archive)
  /\ PollStop
  /\ IF shouldstop' THEN Return("break") /\ UNCHANGED <<placeVars, setbacks>>
     ELSE IF numextracted = 0 THEN Return(error) /\ UNCHANGED <<placeVars, setbacks>>
     ELSE IF ~sub \/ ~(enclosingdir /\ removesolo)
       THEN SettleHere /\ Finalize(error) /\ UNCHANGED unpackdestination
     ELSE IF lookslikesolo
       THEN pc' = "solo" /\ UNCHANGED <<result, placeVars, setbacks>>
     ELSE IF originaldest # Nowhere
       THEN pc' = "replace" /\ UNCHANGED <<result, placeVars, setbacks>>
       ELSE SettleHere /\ Finalize(error) /\ UNCHANGED unpackdestination
  /\ UNCHANGED <<configVars, disk, walkVars, renames, soloVars, work, numextracted, error,
                 collisionVars, written>>

\* soloItem: known if everything has gone below one top-level path.
TopPaths == {renames[w] : w \in {v \in DOMAIN renames : Len(v) = 1}}
TopNames == {w \in DOMAIN renames : Len(w) = 1}
SoloKnown == \E p \in TopPaths : TopNames # {} /\ (\A w, v \in TopNames : w = v) /\ p # Skipped
SoloName == LET p == CHOOSE q \in TopPaths : TRUE IN p[Len(p)]

\* First the enclosing directory gets a unique name.  Its failure is ignored.
EnclosingRenamed ==
  \/ /\ Exists(unpackdestination)
     /\ disk' = Moved(unpackdestination, <<Temporary>>)
     /\ UNCHANGED setbacks
  \/ /\ ~Exists(unpackdestination) /\ UNCHANGED <<disk, setbacks>>
  \/ /\ Setback /\ UNCHANGED disk

RenameEnclosing ==
  /\ pc = "solo" /\ SoloKnown
  /\ EnclosingRenamed
  /\ pc' = "place"
  /\ UNCHANGED <<configVars, walkVars, renames, soloVars, placeVars, work, numextracted,
                 error, result, shouldstop, collisionVars, written>>

\* Without a solo item its name is nil, which no path can be made from.
SoloUnknown ==
  /\ pc = "solo" /\ ~SoloKnown
  /\ EnclosingRenamed
  /\ Return("raised")
  /\ UNCHANGED <<configVars, walkVars, renames, soloVars, placeVars, work, numextracted,
                 error, shouldstop, collisionVars, written>>

Job(src, dest, checked) == [src |-> src, dest |-> dest, checked |-> checked]

\* Then the item goes where the collision check lets it, or nowhere.
PlaceSolo ==
  /\ pc = "place"
  /\ \E answer \in CheckPath(<<SoloName>>) :
       /\ Answer(<<SoloName>>, answer)
       /\ IF answer = Skipped
            THEN /\ disk' = Removed(<<Temporary>>)
                 /\ numextracted' = 0 /\ Return(error) /\ UNCHANGED work
            ELSE /\ work' = <<Job(<<Temporary, SoloName>>, answer, TRUE)>>
                 /\ pc' = "move" /\ UNCHANGED <<disk, numextracted, result>>
  /\ UNCHANGED <<configVars, walkVars, renames, soloVars, placeVars, error, shouldstop,
                 written, setbacks>>

\* Several items: the enclosing directory goes where it should have been.
\* A delegate may also leave it at the unique path.
Replace ==
  /\ pc = "replace"
  /\ \E answer \in CheckPath(originaldest)
                   \cup IF policy = "ask" THEN {unpackdestination} ELSE {} :
       /\ Answer(originaldest, answer)
       /\ IF answer = Skipped
            THEN /\ disk' = Removed(unpackdestination)
                 /\ numextracted' = 0 /\ Return(error)
                 /\ UNCHANGED <<work, finaldestination, setbacks>>
            ELSE /\ finaldestination' = answer /\ UNCHANGED <<disk, numextracted>>
                 /\ IF answer = unpackdestination
                      THEN Finalize(error) /\ UNCHANGED work
                      ELSE /\ work' = <<Job(unpackdestination, answer, TRUE)>>
                           /\ pc' = "move" /\ UNCHANGED <<result, setbacks>>
  /\ UNCHANGED <<configVars, walkVars, renames, soloVars, unpackdestination, originaldest,
                 error, shouldstop, written>>
-----------------------------------------------------------------------------
(***************************************************************************)
(* _recursivelyMoveItemAtPath:, one item of it a step.                     *)
(***************************************************************************)
Moving == pc = "move" /\ work # <<>>

Clash(job, dest) == Exists(job.src) /\ Exists(dest) /\ disk[job.src].dir # disk[dest].dir

\* Mutant: what could not be moved is no error.
GiveUpSilently == work' = <<>> /\ UNCHANGED <<disk, error>>

\* Nothing is moved any more once one item could not be.
GiveUp == work' = <<>> /\ error' = "fileexists" /\ UNCHANGED disk

\* Mutant: two directories are merged without a question.
MergeByReplacing(job, dest) ==
  /\ work' = Tail(work)
  /\ disk' = Moved(job.src, dest)
  /\ UNCHANGED error

\* Mutant: the directory stays on the list.
MergeAgain(job, dest) ==
  LET Into(q) == Job(q, Append(dest, q[Len(q)]), FALSE)
  IN  /\ work' = SetToSeq({Into(q) : q \in Children(job.src)}) \o work
      /\ UNCHANGED <<disk, error>>

\* Two directories: their contents, in some order, item by item.
Merge(job, dest) ==
  LET Into(q) == Job(q, Append(dest, q[Len(q)]), FALSE)
  IN  /\ work' = SetToSeq({Into(q) : q \in Children(job.src)}) \o Tail(work)
      /\ UNCHANGED <<disk, error>>

MoveTo(job, dest) ==
  IF ~Exists(job.src) \/ Clash(job, dest) THEN GiveUp
  ELSE IF Exists(dest) /\ disk[dest].dir THEN Merge(job, dest)
  ELSE disk' = Moved(job.src, dest) /\ work' = Tail(work) /\ UNCHANGED error

\* Where the head of the list may go: what is merged is checked again.
Destination(job, answer) ==
  IF job.checked
    THEN answer = job.dest /\ UNCHANGED collisionVars
    ELSE answer \in CheckPath(job.dest) /\ Answer(job.dest, answer)

Answers(job) == {job.dest} \cup CheckPath(job.dest)

MoveItem ==
  /\ Moving
  /\ LET job == Head(work)
     IN  \E answer \in Answers(job) :
           /\ Destination(job, answer)
           /\ IF answer = Skipped
                THEN work' = Tail(work) /\ UNCHANGED <<disk, error>>
                ELSE MoveTo(job, answer)
  /\ UNCHANGED <<configVars, pc, walkVars, renames, soloVars, placeVars, numextracted,
                 result, shouldstop, written, setbacks>>

\* The platform cannot move it.  A file that is in the way has gone already.
MoveFails ==
  /\ Moving
  /\ Setback
  /\ LET job == Head(work)
     IN  \E answer \in Answers(job) \ {Skipped} :
           /\ Destination(job, answer)
           /\ disk' = IF Exists(job.src) /\ Exists(answer)
                         /\ ~disk[job.src].dir /\ ~disk[answer].dir
                        THEN Removed(answer) ELSE disk
  /\ work' = <<>> /\ error' = "fileexists"
  /\ UNCHANGED <<configVars, pc, walkVars, renames, soloVars, placeVars, numextracted,
                 result, shouldstop, written>>

\* Mutant: the enclosing directory of a solo item stays.
MovesDoneUntidy ==
  /\ pc = "move" /\ work = <<>>
  /\ disk' = disk
  /\ finaldestination' = IF lookslikesolo THEN Nowhere ELSE finaldestination
  /\ Finalize(error)
  /\ UNCHANGED <<configVars, walkVars, renames, soloVars, unpackdestination, originaldest,
                 work, numextracted, error, shouldstop, collisionVars, written>>

\* What is left of the enclosing directory of a solo item is deleted.
MovesDone ==
  /\ pc = "move" /\ work = <<>>
  /\ disk' = IF lookslikesolo THEN Removed(<<Temporary>>) ELSE disk
  /\ finaldestination' = IF lookslikesolo THEN Nowhere ELSE finaldestination
  /\ Finalize(error)
  /\ UNCHANGED <<configVars, walkVars, renames, soloVars, unpackdestination, originaldest,
                 work, numextracted, error, shouldstop, collisionVars, written>>
-----------------------------------------------------------------------------
Extract ==
  \/ NextEntry \/ RuleOut \/ WalkKnown \/ WalkNew \/ WalkEnds
  \/ ExtractEntry \/ ExtractFails \/ ExtractStopped \/ SubFails

Next ==
  \/ BeginRegular \/ BeginSub \/ Extract \/ EntriesDone
  \/ RenameEnclosing \/ SoloUnknown \/ PlaceSolo \/ Replace
  \/ MoveItem \/ MoveFails \/ MovesDone

\* One thread, and every callback returns.
Spec == Init /\ [][Next]_vars /\ WF_vars(Next)
-----------------------------------------------------------------------------
(***************************************************************************)
(* Properties.                                                             *)
(***************************************************************************)
IsNode(node) == node.dir \in BOOLEAN /\ node.by \in Nat

\* What the variables hold.  Everything on the disk has a directory around it,
\* and a path is walked no further than it goes.
TypeOK ==
  /\ pc \in {"begin", "next", "walk", "extract", "solo", "place", "replace", "move", "returned"}
  /\ i \in 1..Len(archive) + 1 /\ (pc \in {"walk", "extract"} => i <= Len(archive))
  /\ pc \in {"walk", "extract"} => c \in 1..Len(Entry.path) + 1
  /\ \A p \in DOMAIN disk : IsNode(disk[p]) /\ \A q \in Parents(p) : Exists(q) /\ disk[q].dir
  /\ \A w \in DOMAIN renames :
       renames[w] = Skipped \/ Len(renames[w]) >= Len(w)
  /\ DOMAIN written \subseteq 1..Len(archive)
  /\ numextracted \in 0..Len(archive) /\ setbacks \in 0..MaxSetbacks
  /\ lookslikesolo \in BOOLEAN /\ shouldstop \in BOOLEAN /\ skips \in BOOLEAN
  /\ error \in {"none", "damaged", "fileexists"}
  /\ result \in {"none", "break", "damaged", "fileexists", "attributes", "raised"}

\* A file that was on the disk before the run is still there, untouched,
\* unless replacing it has been agreed to: by the overwriting policy, or by
\* the delegate for this very path.  _checkPath: is asked for the path of
\* every entry, for the enclosing directory, and again for every item of a
\* directory that is merged into another.
OldFilesSurvive ==
  policy # "overwrite" =>
    \A p \in DOMAIN before \ agreed :
      before[p].dir \/ (Exists(p) /\ disk[p] = before[p])

\* Until it is known where they belong, the files of a sub-archive stay in
\* the directory picked for them, and everything outside it is as it was
\* (XADSimpleUnarchiver.m:556-557: "files are guaranteed to be written to
\* unpackdestination and never outside it").
OutsideUntouched ==
  (sub /\ pc \in {"next", "walk", "extract", "solo", "replace"}) =>
    \A p \in DOMAIN disk \cup DOMAIN before :
      \/ IsPrefix(unpackdestination, p)
      \/ Exists(p) /\ p \in DOMAIN before /\ disk[p] = before[p]

\* A later entry of the same name has overwritten entry j.
Superseded(j) ==
  \E k \in j + 1..Len(archive) : Adjusted(archive[k]) = Adjusted(archive[j])

\* When the caller is told that all went well, and nothing has been skipped,
\* every file extracted is below the destination that is reported, however
\* often it has been moved since.
NothingLost ==
  (pc = "returned" /\ result = "none" /\ ~skips) =>
    \A j \in DOMAIN written :
      \/ archive[j].dir \/ Superseded(j)
      \/ \E p \in DOMAIN disk : disk[p].by = j /\ IsPrefix(finaldestination, p)

\* Two entries in the same directory of the archive are extracted to the same
\* directory, whatever has been renamed on their way: what was decided for the
\* first entry holds for the second, although the directory exists by then.
FoldersStayWhole ==
  LET Ancestor(j, m) == SubSeq(written[j], 1, Len(written[j]) - Len(archive[j].path) + m)
  IN  \A j, k \in DOMAIN written :
        \A m \in (1..Len(archive[j].path)) \cap (1..Len(archive[k].path)) :
          SubSeq(Adjusted(archive[j]), 1, m) = SubSeq(Adjusted(archive[k]), 1, m)
            => Ancestor(j, m) = Ancestor(k, m)

\* The enclosing directory of a solo item is gone when the run returns, also
\* under its temporary name, whether the item was moved or given up.
NoTemporaryLeft ==
  (pc = "returned" /\ result \notin {"break", "raised"}) =>
    \A p \in DOMAIN disk : p[1] # Temporary

\* Every run returns: the walks along paths end, and so do the moves.
RunReturns == <>(pc = "returned")

\* What the comment at XADSimpleUnarchiver.m:577 says: where a solo item is
\* moved out of the enclosing directory, there is nothing else in it.
OneItemWhenSolo ==
  pc = "solo" => \A p, q \in Children(unpackdestination) : p = q
=============================================================================
