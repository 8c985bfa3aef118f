-------------------------------- MODULE Archive --------------------------------
(***************************************************************************)
(* XADArchive, the old interface.  It collects what the parser finds into  *)
(* entries of a data and a resource fork, and extracts them in one of two  *)
(* ways: the client's archive is parsed and then extracted entry by entry  *)
(* (extractEntries:to:subArchives:); an archive inside it is extracted     *)
(* while it is parsed (immediate extraction), with the outer archive as    *)
(* its delegate.  A behaviour is one archive of either kind; what an inner *)
(* archive may return to an outer one is SubOutcomes, and an archive that  *)
(* is extracted immediately is checked to return nothing else.             *)
(*                                                                         *)
(* Forks are written as on macOS, the resource fork beside the data.  What *)
(* goes wrong, and what the client decides when it is asked, are setbacks. *)
(***************************************************************************)
EXTENDS Integers, Sequences

CONSTANTS
  Archives,       \* what there is to find: sequences of dictionaries
  Names,          \* names of entries; "" is an entry without a name
  Renames,        \* names the client may give an entry that collides
  OldFiles,       \* what is at the destination before
  MaxSetbacks     \* bound on what goes wrong in a run

DictType == [name : Names, fork : {"data", "resource"}, kind : {"file", "dir", "archive"}]

ASSUME ArchivesAssumption ==
  /\ \A archive \in Archives : archive \in Seq(DictType)
  /\ OldFiles \subseteq (Names \cup Renames)
  /\ "" \notin Renames
  /\ MaxSetbacks \in Nat

Paths == Names \cup Renames
Errors == {"none", "dataformat", "subarchive", "break", "other"}
Forks == {"data", "resource"}

VARIABLES
  archive, immediate, sub, hasdelegate,         \* chosen once
  found, parserstopped,                         \* the parser
  dataentries, resourceentries, namedict,       \* the entries; 0 is NSNull
  pc, n,
  forks, late,           \* the forks to extract; and whether entry n is a data
                         \* fork found after its resource fork
  destfile, todo,        \* where _extractEntry writes, and what is not written
  lasterror, immediatefailed, result, err,
  disk, setbacks,
  deferred,              \* where attributes are to be set at the end
  placed, unpacked, declined, agreed,           \* what became of the dictionaries
  unexplained, finishfailed                     \* history of the errors

fixedVars == <<archive, immediate, sub, hasdelegate>>
entryVars == <<found, parserstopped, dataentries, resourceentries, namedict>>
jobVars == <<forks, late, destfile, todo>>
flowVars == <<pc, n, immediatefailed, result>>
diskVars == <<disk, deferred, placed, unpacked>>
historyVars == <<declined, agreed, unexplained, finishfailed>>
vars == <<fixedVars, entryVars, jobVars, flowVars, diskVars, historyVars, lasterror, err, setbacks>>

Setback == setbacks < MaxSetbacks /\ setbacks' = setbacks + 1

\* What is at a path: of which dictionaries its forks are (0: none of ours).
Node(kind, data, resource) == [kind |-> kind, data |-> data, resource |-> resource]
Nothing == Node("none", 0, 0)

\* A file with i as this fork, and the other fork that is there.
WithFork(node, fork, i) ==
  IF fork = "data" THEN Node("file", i, node.resource) ELSE Node("file", node.data, i)

\* An archive extracted immediately, as its outer archive sees it: nil or not,
\* immediateExtractionFailed, and the error of the initialiser or lastError.
Outcome(made, failed, e) == [made |-> made, failed |-> failed, err |-> e]
SubOutcomes ==
  {Outcome(FALSE, FALSE, e) : e \in {"subarchive", "dataformat", "other"}}
    \cup {Outcome(TRUE, FALSE, e) : e \in Errors \ {"break"}}
    \cup {Outcome(TRUE, TRUE, e) : e \in Errors}
Unpacked(o) == o.made /\ ~o.failed

-----------------------------------------------------------------------------
Init ==
  /\ archive \in Archives
  /\ immediate \in BOOLEAN /\ sub \in BOOLEAN /\ hasdelegate \in BOOLEAN
  /\ immediate => hasdelegate
  /\ found = 1 /\ parserstopped = FALSE
  /\ dataentries = <<>> /\ resourceentries = <<>> /\ namedict = [name \in Names |-> 0]
  /\ pc = "open" /\ n = 0
  /\ forks = {} /\ late = FALSE /\ destfile = "" /\ todo = {}
  /\ lasterror = "none" /\ immediatefailed = FALSE /\ result = "none" /\ err = "none"
  /\ disk = [p \in Paths |-> IF p \in OldFiles THEN Node("file", 0, 0) ELSE Nothing]
  /\ deferred = {} /\ setbacks = 0
  /\ placed = [i \in 1..Len(archive) |-> ""] /\ unpacked = {}
  /\ declined = {} /\ agreed = {}
  /\ unexplained = FALSE /\ finishfailed = FALSE

\* The parser for the file, or for the entry of the outer archive.
Open ==
  /\ pc = "open" /\ pc' = "parse"
  /\ UNCHANGED <<fixedVars, entryVars, jobVars, n, immediatefailed, result, diskVars,
                 historyVars, lasterror, err, setbacks>>

OpenFails ==
  /\ pc = "open" /\ Setback
  /\ pc' = "returned" /\ result' = "nil"
  /\ err' = IF immediate THEN "subarchive" ELSE "dataformat"
  /\ UNCHANGED <<fixedVars, entryVars, jobVars, n, immediatefailed, diskVars, historyVars,
                 lasterror>>

-----------------------------------------------------------------------------
(***************************************************************************)
(* Extraction of an entry, once it is decided: what its result leads to.   *)
(* extractEntries: goes on or returns NO; foundEntryWithDictionary: notes  *)
(* the failure and lets the parser go on.                                  *)
(***************************************************************************)
\* Mutant: the index stays where it is.
AfterNothing(res) == n

After(res) == IF res THEN n + 1 ELSE n

Finished(res) ==
  IF immediate
    THEN /\ pc' = "parse" /\ immediatefailed' = (immediatefailed \/ ~res)
         /\ UNCHANGED <<n, result>>
    ELSE /\ pc' = IF res THEN "next" ELSE "returned"
         /\ n' = After(res)
         /\ result' = IF res THEN result ELSE "no"
         /\ UNCHANGED immediatefailed

Slots(m) == [f \in Forks |-> IF f = "data" THEN dataentries[m] ELSE resourceentries[m]]
Dicts(m) == {Slots(m)[f] : f \in Forks} \ {0}
EntryName(m) == archive[CHOOSE i \in Dicts(m) : TRUE].name
IsArchive(m) == dataentries[m] # 0 /\ archive[dataentries[m]].kind = "archive"

\* An entry is a directory if its data fork says so, or, as long as it has none,
\* its resource fork.
IsDir(m) ==
  archive[IF dataentries[m] # 0 THEN dataentries[m] ELSE resourceentries[m]].kind = "dir"

\* The resource fork of a directory: nothing is written of it but attributes.
DirectoryFork(i) == archive[i].fork = "resource" /\ archive[i].kind = "dir"

\* The client, or the lack of a name, leaves the entry out.
LeaveOut == declined' = declined \cup ({Slots(n)[f] : f \in forks} \ {0})

\* Entry m is next; islate if a data fork completes it.
Start(m, fs, islate) ==
  /\ n' = m /\ forks' = fs /\ late' = islate
  /\ todo' = {} /\ destfile' = ""

-----------------------------------------------------------------------------
(***************************************************************************)
(* archiveParser:foundEntryWithDictionary:, which the parser calls unless  *)
(* archiveParsingShouldStop: has told it to stop.                          *)
(***************************************************************************)
Completes(i) ==
  LET m == namedict[archive[i].name]
  IN  m # 0 /\ Slots(m)[archive[i].fork] = 0

\* Mutant: an entry of the same name is not looked for any further.
IndexedOnce(name) ==
  IF namedict[name] # 0 THEN namedict
  ELSE [namedict EXCEPT ![name] = Len(dataentries) + 1]

\* A new entry is the one its name stands for from now on.
Indexed(name) == [namedict EXCEPT ![name] = Len(dataentries) + 1]

\* The first free slot of the latest entry of this name, or a new entry.
Place(i) ==
  LET d == archive[i]
      m == namedict[d.name]
  IN  IF Completes(i)
        THEN /\ dataentries' = IF d.fork = "data" THEN [dataentries EXCEPT ![m] = i] ELSE dataentries
             /\ resourceentries' = IF d.fork = "resource" THEN [resourceentries EXCEPT ![m] = i]
                                   ELSE resourceentries
             /\ UNCHANGED namedict
        ELSE /\ dataentries' = Append(dataentries, IF d.fork = "data" THEN i ELSE 0)
             /\ resourceentries' = Append(resourceentries, IF d.fork = "resource" THEN i ELSE 0)
             /\ namedict' = Indexed(d.name)

FoundEntry ==
  /\ pc = "parse" /\ found <= Len(archive)
  /\ ~parserstopped /\ ~immediatefailed
  /\ found' = found + 1
  /\ Place(found)
  /\ IF ~immediate THEN UNCHANGED <<pc, n, jobVars>>
     ELSE LET m == IF Completes(found) THEN namedict[archive[found].name]
                                       ELSE Len(dataentries) + 1
              fork == archive[found].fork
          IN  /\ Start(m, IF Completes(found) THEN {fork} ELSE Forks, Completes(found) /\ fork = "data")
              /\ pc' = IF sub /\ fork = "data" /\ archive[found].kind = "archive"
                       THEN "archive" ELSE "name"
  /\ UNCHANGED <<fixedVars, parserstopped, immediatefailed, result, diskVars, historyVars,
                 lasterror, err, setbacks>>

\* After a failure the parser is told to stop when it asks.
StopParser ==
  /\ pc = "parse" /\ found <= Len(archive)
  /\ parserstopped \/ immediatefailed
  /\ found' = found + 1 /\ parserstopped' = TRUE
  /\ UNCHANGED <<fixedVars, dataentries, resourceentries, namedict, jobVars, flowVars,
                 diskVars, historyVars, lasterror, err, setbacks>>

\* parseWithoutExceptions returns e to _parseWithErrorPointer:.
Parsed(e) ==
  /\ lasterror' = IF e # "none" THEN e ELSE lasterror
  /\ err' = IF immediatefailed THEN lasterror' ELSE IF e # "none" THEN e ELSE err
  /\ IF lasterror' = "none" \/ Len(dataentries) # 0
       THEN /\ pc' = IF immediate THEN "checksum" ELSE "next"
            /\ n' = 1 /\ UNCHANGED result
       ELSE pc' = "returned" /\ result' = "nil" /\ UNCHANGED n
  /\ UNCHANGED <<fixedVars, entryVars, jobVars, immediatefailed, diskVars>>

\* A parser that asks in its loop condition is told to stop after the last
\* entry too.
ParseEnds ==
  /\ pc = "parse" /\ found > Len(archive)
  /\ \E polled \in BOOLEAN :
       Parsed(IF parserstopped \/ (polled /\ immediatefailed) THEN "break" ELSE "none")
  /\ UNCHANGED <<historyVars, setbacks>>

ParseRaises ==
  /\ pc = "parse" /\ Setback
  /\ \E e \in {"dataformat", "other"} : Parsed(e)
  /\ UNCHANGED historyVars

\* After an immediate extraction, if nothing has failed: the archive's own
\* checksum.
TestChecksum ==
  /\ pc = "checksum" /\ pc' = "settle"
  /\ \/ UNCHANGED <<immediatefailed, lasterror, err, setbacks>>
     \/ /\ ~immediatefailed /\ Setback
        /\ immediatefailed' = TRUE /\ lasterror' = "other" /\ err' = "other"
  /\ UNCHANGED <<fixedVars, entryVars, jobVars, n, result, diskVars, historyVars>>

\* Where attributes are to go and nothing is: a directory that the client has
\* removed, or that only its resource fork was there of.
NowhereToGo == \E p \in deferred : disk[p].kind = "none"

\* updateAttributesForDeferredDirectories: what the unarchiver has put off.  An
\* error of it is dropped.
Settle ==
  /\ pc = "settle"
  /\ \/ ~NowhereToGo /\ deferred' = {} /\ UNCHANGED <<finishfailed, setbacks>>
     \/ /\ IF NowhereToGo THEN UNCHANGED setbacks ELSE Setback
        /\ finishfailed' = TRUE /\ UNCHANGED deferred
  /\ pc' = "returned" /\ result' = IF immediate THEN "self" ELSE "yes"
  /\ UNCHANGED <<fixedVars, entryVars, jobVars, n, immediatefailed, disk, placed, unpacked,
                 declined, agreed, unexplained, lasterror, err>>

-----------------------------------------------------------------------------
(***************************************************************************)
(* extractEntries:to:subArchives: for all entries.                         *)
(***************************************************************************)
NextEntry ==
  /\ pc = "next" /\ n <= Len(dataentries)
  /\ pc' = IF sub /\ IsArchive(n) THEN "archive" ELSE "name"
  /\ Start(n, Forks, FALSE)
  /\ UNCHANGED <<fixedVars, entryVars, immediatefailed, result, diskVars, historyVars,
                 lasterror, err, setbacks>>

EntriesDone ==
  /\ pc = "next" /\ n > Len(dataentries)
  /\ pc' = "settle"
  /\ UNCHANGED <<fixedVars, entryVars, jobVars, n, immediatefailed, result, diskVars,
                 historyVars, lasterror, err, setbacks>>

-----------------------------------------------------------------------------
(***************************************************************************)
(* extractArchiveEntry: the entry is extracted as an archive; and what its *)
(* caller does with the answer and with lasterror.                         *)
(***************************************************************************)
\* Where a data fork completes an entry, the last else belongs to the wrong if:
\* a success counts as a failure there.
ArchiveAnswered(res) ==
  IF ~res /\ lasterror' = "dataformat"
    THEN pc' = "name" /\ UNCHANGED <<n, immediatefailed, result>>
    ELSE Finished(res /\ ~late)

InArchive ==
  /\ pc = "archive"
  /\ UNCHANGED <<fixedVars, entryVars, jobVars, disk, deferred, placed, err, agreed, finishfailed>>

\* The inner archive is made and nothing in it has failed, although its parser
\* may have.
ExtractArchive ==
  /\ InArchive
  /\ \E o \in SubOutcomes :
       /\ Unpacked(o)
       /\ IF o.err = "none" THEN UNCHANGED setbacks ELSE Setback
       /\ lasterror' = IF o.err = "none" THEN lasterror ELSE o.err
  /\ unpacked' = unpacked \cup {dataentries[n]}
  /\ ArchiveAnswered(TRUE)
  /\ unexplained' = (unexplained \/ late)
  /\ UNCHANGED declined

\* It is not made, or something in it has failed.  A parser that was not to be
\* had, because no format fits or the entry cannot be read, is "subarchive".
ExtractArchiveFails ==
  /\ InArchive /\ Setback
  /\ \E o \in SubOutcomes :
       /\ ~Unpacked(o)
       /\ lasterror' = IF o.err = "none" THEN lasterror ELSE o.err
       /\ unexplained' = (unexplained \/ o.err = "none")
       /\ \/ /\ ArchiveAnswered(FALSE)
             /\ UNCHANGED declined
          \/ /\ o.err \notin {"break", "dataformat"} /\ hasdelegate
             /\ \/ ArchiveAnswered(TRUE) /\ LeaveOut
                \/ UNCHANGED <<flowVars, declined>>
  /\ UNCHANGED unpacked

\* The name of the entry cannot be decoded: a path is made of nil, which
\* raises, and the caller takes that for a NO.
ExtractArchiveRaises ==
  /\ InArchive /\ Setback
  /\ UNCHANGED lasterror
  /\ ArchiveAnswered(FALSE)
  /\ unexplained' = TRUE
  /\ UNCHANGED <<unpacked, declined>>

-----------------------------------------------------------------------------
(***************************************************************************)
(* extractEntry:to:deferDirectories:dataFork:resourceFork:                 *)
(***************************************************************************)
InEntry == UNCHANGED <<fixedVars, entryVars, forks, late, err, unpacked, unexplained, finishfailed>>
Waits == UNCHANGED <<n, immediatefailed, result>>

\* Mutant: forks are not looked for before they are written.
BeginUnlooking ==
  /\ destfile' = EntryName(n)
  /\ todo' = forks

\* Mutant: a resource fork only where there is no data fork.
BeginOneFork ==
  /\ destfile' = EntryName(n)
  /\ todo' = IF dataentries[n] # 0 /\ "data" \in forks THEN {"data"} ELSE {"resource"}

\* _extractEntry begins, or begins again after a failure.
Begin ==
  /\ destfile' = EntryName(n)
  /\ todo' = {f \in forks : Slots(n)[f] # 0}

\* An entry with a name; one without is silently ignored.
NameEntry ==
  /\ pc = "name" /\ InEntry
  /\ IF EntryName(n) = ""
       THEN Finished(TRUE) /\ LeaveOut /\ UNCHANGED <<destfile, todo>>
       ELSE pc' = "directory" /\ Begin /\ Waits /\ UNCHANGED declined
  /\ UNCHANGED <<disk, deferred, placed, agreed, lasterror, setbacks>>

\* Mutant: the error is not kept.
FailSilently(error) == lasterror' = lasterror /\ Finished(FALSE)

FailWith(error) == lasterror' = error /\ Finished(FALSE)

\* The client is asked what to do, and the answer is skip, retry, or abort; with
\* no client it is an error.
AskAbout(error) ==
  \/ /\ hasdelegate
     /\ \/ Finished(TRUE) /\ LeaveOut /\ UNCHANGED lasterror
        \/ UNCHANGED <<flowVars, declined, lasterror>>
        \/ FailWith("break") /\ UNCHANGED declined
  \/ ~hasdelegate /\ FailWith(error) /\ UNCHANGED declined

NameUndecodable ==
  /\ pc = "name" /\ InEntry /\ Setback
  /\ AskAbout("other")
  /\ UNCHANGED <<destfile, todo, disk, deferred, placed, agreed>>

DirectoryReady ==
  /\ pc = "directory" /\ pc' = "collide" /\ InEntry /\ Waits
  /\ UNCHANGED <<destfile, todo, disk, deferred, placed, declined, agreed, lasterror, setbacks>>

DirectoryRefused ==
  /\ pc = "directory" /\ InEntry /\ Setback
  /\ AskAbout("other")
  /\ UNCHANGED <<destfile, todo, disk, deferred, placed, agreed>>

\* Something is at destfile already.  Without a client nobody looks.
Collision == hasdelegate /\ disk[destfile].kind # "none"

NoCollision ==
  /\ pc = "collide" /\ ~Collision /\ pc' = "write" /\ InEntry /\ Waits
  /\ UNCHANGED <<destfile, todo, disk, deferred, placed, declined, agreed, lasterror, setbacks>>

\* A directory is taken to be extracted.
DirectoryThere ==
  /\ pc = "collide" /\ Collision /\ disk[destfile].kind = "dir" /\ IsDir(n) /\ InEntry
  /\ Finished(TRUE)
  /\ placed' = [i \in DOMAIN placed |-> IF \E f \in forks : Slots(n)[f] = i THEN destfile ELSE placed[i]]
  /\ UNCHANGED <<destfile, todo, disk, deferred, declined, agreed,
                 lasterror, setbacks>>

\* The client overwrites, skips, renames, looks again having removed what was in
\* the way, or aborts, which overwriting a directory is too.
Overwrite ==
  /\ UNCHANGED setbacks
  /\ disk[destfile].kind = "file"
  /\ agreed' = agreed \cup {destfile}
  /\ pc' = "write" /\ Waits
  /\ UNCHANGED <<destfile, disk, declined, lasterror>>

Skip ==
  /\ UNCHANGED setbacks
  /\ Finished(TRUE) /\ LeaveOut
  /\ UNCHANGED <<destfile, disk, agreed, lasterror>>

\* Mutant: the new name is not looked at.
RenameUnchecked ==
  /\ Setback
  /\ destfile' \in Renames
  /\ pc' = "write" /\ Waits
  /\ UNCHANGED <<disk, declined, agreed, lasterror>>

Rename ==
  /\ Setback
  /\ destfile' \in Renames
  /\ UNCHANGED <<flowVars, disk, declined, agreed, lasterror>>

LookAgain ==
  /\ Setback
  /\ disk' = [disk EXCEPT ![destfile] = Nothing]
  /\ agreed' = agreed \cup {destfile}
  /\ declined' = declined \cup {i \in 1..Len(archive) : placed[i] = destfile}
  /\ UNCHANGED <<flowVars, destfile, lasterror>>

\* Mutant: an abort is answered like a skip.
AbortWithYes ==
  /\ UNCHANGED setbacks
  /\ lasterror' = "break"
  /\ Finished(TRUE)
  /\ UNCHANGED <<destfile, disk, declined, agreed>>

Abort ==
  /\ UNCHANGED setbacks
  /\ lasterror' = "break"
  /\ Finished(FALSE)
  /\ UNCHANGED <<destfile, disk, declined, agreed>>

Collide ==
  /\ pc = "collide" /\ Collision /\ ~(disk[destfile].kind = "dir" /\ IsDir(n))
  /\ InEntry
  /\ Overwrite \/ Skip \/ Rename \/ LookAgain \/ Abort
  /\ UNCHANGED <<todo, deferred, placed>>
-----------------------------------------------------------------------------
(***************************************************************************)
(* The unarchiver writes the data fork and then the resource fork.         *)
(***************************************************************************)
Fork == IF "data" \in todo THEN "data" ELSE "resource"
WritesDir == Fork = "data" /\ IsDir(n)

WritesNothing == DirectoryFork(Slots(n)[Fork])

\* A directory in the way of a file, or a file in the way of a directory.
Blocked == ~WritesNothing /\ disk[destfile].kind = IF WritesDir THEN "file" ELSE "dir"

WriteFork ==
  /\ pc = "write" /\ ~Blocked /\ InEntry
  /\ LET i == Slots(n)[Fork]
     IN  /\ disk' = IF WritesNothing THEN disk
                    ELSE [disk EXCEPT ![destfile] = IF WritesDir THEN Node("dir", i, 0)
                                                    ELSE WithFork(disk[destfile], Fork, i)]
         /\ placed' = [placed EXCEPT ![i] = destfile]
         /\ deferred' = IF WritesDir \/ WritesNothing THEN deferred \cup {destfile} ELSE deferred
  /\ todo' = todo \ {Fork}
  /\ IF todo' = {} THEN Finished(TRUE) ELSE UNCHANGED flowVars
  /\ UNCHANGED <<destfile, declined, agreed, lasterror, setbacks>>

\* What was extracted before to where the client now lets something else be
\* written, and is lost if that fails.
Overwritten == {i \in 1..Len(archive) : placed[i] = destfile /\ archive[i].fork = Fork} \ {Slots(n)[Fork]}

\* Opening, decoding or writing fails, or the client stops it.  The client is
\* asked about what is not a resource fork found after its data fork.
WriteFails ==
  /\ pc = "write" /\ InEntry
  /\ \/ Blocked /\ lasterror' = "other" /\ UNCHANGED disk
     \/ /\ ~Blocked
        /\ lasterror' \in {"dataformat", "other"} \cup IF hasdelegate THEN {"break"} ELSE {}
        /\ disk' = IF WritesDir \/ WritesNothing THEN disk
                   ELSE [disk EXCEPT ![destfile] = WithFork(disk[destfile], Fork, 0)]
  /\ \/ Finished(FALSE) /\ UNCHANGED <<declined, todo, destfile>>
     \/ /\ hasdelegate /\ "data" \in forks /\ lasterror' # "break"
        /\ \/ /\ Finished(TRUE) /\ UNCHANGED <<todo, destfile>>
              /\ declined' = declined \cup Overwritten \cup ({Slots(n)[f] : f \in forks} \ {0})
           \/ pc' = "directory" /\ Waits /\ Begin /\ declined' = declined \cup Overwritten
  /\ IF Blocked /\ pc' # "directory" THEN UNCHANGED setbacks ELSE Setback
  /\ UNCHANGED <<deferred, placed, agreed>>

-----------------------------------------------------------------------------
Next ==
  \/ Open \/ OpenFails
  \/ FoundEntry \/ StopParser \/ ParseEnds \/ ParseRaises \/ TestChecksum \/ Settle
  \/ NextEntry \/ EntriesDone
  \/ ExtractArchive \/ ExtractArchiveFails \/ ExtractArchiveRaises
  \/ NameEntry \/ NameUndecodable \/ DirectoryReady \/ DirectoryRefused
  \/ NoCollision \/ DirectoryThere \/ Collide
  \/ WriteFork \/ WriteFails

\* One thread runs it all: whatever step is next is taken.
Spec == Init /\ [][Next]_vars /\ WF_vars(Next)

-----------------------------------------------------------------------------
(***************************************************************************)
(* Properties.                                                             *)
(***************************************************************************)
\* Every variable keeps to its range; an index into the entries is one.
TypeOK ==
  /\ found \in 1..(Len(archive) + 1)
  /\ Len(dataentries) = Len(resourceentries)
  /\ dataentries \in Seq(0..Len(archive)) /\ resourceentries \in Seq(0..Len(archive))
  /\ namedict \in [Names -> 0..Len(dataentries)]
  /\ pc \in {"open", "parse", "checksum", "settle", "next", "archive", "name", "directory",
             "collide", "write", "returned"}
  /\ pc \in {"archive", "name", "directory", "collide", "write"} => n \in 1..Len(dataentries)
  /\ pc = "archive" => IsArchive(n)
  /\ pc = "write" => todo # {} /\ \A f \in todo : f \in forks /\ Slots(n)[f] # 0
  /\ destfile \in Paths \cup {""} /\ late \in BOOLEAN
  /\ lasterror \in Errors /\ err \in Errors /\ result \in {"none", "yes", "no", "self", "nil"}
  /\ disk \in [Paths -> [kind : {"none", "file", "dir"}, data : 0..Len(archive),
                        resource : 0..Len(archive)]]
  /\ placed \in [1..Len(archive) -> Paths \cup {""}]

\* foundEntryWithDictionary: pairs the forks of a file whichever comes first and
\* however many files have its name: a dictionary shares its entry with the one
\* of the same name before it exactly if that is the other fork and has not
\* been paired with an earlier one.
Placed == {i \in 1..Len(archive) : \E m \in 1..Len(dataentries) : i \in Dicts(m)}
Before(i) == {j \in Placed : j < i /\ archive[j].name = archive[i].name}
Together(i, j) == \E m \in 1..Len(dataentries) : Dicts(m) = {i, j}

ForksPaired ==
  /\ \A i \in Placed : \E m \in 1..Len(dataentries) :
       Slots(m)[archive[i].fork] = i /\ \A k \in 1..Len(dataentries) : k # m => i \notin Dicts(k)
  /\ \A i \in Placed : Before(i) # {} =>
       LET j == CHOOSE j \in Before(i) : \A k \in Before(i) : k <= j
       IN  Together(i, j) <=> /\ archive[i].fork # archive[j].fork
                              /\ \A k \in Before(j) : ~Together(k, j)
  /\ \A i, j \in Placed : i # j /\ Together(i, j) => archive[i].name = archive[j].name

ForkAt(p, fork) == IF fork = "data" THEN disk[p].data ELSE disk[p].resource

\* A fork is in its place, or another one of that name is, or it is one of a
\* directory, of which only attributes are written, or none where the directory is
\* there already; or its entry was extracted as an archive; or the client has left
\* it out, or given up the place it was in to another file or the bin.
Extracted(i) ==
  \/ i \in declined
  \/ \E m \in 1..Len(dataentries) : i \in Dicts(m) /\ dataentries[m] \in unpacked
  \/ /\ placed[i] # ""
     /\ \/ ForkAt(placed[i], archive[i].fork) # 0
        \/ DirectoryFork(i)
        \/ \E m \in 1..Len(dataentries) : i = resourceentries[m] /\ IsDir(m)

(***************************************************************************)
(* A success means that every fork that was found was extracted, whatever  *)
(* failed and was retried or skipped before: extractEntries: has returned  *)
(* YES, or an archive has been extracted immediately and                   *)
(* immediateExtractionFailed is NO.  If lastError is none besides, nothing *)
(* in the archive was missed.  What a success does not mean: that          *)
(* directories have their attributes, if finishExtractions failed, since   *)
(* its error is dropped (XADArchive.m:933, 1136-1139); or, with an error   *)
(* in lastError, that the parser got to the end.                           *)
(***************************************************************************)
CleanSuccess ==
  result \in {"yes", "self"} /\ ~immediatefailed =>
    /\ \A i \in Placed : Extracted(i)
    /\ lasterror = "none" => Placed = 1..Len(archive)
    /\ deferred = {} \/ finishfailed

\* What an archive extracted immediately returns is among what its outer archive
\* is prepared for here.
ReturnsAsAssumed ==
  immediate /\ pc = "returned" =>
    Outcome(result = "self", immediatefailed, IF result = "nil" THEN err ELSE lasterror) \in SubOutcomes

\* A NO, or an immediate extraction that failed, leaves an error in lasterror,
\* except where the code gives none (unexplained).
FailureHasReason ==
  /\ result = "no" \/ immediatefailed => lasterror # "none" \/ unexplained
  /\ result = "nil" => err # "none"

\* With a client to ask, a file that was there is only replaced or damaged if the
\* client agrees, whatever was retried and renamed before.
OldFilesSurvive ==
  hasdelegate => \A p \in OldFiles : p \in agreed \/ disk[p] = Node("file", 0, 0)

\* Every extraction comes to an end, if the client does not retry forever.
Returns == <>(pc = "returned")
=============================================================================
