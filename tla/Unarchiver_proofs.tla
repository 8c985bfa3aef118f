--------------------------- MODULE Unarchiver_proofs ---------------------------
(***************************************************************************)
(* For every set of archives, of any length, every set of paths of one or  *)
(* two names, both variants of extractEntryWithDictionary: and any number  *)
(* of setbacks: what XADUnarchiver reports is true, what it puts off gets  *)
(* done before it returns without an error, and a stop is heard of.        *)
(***************************************************************************)
EXTENDS Unarchiver, TLAPS

\* The states before finishExtractions.
Early == {"parse", "extract", "plain", "copy", "update"}

Told(i, err, contents) == [entry |-> i, error |-> err, contents |-> contents]

\* What can be in an entry's file.
States == {"partial", "full", "complete", "unpacked"}

\* What is promised of the file of an entry that is reported without an error.
Vouched(e, contents) ==
  /\ e.sized => contents # "partial"
  /\ e.checksum /\ ~IsUnread(e) => contents \in {"complete", "unpacked"}

(***************************************************************************)
(* None of the properties is inductive.  What has to be added says what    *)
(* the state remembers of the work that is still to be done.               *)
(***************************************************************************)
\* What was read has been written, and what passed the checks of CopyEnd is
\* as long and as sound as they can tell.
CopyInv ==
  /\ pc = "copy" => written = done
  /\ pc = "update" /\ IsFileLike(Entry) =>
       /\ Entry.sized => written = Entry.length
       /\ Entry.checksum /\ ~IsUnread(Entry) => written = Entry.length /\ ~damaged

\* Every placeholder is on the list of deferred links until its link is made.
Awaited(p) ==
  \E j \in 1..Len(deferredlinks) : deferredlinks[j].path = p /\ (pc = "links" => j >= k)

LinksInv ==
  /\ pc \in Early \cup {"links"} => \A p \in Paths : IsPlaceholder(disk[p]) => Awaited(p)
  /\ pc \in {"dirs", "checksum"} => deferredlinks = <<>> /\ \A p \in Paths : ~IsPlaceholder(disk[p])

\* Every directory that was reported, and every fork of one, is on the list of
\* deferred directories until it has its attributes.
ReportedDir(j) == reports[j].error = "none" /\ IsOfDirectory(archive[reports[j].entry])

DirsInv ==
  /\ pc \in Early \cup {"links", "dirs"} =>
       \A j \in 1..Len(reports) : ReportedDir(j) =>
         \E m \in 1..Len(deferreddirectories) :
           deferreddirectories[m].path = archive[reports[j].entry].path
  /\ pc = "dirs" =>
       \A m \in 1..Len(deferreddirectories) : m < k => disk[deferreddirectories[m].path].attrs
  /\ pc = "checksum" =>
       /\ deferreddirectories = <<>>
       /\ \A j \in 1..Len(reports) :
            ReportedDir(j) => disk[archive[reports[j].entry].path].attrs

IInv ==
  /\ TypeOK
  /\ CopyInv /\ LinksInv /\ DirsInv
  /\ pc # "returned" => result = "none"
  /\ CompleteIfReported /\ NothingLeftDeferred /\ StopIsReported

-----------------------------------------------------------------------------
\* Entries are what the parser makes of them.
LEMMA EntryFacts ==
  ASSUME TypeOK
  PROVE  /\ archive \in Seq(EntryType) /\ Len(archive) \in Nat
         /\ current \in Nat \ {0} /\ k \in Nat
         /\ \A i \in 1..Len(archive) :
              /\ archive[i].kind \in Kinds /\ archive[i].path \in Paths
              /\ archive[i].length \in Nat
              /\ archive[i].sized \in BOOLEAN /\ archive[i].checksum \in BOOLEAN
<1>1. archive \in Seq(EntryType)
  BY ArchivesAssumption DEF TypeOK
<1>2. \A i \in 1..Len(archive) : archive[i] \in EntryType
  BY <1>1
<1> QED BY <1>1, <1>2 DEF EntryType, TypeOK

\* Appending leaves the elements that were there.
LEMMA AppendFacts ==
  ASSUME NEW S, NEW s \in Seq(S), NEW e \in S
  PROVE  /\ Append(s, e) \in Seq(S)
         /\ Len(s) \in Nat /\ Len(Append(s, e)) = Len(s) + 1
         /\ \A j \in 1..Len(s) : Append(s, e)[j] = s[j]
         /\ Append(s, e)[Len(s) + 1] = e
OBVIOUS

\* The elements of a list are of its type.
LEMMA ElementFact ==
  ASSUME NEW S, NEW s \in Seq(S), NEW i \in 1..Len(s)
  PROVE  s[i] \in S
OBVIOUS

\* What is deferred has a place and an entry.
LEMMA DeferralFacts ==
  ASSUME TypeOK
  PROVE  /\ Len(deferredlinks) \in Nat /\ Len(deferreddirectories) \in Nat
         /\ \A i \in 1..Len(deferredlinks) :
              deferredlinks[i].path \in Paths /\ deferredlinks[i].entry \in 1..Len(archive)
         /\ \A i \in 1..Len(deferreddirectories) :
              deferreddirectories[i].path \in Paths /\ deferreddirectories[i].entry \in 1..Len(archive)
<1> DEFINE D == [path : Paths, entry : 1..Len(archive)]
<1>1. deferredlinks \in Seq(D) /\ deferreddirectories \in Seq(D)
  BY DEF TypeOK, Deferrals
<1> HIDE DEF D
<1>2. /\ \A i \in 1..Len(deferredlinks) : deferredlinks[i] \in D
      /\ \A i \in 1..Len(deferreddirectories) : deferreddirectories[i] \in D
      /\ Len(deferredlinks) \in Nat /\ Len(deferreddirectories) \in Nat
  BY <1>1, ElementFact
<1> QED BY <1>2 DEF D

\* Putting something somewhere changes that place, and takes the attributes
\* of the directory around it.
LEMMA PutFacts ==
  ASSUME NEW d \in [Paths -> Nodes], NEW p, NEW node \in Nodes
  PROVE  /\ Put(d, p, node) \in [Paths -> Nodes]
         /\ \A q \in Paths : /\ q = p => Put(d, p, node)[q] = node
                             /\ q # p => /\ Put(d, p, node)[q].kind = d[q].kind
                                         /\ Put(d, p, node)[q].by = d[q].by
                             /\ q # p /\ q # DirOf(p) => Put(d, p, node)[q] = d[q]
                             /\ q # p /\ q = DirOf(p) => ~Put(d, p, node)[q].attrs
<1>1. \A q \in Paths : [d[q] EXCEPT !.attrs = FALSE] \in Nodes
  BY DEF Nodes
<1> QED BY <1>1 DEF Put, Nodes

\* What is made is a node.
LEMMA NodeFacts ==
  ASSUME NEW i \in Nat, NEW kind \in {"none", "file", "dir", "safelink", "unsafelink"}
  PROVE  /\ Node(kind, i) \in Nodes /\ Nothing \in Nodes
         /\ Node(kind, i).kind = kind /\ Node(kind, i).by = i /\ ~Node(kind, i).attrs
         /\ Nothing.kind = "none" /\ ~Nothing.attrs
BY DEF Node, Nothing, Nodes

\* Restoring attributes changes nothing else.
LEMMA RestoredFacts ==
  ASSUME NEW d \in [Paths -> Nodes], NEW p \in Paths
  PROVE  LET r == [d EXCEPT ![p].attrs = TRUE]
         IN  /\ r \in [Paths -> Nodes]
             /\ r[p].attrs
             /\ \A q \in Paths : /\ r[q].kind = d[q].kind /\ r[q].by = d[q].by
                                 /\ q # p => r[q] = d[q]
BY DEF Nodes

-----------------------------------------------------------------------------
\* The report of an entry is well formed, and the parser goes on behind it.
LEMMA ReportFacts ==
  ASSUME TypeOK, current <= Len(archive), archive' = archive,
         NEW err \in Errors, NEW contents \in States, Report(err, contents)
  PROVE  /\ pc' = "parse" /\ current' = current + 1 /\ current' \in 1..Len(archive') + 1
         /\ reports' \in Seq([entry : 1..Len(archive'), error : Errors, contents : States])
         /\ reports' = Append(reports, Told(current, err, contents))
         /\ Len(reports') = Len(reports) + 1 /\ Len(reports) \in Nat
         /\ \A j \in 1..Len(reports) : reports'[j] = reports[j]
         /\ reports'[Len(reports) + 1] = Told(current, err, contents)
<1> DEFINE R == [entry : 1..Len(archive), error : Errors, contents : States]
<1>1. Told(current, err, contents) \in R
  BY EntryFacts DEF Told
<1>2. reports \in Seq(R)
  BY DEF TypeOK, States
<1>3. reports' = Append(reports, Told(current, err, contents))
  BY DEF Report, Told
<1>4. pc' = "parse" /\ current' = current + 1 /\ current' \in 1..Len(archive') + 1
  BY EntryFacts DEF Report
<1> HIDE DEF R
<1>5. /\ reports' \in Seq(R) /\ Len(reports') = Len(reports) + 1 /\ Len(reports) \in Nat
      /\ \A j \in 1..Len(reports) : reports'[j] = reports[j]
      /\ reports'[Len(reports) + 1] = Told(current, err, contents)
  BY <1>1, <1>2, <1>3, AppendFacts
<1> QED BY <1>3, <1>4, <1>5 DEF R

\* What is counted as having gone wrong stays within the bound.
LEMMA SetbackFacts ==
  ASSUME TypeOK, Setback \/ setbacks' = setbacks
  PROVE  setbacks' \in 0..MaxSetbacks
BY ArchivesAssumption DEF TypeOK, Setback

-----------------------------------------------------------------------------
\* The part of the state that a step leaves alone keeps its type.
LEMMA TypeFrame ==
  ASSUME TypeOK, archive' = archive,
         current' \in 1..Len(archive) + 1,
         pc' \in Early \cup {"links", "dirs", "checksum", "returned"},
         pc' \in Early \ {"parse"} => current' <= Len(archive),
         disk' \in [Paths -> Nodes], deferredlinks' \in Deferrals,
         deferreddirectories' \in Deferrals, k' \in Nat \ {0},
         done' \in Nat, written' \in Nat, damaged' \in BOOLEAN, result' \in Errors,
         reports' \in Seq([entry : 1..Len(archive), error : Errors, contents : States]),
         unpacked' \subseteq 1..Len(archive),
         shouldstop' \in BOOLEAN, setbacks' \in 0..MaxSetbacks
  PROVE  TypeOK'
BY DEF TypeOK, Early, Deferrals, States

\* Any of the steps that extract an entry keeps the types.
LEMMA ExtractTypes == TypeOK /\ ExtractEntry => TypeOK'
<1> SUFFICES ASSUME TypeOK, ExtractEntry PROVE TypeOK'
  OBVIOUS
<1> USE EntryFacts
<1>0. /\ disk \in [Paths -> Nodes] /\ deferredlinks \in Deferrals
      /\ deferreddirectories \in Deferrals /\ k \in Nat \ {0}
      /\ done \in Nat /\ written \in Nat /\ damaged \in BOOLEAN /\ result \in Errors
      /\ reports \in Seq([entry : 1..Len(archive), error : Errors, contents : States])
      /\ unpacked \subseteq 1..Len(archive) /\ current \in 1..Len(archive) + 1
      /\ shouldstop \in BOOLEAN /\ setbacks \in 0..MaxSetbacks
  BY DEF TypeOK, States
<1>1. CASE Decline
  <2>1. current <= Len(archive)
    BY <1>1 DEF Decline, TypeOK
  <2> QED BY <1>0, <1>1, <2>1, SetbackFacts, TypeFrame DEF Decline, deferVars, copyVars, outcomeVars, Early
<1>2. ASSUME NEW err \in Errors, Report(err, "partial"),
             current <= Len(archive), disk' \in [Paths -> Nodes], shouldstop' \in BOOLEAN,
             Setback \/ setbacks' = setbacks,
             UNCHANGED <<archive, deferVars, k, copyVars, unpacked, result>>
      PROVE  TypeOK'
  <2>1. "partial" \in States
    BY DEF States
  <2> QED BY <1>0, <1>2, <2>1, ReportFacts, SetbackFacts, TypeFrame DEF deferVars, copyVars, Early
<1>3. CASE ParentRefused \/ OpenFails \/ CopyFails \/ DirectoryRefused \/ UpdateFails
  <2>1. current <= Len(archive)
    BY <1>3 DEF ParentRefused, OpenFails, CopyFails, DirectoryRefused, UpdateFails, Ready, Plain, TypeOK
  <2> QED BY <1>0, <1>2, <1>3, <2>1
          DEF ParentRefused, OpenFails, CopyFails, DirectoryRefused, UpdateFails, Errors
<1>4. CASE CopyStopped
  <2>1. current <= Len(archive)
    BY <1>4 DEF CopyStopped, TypeOK
  <2> QED BY <1>0, <1>2, <1>4, <2>1 DEF CopyStopped, PollStop, Errors
<1>5. CASE LinkFails
  <2>1. current <= Len(archive)
    BY <1>5 DEF LinkFails, Ready, TypeOK
  <2>2. disk' \in [Paths -> Nodes]
    BY <1>0, <1>5, PutFacts, NodeFacts DEF LinkFails
  <2> QED BY <1>0, <1>2, <1>5, <2>1, <2>2 DEF LinkFails, Errors
<1>6. CASE ParentMade
  <2>1. current <= Len(archive)
    BY <1>6 DEF ParentMade, TypeOK
  <2>2. disk' \in [Paths -> Nodes]
    BY <1>0, <1>6, PutFacts, NodeFacts DEF ParentMade, Made
  <2> QED BY <1>0, <1>6, <2>1, <2>2, TypeFrame
          DEF ParentMade, deferVars, copyVars, outcomeVars, Early
<1>7. CASE TryArchive
  <2>1. current <= Len(archive)
    BY <1>7 DEF TryArchive, Ready, TypeOK
  <2>2. PICK outcome \in {"none", "subarchive", "error"} :
          /\ Setback \/ setbacks' = setbacks
          /\ unpacked' = IF outcome = "none" THEN unpacked \cup {current} ELSE unpacked
          /\ IF SkipsTheRest(outcome)
               THEN Report(outcome, IF outcome = "none" THEN "unpacked" ELSE "partial")
               ELSE pc' = "plain" /\ UNCHANGED <<current, reports>>
    BY <1>7 DEF TryArchive
  <2>3. unpacked' \subseteq 1..Len(archive)
    <3>1. current \in 1..Len(archive)
      BY <2>1
    <3> QED BY <1>0, <2>2, <3>1
  <2>4. UNCHANGED <<archive, disk, deferVars, k, copyVars, result, shouldstop>>
    BY <1>7 DEF TryArchive
  <2>5. CASE SkipsTheRest(outcome)
    <3> DEFINE contents == IF outcome = "none" THEN "unpacked" ELSE "partial"
    <3>1. outcome \in Errors /\ contents \in States /\ Report(outcome, contents)
      BY <2>2, <2>5 DEF Errors, States
    <3> HIDE DEF contents
    <3> QED BY <1>0, <2>1, <2>2, <2>3, <2>4, <3>1, ReportFacts, SetbackFacts, TypeFrame
            DEF deferVars, copyVars, Early
  <2>6. CASE ~SkipsTheRest(outcome)
    BY <1>0, <2>1, <2>2, <2>3, <2>4, <2>6, SetbackFacts, TypeFrame DEF deferVars, copyVars, Early
  <2> QED BY <2>5, <2>6
<1>8. ASSUME pc' \in Early, current <= Len(archive), disk' \in [Paths -> Nodes],
             deferredlinks' \in Deferrals, done' \in Nat, written' \in Nat, damaged' \in BOOLEAN,
             Setback \/ setbacks' = setbacks,
             UNCHANGED <<archive, current, deferreddirectories, k, outcomeVars, shouldstop>>
      PROVE  TypeOK'
  BY <1>0, <1>8, SetbackFacts, TypeFrame DEF outcomeVars
<1>9. CASE OpenFile
  <2>1. current <= Len(archive)
    BY <1>9 DEF OpenFile, Plain, Ready, TypeOK
  <2>2. disk' \in [Paths -> Nodes]
    BY <1>0, <1>9, PutFacts, NodeFacts DEF OpenFile, Written
  <2> QED BY <1>0, <1>8, <1>9, <2>1, <2>2 DEF OpenFile, deferVars, Early
<1>10. CASE CopySome
  <2>1. current <= Len(archive)
    BY <1>10 DEF CopySome, TypeOK
  <2>2. damaged' \in BOOLEAN /\ done' \in Nat /\ written' \in Nat /\ (Setback \/ setbacks' = setbacks)
    <3>1. damaged' \in BOOLEAN
      BY <1>0, <1>10 DEF CopySome
    <3>2. Setback \/ setbacks' = setbacks
      BY <1>10 DEF CopySome
    <3>3. done' \in Nat /\ written' \in Nat
      BY <1>0, <1>10 DEF CopySome
    <3> QED BY <3>1, <3>2, <3>3
  <2>3. UNCHANGED <<archive, pc, current, disk, deferVars, k, outcomeVars, shouldstop>> /\ pc = "copy"
    BY <1>10 DEF CopySome
  <2> QED BY <1>0, <1>8, <2>1, <2>2, <2>3 DEF deferVars, Early
<1>11. CASE CopyEnd
  <2>1. current <= Len(archive)
    BY <1>11 DEF CopyEnd, TypeOK
  <2>2. Verdict \in Errors
    BY DEF Verdict, Errors
  <2>3. CASE Verdict = "none"
    BY <1>0, <1>8, <1>11, <2>1, <2>3 DEF CopyEnd, deferVars, copyVars, outcomeVars, Early
  <2>4. CASE Verdict # "none"
    BY <1>0, <1>2, <1>11, <2>1, <2>2, <2>4 DEF CopyEnd
  <2> QED BY <2>3, <2>4
<1>12. CASE ExtractDirectory
  <2>1. current <= Len(archive)
    BY <1>12 DEF ExtractDirectory, Ready, TypeOK
  <2>2. disk' \in [Paths -> Nodes]
    BY <1>0, <1>12, PutFacts, NodeFacts DEF ExtractDirectory, Made
  <2> QED BY <1>0, <1>8, <1>12, <2>1, <2>2 DEF ExtractDirectory, deferVars, copyVars, Early
<1>13. CASE LinkUnwanted \/ IgnoreFork
  <2>1. current <= Len(archive)
    BY <1>13 DEF LinkUnwanted, IgnoreFork, Ready, TypeOK
  <2> QED BY <1>0, <1>8, <1>13, <2>1 DEF LinkUnwanted, IgnoreFork, deferVars, copyVars, Early
<1>14. CASE ExtractSafeLink
  <2>1. current <= Len(archive)
    BY <1>14 DEF ExtractSafeLink, Ready, TypeOK
  <2>2. disk' \in [Paths -> Nodes]
    BY <1>0, <1>14, PutFacts, NodeFacts DEF ExtractSafeLink
  <2> QED BY <1>0, <1>8, <1>14, <2>1, <2>2 DEF ExtractSafeLink, deferVars, copyVars, Early
<1>15. CASE ExtractUnsafeLink
  <2>1. current <= Len(archive) /\ current \in 1..Len(archive)
    BY <1>15 DEF ExtractUnsafeLink, Ready, TypeOK
  <2>2. disk' \in [Paths -> Nodes]
    BY <1>0, <1>15, PutFacts, NodeFacts DEF ExtractUnsafeLink, Written
  <2>3. deferredlinks' \in Deferrals
    <3>1. [path |-> Entry.path, entry |-> current] \in [path : Paths, entry : 1..Len(archive)]
      BY <2>1 DEF Entry
    <3> QED BY <1>0, <1>15, <3>1 DEF ExtractUnsafeLink, Deferrals
  <2> QED BY <1>0, <1>8, <1>15, <2>1, <2>2, <2>3 DEF ExtractUnsafeLink, copyVars, Early
<1>16. CASE DeferDirectory
  <2>1. current <= Len(archive) /\ current \in 1..Len(archive)
    BY <1>16 DEF DeferDirectory, TypeOK
  <2>2. deferreddirectories' \in Deferrals
    <3>1. [path |-> Entry.path, entry |-> current] \in [path : Paths, entry : 1..Len(archive)]
      BY <2>1 DEF Entry
    <3> QED BY <1>0, <1>16, <3>1 DEF DeferDirectory, Deferrals
  <2>3. Report("none", Contents) /\ "none" \in Errors /\ archive' = archive /\ Contents \in States
    BY <1>16 DEF DeferDirectory, Errors, Contents, States
  <2> QED BY <1>0, <1>16, <2>1, <2>2, <2>3, ReportFacts, TypeFrame
          DEF DeferDirectory, copyVars, Early
<1>17. CASE UpdateAttributes
  <2>1. current <= Len(archive) /\ current \in 1..Len(archive)
    BY <1>17 DEF UpdateAttributes, TypeOK
  <2>2. disk' \in [Paths -> Nodes]
    BY <1>0, <1>17, <2>1, RestoredFacts DEF UpdateAttributes, Restored, Entry
  <2>3. Report("none", Contents) /\ "none" \in Errors /\ archive' = archive /\ Contents \in States
    BY <1>17 DEF UpdateAttributes, Errors, Contents, States
  <2> QED BY <1>0, <1>17, <2>1, <2>2, <2>3, ReportFacts, TypeFrame
          DEF UpdateAttributes, deferVars, copyVars, Early
<1> QED BY <1>1, <1>3, <1>4, <1>5, <1>6, <1>7, <1>9, <1>10, <1>11, <1>12, <1>13, <1>14, <1>15,
           <1>16, <1>17 DEF ExtractEntry

\* Sorting the deferred directories keeps them all, and puts the deeper ones
\* before the others.
LEMMA RearrangedFacts ==
  ASSUME TypeOK, NEW order \in DeepestFirst
  PROVE  LET sorted == Rearranged(order)
             len == Len(deferreddirectories)
         IN  /\ sorted \in Deferrals /\ Len(sorted) = len /\ len \in Nat
             /\ \A i \in 1..len : \E j \in 1..len : sorted[j] = deferreddirectories[i]
             /\ \A i, j \in 1..len : i < j => Len(sorted[i].path) >= Len(sorted[j].path)
<1> DEFINE D == [path : Paths, entry : 1..Len(archive)]
<1>1. deferreddirectories \in Seq(D) /\ Len(deferreddirectories) \in Nat
  BY DEF TypeOK, Deferrals
<1>2. /\ order \in [1..Len(deferreddirectories) -> 1..Len(deferreddirectories)]
      /\ \A i \in 1..Len(deferreddirectories) : \E j \in 1..Len(deferreddirectories) : order[j] = i
      /\ \A i, j \in 1..Len(deferreddirectories) : i < j => DepthAt(order, i) >= DepthAt(order, j)
  BY DEF DeepestFirst, Orders
<1> HIDE DEF D
<1>3. \A j \in 1..Len(deferreddirectories) : deferreddirectories[order[j]] \in D
  BY <1>1, <1>2, ElementFact
<1>4. Rearranged(order) = [j \in 1..Len(deferreddirectories) |-> deferreddirectories[order[j]]]
  BY <1>2 DEF Rearranged
<1>5. Rearranged(order) \in Seq(D) /\ Len(Rearranged(order)) = Len(deferreddirectories)
  BY <1>1, <1>3, <1>4
<1>6. \A i \in 1..Len(deferreddirectories) : Rearranged(order)[i] = deferreddirectories[order[i]]
  BY <1>4
<1>7. Rearranged(order) \in Deferrals
  BY <1>5 DEF D, Deferrals
<1>8. ASSUME NEW i \in 1..Len(deferreddirectories)
      PROVE  \E j \in 1..Len(deferreddirectories) : Rearranged(order)[j] = deferreddirectories[i]
  <2>1. PICK j \in 1..Len(deferreddirectories) : order[j] = i
    BY <1>2, <1>8
  <2> QED BY <1>6, <2>1
<1>9. ASSUME NEW i \in 1..Len(deferreddirectories), NEW j \in 1..Len(deferreddirectories), i < j
      PROVE  Len(Rearranged(order)[i].path) >= Len(Rearranged(order)[j].path)
  <2>1. DepthAt(order, i) >= DepthAt(order, j)
    BY <1>2, <1>9, Zenon
  <2> QED BY <1>6, <2>1 DEF DepthAt
<1> QED BY <1>1, <1>5, <1>7, <1>8, <1>9

\* So do the parser's steps and those of finishExtractions.
LEMMA TypeKept == TypeOK /\ [Next]_vars => TypeOK'
<1> SUFFICES ASSUME TypeOK, [Next]_vars PROVE TypeOK'
  OBVIOUS
<1> USE EntryFacts
<1>0. /\ disk \in [Paths -> Nodes] /\ deferredlinks \in Deferrals
      /\ deferreddirectories \in Deferrals /\ k \in Nat \ {0}
      /\ done \in Nat /\ written \in Nat /\ damaged \in BOOLEAN /\ result \in Errors
      /\ reports \in Seq([entry : 1..Len(archive), error : Errors, contents : States])
      /\ unpacked \subseteq 1..Len(archive) /\ current \in 1..Len(archive) + 1
      /\ shouldstop \in BOOLEAN /\ setbacks \in 0..MaxSetbacks
  BY DEF TypeOK, States
<1>1. CASE ExtractEntry
  BY <1>1, ExtractTypes
<1>2. CASE FindEntry
  <2>1. current <= Len(archive) /\ shouldstop' \in BOOLEAN
    BY <1>0, <1>2 DEF FindEntry, Parsing, PollStop
  <2>2. pc' \in Early /\ current' \in 1..Len(archive) + 1 /\ (pc' # "parse" => current' <= Len(archive))
    BY <1>2, <2>1 DEF FindEntry, Early
  <2> QED BY <1>0, <1>2, <2>1, <2>2, TypeFrame DEF FindEntry, deferVars, copyVars, outcomeVars
<1>3. ASSUME pc' \in {"links", "dirs", "checksum", "returned"}, k' \in Nat \ {0}, result' \in Errors,
             disk' \in [Paths -> Nodes], deferredlinks' \in Deferrals,
             deferreddirectories' \in Deferrals, shouldstop' \in BOOLEAN,
             Setback \/ setbacks' = setbacks,
             UNCHANGED <<archive, current, copyVars, reports, unpacked>>
      PROVE  TypeOK'
  BY <1>0, <1>3, SetbackFacts, TypeFrame DEF copyVars, Early
<1>4. CASE ParseRaises
  BY <1>0, <1>3, <1>4 DEF ParseRaises, Finish, Errors, deferVars
<1>5. CASE ParseEnds
  <2>1. shouldstop' \in BOOLEAN
    BY <1>0, <1>5 DEF ParseEnds, PollStop
  <2> QED BY <1>0, <1>3, <1>5, <2>1 DEF ParseEnds, Finish, Errors, deferVars
<1>6. CASE FixLink \/ FixLinkFails
  <2>1. /\ Link.path \in Paths /\ LinkMade \in [Paths -> Nodes]
        /\ Put(disk, Link.path, Nothing) \in [Paths -> Nodes]
    <3>1. k \in 1..Len(deferredlinks)
      BY <1>0, <1>6 DEF FixLink, FixLinkFails, Deferrals
    <3>2. Link.path \in Paths /\ Link.entry \in Nat
      BY <3>1, DeferralFacts DEF Link
    <3> QED BY <1>0, <3>2, PutFacts, NodeFacts DEF LinkMade
  <2>2. disk' \in [Paths -> Nodes]
    <3>1. CASE FixLink
      BY <2>1, <3>1, RestoredFacts DEF FixLink
    <3>2. CASE FixLinkFails
      BY <1>0, <2>1, <3>2 DEF FixLinkFails
    <3> QED BY <1>6, <3>1, <3>2
  <2>3. CASE FixLink
    BY <1>0, <1>3, <2>2, <2>3 DEF FixLink, deferVars, outcomeVars
  <2>4. CASE FixLinkFails
    BY <1>0, <1>3, <2>2, <2>4 DEF FixLinkFails, Finish, Errors, deferVars
  <2> QED BY <1>6, <2>3, <2>4
<1>7. CASE LinksDone
  <2>1. deferredlinks' \in Deferrals /\ deferreddirectories' \in Deferrals
    BY <1>0, <1>7, RearrangedFacts DEF LinksDone, Deferrals
  <2> QED BY <1>0, <1>3, <1>7, <2>1 DEF LinksDone, outcomeVars
<1>10. CASE FixDirectory
  <2>1. Directory.path \in Paths
    BY <1>0, <1>10, DeferralFacts DEF FixDirectory, Directory
  <2>2. disk' \in [Paths -> Nodes]
    BY <1>0, <1>10, <2>1, RestoredFacts DEF FixDirectory, Restored
  <2> QED BY <1>0, <1>3, <1>10, <2>2 DEF FixDirectory, deferVars, outcomeVars
<1>11. CASE FixDirectoryFails
  BY <1>0, <1>3, <1>11 DEF FixDirectoryFails, Finish, Errors, deferVars
<1>12. CASE DirectoriesDone
  BY <1>0, <1>3, <1>12 DEF DirectoriesDone, Deferrals, outcomeVars
<1>13. CASE TestChecksum
  BY <1>0, <1>3, <1>13 DEF TestChecksum, Finish, Errors, deferVars
<1>14. CASE UNCHANGED vars
  BY <1>0, <1>14 DEF vars, deferVars, copyVars, outcomeVars, TypeOK, Deferrals
<1> QED BY <1>1, <1>2, <1>4, <1>5, <1>6, <1>7, <1>10, <1>11, <1>12, <1>13, <1>14
        DEF Next, FinishExtractions

-----------------------------------------------------------------------------
\* A step that leaves no placeholder where there was none.
NoPlaceholderMade ==
  \A p \in Paths : IsPlaceholder(disk'[p]) => IsPlaceholder(disk[p])

\* A step before the end that reports nothing and puts nothing off.
LEMMA QuietStep ==
  ASSUME IInv, TypeOK', archive' = archive, pc \in Early, pc' \in Early,
         UNCHANGED <<deferVars, reports, result>>, CopyInv', NoPlaceholderMade
  PROVE  IInv'
<1> USE DEF IInv, Early
<1>1. LinksInv'
  BY DEF LinksInv, NoPlaceholderMade, IsPlaceholder, Awaited, deferVars
<1>2. DirsInv'
  BY DEF DirsInv, ReportedDir, deferVars
<1>3. CompleteIfReported' /\ NothingLeftDeferred' /\ StopIsReported'
  BY DEF CompleteIfReported, NothingLeftDeferred, StopIsReported
<1> QED BY <1>1, <1>2, <1>3

\* A step that reports an entry that is no directory: if as a success, then
\* truthfully.
LEMMA ReportStep ==
  ASSUME IInv, TypeOK', archive' = archive, pc \in Early, current <= Len(archive),
         NEW err \in Errors, NEW contents \in States, Report(err, contents),
         err = "none" => ~IsOfDirectory(Entry) /\ (IsFileLike(Entry) => Vouched(Entry, contents)),
         UNCHANGED <<deferVars, result>>, NoPlaceholderMade
  PROVE  IInv'
<1> USE DEF IInv, Early
<1>0. /\ pc' = "parse" /\ Len(reports') = Len(reports) + 1 /\ Len(reports) \in Nat
      /\ \A j \in 1..Len(reports) : reports'[j] = reports[j]
      /\ reports'[Len(reports) + 1] = Told(current, err, contents)
  BY ReportFacts
<1>1. LinksInv'
  BY <1>0 DEF LinksInv, NoPlaceholderMade, IsPlaceholder, Awaited, deferVars
<1>2. DirsInv'
  <2> SUFFICES ASSUME NEW j \in 1..Len(reports'), ReportedDir(j)'
               PROVE  \E m \in 1..Len(deferreddirectories) :
                        deferreddirectories[m].path = archive[reports'[j].entry].path
    BY <1>0 DEF DirsInv, deferVars
  <2>1. j # Len(reports) + 1
    BY <1>0 DEF ReportedDir, Told, Entry
  <2>2. j \in 1..Len(reports) /\ reports'[j] = reports[j]
    BY <1>0, <2>1
  <2> QED BY <2>2 DEF DirsInv, ReportedDir
<1>3. CompleteIfReported'
  <2> SUFFICES ASSUME NEW j \in 1..Len(reports'), reports'[j].error = "none",
                      IsFileLike(archive[reports'[j].entry])
               PROVE  Vouched(archive[reports'[j].entry], reports'[j].contents)
    BY DEF CompleteIfReported, Vouched, IsUnread, IsFork, IsFileLike
  <2>1. CASE j = Len(reports) + 1
    BY <1>0, <2>1 DEF Told, Entry
  <2>2. CASE j # Len(reports) + 1
    BY <1>0, <2>2 DEF CompleteIfReported, Vouched
  <2> QED BY <2>1, <2>2
<1>4. NothingLeftDeferred' /\ StopIsReported' /\ CopyInv' /\ (pc' # "returned" => result' = "none")
  BY <1>0 DEF NothingLeftDeferred, StopIsReported, CopyInv
<1> QED BY <1>1, <1>2, <1>3, <1>4

\* What CopyInv knows of a file is what may be promised of it.
LEMMA TruthfulReport ==
  ASSUME CopyInv, pc = "update", IsFileLike(Entry)
  PROVE  Vouched(Entry, Contents)
BY DEF CopyInv, Contents, Vouched

\* A directory made, or a file of another entry, is no placeholder.
LEMMA PutIsNoPlaceholder ==
  ASSUME TypeOK, current <= Len(archive), NEW p, NEW i \in {0, current},
         NEW kind \in {"none", "file", "dir", "safelink", "unsafelink"},
         kind = "file" => i = current /\ Entry.kind # "unsafelink",
         disk' = Put(disk, p, Node(kind, i))
  PROVE  NoPlaceholderMade
<1>1. disk \in [Paths -> Nodes] /\ i \in Nat
  BY EntryFacts DEF TypeOK
<1> QED BY <1>1, PutFacts, NodeFacts DEF NoPlaceholderMade, IsPlaceholder, Entry

\* Attributes do not make a placeholder.
LEMMA RestoredIsNoPlaceholder ==
  ASSUME TypeOK, NEW p \in Paths, disk' = Restored(p)
  PROVE  NoPlaceholderMade
BY RestoredFacts DEF NoPlaceholderMade, IsPlaceholder, Restored, TypeOK

\* An undisturbed disk has no new placeholder.
LEMMA SameIsNoPlaceholder ==
  ASSUME disk' = disk
  PROVE  NoPlaceholderMade
BY DEF NoPlaceholderMade

-----------------------------------------------------------------------------
\* Nothing that goes on before finishExtractions breaks the invariant.
LEMMA ExtractKeeps == IInv /\ ExtractEntry => IInv'
<1> SUFFICES ASSUME IInv, ExtractEntry PROVE IInv'
  OBVIOUS
<1>0. /\ TypeOK /\ TypeOK' /\ pc \in Early /\ current <= Len(archive)
      /\ current \in 1..Len(archive) /\ archive' = archive
      /\ pc \in {"extract", "plain", "copy", "update"}
  <2>1. TypeOK /\ TypeOK'
    BY ExtractTypes DEF IInv
  <2>2. pc \in {"extract", "plain", "copy", "update"} /\ archive' = archive
    BY DEF ExtractEntry, Decline, ParentRefused, ParentMade, TryArchive, OpenFails, OpenFile, CopyFails,
           CopyStopped, CopySome, CopyEnd, DirectoryRefused, ExtractDirectory, LinkUnwanted, LinkFails,
           ExtractSafeLink, ExtractUnsafeLink, IgnoreFork, DeferDirectory, UpdateAttributes,
           UpdateFails, Ready, Plain
  <2> QED BY <2>1, <2>2 DEF TypeOK, Early
<1>1. CASE Decline
  <2>1. CopyInv'
    BY <1>1 DEF Decline, CopyInv
  <2> QED BY <1>0, <1>1, <2>1, QuietStep, SameIsNoPlaceholder DEF Decline, outcomeVars, Early
<1>2. ASSUME NEW err \in Errors \ {"none"}, Report(err, "partial"), NoPlaceholderMade,
             UNCHANGED <<deferVars, result>>
      PROVE  IInv'
  <2>1. "partial" \in States
    BY DEF States
  <2> QED BY <1>0, <1>2, <2>1, ReportStep
<1>3. CASE ParentRefused \/ OpenFails \/ CopyFails \/ CopyStopped \/ DirectoryRefused \/ UpdateFails
  BY <1>2, <1>3, SameIsNoPlaceholder
  DEF ParentRefused, OpenFails, CopyFails, CopyStopped, DirectoryRefused, UpdateFails, Errors
<1>4. CASE LinkFails
  <2>1. NoPlaceholderMade
    <3>1. CASE disk' = disk
      BY <3>1, SameIsNoPlaceholder
    <3>2. CASE disk' = Put(disk, Entry.path, Nothing)
      BY <1>0, <3>2, PutIsNoPlaceholder DEF Nothing
    <3> QED BY <1>4, <3>1, <3>2 DEF LinkFails
  <2> QED BY <1>2, <1>4, <2>1 DEF LinkFails, Errors
<1>5. CASE ParentMade
  <2>1. NoPlaceholderMade
    BY <1>0, <1>5, PutIsNoPlaceholder DEF ParentMade, Made
  <2>2. CopyInv'
    BY <1>5 DEF ParentMade, CopyInv
  <2> QED BY <1>0, <1>5, <2>1, <2>2, QuietStep DEF ParentMade, outcomeVars
<1>6. CASE TryArchive
  <2>1. PICK outcome \in {"none", "subarchive", "error"} :
          IF SkipsTheRest(outcome)
            THEN Report(outcome, IF outcome = "none" THEN "unpacked" ELSE "partial")
            ELSE pc' = "plain" /\ UNCHANGED <<current, reports>>
    BY <1>6 DEF TryArchive
  <2>2. NoPlaceholderMade /\ UNCHANGED <<deferVars, result>>
    BY <1>6, SameIsNoPlaceholder DEF TryArchive
  <2>3. CASE SkipsTheRest(outcome)
    <3> DEFINE contents == IF outcome = "none" THEN "unpacked" ELSE "partial"
    <3>1. outcome \in Errors /\ contents \in States /\ ~IsOfDirectory(Entry)
      BY <1>6 DEF Errors, States, TryArchive, IsOfDirectory
    <3>2. Report(outcome, contents)
      BY <2>1, <2>3
    <3>3. outcome = "none" => Vouched(Entry, contents)
      BY DEF Vouched
    <3> HIDE DEF contents
    <3> QED BY <1>0, <2>2, <3>1, <3>2, <3>3, ReportStep
  <2>4. CASE ~SkipsTheRest(outcome)
    <3>1. pc' = "plain" /\ UNCHANGED reports
      BY <2>1, <2>4
    <3>2. CopyInv' /\ pc' \in Early
      BY <3>1 DEF CopyInv, Early
    <3> QED BY <1>0, <2>2, <3>1, <3>2, QuietStep
  <2> QED BY <2>3, <2>4
<1>7. CASE OpenFile
  <2>1. NoPlaceholderMade
    <3>1. Entry.kind # "unsafelink"
      BY <1>7 DEF OpenFile, IsFileLike
    <3>2. CASE disk' = disk
      BY <3>2, SameIsNoPlaceholder
    <3>3. CASE disk' = Put(disk, Entry.path, Node("file", current))
      BY <1>0, <3>1, <3>3, PutIsNoPlaceholder
    <3> QED BY <1>7, <3>2, <3>3 DEF OpenFile, Written
  <2>2. CopyInv' /\ pc' \in Early
    <3>1. /\ pc' = IF NothingToCopy(Entry) THEN "update" ELSE "copy"
          /\ written' = 0 /\ done' = 0 /\ ~damaged' /\ Entry' = Entry
      BY <1>7 DEF OpenFile, Entry
    <3>2. NothingToCopy(Entry) =>
            /\ Entry.sized => 0 = Entry.length
            /\ ~IsUnread(Entry) => 0 = Entry.length
      BY DEF NothingToCopy, IsUnread
    <3> QED BY <3>1, <3>2 DEF CopyInv, Early, IsUnread, IsFork
  <2> QED BY <1>0, <1>7, <2>1, <2>2, QuietStep DEF OpenFile, outcomeVars
<1>8. CASE CopySome
  <2>1. CopyInv' /\ pc' \in Early
    <3>1. pc = "copy" /\ pc' = "copy" /\ done' = done + 1 /\ written' = written + 1
      BY <1>8 DEF CopySome
    <3> QED BY <3>1 DEF IInv, CopyInv, Early
  <2> QED BY <1>0, <1>8, <2>1, QuietStep, SameIsNoPlaceholder DEF CopySome, outcomeVars
<1>9. CASE CopyEnd
  <2>1. CASE Verdict = "none"
    <3>1. /\ Entry.checksum => done = Entry.length /\ ~damaged
          /\ ~Entry.checksum /\ Entry.sized => done = Entry.length
      BY <2>1 DEF Verdict
    <3>2. written = done
      BY <1>9 DEF CopyEnd, IInv, CopyInv
    <3>3. pc' = "update" /\ Entry' = Entry /\ UNCHANGED <<done, written, damaged>>
      BY <1>9, <2>1 DEF CopyEnd, Entry, copyVars
    <3>4. CopyInv' /\ pc' \in Early
      BY <3>1, <3>2, <3>3 DEF CopyInv, Early, IsUnread, IsFork
    <3> QED BY <1>0, <1>9, <2>1, <3>4, QuietStep, SameIsNoPlaceholder DEF CopyEnd, outcomeVars
  <2>2. CASE Verdict # "none"
    <3>1. Verdict \in Errors \ {"none"}
      BY <2>2 DEF Verdict, Errors
    <3> QED BY <1>2, <1>9, <2>2, <3>1, SameIsNoPlaceholder DEF CopyEnd
  <2> QED BY <2>1, <2>2
<1>10. CASE ExtractDirectory
  <2>1. NoPlaceholderMade
    BY <1>0, <1>10, PutIsNoPlaceholder, SameIsNoPlaceholder DEF ExtractDirectory, Made
  <2>2. CopyInv' /\ pc' \in Early
    BY <1>10 DEF ExtractDirectory, CopyInv, IsFileLike, Entry, Early
  <2> QED BY <1>0, <1>10, <2>1, <2>2, QuietStep DEF ExtractDirectory, outcomeVars
<1>11. CASE LinkUnwanted \/ IgnoreFork
  <2>1. CopyInv' /\ pc' \in Early
    BY <1>11 DEF LinkUnwanted, IgnoreFork, CopyInv, IsFileLike, Entry, Early
  <2> QED BY <1>0, <1>11, <2>1, QuietStep, SameIsNoPlaceholder DEF LinkUnwanted, IgnoreFork, outcomeVars
<1>12. CASE ExtractSafeLink
  <2>1. NoPlaceholderMade
    BY <1>0, <1>12, PutIsNoPlaceholder DEF ExtractSafeLink
  <2>2. CopyInv' /\ pc' \in Early
    BY <1>12 DEF ExtractSafeLink, CopyInv, IsFileLike, Entry, Early
  <2> QED BY <1>0, <1>12, <2>1, <2>2, QuietStep DEF ExtractSafeLink, outcomeVars
<1>13. CASE ExtractUnsafeLink
  <2>1. /\ pc' = "update" /\ UNCHANGED <<current, deferreddirectories, reports, result>>
        /\ disk' = Written(Entry.path) /\ Entry.kind = "unsafelink"
        /\ deferredlinks' = Append(deferredlinks, [path |-> Entry.path, entry |-> current])
    BY <1>13 DEF ExtractUnsafeLink, outcomeVars
  <2>2. /\ Len(deferredlinks') = Len(deferredlinks) + 1 /\ Len(deferredlinks) \in Nat
        /\ \A j \in 1..Len(deferredlinks) : deferredlinks'[j] = deferredlinks[j]
        /\ deferredlinks'[Len(deferredlinks) + 1].path = Entry.path
    <3> DEFINE D == [path : Paths, entry : 1..Len(archive)]
               e == [path |-> Entry.path, entry |-> current]
    <3>1. deferredlinks \in Seq(D) /\ e \in D
      BY <1>0, EntryFacts DEF TypeOK, Deferrals, Entry
    <3>2. e.path = Entry.path /\ deferredlinks' = Append(deferredlinks, e)
      BY <2>1
    <3> HIDE DEF D, e
    <3> QED BY <3>1, <3>2, AppendFacts
  <2>3. ASSUME NEW p \in Paths, IsPlaceholder(disk'[p])
        PROVE  Awaited(p)'
    <3>1. CASE p = Entry.path
      BY <2>1, <2>2, <3>1 DEF Awaited
    <3>2. CASE p # Entry.path
      <4>1. IsPlaceholder(disk[p])
        <5>1. disk \in [Paths -> Nodes] /\ Node("file", current) \in Nodes
          BY <1>0, EntryFacts, NodeFacts DEF TypeOK
        <5>2. disk'[p].kind = disk[p].kind /\ disk'[p].by = disk[p].by
          BY <2>1, <3>2, <5>1, PutFacts DEF Written
        <5> QED BY <2>3, <5>2 DEF IsPlaceholder
      <4>2. PICK j \in 1..Len(deferredlinks) : deferredlinks[j].path = p
        BY <1>0, <4>1 DEF IInv, LinksInv, Awaited
      <4>3. j \in 1..Len(deferredlinks') /\ deferredlinks'[j].path = p
        BY <2>2, <4>2
      <4> QED BY <2>1, <4>3 DEF Awaited
    <3> QED BY <3>1, <3>2
  <2>4. LinksInv'
    BY <1>0, <2>1, <2>3 DEF LinksInv, IsPlaceholder
  <2>5. DirsInv'
    BY <1>0, <2>1 DEF IInv, DirsInv, ReportedDir, Early
  <2>6. CopyInv' /\ CompleteIfReported' /\ NothingLeftDeferred' /\ StopIsReported'
    BY <1>0, <2>1
    DEF IInv, CopyInv, IsFileLike, Entry, CompleteIfReported, NothingLeftDeferred, StopIsReported,
        IsUnread, IsFork
  <2> QED BY <1>0, <2>1, <2>4, <2>5, <2>6 DEF IInv, Early
<1>14. CASE DeferDirectory
  <2>1. /\ UNCHANGED <<disk, deferredlinks, result>>
        /\ deferreddirectories' = Append(deferreddirectories, [path |-> Entry.path, entry |-> current])
        /\ pc = "update"
    BY <1>14 DEF DeferDirectory
  <2>2. /\ pc' = "parse" /\ Len(reports') = Len(reports) + 1 /\ Len(reports) \in Nat
        /\ \A j \in 1..Len(reports) : reports'[j] = reports[j]
        /\ reports'[Len(reports) + 1] = Told(current, "none", Contents)
    <3>1. Report("none", Contents) /\ "none" \in Errors /\ Contents \in States
      BY <1>14 DEF DeferDirectory, Errors, Contents, States
    <3> QED BY <1>0, <3>1, ReportFacts
  <2>3. /\ Len(deferreddirectories') = Len(deferreddirectories) + 1 /\ Len(deferreddirectories) \in Nat
        /\ \A j \in 1..Len(deferreddirectories) : deferreddirectories'[j] = deferreddirectories[j]
        /\ deferreddirectories'[Len(deferreddirectories) + 1].path = Entry.path
    <3> DEFINE D == [path : Paths, entry : 1..Len(archive)]
               e == [path |-> Entry.path, entry |-> current]
    <3>1. deferreddirectories \in Seq(D) /\ e \in D
      BY <1>0, EntryFacts DEF TypeOK, Deferrals, Entry
    <3>2. e.path = Entry.path /\ deferreddirectories' = Append(deferreddirectories, e)
      BY <2>1
    <3> HIDE DEF D, e
    <3> QED BY <3>1, <3>2, AppendFacts
  <2>4. ASSUME NEW j \in 1..Len(reports'), ReportedDir(j)'
        PROVE  \E m \in 1..Len(deferreddirectories') :
                 deferreddirectories'[m].path = archive[reports'[j].entry].path
    <3>1. CASE j = Len(reports) + 1
      BY <2>2, <2>3, <3>1 DEF Told, Entry
    <3>2. CASE j # Len(reports) + 1
      <4>1. j \in 1..Len(reports) /\ reports'[j] = reports[j] /\ ReportedDir(j)
        BY <1>0, <2>2, <2>4, <3>2 DEF ReportedDir, IsOfDirectory
      <4>2. PICK m \in 1..Len(deferreddirectories) :
                 deferreddirectories[m].path = archive[reports[j].entry].path
        BY <1>0, <4>1 DEF IInv, DirsInv
      <4> QED BY <2>3, <4>1, <4>2
    <3> QED BY <3>1, <3>2
  <2>5. DirsInv'
    BY <1>0, <2>2, <2>4 DEF DirsInv
  <2>6. LinksInv'
    BY <1>0, <2>1, <2>2 DEF IInv, LinksInv, Awaited, IsPlaceholder, Early
  <2>7. CompleteIfReported'
    <3> SUFFICES ASSUME NEW j \in 1..Len(reports'), reports'[j].error = "none",
                        IsFileLike(archive[reports'[j].entry])
                 PROVE  Vouched(archive[reports'[j].entry], reports'[j].contents)
      BY <1>0 DEF CompleteIfReported, Vouched, IsUnread, IsFork, IsFileLike
    <3>1. CASE j = Len(reports) + 1
      BY <2>1, <2>2, <3>1, TruthfulReport DEF IInv, Told, Entry
    <3>2. CASE j # Len(reports) + 1
      BY <2>2, <3>2 DEF IInv, CompleteIfReported, Vouched
    <3> QED BY <3>1, <3>2
  <2>8. CopyInv' /\ NothingLeftDeferred' /\ StopIsReported' /\ result' = "none"
    BY <1>0, <2>1, <2>2 DEF IInv, CopyInv, NothingLeftDeferred, StopIsReported, Early
  <2> QED BY <1>0, <2>5, <2>6, <2>7, <2>8 DEF IInv
<1>15. CASE UpdateAttributes
  <2>1. Entry.path \in Paths
    BY <1>0, EntryFacts DEF Entry
  <2>2. NoPlaceholderMade
    BY <1>0, <1>15, <2>1, RestoredIsNoPlaceholder DEF UpdateAttributes
  <2>3. Contents \in States /\ "none" \in Errors
    BY DEF Contents, States, Errors
  <2>4. ~IsOfDirectory(Entry) /\ (IsFileLike(Entry) => Vouched(Entry, Contents))
    BY <1>15, TruthfulReport DEF IInv, UpdateAttributes
  <2> QED BY <1>0, <1>15, <2>2, <2>3, <2>4, ReportStep DEF UpdateAttributes
<1> QED BY <1>1, <1>3, <1>4, <1>5, <1>6, <1>7, <1>8, <1>9, <1>10, <1>11, <1>12, <1>13, <1>14,
           <1>15 DEF ExtractEntry

\* A step of finishExtractions, or to it, that leaves the reports alone.
LEMMA FinishStep ==
  ASSUME IInv, TypeOK', UNCHANGED <<archive, reports>>,
         pc' \in {"links", "dirs", "checksum", "returned"},
         LinksInv', DirsInv', NothingLeftDeferred', StopIsReported',
         pc' # "returned" => result' = "none"
  PROVE  IInv'
BY DEF IInv, CopyInv, CompleteIfReported, IsUnread, IsFork, IsFileLike

\* A return with an error: what was put off may be lost, and nothing is
\* promised of it.
LEMMA ErrorStep ==
  ASSUME IInv, TypeOK', UNCHANGED <<archive, reports>>,
         NEW res, Finish(res), res # "none",
         shouldstop' => res \in {"break", "error"}
  PROVE  IInv'
BY FinishStep DEF Finish, LinksInv, DirsInv, NothingLeftDeferred, StopIsReported, Early

\* finishExtractions and the end of parseAndUnarchive keep the invariant.
LEMMA NextKeeps == IInv /\ [Next]_vars => IInv'
<1> SUFFICES ASSUME IInv, [Next]_vars PROVE IInv'
  OBVIOUS
<1>0. TypeOK /\ TypeOK'
  BY TypeKept DEF IInv
<1>1. CASE ExtractEntry
  BY <1>1, ExtractKeeps
<1>2. CASE FindEntry
  <2>1. pc' \in {"parse", "extract"} /\ pc = "parse" /\ NoPlaceholderMade
    BY <1>2, SameIsNoPlaceholder DEF FindEntry, Parsing
  <2>2. CopyInv' /\ pc' \in Early /\ pc \in Early
    BY <2>1 DEF CopyInv, Early
  <2> QED BY <1>0, <1>2, <2>1, <2>2, QuietStep DEF FindEntry, outcomeVars
<1>3. CASE ParseRaises
  BY <1>0, <1>3, ErrorStep DEF ParseRaises
<1>4. CASE ParseEnds
  <2>1. CASE shouldstop'
    BY <1>0, <1>4, <2>1, ErrorStep DEF ParseEnds
  <2>2. CASE ~shouldstop'
    <3>1. /\ pc = "parse" /\ pc' = "links" /\ k' = 1 /\ result' = result
          /\ UNCHANGED <<archive, disk, deferVars, reports>>
      BY <1>4, <2>2 DEF ParseEnds
    <3>2. LinksInv'
      <4>1. \A j \in 1..Len(deferredlinks) : j >= 1
        OBVIOUS
      <4> QED BY <3>1, <4>1 DEF IInv, LinksInv, IsPlaceholder, Awaited, deferVars, Early
    <3>3. DirsInv'
      BY <3>1 DEF IInv, DirsInv, ReportedDir, deferVars, Early
    <3> QED BY <1>0, <2>2, <3>1, <3>2, <3>3, FinishStep DEF IInv, NothingLeftDeferred, StopIsReported
  <2> QED BY <2>1, <2>2
<1>5. CASE FixLink
  <2>1. /\ pc = "links" /\ pc' = "links" /\ k' = k + 1 /\ k \in 1..Len(deferredlinks)
        /\ UNCHANGED <<archive, deferVars, reports, result, shouldstop>>
        /\ disk' = [LinkMade EXCEPT ![Link.path].attrs = TRUE]
    BY <1>0, <1>5, EntryFacts, DeferralFacts DEF FixLink, outcomeVars, TypeOK
  <2>2. /\ Link.path \in Paths /\ Link.entry \in Nat /\ disk \in [Paths -> Nodes]
        /\ LinkMade \in [Paths -> Nodes]
    <3>1. Link.path \in Paths /\ Link.entry \in 1..Len(archive) /\ disk \in [Paths -> Nodes]
      BY <1>0, <2>1, DeferralFacts DEF Link, TypeOK
    <3>2. Node("unsafelink", Link.entry) \in Nodes
      BY <3>1, NodeFacts
    <3> QED BY <3>1, <3>2, PutFacts DEF LinkMade
  <2>3. \A p \in Paths : /\ disk'[p].kind = LinkMade[p].kind
                         /\ disk'[p].by = LinkMade[p].by
    BY <2>1, <2>2, RestoredFacts
  <2>4. /\ LinkMade[Link.path].kind = "unsafelink"
        /\ \A p \in Paths : p # Link.path => /\ LinkMade[p].kind = disk[p].kind
                                             /\ LinkMade[p].by = disk[p].by
    BY <2>2, PutFacts, NodeFacts DEF LinkMade
  <2>5. ASSUME NEW p \in Paths, IsPlaceholder(disk'[p])
        PROVE  Awaited(p)'
    <3>1. p # Link.path /\ IsPlaceholder(disk[p])
      BY <2>2, <2>3, <2>4, <2>5 DEF IsPlaceholder
    <3>2. PICK j \in 1..Len(deferredlinks) : deferredlinks[j].path = p /\ j >= k
      BY <2>1, <3>1 DEF IInv, LinksInv, Awaited
    <3>3. j # k
      BY <3>1, <3>2 DEF Link
    <3>4. j >= k + 1
      BY <1>0, <2>1, <3>2, <3>3, EntryFacts
    <3> QED BY <2>1, <3>2, <3>4 DEF Awaited, deferVars
  <2>6. LinksInv'
    BY <2>1, <2>5 DEF LinksInv, IsPlaceholder
  <2>7. DirsInv'
    BY <2>1 DEF IInv, DirsInv, ReportedDir, deferVars
  <2> QED BY <1>0, <2>1, <2>6, <2>7, FinishStep DEF IInv, NothingLeftDeferred, StopIsReported
<1>6. CASE FixLinkFails
  BY <1>0, <1>6, ErrorStep DEF FixLinkFails, IInv, StopIsReported
<1>7. CASE LinksDone
  <2>1. PICK order \in DeepestFirst : deferreddirectories' = Rearranged(order)
    BY <1>7 DEF LinksDone
  <2>2. /\ pc = "links" /\ pc' = "dirs" /\ k' = 1 /\ deferredlinks' = <<>> /\ k > Len(deferredlinks)
        /\ UNCHANGED <<archive, disk, reports, result, shouldstop>>
    BY <1>7 DEF LinksDone, outcomeVars
  <2>3. \A p \in Paths : ~IsPlaceholder(disk[p])
    BY <1>0, <2>2, DeferralFacts, EntryFacts DEF IInv, LinksInv, Awaited
  <2>4. LinksInv'
    BY <2>2, <2>3 DEF LinksInv, IsPlaceholder, Early
  <2>5. DirsInv'
    <3>1. /\ Len(deferreddirectories') = Len(deferreddirectories)
          /\ \A i \in 1..Len(deferreddirectories) : \E j \in 1..Len(deferreddirectories) :
                deferreddirectories'[j] = deferreddirectories[i]
      BY <1>0, <2>1, RearrangedFacts
    <3>2. \A m \in 1..Len(deferreddirectories') : ~(m < 1)
      OBVIOUS
    <3>3. ASSUME NEW j \in 1..Len(reports), ReportedDir(j)
          PROVE  \E m \in 1..Len(deferreddirectories') :
                   deferreddirectories'[m].path = archive[reports[j].entry].path
      <4>1. PICK i \in 1..Len(deferreddirectories) :
                   deferreddirectories[i].path = archive[reports[j].entry].path
        BY <2>2, <3>3 DEF IInv, DirsInv
      <4>2. PICK m \in 1..Len(deferreddirectories') : deferreddirectories'[m] = deferreddirectories[i]
        BY <3>1, <4>1, Zenon
      <4> QED BY <4>1, <4>2, Zenon
    <3> QED BY <2>2, <3>2, <3>3 DEF DirsInv, ReportedDir, Early
  <2> QED BY <1>0, <2>2, <2>4, <2>5, FinishStep DEF IInv, NothingLeftDeferred, StopIsReported
<1>8. CASE FixDirectory
  <2>1. /\ pc = "dirs" /\ pc' = "dirs" /\ k' = k + 1 /\ k \in 1..Len(deferreddirectories)
        /\ UNCHANGED <<archive, deferVars, reports, result, shouldstop>>
        /\ disk' = Restored(Directory.path)
    BY <1>0, <1>8, EntryFacts, DeferralFacts DEF FixDirectory, outcomeVars, TypeOK
  <2>2. Directory.path \in Paths /\ disk \in [Paths -> Nodes]
    BY <1>0, <2>1, DeferralFacts DEF Directory, TypeOK
  <2>3. LinksInv'
    <3>1. \A p \in Paths : disk'[p].kind = disk[p].kind /\ disk'[p].by = disk[p].by
      BY <2>1, <2>2, RestoredFacts DEF Restored
    <3> QED BY <2>1, <3>1 DEF IInv, LinksInv, IsPlaceholder, deferVars, Early
  <2>4. ASSUME NEW m \in 1..Len(deferreddirectories), m < k + 1
        PROVE  disk'[deferreddirectories[m].path].attrs
    <3>1. deferreddirectories[m].path \in Paths
      BY <1>0, DeferralFacts
    <3>2. CASE deferreddirectories[m].path = Directory.path
      BY <2>1, <2>2, <3>2, RestoredFacts DEF Restored
    <3>3. CASE deferreddirectories[m].path # Directory.path
      <4>1. m < k
        BY <1>0, <2>1, <2>4, <3>3, EntryFacts DEF Directory
      <4>2. disk[deferreddirectories[m].path].attrs
        BY <2>1, <4>1 DEF IInv, DirsInv
      <4> QED BY <2>1, <2>2, <3>1, <3>3, <4>2, RestoredFacts DEF Restored
    <3> QED BY <3>2, <3>3
  <2>5. DirsInv'
    BY <2>1, <2>4 DEF IInv, DirsInv, ReportedDir, deferVars, Early
  <2> QED BY <1>0, <2>1, <2>3, <2>5, FinishStep DEF IInv, NothingLeftDeferred, StopIsReported
<1>9. CASE FixDirectoryFails
  BY <1>0, <1>9, ErrorStep DEF FixDirectoryFails, IInv, StopIsReported
<1>10. CASE DirectoriesDone
  <2>1. /\ pc = "dirs" /\ pc' = "checksum" /\ k > Len(deferreddirectories)
        /\ deferreddirectories' = <<>>
        /\ UNCHANGED <<archive, disk, deferredlinks, reports, result, shouldstop>>
    BY <1>10 DEF DirectoriesDone, outcomeVars
  <2>2. LinksInv'
    BY <2>1 DEF IInv, LinksInv, IsPlaceholder, Early
  <2>3. ASSUME NEW j \in 1..Len(reports), ReportedDir(j)
        PROVE  disk[archive[reports[j].entry].path].attrs
    <3>1. PICK m \in 1..Len(deferreddirectories) :
                 deferreddirectories[m].path = archive[reports[j].entry].path
      BY <2>1, <2>3 DEF IInv, DirsInv
    <3>2. m < k
      BY <1>0, <2>1, <3>1, EntryFacts, DeferralFacts
    <3> QED BY <2>1, <3>1, <3>2 DEF IInv, DirsInv
  <2>4. DirsInv'
    BY <2>1, <2>3 DEF DirsInv, ReportedDir, Early
  <2> QED BY <1>0, <2>1, <2>2, <2>4, FinishStep DEF IInv, NothingLeftDeferred, StopIsReported
<1>11. CASE TestChecksum
  <2>1. CASE Finish("checksum")
    BY <1>0, <1>11, <2>1, ErrorStep DEF TestChecksum, IInv, StopIsReported
  <2>2. CASE Finish("none")
    <3>1. /\ pc = "checksum" /\ pc' = "returned" /\ result' = "none"
          /\ UNCHANGED <<archive, disk, deferVars, reports, shouldstop>>
      BY <1>11, <2>2 DEF TestChecksum, Finish
    <3>2. LinksInv' /\ DirsInv'
      BY <3>1 DEF LinksInv, DirsInv, Early
    <3>3. ~shouldstop
      BY <3>1 DEF IInv, StopIsReported
    <3>4. NothingLeftDeferred'
      <4>1. deferredlinks' = <<>> /\ deferreddirectories' = <<>>
        BY <3>1 DEF IInv, LinksInv, DirsInv, deferVars
      <4>2. \A p \in Paths : ~IsPlaceholder(disk[p])
        BY <3>1 DEF IInv, LinksInv
      <4>3. ASSUME NEW i \in 1..Len(archive), IsOfDirectory(archive[i]), WasReported(i)
            PROVE  disk[archive[i].path].attrs
        BY <3>1, <4>3 DEF IInv, DirsInv, ReportedDir, WasReported
      <4> QED BY <3>1, <4>1, <4>2, <4>3 DEF NothingLeftDeferred, WasReported, IsPlaceholder, IsOfDirectory
    <3> QED BY <1>0, <3>1, <3>2, <3>3, <3>4, FinishStep DEF StopIsReported
  <2> QED BY <1>11, <2>1, <2>2 DEF TestChecksum
<1>12. CASE UNCHANGED vars
  BY <1>0, <1>12
  DEF vars, deferVars, copyVars, outcomeVars, IInv, CopyInv, LinksInv, DirsInv, ReportedDir, Awaited,
      IsPlaceholder, CompleteIfReported, NothingLeftDeferred, StopIsReported, WasReported, IsUnread, IsFork,
      IsFileLike, IsOfDirectory, Entry
<1> QED BY <1>1, <1>2, <1>3, <1>4, <1>5, <1>6, <1>7, <1>8, <1>9, <1>10, <1>11, <1>12
        DEF Next, FinishExtractions

\* The extraction starts with nothing extracted and nothing put off.
LEMMA InitIInv == Init => IInv
<1> SUFFICES ASSUME Init PROVE IInv
  OBVIOUS
<1>1. TypeOK
  <2>1. archive \in Seq(EntryType) /\ Len(archive) \in Nat
    BY ArchivesAssumption DEF Init
  <2>2. disk \in [Paths -> Nodes]
    BY DEF Init, Nothing, Node, Nodes
  <2>3. deferredlinks \in Deferrals /\ deferreddirectories \in Deferrals
    BY DEF Init, Deferrals
  <2>4. reports \in Seq([entry : 1..Len(archive), error : Errors, contents : States])
    BY DEF Init
  <2>5. setbacks \in 0..MaxSetbacks /\ current \in 1..Len(archive) + 1
    BY <2>1, ArchivesAssumption DEF Init
  <2>6. k \in Nat \ {0} /\ done \in Nat /\ written \in Nat
    BY DEF Init
  <2>0. damaged \in BOOLEAN /\ shouldstop \in BOOLEAN
    BY DEF Init
  <2>7. result \in Errors
    BY DEF Init, Errors
  <2>8. unpacked \subseteq 1..Len(archive)
    BY DEF Init
  <2>9. archive \in Archives /\ pc = "parse"
    BY DEF Init
  <2> QED BY <2>0, <2>2, <2>3, <2>4, <2>5, <2>6, <2>7, <2>8, <2>9 DEF TypeOK, States
<1>2. LinksInv /\ DirsInv
  BY <1>1 DEF Init, LinksInv, DirsInv, IsPlaceholder, Nothing, Node, Early
<1> QED BY <1>1, <1>2 DEF Init, IInv, CopyInv, CompleteIfReported, NothingLeftDeferred, StopIsReported

\* The strengthened invariant holds throughout.
THEOREM Inductive == Spec => []IInv
BY InitIInv, NextKeeps, PTL DEF Spec

\* The state of XADUnarchiver and of the disk keeps its types.
THEOREM TypeCorrect == Spec => []TypeOK
<1>1. IInv => TypeOK
  BY DEF IInv
<1> QED BY <1>1, Inductive, PTL

\* runExtractor reports an entry without an error only when its file has the
\* length the dictionary gives, if it gives one, and, if its handle has a
\* checksum, all the data and nothing else, whatever failed on the way; but of a
\* resource fork without a size, which it does not read, nothing is promised
\* (XADUnarchiver.m:728-757, 951-966).
THEOREM ReportsAreTrue == Spec => []CompleteIfReported
<1>1. IInv => CompleteIfReported
  BY DEF IInv
<1> QED BY <1>1, Inductive, PTL

\* When parseAndUnarchive returns no error, finishExtractions has made every
\* deferred link and restored every directory that was reported.
THEOREM NothingIsLeft == Spec => []NothingLeftDeferred
<1>1. IInv => NothingLeftDeferred
  BY DEF IInv
<1> QED BY <1>1, Inductive, PTL

\* A stop asked for by the delegate is not forgotten.
THEOREM StopIsHeard == Spec => []StopIsReported
<1>1. IInv => StopIsReported
  BY DEF IInv
<1> QED BY <1>1, Inductive, PTL

-----------------------------------------------------------------------------
(***************************************************************************)
(* Embedded archives.  In the variant of extractEntryWithDictionary: that  *)
(* returns an XADError, an entry that was extracted as an archive is not   *)
(* written as a file as well.  (The NSError variant does write it.)        *)
(***************************************************************************)
OnceInv ==
  /\ unpacked \subseteq 1..current - 1
  /\ \A p \in Paths : disk[p].kind = "file" =>
       /\ disk[p].by \notin unpacked /\ disk[p].by <= current
       /\ pc \in {"parse", "extract"} => disk[p].by < current

FilesKept ==
  \A p \in Paths : disk'[p].kind = "file" => disk[p].kind = "file" /\ disk'[p].by = disk[p].by

\* A step that writes no file and unpacks nothing.
LEMMA OnceQuiet ==
  ASSUME TypeOK, OnceInv, unpacked' = unpacked, FilesKept, current' \in {current, current + 1},
         current' = current => (pc' \in {"parse", "extract"} => pc \in {"parse", "extract"})
  PROVE  OnceInv'
<1>1. current \in Nat /\ \A p \in Paths : disk[p].by \in Nat
  BY EntryFacts DEF TypeOK, Nodes
<1>2. CASE current' = current
  BY <1>2 DEF OnceInv, FilesKept
<1>3. CASE current' = current + 1
  <2>1. \A i \in Nat : i <= current => i < current + 1 /\ i <= current + 1
    BY <1>1
  <2>2. 1..current - 1 \subseteq 1..current + 1 - 1
    BY <1>1
  <2>3. unpacked' \subseteq 1..current' - 1
    BY <1>3, <2>2 DEF OnceInv
  <2>4. ASSUME NEW p \in Paths, disk'[p].kind = "file"
        PROVE  disk'[p].by \notin unpacked' /\ disk'[p].by <= current' /\ disk'[p].by < current'
    BY <1>1, <1>3, <2>1, <2>4 DEF OnceInv, FilesKept
  <2> QED BY <2>3, <2>4 DEF OnceInv
<1> QED BY <1>2, <1>3

\* Only the current entry is written.
LEMMA OnceWritten ==
  ASSUME TypeOK, OnceInv, unpacked' = unpacked, current' = current,
         pc' \notin {"parse", "extract"},
         disk' = Written(Entry.path)
  PROVE  OnceInv'
<1>1. /\ disk \in [Paths -> Nodes] /\ Node("file", current) \in Nodes /\ current \in Nat
      /\ Node("file", current).by = current
  BY EntryFacts, NodeFacts DEF TypeOK
<1>2. current \notin unpacked
  BY <1>1 DEF OnceInv
<1>3. ASSUME NEW p \in Paths, disk'[p].kind = "file"
      PROVE  disk'[p].by \notin unpacked /\ disk'[p].by <= current
  <2>1. CASE disk' = disk
    BY <1>3, <2>1 DEF OnceInv
  <2>2. CASE disk' = Put(disk, Entry.path, Node("file", current))
    BY <1>1, <1>2, <1>3, <2>2, PutFacts DEF OnceInv
  <2> QED BY <2>1, <2>2 DEF Written
<1> QED BY <1>3 DEF OnceInv

\* What is put somewhere is no file, and what was there may be gone.
LEMMA PutKeepsFiles ==
  ASSUME NEW d \in [Paths -> Nodes], d = disk, NEW p, NEW node \in Nodes, node.kind # "file",
         disk' = Put(d, p, node)
  PROVE  FilesKept
BY PutFacts DEF FilesKept

\* The invariant is kept.
LEMMA OnceKept ==
  ASSUME Variant = "xaderror", TypeOK, OnceInv, [Next]_vars
  PROVE  OnceInv'
<1>0. disk \in [Paths -> Nodes] /\ current \in Nat \ {0}
  BY EntryFacts DEF TypeOK
<1>1. disk' = disk => FilesKept
  BY DEF FilesKept
<1>2. ASSUME NEW p \in Paths, disk' = Restored(p)
      PROVE  FilesKept
  BY <1>0, <1>2, RestoredFacts DEF FilesKept, Restored
<1>3. ASSUME NEW err, NEW contents, Report(err, contents), unpacked' = unpacked, FilesKept
      PROVE  OnceInv'
  <2>1. current' = current + 1
    BY <1>3 DEF Report
  <2> QED BY <1>0, <1>3, <2>1, OnceQuiet
<1>4. CASE Decline \/ FindEntry
  <2>1. current' \in {current, current + 1} /\ pc \in {"parse", "extract"}
    BY <1>4 DEF Decline, FindEntry, Parsing
  <2> QED BY <1>1, <1>4, <2>1, OnceQuiet DEF Decline, FindEntry, outcomeVars
<1>5. CASE ParentRefused \/ OpenFails \/ CopyFails \/ CopyStopped \/ DirectoryRefused \/ UpdateFails
           \/ DeferDirectory
  BY <1>1, <1>3, <1>5 DEF ParentRefused, OpenFails, CopyFails, CopyStopped, DirectoryRefused, UpdateFails,
     DeferDirectory
<1>6. CASE LinkFails
  <2>1. FilesKept
    BY <1>0, <1>1, <1>6, PutKeepsFiles, NodeFacts DEF LinkFails
  <2> QED BY <1>3, <1>6, <2>1 DEF LinkFails
<1>7. CASE ParentMade \/ ExtractDirectory \/ ExtractSafeLink
  <2>1. FilesKept
    BY <1>0, <1>1, <1>7, PutKeepsFiles, NodeFacts DEF ParentMade, ExtractDirectory, ExtractSafeLink, Made
  <2> QED BY <1>7, <2>1, OnceQuiet DEF ParentMade, ExtractDirectory, ExtractSafeLink, outcomeVars
<1>8. CASE TryArchive
  <2>1. PICK outcome \in {"none", "subarchive", "error"} :
          /\ unpacked' = IF outcome = "none" THEN unpacked \cup {current} ELSE unpacked
          /\ IF SkipsTheRest(outcome)
               THEN Report(outcome, IF outcome = "none" THEN "unpacked" ELSE "partial")
               ELSE pc' = "plain" /\ UNCHANGED <<current, reports>>
    BY <1>8 DEF TryArchive
  <2>2. disk' = disk /\ pc \in {"extract", "plain"}
    BY <1>8 DEF TryArchive, Ready
  <2>3. CASE outcome = "none"
    <3>1. unpacked' = unpacked \cup {current} /\ current' = current + 1 /\ pc' = "parse"
      BY <2>1, <2>3 DEF SkipsTheRest, Report
    <3>2. \A p \in Paths : disk[p].kind = "file" => disk[p].by < current /\ disk[p].by \in Nat
      BY <1>0, <1>8 DEF OnceInv, TryArchive, Ready, Nodes
    <3>3. unpacked' \subseteq 1..current' - 1
      BY <1>0, <3>1 DEF OnceInv
    <3> QED BY <1>0, <2>2, <3>1, <3>2, <3>3 DEF OnceInv
  <2>4. CASE outcome # "none" /\ SkipsTheRest(outcome)
    BY <1>1, <1>3, <2>1, <2>2, <2>4
  <2>5. CASE outcome # "none" /\ ~SkipsTheRest(outcome)
    BY <1>1, <2>1, <2>2, <2>5, OnceQuiet
  <2> QED BY <2>3, <2>4, <2>5
<1>9. CASE OpenFile \/ ExtractUnsafeLink
  <2>1. pc' \notin {"parse", "extract"}
    BY <1>9 DEF OpenFile, ExtractUnsafeLink
  <2> QED BY <1>9, <2>1, OnceWritten DEF OpenFile, ExtractUnsafeLink, outcomeVars
<1>10. CASE CopySome \/ LinkUnwanted \/ IgnoreFork
  BY <1>1, <1>10, OnceQuiet DEF CopySome, LinkUnwanted, IgnoreFork, outcomeVars
<1>11. CASE CopyEnd
  <2>1. CASE Verdict = "none"
    BY <1>1, <1>11, <2>1, OnceQuiet DEF CopyEnd
  <2>2. CASE Verdict # "none"
    BY <1>1, <1>3, <1>11, <2>2 DEF CopyEnd
  <2> QED BY <2>1, <2>2
<1>12. CASE UpdateAttributes
  <2>1. Entry.path \in Paths
    BY <1>12, EntryFacts DEF UpdateAttributes, TypeOK, Entry
  <2> QED BY <1>2, <1>3, <1>12, <2>1 DEF UpdateAttributes
<1>13. ASSUME pc' \notin {"parse", "extract"}, UNCHANGED <<current, unpacked>>, FilesKept
       PROVE  OnceInv'
  BY <1>13, OnceQuiet
<1>14. CASE ParseRaises \/ ParseEnds \/ LinksDone \/ FixDirectoryFails \/ DirectoriesDone \/ TestChecksum
  BY <1>1, <1>13, <1>14
  DEF ParseRaises, ParseEnds, LinksDone, FixDirectoryFails, DirectoriesDone, TestChecksum, Finish, outcomeVars
<1>15. CASE FixLink \/ FixLinkFails
  <2>1. Link.path \in Paths /\ Link.entry \in Nat
    BY <1>15, DeferralFacts, EntryFacts DEF FixLink, FixLinkFails, Link, TypeOK
  <2>2. Node("unsafelink", Link.entry) \in Nodes /\ Node("unsafelink", Link.entry).kind # "file"
    BY <2>1, NodeFacts
  <2>3. /\ LinkMade \in [Paths -> Nodes]
        /\ \A p \in Paths : LinkMade[p].kind = "file" => disk[p].kind = "file" /\ LinkMade[p].by = disk[p].by
    BY <1>0, <2>1, <2>2, PutFacts DEF LinkMade
  <2>4. FilesKept
    <3>1. CASE FixLink
      BY <2>1, <2>3, <3>1, RestoredFacts DEF FixLink, FilesKept
    <3>2. CASE FixLinkFails
      <4>1. CASE disk' = disk
        BY <1>1, <4>1
      <4>2. CASE disk' = LinkMade
        BY <2>3, <4>2 DEF FilesKept
      <4>3. CASE disk' = Put(disk, Link.path, Nothing)
        BY <1>0, <4>3, PutKeepsFiles, NodeFacts
      <4> QED BY <3>2, <4>1, <4>2, <4>3 DEF FixLinkFails
    <3> QED BY <1>15, <3>1, <3>2
  <2> QED BY <1>13, <1>15, <2>4 DEF FixLink, FixLinkFails, Finish, outcomeVars
<1>16. CASE FixDirectory
  <2>1. Directory.path \in Paths
    BY <1>16, DeferralFacts, EntryFacts DEF FixDirectory, Directory, TypeOK
  <2> QED BY <1>2, <1>13, <1>16, <2>1 DEF FixDirectory, outcomeVars
<1>17. CASE UNCHANGED vars
  BY <1>1, <1>17, OnceQuiet DEF vars, outcomeVars
<1> QED BY <1>4, <1>5, <1>6, <1>7, <1>8, <1>9, <1>10, <1>11, <1>12, <1>14, <1>15, <1>16, <1>17
        DEF Next, ExtractEntry, FinishExtractions

\* _extractArchiveEntry: instead of the file, not besides it, in the XADError
\* variant of extractEntryWithDictionary:.
THEOREM ArchiveInsteadOfFileXADError ==
  ASSUME Variant = "xaderror"
  PROVE  Spec => []ArchiveInsteadOfFile
<1>1. Init => OnceInv
  BY DEF Init, OnceInv, Nothing, Node
<1>2. TypeOK /\ OnceInv /\ [Next]_vars => OnceInv'
  BY OnceKept
<1>3. OnceInv => ArchiveInsteadOfFile
  BY DEF OnceInv, ArchiveInsteadOfFile
<1> QED BY <1>1, <1>2, <1>3, TypeCorrect, PTL DEF Spec
=============================================================================
