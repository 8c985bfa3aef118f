----------------------------- MODULE Archive_proofs -----------------------------
(***************************************************************************)
(* Theorems about Archive, for every set of archives, names and files that *)
(* are there before, and any number of setbacks.                           *)
(***************************************************************************)
EXTENDS Archive, SequenceTheorems, TLAPS

Jobs == {"archive", "name", "directory", "collide", "write"}
Entries == 1..Len(dataentries)
Kinds == {"none", "file", "dir"}

(***************************************************************************)
(* The inductive invariant, in parts.                                      *)
(***************************************************************************)
ConfigInv ==
  /\ archive \in Archives
  /\ immediate \in BOOLEAN /\ sub \in BOOLEAN /\ hasdelegate \in BOOLEAN
  /\ immediate => hasdelegate

\* Every entry has a fork, and a fork is where its dictionary says.
EntryInv ==
  /\ found \in 1..(Len(archive) + 1) /\ parserstopped \in BOOLEAN
  /\ dataentries \in Seq(0..Len(archive)) /\ resourceentries \in Seq(0..Len(archive))
  /\ Len(dataentries) = Len(resourceentries)
  /\ namedict \in [Names -> 0..Len(dataentries)]
  /\ \A m \in Entries :
       /\ dataentries[m] # 0 \/ resourceentries[m] # 0
       /\ dataentries[m] # 0 => dataentries[m] < found /\ archive[dataentries[m]].fork = "data"
       /\ resourceentries[m] # 0 =>
            resourceentries[m] < found /\ archive[resourceentries[m]].fork = "resource"

\* Where the run is, and the entry it works on.
JobInv ==
  /\ pc \in Jobs \cup {"open", "parse", "checksum", "settle", "next", "returned"}
  /\ n \in Nat /\ forks \subseteq Forks /\ late \in BOOLEAN
  /\ late => immediate
  /\ immediate => pc # "next"
  /\ pc = "next" => n # 0
  /\ pc \in Jobs =>
       /\ n \in Entries
       /\ \E f \in forks : Slots(n)[f] # 0
  /\ pc = "archive" => IsArchive(n)
  /\ destfile \in Paths \cup {""} /\ todo \subseteq Forks
  /\ pc \in {"directory", "collide", "write"} => destfile \in Paths \ {""} /\ EntryName(n) # ""
  /\ pc \in {"directory", "collide"} => todo = {f \in forks : Slots(n)[f] # 0}
  /\ pc = "write" => todo # {} /\ \A f \in todo : f \in forks /\ Slots(n)[f] # 0

OutcomeInv ==
  /\ lasterror \in Errors /\ err \in Errors
  /\ result \in {"none", "yes", "no", "self", "nil"}
  /\ immediatefailed \in BOOLEAN /\ unexplained \in BOOLEAN
  /\ pc # "returned" => result = "none"

DiskInv ==
  /\ disk \in [Paths -> [kind : Kinds, data : 0..Len(archive), resource : 0..Len(archive)]]
  /\ placed \in [1..Len(archive) -> Paths \cup {""}]

TypeInv == ConfigInv /\ EntryInv /\ JobInv /\ OutcomeInv /\ DiskInv

-----------------------------------------------------------------------------
\* Numbers.
LEMMA NumberFacts ==
  ASSUME NEW L \in Nat
  PROVE  /\ 0 \in 0..L /\ 1..L \subseteq 0..L /\ 1..L \subseteq Nat
         /\ \A j \in 0..L : j # 0 => j \in 1..L
         /\ \A j \in 1..L : j # 0 /\ j + 1 \in Nat /\ j + 1 # 0
         /\ \A j \in Nat : j # 0 /\ j <= L => j \in 1..L
OBVIOUS

\* Lengths are numbers.
LEMMA LengthFacts ==
  ASSUME NEW S, NEW s \in Seq(S)
  PROVE  Len(s) \in Nat
OBVIOUS

\* What archives are made of.
LEMMA ArchiveFacts ==
  ASSUME archive \in Archives
  PROVE  /\ Len(archive) \in Nat
         /\ \A i \in 1..Len(archive) :
              /\ archive[i].name \in Names
              /\ archive[i].fork \in Forks
              /\ archive[i].kind \in {"file", "dir", "archive"}
<1>1. archive \in Seq(DictType)
  BY ArchivesAssumption
<1>2. \A i \in 1..Len(archive) : archive[i] \in DictType
  BY <1>1
<1> QED BY <1>1, <1>2 DEF DictType, Forks

\* The forks of an entry by name.
LEMMA SlotFacts ==
  ASSUME NEW m
  PROVE  /\ Slots(m)["data"] = dataentries[m] /\ Slots(m)["resource"] = resourceentries[m]
         /\ Dicts(m) = {dataentries[m], resourceentries[m]} \ {0}
BY DEF Slots, Dicts, Forks

\* The dictionaries of an entry are among those of the archive.
LEMMA DictFacts ==
  ASSUME TypeInv, NEW m \in Entries
  PROVE  /\ Dicts(m) # {} /\ Dicts(m) \subseteq 1..Len(archive)
         /\ EntryName(m) \in Names
<1>1. Dicts(m) = {dataentries[m], resourceentries[m]} \ {0}
  BY SlotFacts
<1>2. dataentries[m] \in 0..Len(archive) /\ resourceentries[m] \in 0..Len(archive)
  BY DEF TypeInv, EntryInv, Entries
<1>3. dataentries[m] # 0 \/ resourceentries[m] # 0
  BY DEF TypeInv, EntryInv
<1>4. Len(archive) \in Nat
  BY ArchiveFacts DEF TypeInv, ConfigInv
<1>5. \A j \in 0..Len(archive) : j # 0 => j \in 1..Len(archive)
  BY <1>4
<1>6. Dicts(m) # {} /\ Dicts(m) \subseteq 1..Len(archive)
  BY <1>1, <1>2, <1>3, <1>5
<1>7. (CHOOSE i \in Dicts(m) : TRUE) \in Dicts(m)
  BY <1>6
<1>8. (CHOOSE i \in Dicts(m) : TRUE) \in 1..Len(archive)
  BY <1>6, <1>7
<1> QED BY <1>6, <1>8, ArchiveFacts DEF EntryName, TypeInv, ConfigInv

-----------------------------------------------------------------------------
(***************************************************************************)
(* What foundEntryWithDictionary: does to the entries.                     *)
(***************************************************************************)
Home(i) == IF Completes(i) THEN namedict[archive[i].name] ELSE Len(dataentries) + 1

\* One entry gets dictionary found in the slot of its fork, and is the one its
\* name stands for; the others stay as they are.
LEMMA PlaceShape ==
  ASSUME TypeInv, found <= Len(archive), Place(found), NEW h, h = Home(found)
  PROVE  /\ dataentries' \in Seq(0..Len(archive)) /\ resourceentries' \in Seq(0..Len(archive))
         /\ Len(dataentries') = Len(resourceentries')
         /\ h \in Nat \ {0} /\ h \in 1..Len(dataentries')
         /\ 1..Len(dataentries') = Entries \cup {h}
         /\ Len(dataentries') = Len(dataentries) \/ Len(dataentries') = Len(dataentries) + 1
         /\ \A m \in Entries \ {h} : /\ dataentries'[m] = dataentries[m]
                                     /\ resourceentries'[m] = resourceentries[m]
         /\ archive[found].fork = "data" => dataentries'[h] = found
         /\ archive[found].fork = "resource" => resourceentries'[h] = found
         /\ Completes(found) =>
              /\ h \in Entries /\ h = namedict[archive[found].name]
              /\ archive[found].fork = "data" =>
                   dataentries[h] = 0 /\ resourceentries'[h] = resourceentries[h]
              /\ archive[found].fork = "resource" =>
                   resourceentries[h] = 0 /\ dataentries'[h] = dataentries[h]
         /\ ~Completes(found) =>
              /\ h \notin Entries
              /\ archive[found].fork = "data" => resourceentries'[h] = 0
              /\ archive[found].fork = "resource" => dataentries'[h] = 0
         /\ namedict' = [namedict EXCEPT ![archive[found].name] = h]
<1> DEFINE d == archive[found]
           L == Len(dataentries)
<1>1. /\ dataentries \in Seq(0..Len(archive)) /\ resourceentries \in Seq(0..Len(archive))
      /\ Len(resourceentries) = L /\ L \in Nat
      /\ namedict \in [Names -> 0..L] /\ found \in 1..Len(archive) /\ Len(archive) \in Nat
  BY ArchiveFacts DEF TypeInv, EntryInv, ConfigInv
<1>2. d.name \in Names /\ d.fork \in {"data", "resource"} /\ namedict[d.name] \in 0..L
  BY <1>1, ArchiveFacts DEF TypeInv, ConfigInv, Forks
<1>3. CASE Completes(found)
  <2>1. h = namedict[d.name] /\ h # 0 /\ Slots(h)[d.fork] = 0
    BY <1>3 DEF Home, Completes
  <2>2. h \in 1..L
    BY <1>1, <1>2, <2>1
  <2>3. /\ dataentries' = IF d.fork = "data" THEN [dataentries EXCEPT ![h] = found] ELSE dataentries
        /\ resourceentries' = IF d.fork = "resource" THEN [resourceentries EXCEPT ![h] = found]
                              ELSE resourceentries
        /\ namedict' = namedict
    BY <1>3, <2>1 DEF Place
  <2>4. /\ d.fork = "data" => dataentries[h] = 0
        /\ d.fork = "resource" => resourceentries[h] = 0
    BY <2>1, SlotFacts
  <2>5. namedict' = [namedict EXCEPT ![d.name] = h]
    BY <1>1, <1>2, <2>1, <2>3
  <2> HIDE DEF d, L
  <2>6. /\ dataentries' \in Seq(0..Len(archive)) /\ Len(dataentries') = L
        /\ \A m \in 1..L : dataentries'[m] = IF d.fork = "data" /\ m = h THEN found ELSE dataentries[m]
    <3>1. CASE d.fork = "data"
      BY <1>1, <2>2, <2>3, <3>1, ExceptSeq DEF L
    <3>2. CASE d.fork = "resource"
      BY <1>1, <2>2, <2>3, <3>2 DEF L
    <3> QED BY <1>2, <3>1, <3>2
  <2>7. /\ resourceentries' \in Seq(0..Len(archive)) /\ Len(resourceentries') = L
        /\ \A m \in 1..L : resourceentries'[m] = IF d.fork = "resource" /\ m = h THEN found ELSE resourceentries[m]
    <3>1. CASE d.fork = "resource"
      BY <1>1, <2>2, <2>3, <3>1, ExceptSeq DEF L
    <3>2. CASE d.fork = "data"
      BY <1>1, <2>2, <2>3, <3>2 DEF L
    <3> QED BY <1>2, <3>1, <3>2
  <2>8. h \in Entries /\ Entries \cup {h} = 1..L /\ h \in Nat \ {0}
    BY <1>1, <2>2 DEF L, Entries
  <2>9. \A m \in Entries \ {h} : /\ dataentries'[m] = dataentries[m]
                                 /\ resourceentries'[m] = resourceentries[m]
    BY <2>6, <2>7 DEF L, Entries
  <2>10. /\ d.fork = "data" => dataentries'[h] = found /\ resourceentries'[h] = resourceentries[h]
         /\ d.fork = "resource" => resourceentries'[h] = found /\ dataentries'[h] = dataentries[h]
    BY <1>2, <2>2, <2>6, <2>7
  <2> QED BY <1>3, <2>1, <2>2, <2>4, <2>5, <2>6, <2>7, <2>8, <2>9, <2>10, Zenon DEF d, L
<1>4. CASE ~Completes(found)
  <2>1. h = L + 1
    BY <1>4 DEF Home
  <2>2. /\ dataentries' = Append(dataentries, IF d.fork = "data" THEN found ELSE 0)
        /\ resourceentries' = Append(resourceentries, IF d.fork = "resource" THEN found ELSE 0)
        /\ namedict' = [namedict EXCEPT ![d.name] = h]
    BY <1>4, <2>1 DEF Place, Indexed
  <2> HIDE DEF d
  <2>3. /\ dataentries' \in Seq(0..Len(archive)) /\ Len(dataentries') = L + 1
        /\ \A m \in 1..L : dataentries'[m] = dataentries[m]
        /\ dataentries'[L + 1] = IF d.fork = "data" THEN found ELSE 0
    BY <1>1, <2>2
  <2>4. /\ resourceentries' \in Seq(0..Len(archive)) /\ Len(resourceentries') = L + 1
        /\ \A m \in 1..L : resourceentries'[m] = resourceentries[m]
        /\ resourceentries'[L + 1] = IF d.fork = "resource" THEN found ELSE 0
    BY <1>1, <2>2
  <2> QED BY <1>1, <1>4, <2>1, <2>2, <2>3, <2>4 DEF d, Entries
<1> QED BY <1>3, <1>4

-----------------------------------------------------------------------------
(***************************************************************************)
(* What the actions leave alone.                                           *)
(***************************************************************************)
LEMMA ConfigKept ==
  ASSUME [Next]_vars
  PROVE  fixedVars' = fixedVars
<1>1. CASE UNCHANGED vars
  BY <1>1 DEF vars
<1>2. CASE Open \/ OpenFails \/ FoundEntry \/ StopParser \/ ParseEnds \/ ParseRaises
  BY <1>2 DEF Open, OpenFails, FoundEntry, StopParser, ParseEnds, ParseRaises, Parsed
<1>3. CASE TestChecksum \/ Settle \/ NextEntry \/ EntriesDone
  BY <1>3 DEF TestChecksum, Settle, NextEntry, EntriesDone
<1>4. CASE ExtractArchive \/ ExtractArchiveFails \/ ExtractArchiveRaises
  BY <1>4 DEF ExtractArchive, ExtractArchiveFails, ExtractArchiveRaises, InArchive
<1>5. CASE NameEntry \/ NameUndecodable \/ DirectoryReady \/ DirectoryRefused
  BY <1>5 DEF NameEntry, NameUndecodable, DirectoryReady, DirectoryRefused, InEntry
<1>6. CASE NoCollision \/ DirectoryThere \/ Collide \/ WriteFork \/ WriteFails
  BY <1>6 DEF NoCollision, DirectoryThere, Collide, WriteFork, WriteFails, InEntry
<1> QED BY <1>1, <1>2, <1>3, <1>4, <1>5, <1>6 DEF Next

\* Entries are made while the parser runs, and then they stay.
LEMMA EntriesKept ==
  ASSUME [Next]_vars, ~FoundEntry, ~StopParser
  PROVE  entryVars' = entryVars
<1>1. CASE UNCHANGED vars
  BY <1>1 DEF vars
<1>2. CASE Open \/ OpenFails \/ ParseEnds \/ ParseRaises
  BY <1>2 DEF Open, OpenFails, ParseEnds, ParseRaises, Parsed
<1>3. CASE TestChecksum \/ Settle \/ NextEntry \/ EntriesDone
  BY <1>3 DEF TestChecksum, Settle, NextEntry, EntriesDone
<1>4. CASE ExtractArchive \/ ExtractArchiveFails \/ ExtractArchiveRaises
  BY <1>4 DEF ExtractArchive, ExtractArchiveFails, ExtractArchiveRaises, InArchive
<1>5. CASE NameEntry \/ NameUndecodable \/ DirectoryReady \/ DirectoryRefused
  BY <1>5 DEF NameEntry, NameUndecodable, DirectoryReady, DirectoryRefused, InEntry
<1>6. CASE NoCollision \/ DirectoryThere \/ Collide \/ WriteFork \/ WriteFails
  BY <1>6 DEF NoCollision, DirectoryThere, Collide, WriteFork, WriteFails, InEntry
<1> QED BY <1>1, <1>2, <1>3, <1>4, <1>5, <1>6 DEF Next

\* The disk changes where something is written, or removed by the client.
LEMMA DiskKept ==
  ASSUME [Next]_vars, ~DirectoryThere, ~Collide, ~WriteFork, ~WriteFails
  PROVE  disk' = disk /\ placed' = placed
<1>1. CASE UNCHANGED vars
  BY <1>1 DEF vars, diskVars
<1>2. CASE Open \/ OpenFails \/ FoundEntry \/ StopParser \/ ParseEnds \/ ParseRaises
  BY <1>2 DEF Open, OpenFails, FoundEntry, StopParser, ParseEnds, ParseRaises, Parsed, diskVars
<1>3. CASE TestChecksum \/ Settle \/ NextEntry \/ EntriesDone
  BY <1>3 DEF TestChecksum, Settle, NextEntry, EntriesDone, diskVars
<1>4. CASE ExtractArchive \/ ExtractArchiveFails \/ ExtractArchiveRaises
  BY <1>4 DEF ExtractArchive, ExtractArchiveFails, ExtractArchiveRaises, InArchive
<1>5. CASE NameEntry \/ NameUndecodable \/ DirectoryReady \/ DirectoryRefused \/ NoCollision
  BY <1>5 DEF NameEntry, NameUndecodable, DirectoryReady, DirectoryRefused, NoCollision
<1> QED BY <1>1, <1>2, <1>3, <1>4, <1>5 DEF Next

-----------------------------------------------------------------------------
(***************************************************************************)
(* The parts of the invariant, one by one.                                 *)
(***************************************************************************)
LEMMA EntryStep ==
  ASSUME TypeInv, [Next]_vars
  PROVE  EntryInv'
<1>1. archive' = archive
  BY ConfigKept DEF fixedVars
<1>2. Len(archive) \in Nat
  BY ArchiveFacts DEF TypeInv, ConfigInv
<1>3. CASE FoundEntry
  <2>1. found \in Nat /\ found <= Len(archive) /\ found' = found + 1 /\ Place(found)
        /\ parserstopped' = parserstopped
    BY <1>3 DEF FoundEntry, TypeInv, EntryInv
  <2>2. PICK h : h = Home(found)
    OBVIOUS
  <2>3. /\ dataentries' \in Seq(0..Len(archive)) /\ resourceentries' \in Seq(0..Len(archive))
        /\ Len(dataentries') = Len(resourceentries')
        /\ h \in 1..Len(dataentries')
        /\ 1..Len(dataentries') = Entries \cup {h}
        /\ namedict' = [namedict EXCEPT ![archive[found].name] = h]
    BY <2>1, <2>2, PlaceShape
  <2>4. /\ found \in 1..Len(archive) /\ found' \in 1..(Len(archive) + 1)
        /\ archive[found].fork \in {"data", "resource"}
    BY <1>2, <2>1, ArchiveFacts DEF TypeInv, EntryInv, ConfigInv, Forks
  <2>5. namedict' \in [Names -> 0..Len(dataentries')]
    <3>1. Len(dataentries) \in Nat /\ Len(dataentries') \in Nat
      BY <2>3 DEF TypeInv, EntryInv
    <3>2. Len(dataentries') = Len(dataentries) \/ Len(dataentries') = Len(dataentries) + 1
      BY <2>1, <2>2, PlaceShape
    <3>3. 0..Len(dataentries) \subseteq 0..Len(dataentries') /\ h \in 0..Len(dataentries')
      BY <2>3, <3>1, <3>2
    <3> QED BY <2>3, <3>3 DEF TypeInv, EntryInv
  <2>6. ASSUME NEW m \in 1..Len(dataentries')
        PROVE  /\ dataentries'[m] # 0 \/ resourceentries'[m] # 0
               /\ dataentries'[m] # 0 =>
                    dataentries'[m] < found' /\ archive[dataentries'[m]].fork = "data"
               /\ resourceentries'[m] # 0 =>
                    resourceentries'[m] < found' /\ archive[resourceentries'[m]].fork = "resource"
    <3>1. \A j \in 0..Len(archive) : j < found => j < found'
      BY <1>2, <2>1
    <3>2. \A k \in Entries : dataentries[k] \in 0..Len(archive) /\ resourceentries[k] \in 0..Len(archive)
      BY DEF TypeInv, EntryInv, Entries
    <3>3. CASE m # h
      <4>1. \A k \in Entries \ {h} :
              dataentries'[k] = dataentries[k] /\ resourceentries'[k] = resourceentries[k]
        BY <2>1, <2>2, PlaceShape
      <4>2. m \in Entries \ {h}
        BY <2>3, <2>6, <3>3
      <4> QED BY <3>1, <3>2, <4>1, <4>2 DEF TypeInv, EntryInv
    <3>4. CASE m = h
      <4>1. /\ archive[found].fork = "data" =>
                 /\ dataentries'[h] = found
                 /\ resourceentries'[h] = 0 \/ (h \in Entries /\ resourceentries'[h] = resourceentries[h])
            /\ archive[found].fork = "resource" =>
                 /\ resourceentries'[h] = found
                 /\ dataentries'[h] = 0 \/ (h \in Entries /\ dataentries'[h] = dataentries[h])
        <5>1. /\ archive[found].fork = "data" => dataentries'[h] = found
              /\ archive[found].fork = "resource" => resourceentries'[h] = found
          BY <2>1, <2>2, PlaceShape
        <5>2. Completes(found) =>
                /\ h \in Entries
                /\ archive[found].fork = "data" => resourceentries'[h] = resourceentries[h]
                /\ archive[found].fork = "resource" => dataentries'[h] = dataentries[h]
          BY <2>1, <2>2, PlaceShape
        <5>3. ~Completes(found) =>
                /\ archive[found].fork = "data" => resourceentries'[h] = 0
                /\ archive[found].fork = "resource" => dataentries'[h] = 0
          BY <2>1, <2>2, PlaceShape
        <5> QED BY <5>1, <5>2, <5>3, Zenon
      <4>2. found # 0 /\ found < found'
        BY <1>2, <2>1, <2>4
      <4>3. \A k \in Entries :
               /\ dataentries[k] # 0 => dataentries[k] < found' /\ archive[dataentries[k]].fork = "data"
               /\ resourceentries[k] # 0 =>
                    resourceentries[k] < found' /\ archive[resourceentries[k]].fork = "resource"
        BY <3>1, <3>2 DEF TypeInv, EntryInv
      <4> QED BY <2>4, <3>4, <4>1, <4>2, <4>3
    <3> QED BY <3>3, <3>4
  <2> QED BY <1>1, <2>1, <2>3, <2>4, <2>5, <2>6 DEF EntryInv, Entries, TypeInv
<1>4. CASE StopParser
  <2>1. found \in Nat /\ found <= Len(archive) /\ found' = found + 1 /\ parserstopped' = TRUE
        /\ dataentries' = dataentries /\ resourceentries' = resourceentries /\ namedict' = namedict
    BY <1>4 DEF StopParser, TypeInv, EntryInv
  <2>2. found' \in 1..(Len(archive) + 1) /\ \A j \in 0..Len(archive) : j < found => j < found'
    BY <1>2, <2>1
  <2>3. \A m \in Entries : dataentries[m] \in 0..Len(archive) /\ resourceentries[m] \in 0..Len(archive)
    BY DEF TypeInv, EntryInv, Entries
  <2> QED BY <1>1, <2>1, <2>2, <2>3 DEF EntryInv, Entries, TypeInv
<1>5. CASE ~FoundEntry /\ ~StopParser
  BY <1>1, <1>5, EntriesKept DEF entryVars, EntryInv, Entries, TypeInv
<1> QED BY <1>3, <1>4, <1>5

\* The slots of an entry hold dictionaries or nothing.
LEMMA SlotRange ==
  ASSUME TypeInv, NEW m \in Entries, NEW f \in Forks
  PROVE  Slots(m)[f] \in 0..Len(archive)
<1>1. dataentries[m] \in 0..Len(archive) /\ resourceentries[m] \in 0..Len(archive)
  BY DEF TypeInv, EntryInv, Entries
<1> QED BY <1>1, SlotFacts DEF Forks

\* The fork that is due is one still to be written.
LEMMA ForkDue ==
  ASSUME TypeInv, pc = "write"
  PROVE  /\ n \in Entries /\ Fork \in todo /\ Fork \in Forks
         /\ Slots(n)[Fork] \in 1..Len(archive)
         /\ destfile \in Paths /\ destfile # ""
<1>1. n \in Entries /\ destfile \in Paths /\ destfile # ""
  BY DEF TypeInv, JobInv, Jobs
<1>2. todo # {} /\ todo \subseteq Forks /\ \A f \in todo : f \in forks /\ Slots(n)[f] # 0
  BY DEF TypeInv, JobInv
<1>3. Fork \in todo
  BY <1>2 DEF Fork, Forks
<1>4. Slots(n)[Fork] \in 0..Len(archive) /\ Slots(n)[Fork] # 0
  BY <1>1, <1>2, <1>3, SlotRange
<1>5. Len(archive) \in Nat
  BY ArchiveFacts DEF TypeInv, ConfigInv
<1>6. \A i \in 0..Len(archive) : i # 0 => i \in 1..Len(archive)
  BY <1>5
<1>7. Slots(n)[Fork] \in 1..Len(archive)
  BY <1>4, <1>6
<1>8. Fork \in Forks
  BY <1>2, <1>3
<1> QED BY <1>1, <1>3, <1>7, <1>8

Nodes == [kind : Kinds, data : 0..Len(archive), resource : 0..Len(archive)]

\* What is written at a path is something that can be there.
LEMMA NodeFacts ==
  ASSUME Len(archive) \in Nat
  PROVE  /\ Nothing \in Nodes
         /\ \A node \in Nodes, f \in Forks, i \in 0..Len(archive) : WithFork(node, f, i) \in Nodes
         /\ \A i \in 0..Len(archive) : Node("dir", i, 0) \in Nodes
BY DEF Nodes, Nothing, Node, WithFork, Kinds, Forks

\* A directory that is there already takes all forks that are to be extracted.
LEMMA DirectoryTaken ==
  ASSUME TypeInv, DirectoryThere
  PROVE  /\ pc = "collide" /\ disk[destfile].kind = "dir" /\ IsDir(n) /\ disk' = disk
         /\ destfile \in Paths /\ destfile # ""
         /\ placed' \in [1..Len(archive) -> Paths \cup {""}]
         /\ \A i \in 1..Len(archive) :
              IF \E f \in forks : Slots(n)[f] = i THEN placed'[i] = destfile
                                               ELSE placed'[i] = placed[i]
<1>1. placed \in [1..Len(archive) -> Paths \cup {""}]
  BY DEF TypeInv, DiskInv
<1>2. pc = "collide" /\ disk[destfile].kind = "dir" /\ IsDir(n) /\ disk' = disk
  BY DEF DirectoryThere
<1>3. destfile \in Paths /\ destfile # ""
  BY <1>2 DEF TypeInv, JobInv
<1>4. placed' = [i \in 1..Len(archive) |->
                   IF \E f \in forks : Slots(n)[f] = i THEN destfile ELSE placed[i]]
  BY <1>1 DEF DirectoryThere
<1> QED BY <1>1, <1>2, <1>3, <1>4

\* The disk keeps to its range, whatever is written to it.
LEMMA DiskStep ==
  ASSUME TypeInv, [Next]_vars
  PROVE  DiskInv'
<1>1. archive' = archive
  BY ConfigKept DEF fixedVars
<1>2. /\ Len(archive) \in Nat /\ destfile \in Paths \cup {""}
      /\ disk \in [Paths -> Nodes] /\ placed \in [1..Len(archive) -> Paths \cup {""}]
  BY ArchiveFacts DEF TypeInv, ConfigInv, JobInv, DiskInv, Nodes
<1>3. SUFFICES disk' \in [Paths -> Nodes] /\ placed' \in [1..Len(archive) -> Paths \cup {""}]
  BY <1>1 DEF DiskInv, Nodes
<1>4. CASE ~DirectoryThere /\ ~Collide /\ ~WriteFork /\ ~WriteFails
  BY <1>2, <1>4, DiskKept
<1>5. CASE DirectoryThere
  BY <1>2, <1>5, DirectoryTaken
<1>6. CASE Collide
  <2>1. placed' = placed /\ (disk' = disk \/ disk' = [disk EXCEPT ![destfile] = Nothing])
    BY <1>6 DEF Collide, Overwrite, Skip, Rename, LookAgain, Abort
  <2> QED BY <1>2, <2>1, NodeFacts
<1>7. CASE WriteFork
  <2>1. PICK i : i = Slots(n)[Fork]
    OBVIOUS
  <2>2. PICK fork : fork = Fork
    OBVIOUS
  <2>3. /\ \/ disk' = disk
           \/ disk' = [disk EXCEPT ![destfile] = IF WritesDir THEN Node("dir", i, 0)
                                                ELSE WithFork(disk[destfile], fork, i)]
        /\ placed' = [placed EXCEPT ![i] = destfile]
    BY <1>7, <2>1, <2>2 DEF WriteFork
  <2>4. i \in 0..Len(archive) /\ fork \in Forks /\ destfile \in Paths
    <3>1. pc = "write"
      BY <1>7 DEF WriteFork
    <3>2. i \in 1..Len(archive) /\ fork \in Forks /\ destfile \in Paths
      BY <2>1, <2>2, <3>1, ForkDue, Zenon
    <3> QED BY <1>2, <3>2, NumberFacts
  <2>5. disk[destfile] \in Nodes
    BY <1>2, <2>4
  <2>6. Node("dir", i, 0) \in Nodes /\ WithFork(disk[destfile], fork, i) \in Nodes
    BY <1>2, <2>4, <2>5, NodeFacts
  <2> QED BY <1>2, <2>3, <2>4, <2>6
<1>8. CASE WriteFails
  <2>1. PICK fork : fork = Fork
    OBVIOUS
  <2>2. /\ disk' = disk \/ disk' = [disk EXCEPT ![destfile] = WithFork(disk[destfile], fork, 0)]
        /\ placed' = placed
    BY <1>8, <2>1 DEF WriteFails
  <2>3. fork \in Forks /\ destfile \in Paths
    BY <1>8, <2>1, ForkDue DEF WriteFails
  <2>4. WithFork(disk[destfile], fork, 0) \in Nodes
    <3>1. disk[destfile] \in Nodes
      BY <1>2, <2>3
    <3>2. 0 \in 0..Len(archive)
      BY <1>2, NumberFacts
    <3> QED BY <1>2, <2>3, <3>1, <3>2, NodeFacts
  <2> QED BY <1>2, <2>2, <2>3, <2>4
<1> QED BY <1>4, <1>5, <1>6, <1>7, <1>8

-----------------------------------------------------------------------------
(***************************************************************************)
(* The entry at work: it is left, or it goes on.                           *)
(***************************************************************************)
Left ==
  /\ immediate => pc' = "parse" /\ n' = n
  /\ ~immediate => pc' \in {"next", "returned"} /\ (n' = n \/ n' = n + 1)

GoesOn == pc' \in Jobs /\ n' = n

\* An action that ends the work on an entry.
LEMMA JobLeft ==
  ASSUME TypeInv, pc \in Jobs, entryVars' = entryVars, fixedVars' = fixedVars,
         forks' = forks, late' = late, destfile' \in Paths \cup {""}, todo' \subseteq Forks,
         Left
  PROVE  JobInv'
<1>1. n \in Nat /\ n \in Entries
  BY DEF TypeInv, JobInv
<1>2. /\ immediate => pc' = "parse" /\ n' = n
      /\ ~immediate => pc' \in {"next", "returned"} /\ (n' = n \/ n' = n + 1)
  BY DEF Left
<1>3. n' \in Nat /\ n' # 0 /\ immediate' = immediate
  <2>1. n # 0 /\ n + 1 \in Nat /\ n + 1 # 0
    <3>1. Len(dataentries) \in Nat
      <4>1. dataentries \in Seq(0..Len(archive))
        BY DEF TypeInv, EntryInv
      <4> QED BY <4>1, LengthFacts, Zenon
    <3> QED BY <1>1, <3>1, NumberFacts DEF Entries
  <2>2. n' = n \/ n' = n + 1
    BY <1>2 DEF TypeInv, ConfigInv
  <2> QED BY <1>1, <2>1, <2>2 DEF fixedVars
<1>4. forks \subseteq Forks /\ late \in BOOLEAN /\ (late => immediate)
  BY DEF TypeInv, JobInv
<1>5. pc' \in {"parse", "next", "returned"} /\ (immediate => pc' # "next")
  BY <1>2
<1> QED BY <1>3, <1>4, <1>5 DEF JobInv, Jobs, Paths

\* An action that goes on with the entry.
LEMMA JobGoesOn ==
  ASSUME TypeInv, pc \in Jobs, entryVars' = entryVars, fixedVars' = fixedVars,
         forks' = forks, late' = late, GoesOn, pc' = "archive" => pc = "archive",
         destfile' \in Paths \cup {""}, todo' \subseteq Forks,
         pc' \in {"directory", "collide", "write"} => destfile' # "" /\ EntryName(n) # "",
         pc' \in {"directory", "collide"} => todo' = {f \in forks : Slots(n)[f] # 0},
         pc' = "write" => todo' # {} /\ \A f \in todo' : f \in forks /\ Slots(n)[f] # 0
  PROVE  JobInv'
<1>1. /\ n \in Nat /\ n \in Entries /\ \E f \in forks : Slots(n)[f] # 0
      /\ forks \subseteq Forks /\ late \in BOOLEAN /\ (late => immediate)
      /\ pc = "archive" => IsArchive(n)
  BY DEF TypeInv, JobInv
<1>2. /\ dataentries' = dataentries /\ resourceentries' = resourceentries
      /\ archive' = archive /\ immediate' = immediate
  BY DEF entryVars, fixedVars
<1>3. n' = n /\ pc' \in Jobs
  BY DEF GoesOn
<1>4. (Slots(n))' = Slots(n) /\ (IsArchive(n))' = IsArchive(n) /\ Entries' = Entries
  BY <1>2, <1>3 DEF Slots, IsArchive, Entries
<1>5. (EntryName(n))' = EntryName(n)
  BY <1>2, <1>3 DEF EntryName, Dicts, Slots
<1> QED BY <1>1, <1>2, <1>3, <1>4, <1>5 DEF JobInv, Jobs

\* The parts of the state that JobInv is about, in all other actions.
LEMMA JobStep ==
  ASSUME TypeInv, [Next]_vars
  PROVE  JobInv'
<1>1. fixedVars' = fixedVars
  BY ConfigKept
<1>2. /\ n \in Nat /\ forks \subseteq Forks /\ late \in BOOLEAN /\ (late => immediate)
      /\ destfile \in Paths \cup {""} /\ todo \subseteq Forks
  BY DEF TypeInv, JobInv
<1>3. archive' = archive /\ immediate' = immediate
  BY <1>1 DEF fixedVars
<1>4. CASE UNCHANGED vars
  <2>1. /\ pc' = pc /\ n' = n /\ forks' = forks /\ late' = late /\ destfile' = destfile /\ todo' = todo
        /\ dataentries' = dataentries /\ resourceentries' = resourceentries
    BY <1>4 DEF vars, entryVars, jobVars, flowVars
  <2>2. /\ JobInv /\ Entries' = Entries /\ (Slots(n))' = Slots(n) /\ (IsArchive(n))' = IsArchive(n)
        /\ (EntryName(n))' = EntryName(n)
    BY <1>3, <2>1 DEF TypeInv, Entries, Slots, IsArchive, EntryName, Dicts
  <2> QED BY <1>3, <2>1, <2>2 DEF JobInv
<1>5. ASSUME jobVars' = jobVars, pc' \in {"parse", "checksum", "settle", "next", "returned"},
             n' \in Nat, immediate => pc' # "next", pc' = "next" => n' # 0
      PROVE  JobInv'
  <2>1. forks' = forks /\ late' = late /\ destfile' = destfile /\ todo' = todo
    BY <1>5 DEF jobVars
  <2>2. /\ pc' \notin Jobs /\ pc' \notin {"archive", "directory", "collide", "write"}
        /\ pc' \in Jobs \cup {"open", "parse", "checksum", "settle", "next", "returned"}
    BY <1>5 DEF Jobs
  <2> QED BY <1>2, <1>3, <1>5, <2>1, <2>2, Zenon DEF JobInv, Paths
<1>6. CASE Open \/ OpenFails \/ StopParser \/ TestChecksum \/ Settle \/ EntriesDone
  <2>1. jobVars' = jobVars /\ n' = n /\ pc' \in {"parse", "checksum", "settle", "returned"}
    BY <1>6 DEF Open, OpenFails, StopParser, TestChecksum, Settle, EntriesDone, flowVars
  <2>2. n' \in Nat /\ pc' # "next" /\ pc' \in {"parse", "checksum", "settle", "next", "returned"}
    BY <1>2, <2>1
  <2> QED BY <1>5, <2>1, <2>2, Zenon
<1>7. CASE ParseEnds \/ ParseRaises
  <2>1. PICK e : Parsed(e)
    BY <1>7 DEF ParseEnds, ParseRaises
  <2>2. /\ jobVars' = jobVars /\ (n' = n \/ n' = 1)
        /\ pc' \in {"checksum", "next", "returned"} /\ (immediate => pc' # "next")
        /\ pc' = "next" => n' = 1
    BY <2>1 DEF Parsed
  <2>3. /\ n' \in Nat
        /\ pc' = "next" => n' # 0
        /\ pc' \in {"parse", "checksum", "settle", "next", "returned"}
    <3>1. 1 \in Nat /\ 1 # 0
      OBVIOUS
    <3>2. n' \in Nat
      BY <1>2, <2>2, <3>1
    <3>3. pc' = "next" => n' # 0
      BY <2>2, <3>1
    <3> QED BY <2>2, <3>2, <3>3
  <2> QED BY <1>5, <2>2, <2>3, Zenon
<1>8. CASE FoundEntry
  <2>1. found <= Len(archive) /\ Place(found) /\ pc = "parse"
    BY <1>8 DEF FoundEntry
  <2>2. CASE ~immediate
    <3>1. jobVars' = jobVars /\ n' = n /\ pc' = pc
      BY <1>8, <2>2 DEF FoundEntry
    <3> QED BY <1>2, <1>5, <2>1, <3>1
  <2>3. CASE immediate
    <3>1. PICK h : h = Home(found)
      OBVIOUS
    <3>2. found # 0 /\ archive[found].fork \in {"data", "resource"}
      <4>1. found \in 1..Len(archive) /\ found # 0
        BY <2>1, ArchiveFacts, NumberFacts DEF TypeInv, EntryInv, ConfigInv
      <4> QED BY <4>1, ArchiveFacts DEF TypeInv, ConfigInv, Forks
    <3>3. /\ h \in Nat /\ h \in 1..Len(dataentries')
          /\ archive[found].fork = "data" => dataentries'[h] = found
          /\ archive[found].fork = "resource" => resourceentries'[h] = found
      BY <2>1, <3>1, PlaceShape
    <3>4. /\ n' = h /\ archive[found].fork \in forks' /\ forks' \subseteq Forks
          /\ late' \in BOOLEAN /\ todo' = {} /\ destfile' = ""
          /\ pc' \in {"archive", "name"}
          /\ pc' = "archive" => archive[found].fork = "data" /\ archive[found].kind = "archive"
      BY <1>8, <2>3, <3>1, <3>2 DEF FoundEntry, Start, Home, Forks
    <3>5. (Slots(h))'[archive[found].fork] = found
      BY <3>2, <3>3 DEF Slots, Forks
    <3>6. pc' = "archive" => (IsArchive(h))'
      BY <1>3, <3>2, <3>3, <3>4 DEF IsArchive
    <3>7. /\ \E f \in forks' : (Slots(h))'[f] # 0
          /\ h \in Entries'
      BY <3>2, <3>3, <3>4, <3>5 DEF Entries
    <3> QED BY <1>3, <2>3, <3>3, <3>4, <3>6, <3>7 DEF JobInv, Jobs, Paths
  <2> QED BY <2>2, <2>3
<1>9. CASE NextEntry
  <2>1. /\ pc = "next" /\ n <= Len(dataentries) /\ entryVars' = entryVars
        /\ n' = n /\ forks' = Forks /\ late' = FALSE /\ todo' = {} /\ destfile' = ""
        /\ pc' \in {"archive", "name"} /\ (pc' = "archive" => IsArchive(n))
    BY <1>9 DEF NextEntry, Start
  <2>2. dataentries' = dataentries /\ resourceentries' = resourceentries
    BY <2>1 DEF entryVars
  <2>3. Entries' = Entries /\ (Slots(n))' = Slots(n) /\ (IsArchive(n))' = IsArchive(n)
    BY <1>3, <2>1, <2>2 DEF Entries, Slots, IsArchive
  <2>4. n \in Entries
    <3>1. n # 0
      BY <2>1 DEF TypeInv, JobInv
    <3>2. Len(dataentries) \in Nat
      BY LengthFacts, Zenon DEF TypeInv, EntryInv
    <3> QED BY <1>2, <2>1, <3>1, <3>2, NumberFacts DEF Entries
  <2>5. Slots(n)["data"] # 0 \/ Slots(n)["resource"] # 0
    <3>1. dataentries[n] # 0 \/ resourceentries[n] # 0
      BY <2>4 DEF TypeInv, EntryInv
    <3> QED BY <3>1, SlotFacts, Zenon
  <2> QED BY <1>2, <1>3, <2>1, <2>3, <2>4, <2>5 DEF JobInv, Jobs, Forks, Paths
<1>10. CASE ExtractArchive \/ ExtractArchiveFails \/ ExtractArchiveRaises
  <2>1. pc = "archive" /\ entryVars' = entryVars /\ jobVars' = jobVars
    BY <1>10 DEF ExtractArchive, ExtractArchiveFails, ExtractArchiveRaises, InArchive
  <2>2. forks' = forks /\ late' = late /\ destfile' = destfile /\ todo' = todo
    BY <2>1 DEF jobVars
  <2>3. Left \/ (GoesOn /\ pc' \in {"name", "archive"})
    <3>1. ASSUME NEW res, ArchiveAnswered(res) PROVE Left \/ (GoesOn /\ pc' = "name")
      BY <3>1 DEF ArchiveAnswered, Finished, After, Left, GoesOn, Jobs
    <3>2. UNCHANGED flowVars => GoesOn /\ pc' = "archive"
      BY <2>1 DEF flowVars, GoesOn, Jobs
    <3>3. ArchiveAnswered(TRUE) \/ ArchiveAnswered(FALSE) \/ UNCHANGED flowVars
      BY <1>10 DEF ExtractArchive, ExtractArchiveFails, ExtractArchiveRaises
    <3> QED BY <3>1, <3>2, <3>3
  <2> QED BY <1>1, <1>2, <2>1, <2>2, <2>3, JobLeft, JobGoesOn DEF Jobs
<1>11. CASE NameEntry \/ NameUndecodable \/ DirectoryReady \/ DirectoryRefused
            \/ NoCollision \/ DirectoryThere \/ Collide \/ WriteFork \/ WriteFails
  <2>1. /\ pc \in {"name", "directory", "collide", "write"} /\ pc \in Jobs
        /\ entryVars' = entryVars /\ forks' = forks /\ late' = late
    BY <1>11 DEF NameEntry, NameUndecodable, DirectoryReady, DirectoryRefused, NoCollision,
       DirectoryThere, Collide, WriteFork, WriteFails, InEntry, Jobs
  <2>2. n \in Entries /\ EntryName(n) \in Names
    BY <2>1, DictFacts DEF TypeInv, JobInv
  <2>3. ASSUME destfile' = destfile, todo' = todo, Left PROVE JobInv'
    BY <1>1, <1>2, <2>1, <2>3, JobLeft
  <2>4. ASSUME destfile' = destfile, todo' = todo, UNCHANGED flowVars PROVE JobInv'
    BY <1>1, <1>2, <2>1, <2>4, JobGoesOn DEF GoesOn, flowVars, Jobs, TypeInv, JobInv
  <2>5. ASSUME destfile' = EntryName(n), todo' = {f \in forks : Slots(n)[f] # 0},
               EntryName(n) # "", pc' = "directory", n' = n
        PROVE  JobInv'
    BY <1>1, <1>2, <2>1, <2>2, <2>5, JobGoesOn DEF GoesOn, Jobs, Paths
  <2>6. \A res : Finished(res) => Left
    BY DEF Finished, After, Left
  <2>7. CASE NameEntry
    <3>1. CASE EntryName(n) = ""
      BY <2>3, <2>6, <2>7, <3>1 DEF NameEntry
    <3>2. CASE EntryName(n) # ""
      BY <2>5, <2>7, <3>2 DEF NameEntry, Begin, Waits
    <3> QED BY <3>1, <3>2
  <2>8. CASE NameUndecodable \/ DirectoryRefused
    <3>1. destfile' = destfile /\ todo' = todo /\ (Left \/ UNCHANGED flowVars)
      BY <2>6, <2>8 DEF NameUndecodable, DirectoryRefused, AskAbout, FailWith
    <3> QED BY <2>3, <2>4, <3>1
  <2>9. ASSUME destfile' = destfile, todo' = todo, n' = n, pc = "directory", pc' = "collide" PROVE JobInv'
    <3>1. destfile # "" /\ EntryName(n) # "" /\ todo = {f \in forks : Slots(n)[f] # 0}
      BY <2>9 DEF TypeInv, JobInv
    <3> QED BY <1>1, <1>2, <2>1, <2>9, <3>1, JobGoesOn DEF GoesOn, Jobs
  <2>10. CASE DirectoryReady
    BY <2>9, <2>10 DEF DirectoryReady, Waits
  <2>11. ASSUME destfile' = destfile, todo' = todo, n' = n, pc = "collide", pc' = "write" PROVE JobInv'
    <3>1. destfile # "" /\ EntryName(n) # "" /\ todo = {f \in forks : Slots(n)[f] # 0}
      BY <2>11 DEF TypeInv, JobInv
    <3>2. \E f \in forks : Slots(n)[f] # 0
      BY <2>1 DEF TypeInv, JobInv
    <3>3. todo # {} /\ \A f \in todo : f \in forks /\ Slots(n)[f] # 0
      <4>1. PICK f \in forks : Slots(n)[f] # 0
        BY <3>2, Zenon
      <4>2. f \in todo
        BY <3>1, <4>1, Zenon
      <4>3. \A g \in todo : g \in forks /\ Slots(n)[g] # 0
        BY <3>1, Zenon
      <4> QED BY <4>2, <4>3
    <3>4. GoesOn
      BY <2>11 DEF GoesOn, Jobs
    <3> QED BY <1>1, <1>2, <2>1, <2>11, <3>1, <3>3, <3>4, JobGoesOn
  <2>12. CASE NoCollision
    BY <2>11, <2>12 DEF NoCollision, Waits
  <2>13. CASE DirectoryThere
    BY <2>3, <2>6, <2>13 DEF DirectoryThere
  <2>14. CASE Collide
    <3>1. pc = "collide" /\ todo' = todo /\ (Overwrite \/ Skip \/ Rename \/ LookAgain \/ Abort)
      BY <2>14 DEF Collide
    <3>2. CASE Overwrite
      BY <2>11, <3>1, <3>2 DEF Overwrite, Waits
    <3>3. CASE Skip \/ Abort
      BY <2>3, <2>6, <3>1, <3>3 DEF Skip, Abort
    <3>4. CASE LookAgain
      BY <2>4, <3>1, <3>4 DEF LookAgain
    <3>5. CASE Rename
      <4>1. destfile' \in Renames /\ n' = n /\ pc' = pc
        BY <3>5 DEF Rename, flowVars
      <4>2. destfile' \in Paths /\ destfile' # ""
        BY <4>1, ArchivesAssumption DEF Paths
      <4>3. EntryName(n) # "" /\ todo = {f \in forks : Slots(n)[f] # 0}
        BY <3>1 DEF TypeInv, JobInv
      <4> QED BY <1>1, <1>2, <2>1, <3>1, <4>1, <4>2, <4>3, JobGoesOn DEF GoesOn, Jobs
    <3> QED BY <3>1, <3>2, <3>3, <3>4, <3>5
  <2>15. CASE WriteFork
    <3>1. /\ pc = "write" /\ destfile' = destfile /\ todo' = todo \ {Fork}
          /\ IF todo' = {} THEN Finished(TRUE) ELSE UNCHANGED flowVars
      BY <2>15 DEF WriteFork
    <3>2. destfile # "" /\ EntryName(n) # "" /\ \A f \in todo : f \in forks /\ Slots(n)[f] # 0
      BY <3>1 DEF TypeInv, JobInv
    <3>3. CASE todo' = {}
      BY <1>1, <1>2, <2>1, <2>6, <3>1, <3>3, JobLeft
    <3>4. CASE todo' # {}
      <4>1. n' = n /\ pc' = pc
        BY <3>1, <3>4 DEF flowVars
      <4> QED BY <1>1, <1>2, <2>1, <3>1, <3>2, <3>4, <4>1, JobGoesOn DEF GoesOn, Jobs
    <3> QED BY <3>3, <3>4
  <2>16. CASE WriteFails
    <3>1. \/ Finished(FALSE) /\ todo' = todo /\ destfile' = destfile
          \/ Finished(TRUE) /\ todo' = todo /\ destfile' = destfile
          \/ pc' = "directory" /\ n' = n /\ Begin
      BY <2>16 DEF WriteFails, Waits
    <3>2. EntryName(n) # ""
      BY <2>16 DEF WriteFails, TypeInv, JobInv
    <3> QED BY <2>3, <2>5, <2>6, <3>1, <3>2 DEF Begin
  <2> QED BY <1>11, <2>7, <2>8, <2>10, <2>12, <2>13, <2>14, <2>15, <2>16
<1> QED BY <1>4, <1>6, <1>7, <1>8, <1>9, <1>10, <1>11 DEF Next

-----------------------------------------------------------------------------
(***************************************************************************)
(* Errors and results.                                                     *)
(***************************************************************************)
\* What an inner archive may return.
LEMMA OutcomeFacts ==
  ASSUME NEW o \in SubOutcomes
  PROVE  /\ o.err \in Errors /\ o.made \in BOOLEAN /\ o.failed \in BOOLEAN
         /\ Unpacked(o) => o.err # "break"
         /\ ~Unpacked(o) /\ o.err = "break" => o.failed
<1>1. \E e \in Errors :
        \/ o = Outcome(FALSE, FALSE, e) /\ e # "break"
        \/ o = Outcome(TRUE, FALSE, e) /\ e # "break"
        \/ o = Outcome(TRUE, TRUE, e)
  BY DEF SubOutcomes, Errors
<1>2. PICK e \in Errors :
        \/ o = Outcome(FALSE, FALSE, e) /\ e # "break"
        \/ o = Outcome(TRUE, FALSE, e) /\ e # "break"
        \/ o = Outcome(TRUE, TRUE, e)
  BY <1>1
<1>3. CASE o = Outcome(FALSE, FALSE, e) /\ e # "break"
  BY <1>3 DEF Outcome, Unpacked
<1>4. CASE o = Outcome(TRUE, FALSE, e) /\ e # "break"
  BY <1>4 DEF Outcome, Unpacked
<1>5. CASE o = Outcome(TRUE, TRUE, e)
  BY <1>5 DEF Outcome, Unpacked
<1> QED BY <1>2, <1>3, <1>4, <1>5

\* Errors are errors.
LEMMA ErrorStep ==
  ASSUME TypeInv, [Next]_vars
  PROVE  lasterror' \in Errors /\ err' \in Errors
<1>1. lasterror \in Errors /\ err \in Errors
  BY DEF TypeInv, OutcomeInv
<1>2. CASE UNCHANGED vars
  BY <1>1, <1>2 DEF vars
<1>3. CASE Open \/ OpenFails \/ FoundEntry \/ StopParser
  BY <1>1, <1>3 DEF Open, OpenFails, FoundEntry, StopParser, Errors
<1>4. CASE ParseEnds \/ ParseRaises
  <2>1. \E e \in Errors : Parsed(e)
    BY <1>4 DEF ParseEnds, ParseRaises, Errors
  <2>2. PICK e \in Errors : Parsed(e)
    BY <2>1
  <2>3. lasterror' \in {e, lasterror} /\ err' \in {lasterror', e, err}
    BY <2>2 DEF Parsed
  <2> QED BY <1>1, <2>2, <2>3
<1>5. CASE TestChecksum \/ Settle \/ NextEntry \/ EntriesDone
  BY <1>1, <1>5 DEF TestChecksum, Settle, NextEntry, EntriesDone, Errors
<1>6. CASE ExtractArchive \/ ExtractArchiveFails \/ ExtractArchiveRaises
  <2>1. err' = err
    BY <1>6 DEF ExtractArchive, ExtractArchiveFails, ExtractArchiveRaises, InArchive
  <2>2. lasterror' = lasterror \/ \E o \in SubOutcomes : lasterror' = o.err
    BY <1>6 DEF ExtractArchive, ExtractArchiveFails, ExtractArchiveRaises
  <2> QED BY <1>1, <2>1, <2>2, OutcomeFacts
<1>7. CASE NameEntry \/ NameUndecodable \/ DirectoryReady \/ DirectoryRefused
            \/ NoCollision \/ DirectoryThere
  BY <1>1, <1>7 DEF NameEntry, NameUndecodable, DirectoryReady, DirectoryRefused, NoCollision,
     DirectoryThere, AskAbout, FailWith, InEntry, Errors
<1>8. CASE Collide
  BY <1>1, <1>8 DEF Collide, Overwrite, Skip, Rename, LookAgain, Abort, InEntry, Errors
<1>9. CASE WriteFork \/ WriteFails
  BY <1>1, <1>9 DEF WriteFork, WriteFails, InEntry, Errors
<1> QED BY <1>2, <1>3, <1>4, <1>5, <1>6, <1>7, <1>8, <1>9 DEF Next

\* Where a run goes when an entry is done with: its failure is noted, or is the
\* result.
Done(res) ==
  /\ immediate => /\ pc' = "parse" /\ n' = n /\ result' = result
                  /\ immediatefailed' = (immediatefailed \/ ~res)
  /\ ~immediate /\ res => pc' = "next" /\ n' = n + 1 /\ result' = result
  /\ ~immediate /\ ~res => pc' = "returned" /\ result' = "no"
  /\ ~immediate => immediatefailed' = immediatefailed

\* What the answers to extractEntry: and extractArchiveEntry: lead to.
LEMMA FinishedIsDone ==
  /\ Finished(TRUE) => Done(TRUE)
  /\ Finished(FALSE) => Done(FALSE)
  /\ \A res : ArchiveAnswered(res) =>
       \/ ~res /\ lasterror' = "dataformat" /\ pc' = "name" /\ UNCHANGED <<n, immediatefailed, result>>
       \/ (res /\ ~late /\ Done(TRUE))
       \/ ((~res \/ late) /\ Done(FALSE))
<1>1. Finished(TRUE) => Done(TRUE)
  BY DEF Finished, Done, After
<1>2. Finished(FALSE) => Done(FALSE)
  BY DEF Finished, Done, After
<1>3. ASSUME NEW res, ArchiveAnswered(res)
      PROVE  \/ ~res /\ lasterror' = "dataformat" /\ pc' = "name" /\ UNCHANGED <<n, immediatefailed, result>>
             \/ (res /\ ~late /\ Done(TRUE))
             \/ ((~res \/ late) /\ Done(FALSE))
  <2>1. CASE ~res /\ lasterror' = "dataformat"
    BY <1>3, <2>1 DEF ArchiveAnswered
  <2>2. CASE ~(~res /\ lasterror' = "dataformat")
    <3>1. Finished(res /\ ~late)
      BY <1>3, <2>2 DEF ArchiveAnswered
    <3>2. CASE res /\ ~late
      BY <3>1, <3>2 DEF Finished, Done, After
    <3>3. CASE ~res \/ late
      BY <3>1, <3>3 DEF Finished, Done, After
    <3> QED BY <3>2, <3>3
  <2> QED BY <2>1, <2>2
<1> QED BY <1>1, <1>2, <1>3, Zenon

\* What is returned, and whether anything has failed, keeps to its range.
LEMMA ResultStep ==
  ASSUME TypeInv, [Next]_vars
  PROVE  /\ result' \in {"none", "yes", "no", "self", "nil"}
         /\ immediatefailed' \in BOOLEAN /\ unexplained' \in BOOLEAN
         /\ pc' # "returned" => result' = "none"
<1>1. /\ result \in {"none", "yes", "no", "self", "nil"}
      /\ immediatefailed \in BOOLEAN /\ unexplained \in BOOLEAN
      /\ pc # "returned" => result = "none"
      /\ late \in BOOLEAN /\ immediate \in BOOLEAN
  BY DEF TypeInv, OutcomeInv, JobInv, ConfigInv
<1>2. CASE UNCHANGED vars
  BY <1>1, <1>2 DEF vars, flowVars, historyVars
<1>3. ASSUME pc # "returned", unexplained' \in BOOLEAN,
             UNCHANGED <<immediatefailed, result>> \/ Done(TRUE) \/ Done(FALSE)
      PROVE  /\ result' \in {"none", "yes", "no", "self", "nil"}
             /\ immediatefailed' \in BOOLEAN /\ unexplained' \in BOOLEAN
             /\ pc' # "returned" => result' = "none"
  BY <1>1, <1>3 DEF Done
<1>4. CASE Open \/ FoundEntry \/ StopParser \/ NextEntry \/ EntriesDone
  <2>1. pc # "returned" /\ immediatefailed' = immediatefailed /\ result' = result /\ unexplained' = unexplained
    BY <1>4 DEF Open, FoundEntry, StopParser, NextEntry, EntriesDone, flowVars, historyVars
  <2> QED BY <1>1, <1>3, <2>1
<1>5. CASE OpenFails \/ Settle
  <2>1. /\ pc' = "returned" /\ result' \in {"nil", "yes", "self"} /\ immediatefailed' = immediatefailed
        /\ unexplained' \in BOOLEAN
    BY <1>1, <1>5 DEF OpenFails, Settle, historyVars
  <2> QED BY <1>1, <2>1
<1>6. CASE ParseEnds \/ ParseRaises
  <2>1. /\ pc = "parse" /\ unexplained' = unexplained /\ immediatefailed' = immediatefailed
        /\ result' = result \/ (pc' = "returned" /\ result' = "nil")
    BY <1>6 DEF ParseEnds, ParseRaises, Parsed, historyVars
  <2> QED BY <1>1, <2>1
<1>7. CASE TestChecksum
  <2>1. pc = "checksum" /\ immediatefailed' \in BOOLEAN /\ unexplained' = unexplained /\ result' = result
    BY <1>1, <1>7 DEF TestChecksum, historyVars
  <2> QED BY <1>1, <2>1
<1>8. CASE ExtractArchive \/ ExtractArchiveFails \/ ExtractArchiveRaises
  <2>1. pc = "archive"
    BY <1>8 DEF ExtractArchive, ExtractArchiveFails, ExtractArchiveRaises, InArchive
  <2>2. unexplained' \in BOOLEAN
    BY <1>1, <1>8 DEF ExtractArchive, ExtractArchiveFails, ExtractArchiveRaises
  <2>3. ArchiveAnswered(TRUE) \/ ArchiveAnswered(FALSE) \/ UNCHANGED flowVars
    BY <1>8 DEF ExtractArchive, ExtractArchiveFails, ExtractArchiveRaises
  <2>4. UNCHANGED <<immediatefailed, result>> \/ Done(TRUE) \/ Done(FALSE)
    BY <2>3, FinishedIsDone DEF flowVars
  <2> QED BY <1>3, <2>1, <2>2, <2>4
<1>9. CASE NameEntry \/ NameUndecodable \/ DirectoryReady \/ DirectoryRefused
            \/ NoCollision \/ DirectoryThere \/ Collide \/ WriteFork \/ WriteFails
  <2>1. pc # "returned" /\ unexplained' = unexplained
    BY <1>9 DEF NameEntry, NameUndecodable, DirectoryReady, DirectoryRefused, NoCollision, DirectoryThere,
       Collide, WriteFork, WriteFails, InEntry
  <2>2. Finished(TRUE) \/ Finished(FALSE) \/ UNCHANGED <<immediatefailed, result>>
    BY <1>9 DEF NameEntry, NameUndecodable, DirectoryReady, DirectoryRefused, NoCollision, DirectoryThere,
       Collide, Overwrite, Skip, Rename, LookAgain, Abort, WriteFork, WriteFails, AskAbout, FailWith,
       Waits, flowVars
  <2> QED BY <1>1, <1>3, <2>1, <2>2, FinishedIsDone
<1> QED BY <1>2, <1>4, <1>5, <1>6, <1>7, <1>8, <1>9 DEF Next

\* The parts together.
LEMMA TypeStep ==
  ASSUME TypeInv, [Next]_vars
  PROVE  TypeInv'
<1>1. ConfigInv'
  BY ConfigKept DEF TypeInv, ConfigInv, fixedVars
<1>2. OutcomeInv'
  BY ErrorStep, ResultStep DEF OutcomeInv
<1> QED BY <1>1, <1>2, EntryStep, JobStep, DiskStep DEF TypeInv

\* At first there are no entries.
LEMMA TypeInit ==
  ASSUME Init
  PROVE  TypeInv
<1>1. ConfigInv
  BY DEF Init, ConfigInv
<1>2. Len(archive) \in Nat
  BY <1>1, ArchiveFacts DEF ConfigInv
<1>3. EntryInv
  <2>1. /\ found = 1 /\ parserstopped = FALSE /\ dataentries = <<>> /\ resourceentries = <<>>
        /\ namedict = [name \in Names |-> 0]
    BY DEF Init
  <2>2. Len(<<>>) = 0 /\ <<>> \in Seq(0..Len(archive)) /\ 1..0 = {} /\ 0 \in 0..0
    OBVIOUS
  <2>3. 1 \in 1..(Len(archive) + 1)
    BY <1>2
  <2> QED BY <2>1, <2>2, <2>3 DEF EntryInv, Entries
<1>4. JobInv
  BY DEF Init, JobInv, Jobs, Paths, Forks
<1>5. OutcomeInv
  BY DEF Init, OutcomeInv, Errors
<1>6. DiskInv
  <2>1. /\ disk = [p \in Paths |-> IF p \in OldFiles THEN Node("file", 0, 0) ELSE Nothing]
        /\ placed = [i \in 1..Len(archive) |-> ""]
    BY DEF Init
  <2>2. Nothing \in Nodes /\ Node("file", 0, 0) \in Nodes
    <3>1. 0 \in 0..Len(archive)
      BY <1>2, NumberFacts
    <3> QED BY <3>1 DEF Nodes, Nothing, Node, Kinds
  <2> QED BY <2>1, <2>2 DEF DiskInv, Nodes
<1> QED BY <1>1, <1>3, <1>4, <1>5, <1>6 DEF TypeInv

\* TypeInv is inductive as it stands.
LEMMA TypeInductive == Spec => []TypeInv
BY TypeInit, TypeStep, PTL DEF Spec

\* TypeOK: the entry at work exists, and what is written is there.
THEOREM TypeCorrect == Spec => []TypeOK
<1>1. TypeInv => TypeOK
  <2> SUFFICES ASSUME TypeInv PROVE TypeOK
    OBVIOUS
  <2>1. disk \in [Paths -> [kind : {"none", "file", "dir"}, data : 0..Len(archive),
                            resource : 0..Len(archive)]]
    BY DEF TypeInv, DiskInv, Kinds
  <2>2. pc \in {"open", "parse", "checksum", "settle", "next", "archive", "name", "directory",
                "collide", "write", "returned"}
    BY DEF TypeInv, JobInv, Jobs
  <2> QED BY <2>1, <2>2 DEF TypeInv, ConfigInv, EntryInv, JobInv, OutcomeInv, DiskInv, TypeOK, Jobs, Entries
<1> QED BY <1>1, TypeInductive, PTL

-----------------------------------------------------------------------------
(***************************************************************************)
(* What an action of an entry at work comes to.                            *)
(***************************************************************************)
AtWork ==
  \/ ExtractArchive \/ ExtractArchiveFails \/ ExtractArchiveRaises
  \/ NameEntry \/ NameUndecodable \/ DirectoryReady \/ DirectoryRefused
  \/ NoCollision \/ DirectoryThere \/ Collide
  \/ WriteFork \/ WriteFails

\* No break becomes the last error.
Harmless == lasterror' = lasterror \/ lasterror' # "break"

Effect ==
  /\ lasterror' = "none" => lasterror = "none"
  /\ unexplained => unexplained'
  /\ err' = err
  /\ \/ Done(TRUE) /\ Harmless
     \/ Done(FALSE) /\ (lasterror' # "none" \/ unexplained')
     \/ pc' \in Jobs /\ UNCHANGED <<n, immediatefailed, result>> /\ Harmless

\* An entry at work fails with a reason, or goes on, or is done.
LEMMA WorkEffect ==
  ASSUME TypeInv, AtWork
  PROVE  Effect /\ pc \in Jobs /\ entryVars' = entryVars /\ fixedVars' = fixedVars
<1>1. unexplained \in BOOLEAN /\ immediate \in BOOLEAN /\ late \in BOOLEAN
  BY DEF TypeInv, OutcomeInv, ConfigInv, JobInv
<1>2. ASSUME lasterror' = lasterror, unexplained' = unexplained, err' = err,
             Finished(TRUE) \/ (pc' \in Jobs /\ UNCHANGED <<n, immediatefailed, result>>)
      PROVE  Effect
  BY <1>2, FinishedIsDone DEF Effect, Harmless
<1>3. ASSUME lasterror' # "none", unexplained' = unexplained, err' = err, Finished(FALSE)
      PROVE  Effect
  BY <1>3, FinishedIsDone DEF Effect
<1>4. CASE ExtractArchive
  <2>1. PICK o \in SubOutcomes : Unpacked(o) /\ lasterror' = (IF o.err = "none" THEN lasterror ELSE o.err)
    BY <1>4 DEF ExtractArchive
  <2>2. /\ pc = "archive" /\ entryVars' = entryVars /\ fixedVars' = fixedVars /\ err' = err
        /\ unexplained' = (unexplained \/ late) /\ ArchiveAnswered(TRUE)
    BY <1>4 DEF ExtractArchive, InArchive
  <2>3. Harmless /\ (lasterror' = "none" => lasterror = "none")
    BY <2>1, OutcomeFacts DEF Harmless
  <2>4. (~late /\ Done(TRUE)) \/ (late /\ Done(FALSE))
    BY <2>2, FinishedIsDone
  <2> QED BY <1>1, <2>2, <2>3, <2>4 DEF Effect, Jobs
<1>5. CASE ExtractArchiveFails
  <2>1. /\ pc = "archive" /\ entryVars' = entryVars /\ fixedVars' = fixedVars /\ err' = err
    BY <1>5 DEF ExtractArchiveFails, InArchive
  <2>2. PICK o \in SubOutcomes :
          /\ lasterror' = IF o.err = "none" THEN lasterror ELSE o.err
          /\ unexplained' = (unexplained \/ o.err = "none")
          /\ \/ ArchiveAnswered(FALSE)
             \/ /\ o.err \notin {"break", "dataformat"}
                /\ ArchiveAnswered(TRUE) \/ UNCHANGED flowVars
    BY <1>5 DEF ExtractArchiveFails
  <2>3. /\ lasterror' = "none" => lasterror = "none"
        /\ unexplained => unexplained'
        /\ lasterror' # "none" \/ unexplained'
        /\ o.err # "break" => Harmless
        /\ lasterror' = "dataformat" => Harmless
    BY <1>1, <2>2 DEF Harmless
  <2>4. \/ Done(FALSE)
        \/ pc' = "name" /\ UNCHANGED <<n, immediatefailed, result>> /\ lasterror' = "dataformat"
        \/ Done(TRUE) /\ o.err # "break"
        \/ pc' = "archive" /\ UNCHANGED <<n, immediatefailed, result>> /\ o.err # "break"
    <3>1. CASE ArchiveAnswered(FALSE)
      BY <3>1, FinishedIsDone
    <3>2. CASE ArchiveAnswered(TRUE) /\ o.err # "break"
      BY <3>2, FinishedIsDone
    <3>3. CASE UNCHANGED flowVars /\ o.err # "break"
      BY <2>1, <3>3 DEF flowVars
    <3> QED BY <2>2, <3>1, <3>2, <3>3
  <2> QED BY <2>1, <2>3, <2>4 DEF Effect, Jobs
<1>6. CASE ExtractArchiveRaises
  <2>1. /\ pc = "archive" /\ entryVars' = entryVars /\ fixedVars' = fixedVars /\ err' = err
        /\ unexplained' = TRUE /\ ArchiveAnswered(FALSE) /\ lasterror' = lasterror
    BY <1>6 DEF ExtractArchiveRaises, InArchive
  <2>2. Done(FALSE) \/ (pc' = "name" /\ UNCHANGED <<n, immediatefailed, result>>)
    BY <2>1, FinishedIsDone
  <2> QED BY <2>1, <2>2 DEF Effect, Jobs, Harmless
<1>7. CASE NameEntry \/ NameUndecodable \/ DirectoryReady \/ DirectoryRefused
            \/ NoCollision \/ DirectoryThere \/ Collide \/ WriteFork \/ WriteFails
  <2>1. /\ pc \in Jobs /\ entryVars' = entryVars /\ fixedVars' = fixedVars /\ err' = err
        /\ unexplained' = unexplained
    BY <1>7 DEF NameEntry, NameUndecodable, DirectoryReady, DirectoryRefused, NoCollision,
       DirectoryThere, Collide, WriteFork, WriteFails, InEntry, Jobs
  <2>2. \A error \in {"other"} : AskAbout(error) =>
          \/ Finished(TRUE) /\ lasterror' = lasterror
          \/ UNCHANGED flowVars /\ lasterror' = lasterror
          \/ Finished(FALSE) /\ lasterror' # "none"
    BY DEF AskAbout, FailWith
  <2>3. UNCHANGED flowVars => pc' \in Jobs /\ UNCHANGED <<n, immediatefailed, result>>
    BY <2>1 DEF flowVars
  <2>4. CASE NameEntry
    <3>1. lasterror' = lasterror
      BY <2>4 DEF NameEntry
    <3>2. Finished(TRUE) \/ (pc' \in Jobs /\ UNCHANGED <<n, immediatefailed, result>>)
      BY <2>4 DEF NameEntry, Waits, Jobs
    <3> QED BY <1>2, <2>1, <3>1, <3>2
  <2>5. CASE NameUndecodable \/ DirectoryRefused
    <3>1. AskAbout("other")
      BY <2>5 DEF NameUndecodable, DirectoryRefused
    <3> QED BY <1>2, <1>3, <2>1, <2>2, <2>3, <3>1
  <2>6. CASE DirectoryReady \/ NoCollision \/ DirectoryThere
    <3>1. lasterror' = lasterror
      BY <2>6 DEF DirectoryReady, NoCollision, DirectoryThere
    <3>2. Finished(TRUE) \/ (pc' \in Jobs /\ UNCHANGED <<n, immediatefailed, result>>)
      BY <2>6 DEF DirectoryReady, NoCollision, DirectoryThere, Waits, Jobs
    <3> QED BY <1>2, <2>1, <3>1, <3>2
  <2>7. CASE Collide
    <3>1. CASE Abort
      <4>1. lasterror' # "none" /\ Finished(FALSE)
        BY <3>1 DEF Abort
      <4> QED BY <1>3, <2>1, <4>1
    <3>2. CASE Overwrite \/ Skip \/ Rename \/ LookAgain
      <4>1. lasterror' = lasterror
        BY <3>2 DEF Overwrite, Skip, Rename, LookAgain
      <4>2. Finished(TRUE) \/ (pc' \in Jobs /\ UNCHANGED <<n, immediatefailed, result>>)
        BY <2>3, <3>2 DEF Overwrite, Skip, Rename, LookAgain, Waits, Jobs
      <4> QED BY <1>2, <2>1, <4>1, <4>2
    <3> QED BY <2>7, <3>1, <3>2 DEF Collide
  <2>8. CASE WriteFork
    <3>1. lasterror' = lasterror
      BY <2>8 DEF WriteFork
    <3>2. Finished(TRUE) \/ (pc' \in Jobs /\ UNCHANGED <<n, immediatefailed, result>>)
      BY <2>3, <2>8 DEF WriteFork
    <3> QED BY <1>2, <2>1, <3>1, <3>2
  <2>9. CASE WriteFails
    <3>1. lasterror' # "none"
      BY <2>9 DEF WriteFails
    <3>2. \/ Finished(FALSE)
          \/ lasterror' # "break" /\ Finished(TRUE)
          \/ lasterror' # "break" /\ pc' = "directory" /\ UNCHANGED <<n, immediatefailed, result>>
      BY <2>9 DEF WriteFails, Waits
    <3> QED BY <1>3, <2>1, <3>1, <3>2, FinishedIsDone DEF Effect, Harmless, Jobs
  <2> QED BY <1>7, <2>1, <2>4, <2>5, <2>6, <2>7, <2>8, <2>9
<1> QED BY <1>4, <1>5, <1>6, <1>7 DEF AtWork

-----------------------------------------------------------------------------
(***************************************************************************)
(* Why an extraction failed, and what an inner archive returns.            *)
(***************************************************************************)
ReasonInv ==
  /\ result = "no" \/ immediatefailed => lasterror # "none" \/ unexplained
  /\ result = "nil" => err # "none"
  /\ immediatefailed => immediate /\ pc # "open" /\ (pc = "parse" => Entries # {})
  /\ pc \in {"open", "parse"} /\ Entries = {} => lasterror = "none"
  /\ immediate /\ lasterror = "break" => immediatefailed
  /\ parserstopped => immediatefailed
  /\ pc = "checksum" => immediate
  /\ immediate /\ pc = "returned" => result \in {"self", "nil"}
  /\ immediate /\ result = "nil" => ~immediatefailed /\ err \in {"subarchive", "dataformat", "other"}

\* A file that was there is written to only where the client has agreed.
AgreedInv ==
  hasdelegate => /\ OldFilesSurvive
                 /\ pc = "write" /\ destfile \in OldFiles => destfile \in agreed

(***************************************************************************)
(* What has become of every fork found, as long as it may end in success.  *)
(***************************************************************************)
Clean == lasterror = "none" /\ ~immediatefailed

Alive == ~immediatefailed /\ result # "no"

Waiting(m) ==
  /\ ~immediate
  /\ pc \in {"open", "parse"} \/ (pc = "next" /\ n <= m) \/ (pc \in Jobs /\ n < m)

Working(m, f) == pc \in Jobs /\ m = n /\ f \in forks /\ (pc = "write" => f \in todo)

Settled(m, f) ==
  \/ Slots(m)[f] \in declined
  \/ dataentries[m] \in unpacked
  \/ /\ placed[Slots(m)[f]] # ""
     /\ \/ ForkAt(placed[Slots(m)[f]], f) # 0
        \/ DirectoryFork(Slots(m)[f])
        \/ f = "resource" /\ IsDir(m)

Kept(m, f) == Slots(m)[f] = 0 \/ Waiting(m) \/ Working(m, f) \/ Settled(m, f)

ForkInv == Alive => \A m \in Entries, f \in Forks : Kept(m, f)

NodeInv ==
  \A p \in Paths : /\ disk[p].kind = "none" => disk[p].data = 0 /\ disk[p].resource = 0
                   /\ disk[p].kind = "dir" => disk[p].data # 0 /\ disk[p].resource = 0

FoundInv ==
  /\ unpacked \subseteq 1..Len(archive)
  /\ pc = "open" => Entries = {}
  /\ ~parserstopped => Placed = 1..(found - 1)
  /\ Clean /\ result # "nil" /\ (pc \in {"checksum", "next", "settle", "returned"}
                                 \/ (~immediate /\ pc \in Jobs)) => found = Len(archive) + 1
  /\ result \in {"yes", "self"} => deferred = {} \/ finishfailed

-----------------------------------------------------------------------------
(***************************************************************************)
(* How the forks of a name are paired.                                     *)
(***************************************************************************)
IsLast(j, i) == j \in Before(i) /\ \A k \in Before(i) : k <= j

\* The latest dictionary of a name, in the entry the name stands for.
IsLatest(j, name) ==
  /\ namedict[name] # 0 /\ j \in Dicts(namedict[name])
  /\ \A k \in Placed : archive[k].name = name => k <= j

\* A dictionary is in one entry; an entry is of one name; and the entry a name
\* stands for holds the latest of its dictionaries.
NameInv ==
  /\ \A m, k \in Entries, i \in Placed : i \in Dicts(m) /\ i \in Dicts(k) => m = k
  /\ \A m \in Entries : \A i, j \in Dicts(m) : archive[i].name = archive[j].name
  /\ \A name \in Names : namedict[name] # 0 =>
       \A i \in Dicts(namedict[name]) : archive[i].name = name
  /\ \A i \in Placed : \E j \in Placed : IsLatest(j, archive[i].name)

PairInv ==
  /\ \A i \in Placed : Before(i) # {} => \E j \in Before(i) : IsLast(j, i)
  /\ \A i, j \in Placed : IsLast(j, i) =>
       (Together(i, j) <=> /\ archive[i].fork # archive[j].fork
                           /\ \A k \in Before(j) : ~Together(k, j))

-----------------------------------------------------------------------------
\* A failure is noted together with its error, in every action.
LEMMA ReasonStep ==
  ASSUME TypeInv, ReasonInv, [Next]_vars
  PROVE  ReasonInv'
<1>1. immediate' = immediate
  BY ConfigKept DEF fixedVars
<1>2. /\ immediate \in BOOLEAN /\ immediatefailed \in BOOLEAN /\ unexplained \in BOOLEAN
      /\ pc # "returned" => result = "none"
      /\ lasterror \in Errors /\ err \in Errors
      /\ immediate => pc # "next"
  BY DEF TypeInv, OutcomeInv, ConfigInv, JobInv
<1>3. CASE UNCHANGED vars
  <2>1. /\ pc' = pc /\ result' = result /\ immediatefailed' = immediatefailed /\ unexplained' = unexplained
        /\ lasterror' = lasterror /\ err' = err /\ parserstopped' = parserstopped
        /\ dataentries' = dataentries
    BY <1>3 DEF vars, flowVars, historyVars, entryVars
  <2> QED BY <1>1, <2>1 DEF ReasonInv, Entries
<1>4. CASE Open \/ NextEntry \/ EntriesDone
  <2>1. /\ result' = result /\ immediatefailed' = immediatefailed /\ unexplained' = unexplained
        /\ lasterror' = lasterror /\ err' = err /\ parserstopped' = parserstopped
        /\ dataentries' = dataentries
    BY <1>4 DEF Open, NextEntry, EntriesDone, flowVars, historyVars, entryVars
  <2>2. (pc = "open" /\ pc' = "parse") \/ (pc = "next" /\ pc' \in {"archive", "name", "settle"})
    BY <1>4 DEF Open, NextEntry, EntriesDone
  <2> QED BY <1>1, <2>1, <2>2 DEF ReasonInv, Entries
<1>5. CASE OpenFails
  <2>1. /\ pc = "open" /\ pc' = "returned" /\ result' = "nil"
        /\ err' = IF immediate THEN "subarchive" ELSE "dataformat"
        /\ immediatefailed' = immediatefailed /\ unexplained' = unexplained
        /\ lasterror' = lasterror /\ parserstopped' = parserstopped
        /\ dataentries' = dataentries
    BY <1>5 DEF OpenFails, historyVars, entryVars
  <2>2. ~immediatefailed
    BY <2>1 DEF ReasonInv
  <2> QED BY <1>1, <1>2, <2>1, <2>2 DEF ReasonInv, Entries
<1>6. CASE FoundEntry \/ StopParser
  <2>1. /\ pc = "parse" /\ result' = result /\ immediatefailed' = immediatefailed /\ unexplained' = unexplained
        /\ lasterror' = lasterror /\ err' = err
        /\ pc' \in {"parse", "archive", "name"}
        /\ parserstopped' => parserstopped \/ immediatefailed
    BY <1>6 DEF FoundEntry, StopParser, flowVars, historyVars, entryVars
  <2>2. (Entries' # {} /\ pc' \in {"parse", "archive", "name"}) \/ Entries' = Entries
    <3>1. CASE FoundEntry
      <4>1. PICK h : h = Home(found)
        OBVIOUS
      <4>2. h \in 1..Len(dataentries')
        BY <3>1, <4>1, PlaceShape DEF FoundEntry
      <4> QED BY <2>1, <4>2 DEF Entries
    <3>2. CASE StopParser
      BY <3>2 DEF StopParser, Entries
    <3> QED BY <1>6, <3>1, <3>2
  <2>3. immediatefailed => Entries' # {}
    BY <2>1, <2>2 DEF ReasonInv
  <2>4. pc' \in {"open", "parse"} /\ Entries' = {} => lasterror = "none"
    BY <2>1, <2>2 DEF ReasonInv
  <2>5. pc' # "checksum" /\ pc' # "returned" /\ result' = "none"
    BY <1>2, <2>1
  <2> QED BY <1>1, <2>1, <2>3, <2>4, <2>5 DEF ReasonInv
<1>7. CASE ParseEnds \/ ParseRaises
  <2>1. PICK e \in Errors : /\ Parsed(e) /\ e \in {"none", "break", "dataformat", "other"}
                            /\ e = "break" => immediatefailed
    <3>1. CASE ParseEnds
      <4>1. \E polled \in BOOLEAN :
               Parsed(IF parserstopped \/ (polled /\ immediatefailed) THEN "break" ELSE "none")
        BY <3>1 DEF ParseEnds
      <4>2. (Parsed("break") /\ immediatefailed) \/ Parsed("none")
        BY <4>1 DEF ReasonInv
      <4> QED BY <4>2 DEF Errors
    <3>2. CASE ParseRaises
      BY <3>2 DEF ParseRaises, Errors
    <3> QED BY <1>7, <3>1, <3>2
  <2>2. /\ pc = "parse" /\ unexplained' = unexplained /\ result = "none"
    BY <1>2, <1>7 DEF ParseEnds, ParseRaises, historyVars
  <2>3. /\ lasterror' = IF e # "none" THEN e ELSE lasterror
        /\ err' = IF immediatefailed THEN lasterror' ELSE IF e # "none" THEN e ELSE err
        /\ immediatefailed' = immediatefailed
        /\ parserstopped' = parserstopped /\ Entries' = Entries
        /\ \/ /\ pc' = (IF immediate THEN "checksum" ELSE "next") /\ result' = result
           \/ /\ lasterror' # "none" /\ Len(dataentries) = 0
              /\ pc' = "returned" /\ result' = "nil"
    BY <2>1 DEF Parsed, Entries, entryVars
  <2>4. immediatefailed => immediate /\ Entries # {} /\ (lasterror # "none" \/ unexplained)
    BY <2>2 DEF ReasonInv
  <2>5. CASE pc' = (IF immediate THEN "checksum" ELSE "next") /\ result' = result
    <3>1. /\ pc' \notin {"open", "parse", "returned"} /\ (pc' = "checksum" => immediate)
          /\ result' = "none"
      BY <2>2, <2>5
    <3>2. lasterror # "none" => lasterror' # "none"
      BY <2>1, <2>3
    <3>3. immediate /\ lasterror' = "break" => immediatefailed
      BY <2>1, <2>3 DEF ReasonInv
    <3> QED BY <1>1, <2>2, <2>3, <2>4, <3>1, <3>2, <3>3 DEF ReasonInv
  <2>6. CASE lasterror' # "none" /\ Len(dataentries) = 0 /\ pc' = "returned" /\ result' = "nil"
    <3>1. Entries = {}
      BY <2>6 DEF Entries
    <3>2. lasterror = "none" /\ ~immediatefailed /\ ~parserstopped
      BY <2>2, <2>4, <3>1 DEF ReasonInv
    <3>3. e \in {"dataformat", "other"} /\ err' = e /\ lasterror' = e
      BY <2>1, <2>3, <2>6, <3>2
    <3> QED BY <1>1, <2>3, <2>6, <3>2, <3>3 DEF ReasonInv
  <2> QED BY <2>3, <2>5, <2>6
<1>8. CASE TestChecksum
  <2>1. /\ pc = "checksum" /\ pc' = "settle" /\ result' = result /\ result = "none"
        /\ unexplained' = unexplained /\ parserstopped' = parserstopped /\ Entries' = Entries
        /\ \/ UNCHANGED <<immediatefailed, lasterror>>
           \/ immediatefailed' = TRUE /\ lasterror' = "other"
    BY <1>2, <1>8 DEF TestChecksum, entryVars, historyVars, Entries
  <2>2. immediate
    BY <2>1 DEF ReasonInv
  <2> QED BY <1>1, <2>1, <2>2 DEF ReasonInv
<1>9. CASE Settle
  <2>1. /\ pc = "settle" /\ pc' = "returned" /\ result' = (IF immediate THEN "self" ELSE "yes")
        /\ parserstopped' = parserstopped /\ Entries' = Entries /\ (unexplained => unexplained')
        /\ immediatefailed' = immediatefailed /\ lasterror' = lasterror /\ err' = err
    BY <1>9 DEF Settle, entryVars, historyVars, Entries
  <2> QED BY <1>1, <2>1 DEF ReasonInv
<1>10. CASE AtWork
  <2>1. Effect /\ pc \in Jobs /\ entryVars' = entryVars
    BY <1>10, WorkEffect
  <2>2. parserstopped' = parserstopped /\ Entries' = Entries /\ Entries # {} /\ result = "none"
    <3>1. n \in Entries /\ pc # "returned"
      BY <2>1 DEF TypeInv, JobInv, Jobs
    <3> QED BY <1>2, <2>1, <3>1 DEF entryVars, Entries
  <2>3. /\ lasterror # "none" \/ unexplained => lasterror' # "none" \/ unexplained'
        /\ err' = err
    BY <2>1 DEF Effect
  <2>4. CASE Done(TRUE) /\ Harmless
    <3>1. /\ immediatefailed' = immediatefailed /\ pc' \in {"parse", "next"} /\ result' = "none"
      BY <1>2, <2>2, <2>4 DEF Done
    <3> QED BY <1>1, <2>2, <2>3, <2>4, <3>1 DEF ReasonInv, Harmless
  <2>5. CASE Done(FALSE) /\ (lasterror' # "none" \/ unexplained')
    <3>1. CASE immediate
      <4>1. immediatefailed' = TRUE /\ pc' = "parse" /\ result' = "none"
        BY <2>2, <2>5, <3>1 DEF Done
      <4> QED BY <1>1, <2>2, <2>5, <3>1, <4>1 DEF ReasonInv
    <3>2. CASE ~immediate
      <4>1. immediatefailed' = immediatefailed /\ pc' = "returned" /\ result' = "no"
        BY <2>5, <3>2 DEF Done
      <4> QED BY <1>1, <2>2, <2>5, <3>2, <4>1 DEF ReasonInv
    <3> QED BY <3>1, <3>2
  <2>6. CASE pc' \in Jobs /\ UNCHANGED <<n, immediatefailed, result>> /\ Harmless
    <3>1. pc' \notin {"open", "parse", "checksum", "returned"}
      BY <2>6 DEF Jobs
    <3> QED BY <1>1, <2>2, <2>3, <2>6, <3>1 DEF ReasonInv, Harmless
  <2> QED BY <2>1, <2>4, <2>5, <2>6 DEF Effect
<1> QED BY <1>3, <1>4, <1>5, <1>6, <1>7, <1>8, <1>9, <1>10 DEF Next, AtWork

\* At first nothing has failed.
LEMMA ReasonInit ==
  ASSUME Init
  PROVE  ReasonInv
<1>1. /\ result = "none" /\ immediatefailed = FALSE /\ lasterror = "none" /\ pc = "open"
      /\ parserstopped = FALSE
  BY DEF Init
<1> QED BY <1>1 DEF ReasonInv

\* ReasonInv is inductive, given the types.
LEMMA ReasonInductive == Spec => [](TypeInv /\ ReasonInv)
<1>1. TypeInv /\ ReasonInv /\ [Next]_vars => (TypeInv /\ ReasonInv)'
  BY TypeStep, ReasonStep
<1>2. Init => TypeInv /\ ReasonInv
  BY TypeInit, ReasonInit
<1> QED BY <1>1, <1>2, PTL DEF Spec

\* FailureHasReason: a NO, or a failed immediate extraction, is never without an
\* error that the code could have given.
THEOREM FailuresExplained == Spec => []FailureHasReason
<1>1. ReasonInv => FailureHasReason
  BY DEF ReasonInv, FailureHasReason
<1> QED BY <1>1, ReasonInductive, PTL

\* ReturnsAsAssumed: what is assumed of inner archives, SubOutcomes, is what an
\* archive extracted immediately keeps to itself.
THEOREM AssumptionMet == Spec => []ReturnsAsAssumed
<1>1. ASSUME TypeInv, ReasonInv
      PROVE  ReturnsAsAssumed
  <2> SUFFICES ASSUME immediate, pc = "returned"
               PROVE  Outcome(result = "self", immediatefailed,
                              IF result = "nil" THEN err ELSE lasterror) \in SubOutcomes
    BY DEF ReturnsAsAssumed
  <2>1. /\ result \in {"self", "nil"} /\ immediatefailed \in BOOLEAN
        /\ lasterror \in Errors
        /\ lasterror = "break" => immediatefailed
        /\ result = "nil" => ~immediatefailed /\ err \in {"subarchive", "dataformat", "other"}
    BY <1>1 DEF TypeInv, OutcomeInv, ReasonInv
  <2>2. CASE result = "nil"
    <3>1. Outcome(FALSE, FALSE, err) \in SubOutcomes
      BY <2>1, <2>2 DEF SubOutcomes
    <3>2. (result = "self") = FALSE /\ immediatefailed = FALSE
      BY <2>1, <2>2
    <3> QED BY <2>2, <3>1, <3>2
  <2>3. CASE result = "self" /\ immediatefailed
    <3>1. Outcome(TRUE, TRUE, lasterror) \in SubOutcomes
      BY <2>1 DEF SubOutcomes
    <3>2. (result = "self") = TRUE /\ immediatefailed = TRUE
      BY <2>1, <2>3
    <3> QED BY <2>3, <3>1, <3>2
  <2>4. CASE result = "self" /\ ~immediatefailed
    <3>1. lasterror \in Errors \ {"break"}
      BY <2>1, <2>4
    <3>2. Outcome(TRUE, FALSE, lasterror) \in SubOutcomes
      BY <3>1 DEF SubOutcomes
    <3>3. (result = "self") = TRUE /\ immediatefailed = FALSE
      BY <2>1, <2>4
    <3> QED BY <2>4, <3>2, <3>3
  <2> QED BY <2>1, <2>2, <2>3, <2>4
<1> QED BY <1>1, ReasonInductive, PTL

-----------------------------------------------------------------------------
(***************************************************************************)
(* Files that were there.                                                  *)
(***************************************************************************)
\* The disk changes at destfile only.
LEMMA DiskElsewhere ==
  ASSUME TypeInv, [Next]_vars, NEW p \in Paths, disk'[p] # disk[p]
  PROVE  p = destfile /\ (pc = "write" \/ p \in agreed')
<1>1. disk \in [Paths -> Nodes]
  BY DEF TypeInv, DiskInv, Nodes
<1>2. DirectoryThere \/ Collide \/ WriteFork \/ WriteFails
  BY DiskKept
<1>3. \/ disk' = disk
      \/ \E node : disk' = [disk EXCEPT ![destfile] = node]
  BY <1>2 DEF DirectoryThere, Collide, Overwrite, Skip, Rename, LookAgain, Abort, WriteFork, WriteFails
<1>4. p = destfile
  BY <1>1, <1>3
<1>5. pc = "write" \/ destfile \in agreed'
  BY <1>2, <1>3, <1>4 DEF DirectoryThere, Collide, Overwrite, Skip, Rename, LookAgain, Abort, WriteFork, WriteFails
<1> QED BY <1>4, <1>5

\* What the client has agreed to, it has agreed to.
LEMMA AgreedGrows ==
  ASSUME [Next]_vars
  PROVE  agreed \subseteq agreed'
<1>1. CASE UNCHANGED vars
  BY <1>1 DEF vars, historyVars
<1>2. CASE Open \/ OpenFails \/ FoundEntry \/ StopParser \/ ParseEnds \/ ParseRaises
  BY <1>2 DEF Open, OpenFails, FoundEntry, StopParser, ParseEnds, ParseRaises, historyVars
<1>3. CASE TestChecksum \/ Settle \/ NextEntry \/ EntriesDone
  BY <1>3 DEF TestChecksum, Settle, NextEntry, EntriesDone, historyVars
<1>4. CASE ExtractArchive \/ ExtractArchiveFails \/ ExtractArchiveRaises
  BY <1>4 DEF ExtractArchive, ExtractArchiveFails, ExtractArchiveRaises, InArchive
<1>5. CASE NameEntry \/ NameUndecodable \/ DirectoryReady \/ DirectoryRefused \/ NoCollision
            \/ DirectoryThere
  BY <1>5 DEF NameEntry, NameUndecodable, DirectoryReady, DirectoryRefused, NoCollision, DirectoryThere
<1>6. CASE Collide
  BY <1>6 DEF Collide, Overwrite, Skip, Rename, LookAgain, Abort
<1>7. CASE WriteFork \/ WriteFails
  BY <1>7 DEF WriteFork, WriteFails
<1> QED BY <1>1, <1>2, <1>3, <1>4, <1>5, <1>6, <1>7 DEF Next

\* Writing begins where nothing was, or where the client has agreed.
LEMMA WriteStarts ==
  ASSUME [Next]_vars, hasdelegate, pc # "write", pc' = "write"
  PROVE  destfile' = destfile /\ (disk[destfile].kind = "none" \/ destfile \in agreed')
<1>1. CASE UNCHANGED vars
  BY <1>1 DEF vars, flowVars
<1>2. CASE Open \/ OpenFails \/ FoundEntry \/ StopParser \/ ParseEnds \/ ParseRaises
  BY <1>2 DEF Open, OpenFails, FoundEntry, StopParser, ParseEnds, ParseRaises, Parsed, flowVars
<1>3. CASE TestChecksum \/ Settle \/ NextEntry \/ EntriesDone
  BY <1>3 DEF TestChecksum, Settle, NextEntry, EntriesDone
<1>4. CASE ExtractArchive \/ ExtractArchiveFails \/ ExtractArchiveRaises
  BY <1>4 DEF ExtractArchive, ExtractArchiveFails, ExtractArchiveRaises, ArchiveAnswered, Finished, flowVars
<1>5. CASE NameEntry \/ NameUndecodable \/ DirectoryReady \/ DirectoryRefused
  BY <1>5 DEF NameEntry, NameUndecodable, DirectoryReady, DirectoryRefused, AskAbout, FailWith, Finished,
     flowVars
<1>6. CASE NoCollision \/ DirectoryThere
  BY <1>6 DEF NoCollision, DirectoryThere, Finished, Collision
<1>7. CASE Collide
  BY <1>7 DEF Collide, Overwrite, Skip, Rename, LookAgain, Abort, Finished, flowVars
<1>8. CASE WriteFork \/ WriteFails
  BY <1>8 DEF WriteFork, WriteFails
<1> QED BY <1>1, <1>2, <1>3, <1>4, <1>5, <1>6, <1>7, <1>8 DEF Next

\* While forks are written, the place stays.
LEMMA WriteStays ==
  ASSUME TypeInv, [Next]_vars, pc = "write", pc' = "write"
  PROVE  destfile' = destfile
<1>1. CASE UNCHANGED vars
  BY <1>1 DEF vars, jobVars
<1>2. CASE WriteFork
  BY <1>2 DEF WriteFork
<1>3. CASE WriteFails
  BY <1>3 DEF WriteFails, Finished
<1>4. CASE ~UNCHANGED vars /\ ~WriteFork /\ ~WriteFails
  BY <1>4 DEF Next, Open, OpenFails, FoundEntry, StopParser, ParseEnds, ParseRaises, TestChecksum,
     Settle, NextEntry, EntriesDone, ExtractArchive, ExtractArchiveFails, ExtractArchiveRaises, InArchive,
     NameEntry, NameUndecodable, DirectoryReady, DirectoryRefused, NoCollision, DirectoryThere, Collide
<1> QED BY <1>1, <1>2, <1>3, <1>4

\* The disk changes where the client has agreed to it, or nothing was.
LEMMA AgreedStep ==
  ASSUME TypeInv, AgreedInv, [Next]_vars
  PROVE  AgreedInv'
<1>1. hasdelegate' = hasdelegate
  BY ConfigKept DEF fixedVars
<1> SUFFICES ASSUME hasdelegate
             PROVE  /\ \A p \in OldFiles : p \in agreed' \/ disk'[p] = Node("file", 0, 0)
                    /\ pc' = "write" /\ destfile' \in OldFiles => destfile' \in agreed'
  BY <1>1 DEF AgreedInv, OldFilesSurvive
<1>2. /\ \A p \in OldFiles : p \in agreed \/ disk[p] = Node("file", 0, 0)
      /\ pc = "write" /\ destfile \in OldFiles => destfile \in agreed
  BY DEF AgreedInv, OldFilesSurvive
<1>3. OldFiles \subseteq Paths
  BY ArchivesAssumption DEF Paths
<1>4. ASSUME NEW p \in OldFiles
      PROVE  p \in agreed' \/ disk'[p] = Node("file", 0, 0)
  BY <1>2, <1>3, DiskElsewhere, AgreedGrows
<1>5. ASSUME pc' = "write", destfile' \in OldFiles
      PROVE  destfile' \in agreed'
  <2>1. CASE pc = "write"
    BY <1>2, <1>5, <2>1, WriteStays, AgreedGrows
  <2>2. CASE pc # "write"
    <3>1. destfile' = destfile /\ (disk[destfile].kind = "none" \/ destfile \in agreed')
      BY <1>5, <2>2, WriteStarts
    <3>2. disk[destfile] = Node("file", 0, 0) => disk[destfile].kind # "none"
      BY DEF Node
    <3> QED BY <1>2, <1>5, <3>1, <3>2, AgreedGrows
  <2> QED BY <2>1, <2>2
<1> QED BY <1>4, <1>5

\* At first the files are there.
LEMMA AgreedInit ==
  ASSUME Init
  PROVE  AgreedInv
<1>1. disk = [p \in Paths |-> IF p \in OldFiles THEN Node("file", 0, 0) ELSE Nothing] /\ pc = "open"
  BY DEF Init
<1>2. OldFiles \subseteq Paths
  BY ArchivesAssumption DEF Paths
<1> QED BY <1>1, <1>2 DEF AgreedInv, OldFilesSurvive

\* OldFilesSurvive: however often the client retries and renames, a file that was
\* there is written to only if it agrees.
THEOREM OldFilesKept == Spec => []OldFilesSurvive
<1>1. TypeInv /\ AgreedInv /\ [Next]_vars => (TypeInv /\ AgreedInv)'
  BY TypeStep, AgreedStep
<1>2. Init => TypeInv /\ AgreedInv
  BY TypeInit, AgreedInit
<1>3. AgreedInv => OldFilesSurvive
  BY DEF AgreedInv, OldFilesSurvive
<1> QED BY <1>1, <1>2, <1>3, PTL DEF Spec

-----------------------------------------------------------------------------
\* What a dictionary that is found does to the dictionaries of the entries.
LEMMA FoundShape ==
  ASSUME TypeInv, FoundEntry, NEW h, h = Home(found)
  PROVE  /\ found \in 1..Len(archive) /\ archive' = archive
         /\ Entries' = Entries \cup {h}
         /\ h \in Entries <=> Completes(found)
         /\ \A m \in Entries \ {h} : (Dicts(m))' = Dicts(m)
         /\ h \in Entries => (Dicts(h))' = Dicts(h) \cup {found}
         /\ h \notin Entries => (Dicts(h))' = {found}
         /\ namedict' = [namedict EXCEPT ![archive[found].name] = h]
<1>1. found <= Len(archive) /\ Place(found)
  BY DEF FoundEntry
<1>2. /\ Len(archive) \in Nat /\ found \in 1..(Len(archive) + 1)
      /\ dataentries \in Seq(0..Len(archive))
  BY ArchiveFacts DEF TypeInv, EntryInv, ConfigInv
<1>3. archive' = archive
  BY DEF FoundEntry, fixedVars
<1>4. found \in 1..Len(archive) /\ found # 0
  BY <1>1, <1>2
<1>5. archive[found].fork \in {"data", "resource"}
  BY <1>4, ArchiveFacts DEF TypeInv, ConfigInv, Forks
<1>6. Entries' = Entries \cup {h} /\ namedict' = [namedict EXCEPT ![archive[found].name] = h]
  BY <1>1, PlaceShape DEF Entries
<1>7. h \in Entries <=> Completes(found)
  BY <1>1, PlaceShape
<1>8. \A m : (Dicts(m))' = {dataentries'[m], resourceentries'[m]} \ {0}
  BY DEF Dicts, Slots, Forks
<1>9. \A m : Dicts(m) = {dataentries[m], resourceentries[m]} \ {0}
  BY SlotFacts
<1>10. \A m \in Entries \ {h} : (Dicts(m))' = Dicts(m)
  <2>1. \A m \in Entries \ {h} : dataentries'[m] = dataentries[m] /\ resourceentries'[m] = resourceentries[m]
    BY <1>1, PlaceShape
  <2> QED BY <1>8, <1>9, <2>1
<1>11. ASSUME h \in Entries
       PROVE  (Dicts(h))' = Dicts(h) \cup {found}
  <2>1. /\ archive[found].fork = "data" =>
             dataentries'[h] = found /\ dataentries[h] = 0 /\ resourceentries'[h] = resourceentries[h]
        /\ archive[found].fork = "resource" =>
             resourceentries'[h] = found /\ resourceentries[h] = 0 /\ dataentries'[h] = dataentries[h]
    BY <1>1, <1>7, <1>11, PlaceShape
  <2> QED BY <1>4, <1>5, <1>8, <1>9, <2>1
<1>12. ASSUME h \notin Entries
       PROVE  (Dicts(h))' = {found}
  <2>1. /\ archive[found].fork = "data" => dataentries'[h] = found /\ resourceentries'[h] = 0
        /\ archive[found].fork = "resource" => resourceentries'[h] = found /\ dataentries'[h] = 0
    BY <1>1, <1>7, <1>12, PlaceShape
  <2> QED BY <1>4, <1>5, <1>8, <2>1
<1> QED BY <1>3, <1>4, <1>6, <1>7, <1>10, <1>11, <1>12

\* Dictionaries are placed as they are found.
LEMMA PlacedFacts ==
  ASSUME TypeInv
  PROVE  /\ Placed = {i \in 1..Len(archive) : \E m \in Entries : i \in Dicts(m)}
         /\ \A m \in Entries : Dicts(m) \subseteq Placed
         /\ \A i \in Placed : i \in 1..Len(archive) /\ i < found
         /\ \A m \in Entries : found \notin Dicts(m)
<1>1. Placed = {i \in 1..Len(archive) : \E m \in Entries : i \in Dicts(m)}
  BY DEF Placed, Entries
<1>2. \A m \in Entries : Dicts(m) \subseteq 1..Len(archive)
  BY DictFacts
<1>3. ASSUME NEW m \in Entries, NEW i \in Dicts(m) PROVE i < found
  <2>1. i # 0 /\ (i = dataentries[m] \/ i = resourceentries[m])
    BY <1>3, SlotFacts
  <2>2. /\ dataentries[m] # 0 => dataentries[m] < found
        /\ resourceentries[m] # 0 => resourceentries[m] < found
    BY <1>3 DEF TypeInv, EntryInv
  <2> QED BY <2>1, <2>2
<1>4. found \in Nat
  BY ArchiveFacts DEF TypeInv, EntryInv, ConfigInv
<1>5. ~(found < found)
  BY <1>4
<1> QED BY <1>1, <1>2, <1>3, <1>5

\* A dictionary found is placed; and the other dictionaries that are placed are
\* before it.
LEMMA PlacedStep ==
  ASSUME TypeInv, FoundEntry, NEW e, e = found
  PROVE  /\ Placed' = Placed \cup {found} /\ found \notin Placed
         /\ \A i \in Placed : (Before(i))' = Before(i)
         /\ (Before(e))' = {j \in Placed : archive[j].name = archive[e].name}
<1>1. PICK h : h = Home(found)
  OBVIOUS
<1>2. Placed' = {i \in 1..Len(archive') : \E m \in Entries' : i \in (Dicts(m))'}
  BY DEF Placed, Entries
<1>3. /\ \A m \in Entries \ {h} : (Dicts(m))' = Dicts(m)
      /\ h \in Entries => (Dicts(h))' = Dicts(h) \cup {found}
      /\ h \notin Entries => (Dicts(h))' = {found}
      /\ Entries' = Entries \cup {h} /\ archive' = archive /\ found \in 1..Len(archive)
  BY <1>1, FoundShape
<1>4. Placed = {i \in 1..Len(archive) : \E m \in Entries : i \in Dicts(m)}
  BY PlacedFacts
<1>5. Placed' = Placed \cup {found}
  BY <1>2, <1>3, <1>4
<1>6. \A i \in Placed : i \in 1..Len(archive) /\ i < found
  BY PlacedFacts
<1>7. Len(archive) \in Nat
  BY ArchiveFacts DEF TypeInv, ConfigInv
<1>8. found \notin Placed /\ \A i \in Placed : ~(found < i)
  BY <1>3, <1>6, <1>7
<1>9. \A i : (Before(i))' = {j \in Placed' : j < i /\ archive'[j].name = archive'[i].name}
  BY DEF Before
<1>10. \A i \in Placed : (Before(i))' = Before(i)
  BY <1>3, <1>5, <1>8, <1>9 DEF Before
<1>11. ~(found < found)
  BY <1>3, <1>7
<1>12. (Before(e))' = {j \in Placed : archive[j].name = archive[e].name}
  <2>1. (Before(e))' = {j \in Placed' : j < e /\ archive[j].name = archive[e].name}
    BY <1>3, <1>9
  <2> QED BY <1>5, <1>6, <1>11, <2>1
<1> QED BY <1>5, <1>8, <1>10, <1>12

\* The entry that a dictionary of a name completes has dictionaries of that name
\* only.
LEMMA HomeNamed ==
  ASSUME TypeInv, NameInv, FoundEntry, NEW h, h = Home(found), h \in Entries
  PROVE  h = namedict[archive[found].name] /\ \A i \in Dicts(h) : archive[i].name = archive[found].name
<1>1. found \in 1..Len(archive) /\ Completes(found)
  BY FoundShape
<1>2. h = namedict[archive[found].name] /\ h # 0
  BY <1>1 DEF Home, Completes
<1>3. archive[found].name \in Names
  BY <1>1, ArchiveFacts DEF TypeInv, ConfigInv
<1> QED BY <1>2, <1>3 DEF NameInv

\* A dictionary that is found becomes the latest of its name.
LEMMA NameStep ==
  ASSUME TypeInv, NameInv, FoundEntry
  PROVE  NameInv'
<1> DEFINE x == archive[found].name
<1>1. PICK h : h = Home(found)
  OBVIOUS
<1>2. /\ found \in 1..Len(archive) /\ archive' = archive /\ Entries' = Entries \cup {h}
      /\ \A m \in Entries \ {h} : (Dicts(m))' = Dicts(m)
      /\ h \in Entries => (Dicts(h))' = Dicts(h) \cup {found}
      /\ h \notin Entries => (Dicts(h))' = {found}
      /\ namedict' = [namedict EXCEPT ![x] = h]
  BY <1>1, FoundShape
<1>3. /\ Placed' = Placed \cup {found} /\ found \notin Placed
      /\ \A i \in Placed : i < found
      /\ \A m \in Entries : Dicts(m) \subseteq Placed
      /\ \A m \in Entries : found \notin Dicts(m)
  BY PlacedFacts, PlacedStep
<1>4. h \in Entries => h = namedict[x] /\ \A i \in Dicts(h) : archive[i].name = x
  BY <1>1, HomeNamed
<1>5. x \in Names /\ namedict \in [Names -> 0..Len(dataentries)]
  BY <1>2, ArchiveFacts DEF TypeInv, ConfigInv, EntryInv
<1>6. h # 0
  <2>1. h \in Nat \ {0}
    BY <1>1, PlaceShape DEF FoundEntry
  <2> QED BY <2>1
<1>7. \A name \in Names : namedict[name] # 0 => namedict[name] \in Entries
  <2>1. Len(dataentries) \in Nat
    BY DEF TypeInv, EntryInv
  <2> QED BY <1>5, <2>1 DEF Entries
<1> HIDE DEF x
<1>8. /\ \A m, k \in Entries, i \in Placed : i \in Dicts(m) /\ i \in Dicts(k) => m = k
      /\ \A m \in Entries : \A i, j \in Dicts(m) : archive[i].name = archive[j].name
      /\ \A name \in Names : namedict[name] # 0 =>
           \A i \in Dicts(namedict[name]) : archive[i].name = name
      /\ \A i \in Placed : \E j \in Placed : IsLatest(j, archive[i].name)
  BY DEF NameInv
<1>9. \A m \in Entries', i \in Placed : i \in (Dicts(m))' => m \in Entries /\ i \in Dicts(m)
  BY <1>2, <1>3
<1>10. \A m \in Entries' : found \in (Dicts(m))' => m = h
  BY <1>2, <1>3
<1>11. ASSUME NEW m \in Entries', NEW k \in Entries', NEW i \in Placed', i \in (Dicts(m))', i \in (Dicts(k))'
       PROVE  m = k
  <2>1. CASE i = found
    BY <1>10, <1>11, <2>1
  <2>2. CASE i \in Placed
    BY <1>8, <1>9, <1>11, <2>2
  <2> QED BY <1>3, <1>11, <2>1, <2>2
<1>12. ASSUME NEW m \in Entries', NEW i \in (Dicts(m))', NEW j \in (Dicts(m))'
       PROVE  archive[i].name = archive[j].name
  <2>1. CASE m # h
    BY <1>2, <1>8, <1>12, <2>1
  <2>2. CASE m = h
    <3>1. \A k \in (Dicts(h))' : archive[k].name = x
      BY <1>2, <1>4 DEF x
    <3> QED BY <1>12, <2>2, <3>1
  <2> QED BY <2>1, <2>2
<1>13. ASSUME NEW name \in Names, NEW k, k = namedict'[name], k # 0, NEW i \in (Dicts(k))'
       PROVE  archive[i].name = name
  <2>1. CASE name = x
    <3>1. k = h
      BY <1>2, <1>5, <1>13, <2>1
    <3>2. \A j \in (Dicts(h))' : archive[j].name = x
      BY <1>2, <1>4 DEF x
    <3> QED BY <1>13, <2>1, <3>1, <3>2
  <2>2. CASE name # x
    <3>1. k = namedict[name]
      BY <1>2, <1>5, <1>13, <2>2
    <3>2. k \in Entries
      BY <1>7, <1>13, <3>1
    <3>3. k # h
      <4>1. CASE h \in Entries
        <5>1. PICK d : d \in Dicts(h)
          BY <4>1, DictFacts
        <5> QED BY <1>4, <1>8, <1>13, <2>2, <3>1, <4>1, <5>1
      <4> QED BY <3>2, <4>1
    <3>4. i \in Dicts(k)
      BY <1>2, <1>13, <3>2, <3>3
    <3> QED BY <1>8, <1>13, <3>1, <3>4
  <2> QED BY <2>1, <2>2
<1>14. ASSUME NEW i \in Placed'
       PROVE  \E j \in Placed' : /\ namedict'[archive[i].name] # 0
                                  /\ \E m : m = namedict'[archive[i].name] /\ j \in (Dicts(m))'
                                  /\ \A k \in Placed' : archive[k].name = archive[i].name => k <= j
  <2>1. archive[i].name \in Names
    <3>1. i \in 1..Len(archive)
      BY <1>2, <1>3, <1>14, PlacedFacts
    <3> QED BY <3>1, ArchiveFacts DEF TypeInv, ConfigInv
  <2>2. found \in Nat /\ Placed \subseteq Nat
    <3>1. Len(archive) \in Nat
      BY ArchiveFacts DEF TypeInv, ConfigInv
    <3> QED BY <1>2, <3>1, PlacedFacts
  <2>3. CASE archive[i].name = x
    <3>1. namedict'[x] = h
      BY <1>2, <1>5
    <3>2. found \in (Dicts(h))'
      BY <1>2
    <3>3. \A k \in Placed' : k <= found
      BY <1>3, <2>2
    <3> QED BY <1>3, <1>6, <2>3, <3>1, <3>2, <3>3
  <2>4. CASE archive[i].name # x
    <3>1. i \in Placed
      BY <1>3, <1>14, <2>4 DEF x
    <3>2. PICK j \in Placed : IsLatest(j, archive[i].name)
      BY <1>8, <3>1
    <3>3. PICK m : m = namedict[archive[i].name]
      OBVIOUS
    <3>4. m # 0 /\ j \in Dicts(m) /\ \A k \in Placed : archive[k].name = archive[i].name => k <= j
      BY <3>2, <3>3 DEF IsLatest
    <3>5. m \in Entries /\ namedict'[archive[i].name] = m
      BY <1>2, <1>5, <1>7, <2>1, <2>4, <3>3, <3>4
    <3>6. m # h
      <4>1. archive[j].name # x
        BY <1>8, <2>1, <2>4, <3>3, <3>4
      <4> QED BY <1>4, <3>4, <3>5, <4>1
    <3>7. j \in (Dicts(m))'
      BY <1>2, <3>4, <3>5, <3>6
    <3>8. \A k \in Placed' : archive[k].name = archive[i].name => k <= j
      BY <1>3, <2>4, <3>4 DEF x
    <3> QED BY <1>3, <3>4, <3>5, <3>7, <3>8
  <2> QED BY <2>3, <2>4
<1>15. \A i \in Placed' : \E j \in Placed' : (IsLatest(j, archive[i].name))'
  <2> SUFFICES ASSUME NEW i \in Placed' PROVE \E j \in Placed' : (IsLatest(j, archive[i].name))'
    OBVIOUS
  <2>1. PICK j \in Placed' : /\ namedict'[archive[i].name] # 0
                             /\ \E m : m = namedict'[archive[i].name] /\ j \in (Dicts(m))'
                             /\ \A k \in Placed' : archive[k].name = archive[i].name => k <= j
    BY <1>14
  <2>2. PICK m : m = namedict'[archive[i].name] /\ j \in (Dicts(m))'
    BY <2>1
  <2>3. j \in (Dicts(namedict[archive[i].name]))'
    BY <1>2, <2>2 DEF Dicts, Slots
  <2> QED BY <1>2, <2>1, <2>3 DEF IsLatest
<1>16. \A name \in Names : namedict'[name] # 0 => \A i \in (Dicts(namedict[name]))' : archive[i].name = name
  <2> SUFFICES ASSUME NEW name \in Names, namedict'[name] # 0, NEW i \in (Dicts(namedict[name]))'
               PROVE  archive[i].name = name
    OBVIOUS
  <2>1. PICK k : k = namedict'[name]
    OBVIOUS
  <2>2. i \in (Dicts(k))'
    BY <2>1 DEF Dicts, Slots
  <2> QED BY <1>13, <2>1, <2>2
<1> QED BY <1>2, <1>11, <1>12, <1>15, <1>16 DEF NameInv

\* Two dictionaries of an entry are all it has.
LEMMA TwoForks ==
  ASSUME NEW m, NEW i \in Dicts(m), NEW j \in Dicts(m), i # j
  PROVE  Dicts(m) = {i, j}
BY SlotFacts

\* Dictionaries found before stay together, and apart.
LEMMA TogetherStays ==
  ASSUME TypeInv, FoundEntry, NEW i \in Placed, NEW j \in Placed, i # j
  PROVE  (Together(i, j))' <=> Together(i, j)
<1>1. PICK h : h = Home(found)
  OBVIOUS
<1>2. /\ found \in 1..Len(archive) /\ Entries' = Entries \cup {h}
      /\ h \in Entries <=> Completes(found)
      /\ \A m \in Entries \ {h} : (Dicts(m))' = Dicts(m)
      /\ h \in Entries => (Dicts(h))' = Dicts(h) \cup {found}
      /\ h \notin Entries => (Dicts(h))' = {found}
  BY <1>1, FoundShape
<1>3. i # found /\ j # found
  BY PlacedStep
<1>4. (Together(i, j))' <=> \E m \in Entries' : (Dicts(m))' = {i, j}
  BY DEF Together, Entries
<1>5. Together(i, j) <=> \E m \in Entries : Dicts(m) = {i, j}
  BY DEF Together, Entries
<1>6. ASSUME NEW m \in Entries', (Dicts(m))' = {i, j}
      PROVE  m \in Entries \ {h}
  <2>1. found \notin (Dicts(m))'
    BY <1>3, <1>6
  <2>2. m # h
    <3> SUFFICES ASSUME m = h PROVE FALSE
      OBVIOUS
    <3>1. found \in (Dicts(h))'
      BY <1>2
    <3> QED BY <2>1, <3>1
  <2> QED BY <1>2, <1>6, <2>2
<1>7. ASSUME h \in Entries
      PROVE  Dicts(h) # {i, j}
  <2>1. h = namedict[archive[found].name] /\ Slots(h)[archive[found].fork] = 0
    BY <1>1, <1>2, <1>7 DEF Home, Completes
  <2>2. archive[found].fork \in {"data", "resource"}
    BY <1>2, ArchiveFacts DEF TypeInv, ConfigInv, Forks
  <2>3. dataentries[h] = 0 \/ resourceentries[h] = 0
    BY <2>1, <2>2, SlotFacts
  <2> QED BY <2>3, SlotFacts
<1> QED BY <1>2, <1>4, <1>5, <1>6, <1>7

\* An entry that is completed has one dictionary; what it gets is the other fork.
LEMMA Completing ==
  ASSUME TypeInv, NameInv, FoundEntry, NEW j \in Placed, IsLatest(j, archive[found].name)
  PROVE  LET m == namedict[archive[found].name]
         IN  /\ m \in Entries /\ j \in Dicts(m)
             /\ Completes(found) <=> /\ archive[found].fork # archive[j].fork /\ Dicts(m) = {j}
<1> DEFINE m == namedict[archive[found].name]
           d == archive[found].fork
<1>1. found \in 1..Len(archive)
  BY FoundShape
<1>2. archive[found].name \in Names /\ d \in {"data", "resource"}
  BY <1>1, ArchiveFacts DEF TypeInv, ConfigInv, Forks
<1>3. m \in 0..Len(dataentries) /\ Len(dataentries) \in Nat
  BY <1>2 DEF TypeInv, EntryInv
<1>4. m # 0 /\ j \in Dicts(m)
  BY DEF IsLatest
<1>5. m \in Entries
  BY <1>3, <1>4 DEF Entries
<1>6. Completes(found) <=> Slots(m)[d] = 0
  BY <1>4 DEF Completes
<1>7. j # 0 /\ (j = dataentries[m] \/ j = resourceentries[m])
  BY <1>4, SlotFacts
<1>8. /\ j = dataentries[m] => archive[j].fork = "data"
      /\ j = resourceentries[m] => archive[j].fork = "resource"
  BY <1>5, <1>7 DEF TypeInv, EntryInv
<1> HIDE DEF m, d
<1>9. ASSUME Slots(m)[d] = 0
      PROVE  d # archive[j].fork /\ Dicts(m) = {j}
  BY <1>2, <1>7, <1>8, <1>9, SlotFacts
<1>10. ASSUME d # archive[j].fork, Dicts(m) = {j}
       PROVE  Slots(m)[d] = 0
  <2>1. Dicts(m) = {dataentries[m], resourceentries[m]} \ {0}
    BY SlotFacts
  <2>2. dataentries[m] \in {0, j} /\ resourceentries[m] \in {0, j}
    BY <1>10, <2>1
  <2>3. CASE d = "data"
    <3>1. dataentries[m] # j
      BY <1>8, <1>10, <2>3
    <3> QED BY <2>2, <2>3, <3>1, SlotFacts
  <2>4. CASE d = "resource"
    <3>1. resourceentries[m] # j
      BY <1>8, <1>10, <2>4
    <3> QED BY <2>2, <2>4, <3>1, SlotFacts
  <2> QED BY <1>2, <2>3, <2>4
<1> QED BY <1>4, <1>5, <1>6, <1>9, <1>10 DEF m, d

\* A dictionary that is found is paired as it should be, and the others as they were.
LEMMA PairStep ==
  ASSUME TypeInv, NameInv, PairInv, FoundEntry
  PROVE  PairInv'
<1> DEFINE x == archive[found].name
<1>1. PICK e : e = found
  OBVIOUS
<1>2. /\ e \in 1..Len(archive) /\ archive' = archive
  BY <1>1, FoundShape
<1>3. /\ Placed' = Placed \cup {e} /\ e \notin Placed
      /\ \A i \in Placed : (Before(i))' = Before(i)
      /\ (Before(e))' = {j \in Placed : archive[j].name = archive[e].name}
  BY <1>1, PlacedStep
<1>4. Placed \subseteq Nat /\ \A i \in Placed : Before(i) \subseteq Placed /\ i \notin Before(i)
  <2>1. Len(archive) \in Nat
    BY ArchiveFacts DEF TypeInv, ConfigInv
  <2>2. Placed \subseteq Nat
    BY <2>1, PlacedFacts
  <2> QED BY <2>2 DEF Before
<1>5. \A i, j : (IsLast(j, i))' <=> j \in (Before(i))' /\ \A k \in (Before(i))' : k <= j
  BY DEF IsLast
<1>6. \A i \in Placed : \A j : (IsLast(j, i))' <=> IsLast(j, i)
  BY <1>3, <1>5 DEF IsLast
<1>7. \A i, j \in Placed : i # j => ((Together(i, j))' <=> Together(i, j))
  BY TogetherStays
<1>8. ASSUME NEW i \in Placed', (Before(i))' # {}
      PROVE  \E j \in (Before(i))' : (IsLast(j, i))'
  <2>1. CASE i \in Placed
    BY <1>3, <1>6, <1>8, <2>1 DEF PairInv
  <2>2. CASE i = e
    <3>1. PICK k \in Placed : archive[k].name = archive[e].name
      BY <1>3, <1>8, <2>2
    <3>2. PICK j \in Placed : IsLatest(j, archive[e].name)
      BY <3>1 DEF NameInv
    <3>3. \A l \in Placed : archive[l].name = archive[e].name => l <= j
      BY <3>2 DEF IsLatest
    <3>4. archive[j].name = archive[e].name
      <4>1. archive[e].name \in Names
        BY <1>2, ArchiveFacts DEF TypeInv, ConfigInv
      <4> QED BY <3>2, <4>1 DEF NameInv, IsLatest
    <3> QED BY <1>3, <1>5, <2>2, <3>2, <3>3, <3>4
  <2> QED BY <1>3, <1>8, <2>1, <2>2
<1>9. ASSUME NEW i \in Placed, NEW j \in Placed', (IsLast(j, i))'
      PROVE  (Together(i, j))' <=> /\ archive[i].fork # archive[j].fork
                                   /\ \A k \in (Before(j))' : ~(Together(k, j))'
  <2>1. IsLast(j, i) /\ j \in Before(i)
    BY <1>6, <1>9 DEF IsLast
  <2>2. j \in Placed /\ i # j
    BY <1>4, <2>1
  <2>3. Together(i, j) <=> /\ archive[i].fork # archive[j].fork
                           /\ \A k \in Before(j) : ~Together(k, j)
    BY <2>1, <2>2 DEF PairInv
  <2>4. \A k \in Before(j) : (Together(k, j))' <=> Together(k, j)
    BY <1>4, <1>7, <2>2
  <2> QED BY <1>3, <1>7, <2>2, <2>3, <2>4
<1>10. ASSUME NEW j \in Placed', (IsLast(j, e))'
       PROVE  (Together(e, j))' <=> /\ archive[e].fork # archive[j].fork
                                    /\ \A k \in (Before(j))' : ~(Together(k, j))'
  <2>1. /\ j \in Placed /\ archive[j].name = archive[e].name
        /\ \A k \in Placed : archive[k].name = archive[e].name => k <= j
    BY <1>3, <1>5, <1>10
  <2>2. PICK l \in Placed : IsLatest(l, archive[e].name)
    BY <2>1 DEF NameInv
  <2>3. l = j
    <3>1. archive[e].name \in Names
      BY <1>2, ArchiveFacts DEF TypeInv, ConfigInv
    <3>2. archive[l].name = archive[e].name
      BY <2>2, <3>1 DEF NameInv, IsLatest
    <3>3. l <= j /\ j <= l
      BY <2>1, <2>2, <3>2 DEF IsLatest
    <3> QED BY <1>4, <2>1, <3>3
  <2>4. PICK m : m = namedict[archive[e].name]
    OBVIOUS
  <2>5. /\ m \in Entries /\ j \in Dicts(m)
        /\ Completes(found) <=> /\ archive[e].fork # archive[j].fork /\ Dicts(m) = {j}
    BY <1>1, <2>2, <2>3, <2>4, Completing
  <2>6. (\A k \in (Before(j))' : ~(Together(k, j))') <=> Dicts(m) = {j}
    <3>1. (\A k \in (Before(j))' : ~(Together(k, j))') <=> \A k \in Before(j) : ~Together(k, j)
      BY <1>3, <1>4, <1>7, <2>1
    <3>2. ASSUME Dicts(m) = {j}, NEW k \in Before(j), Together(k, j)
          PROVE  FALSE
      <4>1. PICK q \in Entries : Dicts(q) = {k, j}
        BY <3>2 DEF Together, Entries
      <4>2. q = m
        BY <2>1, <2>5, <4>1 DEF NameInv
      <4> QED BY <1>4, <2>1, <3>2, <4>1, <4>2
    <3>3. ASSUME Dicts(m) # {j}
          PROVE  \E k \in Before(j) : Together(k, j)
      <4>1. PICK k \in Dicts(m) : k # j
        BY <2>5, <3>3
      <4>2. k \in Placed /\ archive[k].name = archive[j].name
        BY <2>5, PlacedFacts DEF NameInv
      <4>3. k < j
        <5>1. k <= j
          BY <2>1, <4>2
        <5> QED BY <1>4, <2>1, <4>1, <4>2, <5>1
      <4>4. Dicts(m) = {k, j}
        BY <2>5, <4>1, TwoForks
      <4> QED BY <2>5, <4>2, <4>3, <4>4 DEF Before, Together, Entries
    <3> QED BY <3>1, <3>2, <3>3
  <2>7. (Together(e, j))' <=> Completes(found) /\ Dicts(m) = {j}
    <3>1. PICK h : h = Home(found)
      OBVIOUS
    <3>2. /\ Entries' = Entries \cup {h}
          /\ h \in Entries <=> Completes(found)
          /\ \A q \in Entries \ {h} : (Dicts(q))' = Dicts(q)
          /\ h \in Entries => (Dicts(h))' = Dicts(h) \cup {e}
          /\ h \notin Entries => (Dicts(h))' = {e}
      BY <1>1, <3>1, FoundShape
    <3>3. (Together(e, j))' <=> \E q \in Entries' : (Dicts(q))' = {e, j}
      BY DEF Together, Entries
    <3>4. \A q \in Entries : e \notin Dicts(q)
      BY <1>1, PlacedFacts
    <3>5. (\E q \in Entries' : (Dicts(q))' = {e, j}) <=> (Dicts(h))' = {e, j}
      BY <3>2, <3>4
    <3>6. Completes(found) => h = m
      BY <1>1, <2>4, <3>1 DEF Home
    <3>7. e # j
      BY <1>3, <2>1
    <3> QED BY <3>2, <3>3, <3>4, <3>5, <3>6, <3>7
  <2> QED BY <2>5, <2>6, <2>7
<1>11. ASSUME NEW i \in Placed', NEW j \in Placed', (IsLast(j, i))'
       PROVE  (Together(i, j))' <=> /\ archive[i].fork # archive[j].fork
                                    /\ \A k \in (Before(j))' : ~(Together(k, j))'
  BY <1>3, <1>9, <1>10, <1>11
<1> QED BY <1>2, <1>8, <1>11 DEF PairInv

\* The names stand for what they stood for as long as nothing is found.
LEMMA PairKept ==
  ASSUME TypeInv, NameInv, PairInv, [Next]_vars, ~FoundEntry
  PROVE  NameInv' /\ PairInv'
<1>1. /\ dataentries' = dataentries /\ resourceentries' = resourceentries /\ namedict' = namedict
      /\ archive' = archive
  <2>1. CASE StopParser
    BY <2>1 DEF StopParser, fixedVars
  <2>2. CASE ~StopParser
    BY <2>2, EntriesKept, ConfigKept DEF entryVars, fixedVars
  <2> QED BY <2>1, <2>2
<1>2. /\ \A m : (Dicts(m))' = Dicts(m)
      /\ Entries' = Entries /\ Placed' = Placed
  BY <1>1 DEF Dicts, Slots, Entries, Placed
<1>3. \A i : (Before(i))' = Before(i)
  BY <1>1, <1>2 DEF Before
<1>4. \A i, j : (Together(i, j))' = Together(i, j)
  BY <1>1 DEF Together, Dicts, Slots
<1>5. \A i, j : (IsLast(j, i))' = IsLast(j, i)
  BY <1>1 DEF IsLast, Before, Placed, Dicts, Slots
<1>6. \A j, name : (IsLatest(j, name))' = IsLatest(j, name)
  BY <1>1 DEF IsLatest, Placed, Dicts, Slots
<1>7. PairInv'
  BY <1>1, <1>2, <1>3, <1>4, <1>5 DEF PairInv
<1>8. \A name : (Dicts(namedict[name]))' = Dicts(namedict[name])
  BY <1>1 DEF Dicts, Slots
<1>9. \A i : (\E j \in Placed : IsLatest(j, archive[i].name))' <=> \E j \in Placed : IsLatest(j, archive[i].name)
  BY <1>1 DEF IsLatest, Placed, Dicts, Slots
<1>10. NameInv'
  BY <1>1, <1>2, <1>8, <1>9 DEF NameInv
<1> QED BY <1>7, <1>10

\* At first nothing is found.
LEMMA PairInit ==
  ASSUME Init
  PROVE  NameInv /\ PairInv
<1>1. dataentries = <<>> /\ namedict = [name \in Names |-> 0]
  BY DEF Init
<1>2. Entries = {}
  BY <1>1 DEF Entries
<1>3. Placed = {}
  BY <1>2 DEF Placed, Entries
<1> QED BY <1>1, <1>2, <1>3 DEF NameInv, PairInv

\* The pairing is inductive, given the types.
LEMMA PairInductive == Spec => [](TypeInv /\ NameInv /\ PairInv)
<1>1. TypeInv /\ NameInv /\ PairInv /\ [Next]_vars => (TypeInv /\ NameInv /\ PairInv)'
  BY TypeStep, NameStep, PairStep, PairKept
<1>2. Init => TypeInv /\ NameInv /\ PairInv
  BY TypeInit, PairInit
<1> QED BY <1>1, <1>2, PTL DEF Spec

\* ForksPaired: in whatever order the forks of any number of files of a name are
\* found, each is in one entry, with the fork it belongs to.
THEOREM PairedAsFound == Spec => []ForksPaired
<1>1. ASSUME TypeInv, NameInv, PairInv
      PROVE  ForksPaired
  <2>1. ASSUME NEW i \in Placed
        PROVE  \E m \in Entries :
                 Slots(m)[archive[i].fork] = i /\ \A k \in Entries : k # m => i \notin Dicts(k)
    <3>1. PICK m \in Entries : i \in Dicts(m)
      BY <1>1, PlacedFacts
    <3>2. /\ i # 0 /\ (i = dataentries[m] \/ i = resourceentries[m])
      BY <3>1, SlotFacts
    <3>3. Slots(m)[archive[i].fork] = i
      BY <1>1, <3>2, SlotFacts DEF TypeInv, EntryInv
    <3>4. \A k \in Entries : k # m => i \notin Dicts(k)
      BY <1>1, <3>1 DEF NameInv
    <3> QED BY <3>3, <3>4
  <2>2. ASSUME NEW i \in Placed, Before(i) # {}
        PROVE  LET j == CHOOSE j \in Before(i) : \A k \in Before(i) : k <= j
               IN  Together(i, j) <=> /\ archive[i].fork # archive[j].fork
                                      /\ \A k \in Before(j) : ~Together(k, j)
    <3> DEFINE c == CHOOSE j \in Before(i) : \A k \in Before(i) : k <= j
    <3>1. \E j \in Before(i) : \A k \in Before(i) : k <= j
      BY <1>1, <2>2 DEF PairInv, IsLast
    <3>2. c \in Before(i) /\ \A k \in Before(i) : k <= c
      BY <3>1
    <3> HIDE DEF c
    <3>3. IsLast(c, i) /\ c \in Placed
      BY <3>2 DEF IsLast, Before
    <3>4. Together(i, c) <=> /\ archive[i].fork # archive[c].fork
                             /\ \A k \in Before(c) : ~Together(k, c)
      BY <1>1, <3>3 DEF PairInv
    <3> QED BY <3>4 DEF c
  <2>3. ASSUME NEW i \in Placed, NEW j \in Placed, i # j, Together(i, j)
        PROVE  archive[i].name = archive[j].name
    BY <1>1, <2>3 DEF Together, NameInv, Entries
  <2> QED BY <2>1, <2>2, <2>3 DEF ForksPaired, Entries
<1> QED BY <1>1, PairInductive, PTL

-----------------------------------------------------------------------------
(***************************************************************************)
(* What a success without an error means.                                  *)
(***************************************************************************)
\* What has failed has failed.
LEMMA CleanStays ==
  ASSUME TypeInv, [Next]_vars, Clean'
  PROVE  Clean
<1>1. lasterror' = "none" /\ ~immediatefailed'
  BY DEF Clean
<1>2. immediatefailed \in BOOLEAN /\ immediate \in BOOLEAN
  BY DEF TypeInv, OutcomeInv, ConfigInv
<1>3. CASE UNCHANGED vars
  BY <1>1, <1>3 DEF vars, flowVars, Clean
<1>4. CASE Open \/ OpenFails \/ FoundEntry \/ StopParser \/ NextEntry \/ EntriesDone
  <2>1. lasterror' = lasterror /\ immediatefailed' = immediatefailed
    BY <1>4 DEF Open, OpenFails, FoundEntry, StopParser, NextEntry, EntriesDone, flowVars
  <2> QED BY <1>1, <2>1 DEF Clean
<1>5. CASE ParseEnds \/ ParseRaises
  <2>1. PICK e : Parsed(e)
    BY <1>5 DEF ParseEnds, ParseRaises
  <2> QED BY <1>1, <2>1 DEF Parsed, Clean
<1>6. CASE TestChecksum \/ Settle
  BY <1>1, <1>2, <1>6 DEF TestChecksum, Settle, Clean
<1>7. CASE AtWork
  <2>1. /\ lasterror' = "none" => lasterror = "none"
        /\ Done(TRUE) \/ Done(FALSE) \/ immediatefailed' = immediatefailed
    BY <1>7, WorkEffect DEF Effect
  <2>2. ~immediatefailed
    BY <1>1, <1>2, <2>1 DEF Done
  <2> QED BY <1>1, <2>1, <2>2 DEF Clean
<1> QED BY <1>3, <1>4, <1>5, <1>6, <1>7 DEF Next, AtWork

\* An extraction that has failed does not come back.
LEMMA AliveStays ==
  ASSUME TypeInv, [Next]_vars, Alive'
  PROVE  Alive
<1>1. ~immediatefailed' /\ result' # "no"
  BY DEF Alive
<1>2. /\ immediatefailed \in BOOLEAN /\ immediate \in BOOLEAN
      /\ pc # "returned" => result = "none"
  BY DEF TypeInv, OutcomeInv, ConfigInv
<1>3. CASE UNCHANGED vars
  BY <1>1, <1>3 DEF vars, flowVars, Alive
<1>4. ASSUME pc # "returned", immediatefailed => immediatefailed'
      PROVE  Alive
  BY <1>1, <1>2, <1>4 DEF Alive
<1>5. CASE Open \/ OpenFails \/ FoundEntry \/ StopParser \/ NextEntry \/ EntriesDone \/ Settle
  <2>1. pc # "returned" /\ immediatefailed' = immediatefailed
    BY <1>5 DEF Open, OpenFails, FoundEntry, StopParser, NextEntry, EntriesDone, Settle, flowVars
  <2> QED BY <1>4, <2>1
<1>6. CASE ParseEnds \/ ParseRaises
  <2>1. pc # "returned" /\ \E e : Parsed(e)
    BY <1>6 DEF ParseEnds, ParseRaises
  <2> QED BY <1>4, <2>1 DEF Parsed
<1>7. CASE AtWork
  <2>1. /\ pc \in Jobs
        /\ Done(TRUE) \/ Done(FALSE) \/ immediatefailed' = immediatefailed
    BY <1>7, WorkEffect DEF Effect
  <2>2. immediatefailed => immediatefailed'
    BY <1>2, <2>1 DEF Done
  <2> QED BY <1>4, <2>1, <2>2 DEF Jobs
<1>8. CASE TestChecksum
  BY <1>1, <1>2, <1>8 DEF TestChecksum, Alive
<1> QED BY <1>3, <1>5, <1>6, <1>7, <1>8 DEF Next, AtWork

\* A failure of an entry is one of the extraction.
LEMMA FailureKills ==
  ASSUME TypeInv, Done(FALSE)
  PROVE  ~Alive'
<1>1. immediate \in BOOLEAN
  BY DEF TypeInv, ConfigInv
<1> QED BY <1>1 DEF Done, Alive

\* A directory on the disk is one of the archive's, and has no resource fork.
LEMMA NodeStep ==
  ASSUME TypeInv, NodeInv, [Next]_vars
  PROVE  NodeInv'
<1>1. disk \in [Paths -> Nodes]
  BY DEF TypeInv, DiskInv, Nodes
<1>2. \/ disk' = disk
      \/ \E node : /\ disk' = [disk EXCEPT ![destfile] = node]
                   /\ \/ node = Nothing
                      \/ node.kind = "file"
                      \/ node.kind = "dir" /\ node.data # 0 /\ node.resource = 0
  <2>1. CASE ~DirectoryThere /\ ~Collide /\ ~WriteFork /\ ~WriteFails
    BY <2>1, DiskKept
  <2>2. CASE DirectoryThere
    BY <2>2 DEF DirectoryThere
  <2>3. CASE Collide
    BY <2>3 DEF Collide, Overwrite, Skip, Rename, LookAgain, Abort
  <2>4. CASE WriteFork
    <3>1. pc = "write"
      BY <2>4 DEF WriteFork
    <3>2. Slots(n)[Fork] # 0
      <4>1. Fork \in todo
        BY <3>1, ForkDue
      <4> QED BY <3>1, <4>1 DEF TypeInv, JobInv
    <3>3. PICK node : /\ disk' = disk \/ disk' = [disk EXCEPT ![destfile] = node]
                      /\ node = IF WritesDir THEN Node("dir", Slots(n)[Fork], 0)
                                ELSE WithFork(disk[destfile], Fork, Slots(n)[Fork])
      BY <2>4 DEF WriteFork
    <3>4. CASE WritesDir
      <4>1. node.kind = "dir" /\ node.data # 0 /\ node.resource = 0
        BY <3>2, <3>3, <3>4 DEF Node
      <4> QED BY <3>3, <4>1
    <3>5. CASE ~WritesDir
      <4>1. node.kind = "file"
        BY <3>3, <3>5 DEF Node, WithFork
      <4> QED BY <3>3, <4>1
    <3> QED BY <3>4, <3>5
  <2>5. CASE WriteFails
    <3>1. \/ disk' = disk
          \/ disk' = [disk EXCEPT ![destfile] = WithFork(disk[destfile], Fork, 0)]
      BY <2>5 DEF WriteFails
    <3>2. WithFork(disk[destfile], Fork, 0).kind = "file"
      BY DEF WithFork, Node
    <3> QED BY <3>1, <3>2
  <2> QED BY <2>1, <2>2, <2>3, <2>4, <2>5
<1> QED BY <1>1, <1>2 DEF NodeInv, Nothing, Node

\* A fork in the slot of its kind is one of the archive's.
LEMMA ForkFacts ==
  ASSUME TypeInv, NEW m \in Entries, NEW f \in Forks, Slots(m)[f] # 0
  PROVE  /\ Slots(m)[f] \in 1..Len(archive) /\ archive[Slots(m)[f]].fork = f
         /\ Slots(m)[f] \in Dicts(m) /\ Slots(m)[f] \in Placed
<1>1. Len(archive) \in Nat
  BY ArchiveFacts DEF TypeInv, ConfigInv
<1>2. Slots(m)[f] \in 0..Len(archive)
  BY SlotRange
<1>3. archive[Slots(m)[f]].fork = f
  BY SlotFacts DEF TypeInv, EntryInv, Forks
<1>4. Slots(m)[f] \in Dicts(m)
  BY DEF Dicts
<1>5. Slots(m)[f] \in Placed
  BY <1>4, PlacedFacts
<1> QED BY <1>1, <1>2, <1>3, <1>4, <1>5, NumberFacts

\* A fork of the entry at work is of no other entry.
LEMMA OneEntry ==
  ASSUME TypeInv, NameInv, n \in Entries, NEW m \in Entries, NEW f \in Forks, NEW g \in Forks,
         Slots(m)[f] # 0, Slots(m)[f] = Slots(n)[g]
  PROVE  m = n /\ f = g
<1>1. Slots(m)[f] \in Dicts(m) /\ Slots(m)[f] \in Placed /\ archive[Slots(m)[f]].fork = f
  BY ForkFacts
<1>2. Slots(n)[g] \in Dicts(n) /\ archive[Slots(n)[g]].fork = g
  BY ForkFacts
<1> QED BY <1>1, <1>2 DEF NameInv

\* A fork that is settled stays settled, or is worked on again, as long as the
\* extraction has not failed.
LEMMA SettledStays ==
  ASSUME TypeInv, NodeInv, NameInv, FoundInv, [Next]_vars, Alive',
         NEW m \in Entries, NEW f \in Forks, Slots(m)[f] # 0, Settled(m, f)
  PROVE  /\ (Settled(m, f))' \/ (Working(m, f))'
         /\ (Slots(m)[f])' = Slots(m)[f]
<1> DEFINE i == Slots(m)[f]
<1>1. archive' = archive
  BY ConfigKept DEF fixedVars
<1>2. /\ i \in 1..Len(archive) /\ archive[i].fork = f
      /\ Len(archive) \in Nat
  BY ForkFacts, ArchiveFacts DEF TypeInv, ConfigInv
<1>3. (Slots(m)[f])' = i /\ (dataentries[m] # 0 => dataentries'[m] = dataentries[m])
  <2>1. CASE FoundEntry
    <3>1. PICK h : h = Home(found)
      OBVIOUS
    <3>2. found <= Len(archive) /\ Place(found)
      BY <2>1 DEF FoundEntry
    <3>3. /\ m # h => dataentries'[m] = dataentries[m] /\ resourceentries'[m] = resourceentries[m]
          /\ m = h => \/ dataentries[h] = 0 /\ resourceentries'[h] = resourceentries[h]
                      \/ resourceentries[h] = 0 /\ dataentries'[h] = dataentries[h]
      <4>1. CASE m # h
        BY <3>1, <3>2, <4>1, PlaceShape
      <4>2. CASE m = h
        <5>1. Completes(found) /\ archive[found].fork \in {"data", "resource"}
          <6>1. found \in 1..Len(archive)
            BY <2>1, <3>1, FoundShape
          <6>2. h \in Entries <=> Completes(found)
            BY <2>1, <3>1, FoundShape
          <6> QED BY <4>2, <6>1, <6>2, ArchiveFacts DEF TypeInv, ConfigInv, Forks
        <5> QED BY <3>1, <3>2, <4>2, <5>1, PlaceShape
      <4> QED BY <4>1, <4>2
    <3> QED BY <3>3 DEF Slots, Forks
  <2>2. CASE ~FoundEntry
    <3>1. dataentries' = dataentries /\ resourceentries' = resourceentries
      BY <2>2, EntriesKept DEF StopParser, entryVars
    <3> QED BY <3>1 DEF Slots
  <2> QED BY <2>1, <2>2
<1>4. dataentries[m] \in unpacked => dataentries[m] # 0
  <2>1. 0 \notin 1..Len(archive)
    BY <1>2
  <2> QED BY <2>1 DEF FoundInv
<1> HIDE DEF i
<1>5. /\ Settled(m, f) <=> \/ i \in declined
                           \/ dataentries[m] \in unpacked
                           \/ /\ placed[i] # ""
                              /\ \/ ForkAt(placed[i], f) # 0
                                 \/ DirectoryFork(i)
                                 \/ f = "resource" /\ IsDir(m)
      /\ (Settled(m, f))' <=> \/ i \in declined'
                              \/ dataentries'[m] \in unpacked'
                              \/ /\ placed'[i] # ""
                                 /\ \/ (IF f = "data" THEN disk'[placed'[i]].data
                                        ELSE disk'[placed'[i]].resource) # 0
                                    \/ DirectoryFork(i)
                                    \/ f = "resource" /\ (IsDir(m))'
  <2>1. Settled(m, f) <=> \/ i \in declined
                          \/ dataentries[m] \in unpacked
                          \/ /\ placed[i] # ""
                             /\ \/ ForkAt(placed[i], f) # 0
                                \/ DirectoryFork(i)
                                \/ f = "resource" /\ IsDir(m)
    BY DEF Settled, i
  <2>2. (Settled(m, f))' <=> \/ (Slots(m)[f])' \in declined'
                             \/ dataentries'[m] \in unpacked'
                             \/ /\ placed'[(Slots(m)[f])'] # ""
                                /\ \/ (IF f = "data" THEN disk'[placed'[(Slots(m)[f])']].data
                                       ELSE disk'[placed'[(Slots(m)[f])']].resource) # 0
                                   \/ (DirectoryFork(Slots(m)[f]))'
                                   \/ f = "resource" /\ (IsDir(m))'
    BY DEF Settled, ForkAt
  <2>3. (DirectoryFork(Slots(m)[f]))' = DirectoryFork(i)
    BY <1>1, <1>3 DEF DirectoryFork
  <2> QED BY <1>3, <2>1, <2>2, <2>3
<1>6. /\ declined \subseteq declined' /\ unpacked \subseteq unpacked'
  <2>1. CASE UNCHANGED vars
    BY <2>1 DEF vars, historyVars, diskVars
  <2>2. CASE Open \/ OpenFails \/ FoundEntry \/ StopParser \/ ParseEnds \/ ParseRaises
    BY <2>2 DEF Open, OpenFails, FoundEntry, StopParser, ParseEnds, ParseRaises, Parsed, historyVars, diskVars
  <2>3. CASE TestChecksum \/ Settle \/ NextEntry \/ EntriesDone
    BY <2>3 DEF TestChecksum, Settle, NextEntry, EntriesDone, historyVars, diskVars
  <2>4. CASE ExtractArchive \/ ExtractArchiveFails \/ ExtractArchiveRaises
    BY <2>4 DEF ExtractArchive, ExtractArchiveFails, ExtractArchiveRaises, LeaveOut
  <2>5. CASE NameEntry \/ NameUndecodable \/ DirectoryReady \/ DirectoryRefused
    BY <2>5 DEF NameEntry, NameUndecodable, DirectoryReady, DirectoryRefused, InEntry, LeaveOut, AskAbout
  <2>6. CASE NoCollision \/ DirectoryThere \/ WriteFork \/ WriteFails
    BY <2>6 DEF NoCollision, DirectoryThere, WriteFork, WriteFails, InEntry, LeaveOut
  <2>7. CASE Collide
    BY <2>7 DEF Collide, Overwrite, Skip, Rename, LookAgain, Abort, InEntry, LeaveOut
  <2> QED BY <2>1, <2>2, <2>3, <2>4, <2>5, <2>6, <2>7 DEF Next
<1>7. \A j \in 1..Len(archive) : placed[j] # "" => placed'[j] # ""
  <2>1. placed \in [1..Len(archive) -> Paths \cup {""}]
    BY DEF TypeInv, DiskInv
  <2>2. CASE ~DirectoryThere /\ ~Collide /\ ~WriteFork /\ ~WriteFails
    BY <2>2, DiskKept
  <2>3. CASE DirectoryThere
    BY <2>3, DirectoryTaken
  <2>4. CASE WriteFork
    <3>1. PICK w : placed' = [placed EXCEPT ![w] = destfile]
      BY <2>4 DEF WriteFork
    <3>2. destfile # ""
      BY <2>4 DEF WriteFork, TypeInv, JobInv
    <3> QED BY <2>1, <3>1, <3>2
  <2>5. CASE Collide \/ WriteFails
    BY <2>5 DEF Collide, WriteFails
  <2> QED BY <2>2, <2>3, <2>4, <2>5
<1>8. ASSUME i \in declined
      PROVE  (Settled(m, f))'
  BY <1>6, <1>8, <1>5
<1>9. ASSUME dataentries[m] \in unpacked
      PROVE  (Settled(m, f))'
  BY <1>3, <1>4, <1>6, <1>9, <1>5
<1>10. ASSUME placed[i] # "", DirectoryFork(i) \/ (f = "resource" /\ IsDir(m))
      PROVE  (Settled(m, f))'
  <2>1. placed'[i] # ""
    BY <1>2, <1>7, <1>10
  <2>2. DirectoryFork(i) \/ (f = "resource" /\ dataentries[m] # 0 /\ IsDir(m))
    <3>1. f = "resource" => i = resourceentries[m]
      BY SlotFacts DEF i
    <3> QED BY <1>2, <1>10, <3>1 DEF IsDir, DirectoryFork
  <2>3. CASE DirectoryFork(i)
    BY <1>5, <2>1, <2>3
  <2>4. CASE f = "resource" /\ dataentries[m] # 0 /\ IsDir(m)
    <3>1. (IsDir(m))'
      BY <1>1, <1>3, <2>4 DEF IsDir
    <3> QED BY <1>5, <2>1, <2>4, <3>1
  <2> QED BY <2>2, <2>3, <2>4
<1>11. ASSUME placed[i] # "" /\ ForkAt(placed[i], f) # 0
       PROVE  (Settled(m, f))' \/ (Working(m, f))'
  <2> DEFINE p == placed[i]
  <2>1. p \in Paths /\ disk \in [Paths -> Nodes] /\ placed \in [1..Len(archive) -> Paths \cup {""}]
    BY <1>2, <1>11 DEF TypeInv, DiskInv, Nodes
  <2> HIDE DEF p
  <2>2. p # "" /\ (IF f = "data" THEN disk[p].data ELSE disk[p].resource) # 0
    BY <1>11 DEF p, ForkAt
  <2>3. ASSUME placed'[i] = p, disk'[p] = disk[p]
        PROVE  (Settled(m, f))'
    BY <1>5, <2>2, <2>3
  <2>4. CASE ~DirectoryThere /\ ~Collide /\ ~WriteFork /\ ~WriteFails
    BY <2>3, <2>4, DiskKept DEF p
  <2>5. CASE DirectoryThere
    <3>1. /\ disk[destfile].kind = "dir" /\ IsDir(n) /\ disk' = disk
          /\ destfile \in Paths /\ destfile # "" /\ n \in Entries
          /\ IF \E g \in forks : Slots(n)[g] = i THEN placed'[i] = destfile
                                              ELSE placed'[i] = placed[i]
      BY <1>2, <2>5, DirectoryTaken DEF TypeInv, JobInv, Jobs
    <3>2. CASE \E g \in forks : Slots(n)[g] = i
      <4>1. placed'[i] = destfile
        BY <3>1, <3>2
      <4>2. CASE f = "data"
        <5>1. disk[destfile].data # 0
          BY <3>1 DEF NodeInv
        <5> QED BY <1>5, <3>1, <4>1, <4>2, <5>1
      <4>3. CASE f = "resource"
        <5>1. PICK g \in Forks : Slots(n)[g] = i
          BY <3>2 DEF TypeInv, JobInv
        <5>2. m = n
          BY <3>1, <5>1, OneEntry DEF i
        <5>3. dataentries' = dataentries /\ resourceentries' = resourceentries
          BY <2>5 DEF DirectoryThere, InEntry, entryVars
        <5>4. (IsDir(m))'
          BY <1>1, <3>1, <5>2, <5>3 DEF IsDir
        <5> QED BY <1>5, <3>1, <4>1, <4>3, <5>4
      <4> QED BY <4>2, <4>3 DEF Forks
    <3>3. CASE ~(\E g \in forks : Slots(n)[g] = i)
      BY <2>3, <3>1, <3>3 DEF p
    <3> QED BY <3>2, <3>3
  <2>6. CASE Collide
    <3>1. placed' = placed
      BY <2>6 DEF Collide
    <3>2. disk' = disk \/ (LookAgain /\ disk' = [disk EXCEPT ![destfile] = Nothing])
      BY <2>6 DEF Collide, Overwrite, Skip, Rename, LookAgain, Abort
    <3>3. CASE p = destfile /\ LookAgain
      <4>1. i \in declined'
        BY <1>2, <3>3 DEF LookAgain, p
      <4> QED BY <1>5, <4>1
    <3>4. CASE disk' = disk \/ p # destfile
      BY <2>1, <2>3, <3>1, <3>2, <3>4 DEF p
    <3> QED BY <3>2, <3>3, <3>4
  <2>7. CASE WriteFork
    <3>1. pc = "write" /\ ~Blocked
      BY <2>7 DEF WriteFork
    <3>2. PICK w : w = Slots(n)[Fork]
      OBVIOUS
    <3>3. /\ placed' = [placed EXCEPT ![w] = destfile]
          /\ \/ disk' = disk /\ DirectoryFork(w)
             \/ /\ ~WritesNothing
                /\ disk' = [disk EXCEPT ![destfile] = IF WritesDir THEN Node("dir", w, 0)
                                                     ELSE WithFork(disk[destfile], Fork, w)]
      BY <2>7, <3>2 DEF WriteFork, WritesNothing
    <3>4. n \in Entries /\ Fork \in Forks /\ w \in 1..Len(archive) /\ destfile \in Paths /\ destfile # ""
      BY <3>1, <3>2, ForkDue
    <3>5. w # 0 /\ archive[w].fork = Fork
      <4>1. 0 \notin 1..Len(archive)
        BY <1>2
      <4>2. w # 0
        BY <3>4, <4>1
      <4>3. Fork = "data" \/ Fork = "resource"
        BY <3>4 DEF Forks
      <4>4. /\ dataentries[n] # 0 => archive[dataentries[n]].fork = "data"
            /\ resourceentries[n] # 0 => archive[resourceentries[n]].fork = "resource"
        BY <3>4 DEF TypeInv, EntryInv
      <4>5. /\ Fork = "data" => w = dataentries[n]
            /\ Fork = "resource" => w = resourceentries[n]
        BY <3>2, SlotFacts
      <4> QED BY <4>2, <4>3, <4>4, <4>5
    <3>6. CASE disk' = disk /\ DirectoryFork(w)
      <4>1. CASE i = w
        <5>1. placed'[i] = destfile
          BY <2>1, <3>4, <3>3, <4>1
        <5> QED BY <1>5, <3>4, <3>6, <4>1, <5>1
      <4>2. CASE i # w
        <5>1. placed'[i] = p
          BY <1>2, <2>1, <3>3, <4>2 DEF p
        <5> QED BY <2>3, <3>6, <5>1
      <4> QED BY <4>1, <4>2
    <3>7. ASSUME ~WritesNothing,
                  disk' = [disk EXCEPT ![destfile] = IF WritesDir THEN Node("dir", w, 0)
                                                     ELSE WithFork(disk[destfile], Fork, w)]
           PROVE  (Settled(m, f))'
      <4>1. CASE i = w
        <5>1. f = Fork /\ placed'[i] = destfile
          BY <1>2, <2>1, <3>3, <3>7, <3>4, <3>5, <4>1
        <5>2. CASE WritesDir
          <6>1. f = "data" /\ disk'[destfile].data = w
            BY <2>1, <3>3, <3>7, <3>4, <5>1, <5>2 DEF WritesDir, Node
          <6> QED BY <1>5, <3>4, <3>5, <5>1, <6>1
        <5>3. CASE ~WritesDir
          <6>1. disk'[destfile] = WithFork(disk[destfile], f, w)
            BY <2>1, <3>3, <3>7, <3>4, <5>1, <5>3
          <6>2. (IF f = "data" THEN disk'[destfile].data ELSE disk'[destfile].resource) = w
            BY <6>1 DEF WithFork, Node, Forks
          <6> QED BY <1>5, <3>4, <3>5, <5>1, <6>2
        <5> QED BY <5>2, <5>3
      <4>2. CASE i # w /\ p # destfile
        BY <1>2, <2>1, <2>3, <3>3, <3>7, <4>2 DEF p
      <4>3. CASE i # w /\ p = destfile
        <5>1. placed'[i] = destfile
          BY <1>2, <2>1, <3>3, <3>7, <4>3 DEF p
        <5>2. disk[destfile].kind \in Kinds
          BY <2>1, <3>4 DEF Nodes
        <5>3. disk[destfile].kind # "none"
          BY <2>2, <3>4, <4>3 DEF NodeInv
        <5>4. CASE WritesDir
          <6>1. disk[destfile].kind = "dir"
            BY <3>1, <3>7, <5>2, <5>3, <5>4 DEF Blocked, Kinds
          <6>2. f = "data"
            BY <2>2, <3>4, <4>3, <6>1 DEF NodeInv, Forks
          <6>3. disk'[destfile].data = w
            BY <2>1, <3>3, <3>7, <3>4, <5>4 DEF Node
          <6> QED BY <1>5, <3>4, <3>5, <5>1, <6>2, <6>3
        <5>5. CASE ~WritesDir
          <6>1. disk'[destfile] = WithFork(disk[destfile], Fork, w)
            BY <2>1, <3>3, <3>7, <3>4, <5>5
          <6>2. (IF f = "data" THEN disk'[destfile].data ELSE disk'[destfile].resource) # 0
            <7>1. /\ Fork = "data" => WithFork(disk[destfile], Fork, w) = Node("file", w, disk[destfile].resource)
                  /\ Fork = "resource" => WithFork(disk[destfile], Fork, w) = Node("file", disk[destfile].data, w)
              BY DEF WithFork
            <7>2. Fork = "data" \/ Fork = "resource"
              BY <3>4 DEF Forks
            <7>3. (IF f = "data" THEN disk[destfile].data ELSE disk[destfile].resource) # 0
              BY <2>2, <4>3
            <7>4. CASE Fork = "data"
              BY <3>5, <6>1, <7>1, <7>3, <7>4 DEF Node
            <7>5. CASE Fork = "resource"
              BY <3>5, <6>1, <7>1, <7>3, <7>5 DEF Node
            <7> QED BY <7>2, <7>4, <7>5
          <6> QED BY <1>5, <3>4, <5>1, <6>2
        <5> QED BY <5>4, <5>5
      <4> QED BY <4>1, <4>2, <4>3
    <3> QED BY <3>3, <3>6, <3>7
  <2>8. CASE WriteFails
    <3>1. pc = "write" /\ placed' = placed /\ forks' = forks
      BY <2>8 DEF WriteFails, InEntry
    <3>2. PICK fork : fork = Fork
      OBVIOUS
    <3>3. /\ n \in Entries /\ fork \in Forks /\ destfile \in Paths
          /\ fork \in forks /\ Slots(n)[fork] # 0
      BY <3>1, <3>2, ForkDue DEF TypeInv, JobInv
    <3>4. disk' = disk \/ disk' = [disk EXCEPT ![destfile] = WithFork(disk[destfile], fork, 0)]
      BY <2>8, <3>2 DEF WriteFails
    <3>5. CASE disk' = disk \/ p # destfile
      BY <2>1, <2>3, <3>1, <3>4, <3>5 DEF p
    <3>6. CASE p = destfile /\ f # fork /\ disk' # disk
      <4>1. disk'[destfile] = WithFork(disk[destfile], fork, 0)
        BY <2>1, <3>3, <3>4, <3>6
      <4>2. /\ fork = "data" => WithFork(disk[destfile], fork, 0) = Node("file", 0, disk[destfile].resource)
            /\ fork = "resource" => WithFork(disk[destfile], fork, 0) = Node("file", disk[destfile].data, 0)
        BY DEF WithFork
      <4>3. (f = "data" /\ fork = "resource") \/ (f = "resource" /\ fork = "data")
        BY <3>3, <3>6 DEF Forks
      <4>4. (IF f = "data" THEN disk'[destfile].data ELSE disk'[destfile].resource) # 0
        <5>1. (IF f = "data" THEN disk[destfile].data ELSE disk[destfile].resource) # 0
          BY <2>2, <3>6
        <5>2. CASE f = "data" /\ fork = "resource"
          BY <4>1, <4>2, <5>1, <5>2 DEF Node
        <5>3. CASE f = "resource" /\ fork = "data"
          BY <4>1, <4>2, <5>1, <5>3 DEF Node
        <5> QED BY <4>3, <5>2, <5>3
      <4> QED BY <1>5, <2>2, <3>1, <3>6, <4>4 DEF p
    <3>7. CASE p = destfile /\ f = fork
      <4>1. \/ Finished(FALSE)
            \/ /\ Overwritten \subseteq declined'
               /\ \/ ({Slots(n)[g] : g \in forks} \ {0}) \subseteq declined'
                  \/ pc' = "directory" /\ n' = n
        BY <2>8 DEF WriteFails, Waits
      <4>2. ~Finished(FALSE)
        BY FinishedIsDone, FailureKills
      <4>3. CASE i # Slots(n)[fork]
        <5>1. i \in Overwritten
          BY <1>2, <3>2, <3>7, <4>3 DEF Overwritten, p
        <5> QED BY <1>5, <4>1, <4>2, <5>1
      <4>4. CASE i = Slots(n)[fork]
        <5>1. m = n
          BY <3>3, <4>4, OneEntry DEF i
        <5>2. i \in {Slots(n)[g] : g \in forks} \ {0}
          BY <3>3, <4>4
        <5>3. CASE i \in declined'
          BY <1>5, <5>3
        <5>4. CASE pc' = "directory" /\ n' = n
          BY <3>1, <3>3, <3>7, <5>1, <5>4 DEF Working, Jobs
        <5> QED BY <4>1, <4>2, <5>2, <5>3, <5>4
      <4> QED BY <4>3, <4>4
    <3> QED BY <3>5, <3>6, <3>7
  <2> QED BY <2>4, <2>5, <2>6, <2>7, <2>8
<1>12. (Settled(m, f))' \/ (Working(m, f))'
  BY <1>5, <1>8, <1>9, <1>10, <1>11
<1> QED BY <1>3, <1>12 DEF i

\* Success is declared when the deferred directories have been seen to.
LEMMA ResultSet ==
  ASSUME TypeInv, [Next]_vars, result' \in {"yes", "self"}
  PROVE  Settle \/ UNCHANGED vars
<1>1. /\ pc # "returned" => result = "none"
  BY DEF TypeInv, OutcomeInv
<1>2. CASE Open \/ OpenFails \/ FoundEntry \/ StopParser \/ NextEntry \/ EntriesDone \/ TestChecksum
  <2>1. pc # "returned" /\ result' \in {result, "nil"}
    BY <1>2 DEF Open, OpenFails, FoundEntry, StopParser, NextEntry, EntriesDone, TestChecksum, flowVars
  <2> QED BY <1>1, <2>1
<1>3. CASE ParseEnds \/ ParseRaises
  <2>1. pc # "returned" /\ \E e : Parsed(e)
    BY <1>3 DEF ParseEnds, ParseRaises
  <2>2. result' \in {result, "nil"}
    BY <2>1 DEF Parsed
  <2> QED BY <1>1, <2>1, <2>2
<1>4. CASE AtWork
  <2>1. pc \in Jobs /\ (Done(TRUE) \/ Done(FALSE) \/ result' = result)
    BY <1>4, WorkEffect DEF Effect
  <2>2. result' \in {result, "no"}
    <3>1. immediate \in BOOLEAN
      BY DEF TypeInv, ConfigInv
    <3> QED BY <2>1, <3>1 DEF Done
  <2> QED BY <1>1, <2>1, <2>2 DEF Jobs
<1> QED BY <1>2, <1>3, <1>4 DEF Next, AtWork

\* Only an archive that is extracted adds to unpacked.
LEMMA UnpackedStep ==
  ASSUME TypeInv, FoundInv, [Next]_vars
  PROVE  unpacked' \subseteq 1..Len(archive)
<1>1. unpacked \subseteq 1..Len(archive)
  BY DEF FoundInv
<1>2. CASE ExtractArchive
  <2>1. pc = "archive" /\ unpacked' = unpacked \cup {dataentries[n]}
    BY <1>2 DEF ExtractArchive, InArchive
  <2>2. n \in Entries /\ dataentries[n] # 0
    BY <2>1 DEF TypeInv, JobInv, Jobs, IsArchive
  <2>3. Len(archive) \in Nat
    BY ArchiveFacts DEF TypeInv, ConfigInv
  <2>4. dataentries[n] \in 0..Len(archive)
    BY <2>2, SlotRange, SlotFacts DEF Forks
  <2>5. dataentries[n] \in 1..Len(archive)
    BY <2>2, <2>3, <2>4, NumberFacts
  <2> QED BY <1>1, <2>1, <2>5
<1>3. CASE UNCHANGED vars
  BY <1>1, <1>3 DEF vars, diskVars
<1>4. CASE Open \/ OpenFails \/ FoundEntry \/ StopParser \/ ParseEnds \/ ParseRaises
  BY <1>1, <1>4 DEF Open, OpenFails, FoundEntry, StopParser, ParseEnds, ParseRaises, Parsed, diskVars
<1>5. CASE TestChecksum \/ Settle \/ NextEntry \/ EntriesDone
  BY <1>1, <1>5 DEF TestChecksum, Settle, NextEntry, EntriesDone, diskVars
<1>6. CASE ExtractArchiveFails \/ ExtractArchiveRaises
  BY <1>1, <1>6 DEF ExtractArchiveFails, ExtractArchiveRaises
<1>7. CASE NameEntry \/ NameUndecodable \/ DirectoryReady \/ DirectoryRefused
            \/ NoCollision \/ DirectoryThere \/ Collide \/ WriteFork \/ WriteFails
  BY <1>1, <1>7 DEF NameEntry, NameUndecodable, DirectoryReady, DirectoryRefused, NoCollision,
     DirectoryThere, Collide, WriteFork, WriteFails, InEntry
<1> QED BY <1>2, <1>3, <1>4, <1>5, <1>6, <1>7 DEF Next

\* The parser has found all there is when extraction gets beyond it.
LEMMA AllFound ==
  ASSUME TypeInv, ReasonInv, FoundInv, [Next]_vars, Clean', result' # "nil",
         pc' \in {"checksum", "next", "settle", "returned"} \/ (~immediate /\ pc' \in Jobs)
  PROVE  found' = Len(archive) + 1
<1>1. Clean
  BY CleanStays
<1>2. /\ found \in 1..(Len(archive) + 1) /\ Len(archive) \in Nat
      /\ immediate \in BOOLEAN /\ immediate => pc # "next"
  BY ArchiveFacts DEF TypeInv, ConfigInv, EntryInv, JobInv
<1>3. ASSUME found' = found, result = "nil" => result' = "nil",
             pc \in {"checksum", "next", "settle", "returned"} \/ (~immediate /\ pc \in Jobs)
      PROVE  found' = Len(archive) + 1
  BY <1>1, <1>3 DEF FoundInv
<1>4. pc # "returned" => result = "none"
  BY DEF TypeInv, OutcomeInv
<1>5. CASE UNCHANGED vars
  BY <1>3, <1>5 DEF vars, entryVars, flowVars
<1>6. CASE Open \/ OpenFails \/ StopParser
  BY <1>6 DEF Open, OpenFails, StopParser, flowVars, Jobs
<1>7. CASE FoundEntry
  <2>1. immediate => pc' \in {"archive", "name"}
    BY <1>7 DEF FoundEntry
  <2>2. ~immediate => pc' = "parse"
    BY <1>7 DEF FoundEntry
  <2> QED BY <1>2, <2>1, <2>2 DEF Jobs
<1>8. CASE ParseEnds
  <2>1. found' = found /\ found > Len(archive)
    BY <1>8 DEF ParseEnds, Parsed, entryVars
  <2> QED BY <1>2, <2>1
<1>9. CASE ParseRaises
  <2>1. lasterror' # "none"
    BY <1>9 DEF ParseRaises, Parsed
  <2> QED BY <2>1 DEF Clean
<1>10. CASE TestChecksum \/ Settle \/ NextEntry \/ EntriesDone
  <2>1. found' = found /\ pc \in {"checksum", "next", "settle"}
    BY <1>10 DEF TestChecksum, Settle, NextEntry, EntriesDone, entryVars
  <2> QED BY <1>3, <1>4, <2>1
<1>11. CASE AtWork
  <2>1. /\ pc \in Jobs /\ found' = found
        /\ Done(TRUE) \/ Done(FALSE) \/ pc' \in Jobs
    BY <1>11, WorkEffect DEF Effect, entryVars
  <2>2. immediate => pc' \in Jobs \cup {"parse"}
    BY <2>1 DEF Done
  <2>3. ~immediate
    BY <1>2, <2>2 DEF Jobs
  <2> QED BY <1>3, <1>4, <2>1, <2>3 DEF Jobs
<1> QED BY <1>5, <1>6, <1>7, <1>8, <1>9, <1>10, <1>11 DEF Next, AtWork

\* What is found is placed, and extraction goes on when all is.
LEMMA FoundStep ==
  ASSUME TypeInv, ReasonInv, FoundInv, [Next]_vars
  PROVE  FoundInv'
<1>1. archive' = archive /\ immediate' = immediate
  BY ConfigKept DEF fixedVars
<1>2. unpacked' \subseteq 1..Len(archive)
  BY UnpackedStep
<1>3. pc' = "open" => UNCHANGED vars
  <2>1. CASE Open \/ OpenFails \/ FoundEntry \/ StopParser \/ NextEntry \/ EntriesDone \/ TestChecksum \/ Settle
    <3>1. pc' # "open"
      BY <2>1 DEF Open, OpenFails, FoundEntry, StopParser, NextEntry, EntriesDone, TestChecksum, Settle, flowVars
    <3> QED BY <3>1
  <2>2. CASE ParseEnds \/ ParseRaises
    <3>1. \E e : Parsed(e)
      BY <2>2 DEF ParseEnds, ParseRaises
    <3>2. pc' # "open"
      BY <3>1 DEF Parsed
    <3> QED BY <3>2
  <2>3. CASE AtWork
    <3>1. Done(TRUE) \/ Done(FALSE) \/ pc' \in Jobs
      BY <2>3, WorkEffect DEF Effect
    <3>2. immediate \in BOOLEAN
      BY DEF TypeInv, ConfigInv
    <3>3. pc' # "open"
      BY <3>1, <3>2 DEF Done, Jobs
    <3> QED BY <3>3
  <2> QED BY <2>1, <2>2, <2>3 DEF Next, AtWork
<1>4. pc' = "open" => Entries' = {}
  <2> SUFFICES ASSUME pc' = "open" PROVE Entries' = {}
    OBVIOUS
  <2>1. pc' = pc /\ dataentries' = dataentries
    BY <1>3 DEF vars, flowVars, entryVars
  <2> QED BY <2>1 DEF FoundInv, Entries
<1>5. ~parserstopped' => Placed' = 1..(found' - 1)
  <2>1. /\ found \in 1..(Len(archive) + 1) /\ Len(archive) \in Nat
    BY ArchiveFacts DEF TypeInv, ConfigInv, EntryInv
  <2>2. CASE FoundEntry
    <3>1. found' = found + 1 /\ parserstopped' = parserstopped
      BY <2>2 DEF FoundEntry
    <3>2. Placed' = Placed \cup {found}
      <4>1. PICK e : e = found
        OBVIOUS
      <4> QED BY <2>2, <4>1, PlacedStep
    <3>3. found \in Nat /\ 1..(found' - 1) = (1..(found - 1)) \cup {found}
      BY <2>1, <3>1
    <3> QED BY <3>1, <3>2, <3>3 DEF FoundInv
  <2>3. CASE StopParser
    BY <2>3 DEF StopParser
  <2>4. CASE ~FoundEntry /\ ~StopParser
    <3>1. /\ found' = found /\ parserstopped' = parserstopped
          /\ dataentries' = dataentries /\ resourceentries' = resourceentries
      BY <2>4, EntriesKept DEF entryVars
    <3>2. Placed' = Placed
      BY <1>1, <3>1 DEF Placed, Dicts, Slots
    <3> QED BY <3>1, <3>2 DEF FoundInv
  <2> QED BY <2>2, <2>3, <2>4
<1>6. result' \in {"yes", "self"} => deferred' = {} \/ finishfailed'
  <2> SUFFICES ASSUME result' \in {"yes", "self"} PROVE deferred' = {} \/ finishfailed'
    OBVIOUS
  <2>1. CASE Settle
    BY <2>1 DEF Settle
  <2>2. CASE UNCHANGED vars
    BY <2>2 DEF vars, diskVars, historyVars, flowVars, FoundInv
  <2> QED BY <2>1, <2>2, ResultSet
<1>7. /\ Clean' /\ result' # "nil"
      /\ pc' \in {"checksum", "next", "settle", "returned"} \/ (~immediate /\ pc' \in Jobs)
      => found' = Len(archive) + 1
  BY AllFound
<1> QED BY <1>1, <1>2, <1>4, <1>5, <1>6, <1>7 DEF FoundInv

\* A fork at work is settled, or stays at work.
LEMMA WorkingStep ==
  ASSUME TypeInv, NodeInv, AtWork, Alive', NEW m, m = n, NEW f \in Forks, Slots(m)[f] # 0, Working(m, f)
  PROVE  (Working(m, f))' \/ (Settled(m, f))'
<1> DEFINE i == Slots(m)[f]
<1>1. /\ dataentries' = dataentries /\ resourceentries' = resourceentries /\ archive' = archive
  BY WorkEffect DEF entryVars, fixedVars
<1>2. /\ pc \in Jobs /\ f \in forks /\ (pc = "write" => f \in todo)
      /\ n \in Entries /\ m \in Entries /\ hasdelegate \in BOOLEAN
  BY DEF Working, TypeInv, JobInv, ConfigInv
<1>3. ~Done(FALSE) /\ ~Finished(FALSE)
  BY FailureKills, FinishedIsDone
<1>4. pc' \in Jobs /\ n' = n /\ f \in forks' /\ (pc' = "write" => f \in todo') => (Working(m, f))'
  BY DEF Working, Jobs
<1>5. (Slots(m)[f])' = i /\ (IsDir(m))' = IsDir(m) /\ (DirectoryFork(Slots(m)[f]))' = DirectoryFork(i)
  BY <1>1 DEF Slots, IsDir, DirectoryFork
<1> HIDE DEF i
<1>6. /\ i \in declined' => (Settled(m, f))'
      /\ dataentries[m] \in unpacked' => (Settled(m, f))'
      /\ placed'[i] # "" /\ (IF f = "data" THEN disk'[placed'[i]].data
                             ELSE disk'[placed'[i]].resource) # 0 => (Settled(m, f))'
      /\ placed'[i] # "" /\ (DirectoryFork(i) \/ (f = "resource" /\ IsDir(m))) => (Settled(m, f))'
  <2>1. (Settled(m, f))' <=> \/ (Slots(m)[f])' \in declined'
                             \/ dataentries'[m] \in unpacked'
                             \/ /\ placed'[(Slots(m)[f])'] # ""
                                /\ \/ (IF f = "data" THEN disk'[placed'[(Slots(m)[f])']].data
                                       ELSE disk'[placed'[(Slots(m)[f])']].resource) # 0
                                   \/ (DirectoryFork(Slots(m)[f]))'
                                   \/ f = "resource" /\ (IsDir(m))'
    BY DEF Settled, ForkAt
  <2> QED BY <1>1, <1>5, <2>1
<1>7. LeaveOut => (Settled(m, f))'
  <2>1. i # 0 /\ i = Slots(n)[f]
    BY DEF i
  <2>2. LeaveOut => i \in declined'
    BY <1>2, <2>1 DEF LeaveOut
  <2> QED BY <1>6, <2>2
<1>8. UNCHANGED flowVars /\ forks' = forks /\ todo' = todo => (Working(m, f))'
  BY <1>2, <1>4 DEF flowVars
<1>9. \A error \in {"other"} : AskAbout(error) =>
        LeaveOut \/ UNCHANGED flowVars \/ Finished(FALSE)
  BY DEF AskAbout, FailWith
<1>10. CASE ExtractArchive
  <2>1. dataentries[m] \in unpacked'
    BY <1>10 DEF ExtractArchive
  <2> QED BY <1>6, <2>1
<1>11. CASE ExtractArchiveFails \/ ExtractArchiveRaises
  <2>1. /\ pc = "archive" /\ forks' = forks /\ todo' = todo
        /\ ArchiveAnswered(FALSE) \/ LeaveOut \/ UNCHANGED flowVars
    BY <1>11 DEF ExtractArchiveFails, ExtractArchiveRaises, InArchive, jobVars
  <2>2. CASE ArchiveAnswered(FALSE)
    <3>1. pc' = "name" /\ n' = n
      BY <1>3, <2>2, FinishedIsDone
    <3> QED BY <1>2, <1>4, <2>1, <3>1 DEF Jobs
  <2> QED BY <1>7, <1>8, <2>1, <2>2
<1>13. CASE NameEntry
  <2>1. LeaveOut \/ (pc' = "directory" /\ n' = n /\ forks' = forks)
    BY <1>13 DEF NameEntry, InEntry, Waits
  <2> QED BY <1>2, <1>4, <1>7, <2>1 DEF Jobs
<1>14. CASE NameUndecodable \/ DirectoryRefused
  <2>1. AskAbout("other") /\ forks' = forks /\ todo' = todo
    BY <1>14 DEF NameUndecodable, DirectoryRefused, InEntry
  <2> QED BY <1>3, <1>7, <1>8, <1>9, <2>1
<1>15. CASE DirectoryReady
  <2>1. pc' = "collide" /\ n' = n /\ forks' = forks
    BY <1>15 DEF DirectoryReady, InEntry, Waits
  <2> QED BY <1>2, <1>4, <2>1 DEF Jobs
<1>16. pc = "collide" => f \in todo
  BY <1>2 DEF TypeInv, JobInv
<1>17. CASE NoCollision
  <2>1. pc = "collide" /\ n' = n /\ forks' = forks /\ pc' = "write" /\ todo' = todo
    BY <1>17 DEF NoCollision, InEntry, Waits
  <2> QED BY <1>2, <1>4, <1>16, <2>1 DEF Jobs
<1>18. CASE DirectoryThere
  <2>1. /\ disk[destfile].kind = "dir" /\ IsDir(n) /\ disk' = disk
        /\ destfile \in Paths /\ destfile # ""
    BY <1>18, DirectoryTaken
  <2>2. placed'[i] = destfile
    <3>1. i \in 1..Len(archive)
      BY <1>2, ForkFacts DEF i
    <3> QED BY <1>2, <1>18, <3>1, DirectoryTaken DEF i
  <2>3. CASE f = "data"
    <3>1. disk[destfile].data # 0
      BY <2>1 DEF NodeInv
    <3> QED BY <1>6, <2>1, <2>2, <2>3, <3>1
  <2>4. CASE f = "resource"
    BY <1>6, <2>1, <2>2, <2>4
  <2> QED BY <2>3, <2>4 DEF Forks
<1>19. CASE Collide
  <2>1. pc = "collide" /\ forks' = forks /\ todo' = todo
    BY <1>19 DEF Collide, InEntry
  <2>2. CASE Overwrite
    <3>1. pc' = "write" /\ n' = n
      BY <2>2 DEF Overwrite, Waits
    <3> QED BY <1>2, <1>4, <1>16, <2>1, <3>1 DEF Jobs
  <2>3. CASE Skip
    BY <1>7, <2>3 DEF Skip
  <2>4. CASE Rename \/ LookAgain
    BY <1>8, <2>1, <2>4 DEF Rename, LookAgain
  <2>5. CASE Abort
    BY <1>3, <2>5 DEF Abort
  <2> QED BY <1>19, <2>2, <2>3, <2>4, <2>5 DEF Collide
<1>20. CASE WriteFork
  <2>1. pc = "write" /\ forks' = forks
    BY <1>20 DEF WriteFork, InEntry
  <2>2. PICK w : w = Slots(n)[Fork]
    OBVIOUS
  <2>3. /\ \/ DirectoryFork(w)
           \/ disk' = [disk EXCEPT ![destfile] = IF WritesDir THEN Node("dir", w, 0)
                                                ELSE WithFork(disk[destfile], Fork, w)]
        /\ placed' = [placed EXCEPT ![w] = destfile]
        /\ todo' = todo \ {Fork}
        /\ IF todo' = {} THEN Finished(TRUE) ELSE UNCHANGED flowVars
    BY <1>20, <2>2 DEF WriteFork, WritesNothing
  <2>4. Fork \in todo /\ w \in 1..Len(archive) /\ destfile \in Paths /\ destfile # ""
    BY <2>1, <2>2, ForkDue
  <2>5. CASE f # Fork
    <3>1. f \in todo'
      BY <1>2, <2>1, <2>3, <2>5
    <3>2. UNCHANGED flowVars
      BY <2>3, <3>1
    <3> QED BY <1>2, <1>4, <2>1, <3>1, <3>2 DEF flowVars
  <2>6. CASE f = Fork
    <3>1. w = i /\ w # 0
      BY <2>2, <2>6 DEF i
    <3>2. placed'[w] = destfile
      BY <2>3, <2>4 DEF TypeInv, DiskInv
    <3>3. \/ DirectoryFork(w)
          \/ disk'[destfile] = IF WritesDir THEN Node("dir", w, 0) ELSE WithFork(disk[destfile], f, w)
      BY <2>3, <2>4, <2>6 DEF TypeInv, DiskInv
    <3>4. DirectoryFork(w) \/ (IF f = "data" THEN disk'[destfile].data ELSE disk'[destfile].resource) = w
      <4>1. CASE WritesDir
        BY <2>6, <3>3, <4>1 DEF WritesDir, Node
      <4>2. CASE ~WritesDir
        BY <3>3, <4>2 DEF WithFork, Node, Forks
      <4> QED BY <4>1, <4>2
    <3> QED BY <1>6, <2>4, <3>1, <3>2, <3>4
  <2> QED BY <2>5, <2>6
<1>21. CASE WriteFails
  <2>1. /\ forks' = forks
        /\ \/ Finished(FALSE)
           \/ ({Slots(n)[g] : g \in forks} \ {0}) \subseteq declined'
           \/ pc' = "directory" /\ n' = n
    BY <1>21 DEF WriteFails, Waits, InEntry
  <2>2. i \in {Slots(n)[g] : g \in forks} \ {0}
    BY <1>2 DEF i
  <2>3. CASE ({Slots(n)[g] : g \in forks} \ {0}) \subseteq declined'
    BY <1>6, <2>2, <2>3
  <2>4. CASE pc' = "directory" /\ n' = n
    BY <1>2, <1>4, <2>1, <2>4 DEF Jobs
  <2> QED BY <1>3, <2>1, <2>3, <2>4
<1> QED BY <1>10, <1>11, <1>13, <1>14, <1>15, <1>17, <1>18, <1>19, <1>20, <1>21 DEF AtWork

\* The other forks wait while an entry is at work, or are settled.
LEMMA ForkWork ==
  ASSUME TypeInv, NodeInv, NameInv, FoundInv, ForkInv, AtWork, Alive', NEW m \in Entries, NEW f \in Forks
  PROVE  (Kept(m, f))'
<1>1. [Next]_vars
  BY DEF Next, AtWork
<1>2. Alive
  BY <1>1, AliveStays
<1>3. /\ dataentries' = dataentries /\ resourceentries' = resourceentries /\ immediate' = immediate
      /\ pc \in Jobs
  BY WorkEffect DEF entryVars, fixedVars
<1>4. (Slots(m)[f])' = Slots(m)[f]
  BY <1>3 DEF Slots
<1>5. (Kept(m, f))' <=> (Slots(m)[f])' = 0 \/ (Waiting(m))' \/ (Working(m, f))' \/ (Settled(m, f))'
  BY DEF Kept
<1>6. CASE Slots(m)[f] = 0
  BY <1>4, <1>5, <1>6
<1>7. CASE Slots(m)[f] # 0 /\ Settled(m, f)
  BY <1>1, <1>5, <1>7, SettledStays
<1>8. CASE Slots(m)[f] # 0 /\ Working(m, f)
  <2>1. m = n
    BY <1>8 DEF Working
  <2> QED BY <1>5, <1>8, <2>1, WorkingStep
<1>9. CASE Waiting(m)
  <2>1. ~immediate /\ n < m
    BY <1>3, <1>9 DEF Waiting, Jobs
  <2>2. n \in Nat /\ m \in Nat
    <3>1. n \in Nat /\ dataentries \in Seq(0..Len(archive))
      BY DEF TypeInv, EntryInv, JobInv
    <3>2. Len(dataentries) \in Nat
      BY <3>1, LengthFacts, Zenon
    <3>3. 1..Len(dataentries) \subseteq Nat
      BY <3>2, NumberFacts
    <3> QED BY <3>1, <3>3 DEF Entries
  <2>3. n + 1 <= m
    BY <2>1, <2>2
  <2>4. \/ Done(TRUE)
        \/ pc' \in Jobs /\ n' = n
    BY WorkEffect, FailureKills DEF Effect
  <2>5. CASE Done(TRUE)
    <3>1. pc' = "next" /\ n' = n + 1
      BY <2>1, <2>5 DEF Done
    <3>2. n' <= m
      BY <2>3, <3>1
    <3>3. (Waiting(m))'
      BY <1>3, <2>1, <3>1, <3>2 DEF Waiting
    <3> QED BY <1>5, <3>3
  <2>6. CASE pc' \in Jobs /\ n' = n
    <3>1. (Waiting(m))'
      BY <1>3, <2>1, <2>6 DEF Waiting, Jobs
    <3> QED BY <1>5, <3>1
  <2> QED BY <2>4, <2>5, <2>6
<1>10. Kept(m, f)
  BY <1>2 DEF ForkInv
<1> QED BY <1>6, <1>7, <1>8, <1>9, <1>10 DEF Kept

\* A dictionary that is found is to be extracted, at once or later.
LEMMA ForkFound ==
  ASSUME TypeInv, NodeInv, NameInv, FoundInv, ForkInv, FoundEntry, Alive', NEW m \in Entries', NEW f \in Forks
  PROVE  (Kept(m, f))'
<1>1. [Next]_vars
  BY DEF Next
<1>2. Alive
  BY <1>1, AliveStays
<1>3. PICK h : h = Home(found)
  OBVIOUS
<1>4. /\ immediate' = immediate /\ Entries' = Entries \cup {h} /\ (h \in Entries <=> Completes(found))
      /\ pc = "parse" /\ found <= Len(archive) /\ Place(found)
  <2>1. immediate' = immediate
    BY <1>1, ConfigKept DEF fixedVars
  <2>2. Entries' = Entries \cup {h} /\ (h \in Entries <=> Completes(found))
    BY <1>3, FoundShape
  <2> QED BY <2>1, <2>2 DEF FoundEntry
<1>5. (Kept(m, f))' <=> (Slots(m)[f])' = 0 \/ (Waiting(m))' \/ (Working(m, f))' \/ (Settled(m, f))'
  BY DEF Kept
<1>6. CASE ~immediate
  <2>1. pc' = "parse"
    BY <1>4, <1>6 DEF FoundEntry
  <2>2. (Waiting(m))'
    BY <1>4, <1>6, <2>1 DEF Waiting
  <2> QED BY <1>5, <2>2
<1>7. CASE immediate /\ m = h /\ (Completes(found) => f = archive[found].fork)
  <2>1. h = IF Completes(found) THEN namedict[archive[found].name] ELSE Len(dataentries) + 1
    BY <1>3 DEF Home
  <2>2. /\ n' = h /\ pc' \in {"archive", "name"}
        /\ forks' = IF Completes(found) THEN {archive[found].fork} ELSE Forks
    <3>1. Start(IF Completes(found) THEN namedict[archive[found].name] ELSE Len(dataentries) + 1,
                IF Completes(found) THEN {archive[found].fork} ELSE Forks,
                Completes(found) /\ archive[found].fork = "data")
      BY <1>7 DEF FoundEntry
    <3>2. pc' \in {"archive", "name"}
      BY <1>7 DEF FoundEntry
    <3> QED BY <2>1, <3>1, <3>2 DEF Start
  <2>3. f \in forks'
    BY <1>7, <2>2
  <2>4. (Working(m, f))'
    BY <1>7, <2>2, <2>3 DEF Working, Jobs
  <2> QED BY <1>5, <2>4
<1>8. CASE immediate /\ ~(m = h /\ (Completes(found) => f = archive[found].fork))
  <2>1. m \in Entries
    BY <1>4, <1>8
  <2>2. (Slots(m)[f])' = Slots(m)[f]
    <3>1. CASE m # h
      <4>1. dataentries'[m] = dataentries[m] /\ resourceentries'[m] = resourceentries[m]
        BY <1>3, <1>4, <2>1, <3>1, PlaceShape
      <4> QED BY <4>1 DEF Slots
    <3>2. CASE m = h
      <4>1. Completes(found) /\ f # archive[found].fork
        BY <1>8, <3>2
      <4>2. /\ archive[found].fork = "data" => resourceentries'[m] = resourceentries[m]
            /\ archive[found].fork = "resource" => dataentries'[m] = dataentries[m]
        BY <1>3, <1>4, <3>2, <4>1, PlaceShape
      <4>3. archive[found].fork \in {"data", "resource"}
        <5>1. found \in 1..Len(archive)
          BY <1>3, FoundShape
        <5> QED BY <5>1, ArchiveFacts DEF TypeInv, ConfigInv, Forks
      <4> QED BY <4>1, <4>2, <4>3 DEF Slots, Forks
    <3> QED BY <3>1, <3>2
  <2>3. Slots(m)[f] = 0 \/ Settled(m, f)
    BY <1>2, <1>4, <1>8, <2>1 DEF ForkInv, Kept, Waiting, Working, Jobs
  <2>4. CASE Slots(m)[f] = 0
    BY <1>5, <2>2, <2>4
  <2>5. CASE Slots(m)[f] # 0 /\ Settled(m, f)
    BY <1>1, <1>5, <2>1, <2>5, SettledStays
  <2> QED BY <2>3, <2>4, <2>5
<1> QED BY <1>6, <1>7, <1>8

\* Every fork is kept until it is settled.
LEMMA ForkStep ==
  ASSUME TypeInv, ReasonInv, NodeInv, NameInv, FoundInv, ForkInv, [Next]_vars
  PROVE  ForkInv'
<1> SUFFICES ASSUME Alive', NEW m \in Entries', NEW f \in Forks
             PROVE  (Kept(m, f))'
  BY DEF ForkInv
<1>1. CASE FoundEntry
  BY <1>1, ForkFound
<1>2. CASE ~FoundEntry
  <2>1. /\ dataentries' = dataentries /\ resourceentries' = resourceentries /\ immediate' = immediate
        /\ archive' = archive /\ Entries' = Entries
    <3>1. dataentries' = dataentries /\ resourceentries' = resourceentries
      BY <1>2, EntriesKept DEF StopParser, entryVars
    <3> QED BY <3>1, ConfigKept DEF fixedVars, Entries
  <2>2. m \in Entries /\ (Slots(m)[f])' = Slots(m)[f]
    BY <2>1 DEF Slots
  <2>3. (Kept(m, f))' <=> (Slots(m)[f])' = 0 \/ (Waiting(m))' \/ (Working(m, f))' \/ (Settled(m, f))'
    BY DEF Kept
  <2>4. Slots(m)[f] = 0 \/ Waiting(m) \/ Working(m, f) \/ Settled(m, f)
    <3>1. Alive
      BY AliveStays
    <3> QED BY <2>2, <3>1 DEF ForkInv, Kept
  <2>5. CASE Slots(m)[f] = 0
    BY <2>2, <2>3, <2>5
  <2>6. CASE Slots(m)[f] # 0 /\ Settled(m, f)
    BY <2>2, <2>3, <2>6, SettledStays
  <2>7. CASE Slots(m)[f] # 0 /\ (Waiting(m) \/ Working(m, f))
    <3>1. /\ Waiting(m) => ~immediate /\ (pc \in {"open", "parse"} \/ (pc = "next" /\ n <= m) \/ (pc \in Jobs /\ n < m))
          /\ Working(m, f) => pc \in Jobs
      BY DEF Waiting, Working
    <3>2. m \in Nat /\ n \in Nat /\ Len(dataentries) \in Nat /\ m <= Len(dataentries) /\ 1 <= m
      <4>1. n \in Nat /\ dataentries \in Seq(0..Len(archive))
        BY DEF TypeInv, EntryInv, JobInv
      <4>2. Len(dataentries) \in Nat
        BY <4>1, LengthFacts, Zenon
      <4>3. \A k \in 1..Len(dataentries) : k \in Nat /\ k <= Len(dataentries) /\ 1 <= k
        BY <4>2
      <4> QED BY <2>2, <4>1, <4>2, <4>3 DEF Entries
    <3>3. CASE UNCHANGED vars
      <4>1. pc' = pc /\ n' = n /\ forks' = forks /\ todo' = todo
        BY <3>3 DEF vars, flowVars, jobVars
      <4>2. (Waiting(m))' = Waiting(m) /\ (Working(m, f))' = Working(m, f)
        BY <2>1, <4>1 DEF Waiting, Working
      <4> QED BY <2>3, <2>7, <4>2
    <3>4. CASE Open \/ StopParser
      <4>1. pc \in {"open", "parse"} /\ pc' = "parse"
        BY <3>4 DEF Open, StopParser, flowVars
      <4>2. ~immediate
        BY <2>7, <3>1, <4>1 DEF Jobs
      <4>3. (Waiting(m))'
        BY <2>1, <4>1, <4>2 DEF Waiting
      <4> QED BY <2>3, <4>3
    <3>5. CASE OpenFails
      <4>1. Entries = {}
        BY <3>5 DEF OpenFails, FoundInv
      <4> QED BY <2>2, <4>1
    <3>6. CASE ParseEnds \/ ParseRaises
      <4>1. PICK e : Parsed(e)
        BY <3>6 DEF ParseEnds, ParseRaises
      <4>2. pc = "parse"
        BY <3>6 DEF ParseEnds, ParseRaises
      <4>3. ~immediate
        BY <2>7, <3>1, <4>2 DEF Jobs
      <4>4. Len(dataentries) # 0
        BY <3>2
      <4>5. pc' = "next" /\ n' = 1
        BY <4>1, <4>3, <4>4 DEF Parsed
      <4>6. (Waiting(m))'
        BY <2>1, <3>2, <4>3, <4>5 DEF Waiting
      <4> QED BY <2>3, <4>6
    <3>7. CASE TestChecksum \/ Settle
      <4>1. pc \in {"checksum", "settle"}
        BY <3>7 DEF TestChecksum, Settle
      <4> QED BY <2>7, <3>1, <4>1 DEF Jobs
    <3>8. CASE NextEntry
      <4>1. /\ pc = "next" /\ n' = n /\ pc' \in {"archive", "name"} /\ forks' = Forks
        BY <3>8 DEF NextEntry, Start
      <4>2. ~immediate /\ n <= m
        BY <2>7, <3>1, <4>1 DEF Jobs
      <4>3. CASE m = n
        <5>1. (Working(m, f))'
          BY <4>1, <4>3 DEF Working, Jobs
        <5> QED BY <2>3, <5>1
      <4>4. CASE m # n
        <5>1. n < m
          BY <3>2, <4>2, <4>4
        <5>2. (Waiting(m))'
          BY <2>1, <4>1, <4>2, <5>1 DEF Waiting, Jobs
        <5> QED BY <2>3, <5>2
      <4> QED BY <4>3, <4>4
    <3>9. CASE EntriesDone
      <4>1. pc = "next" /\ n > Len(dataentries)
        BY <3>9 DEF EntriesDone
      <4>2. n <= m
        BY <2>7, <3>1, <4>1 DEF Jobs
      <4> QED BY <3>2, <4>1, <4>2
    <3>10. CASE AtWork
      BY <2>2, <3>10, ForkWork
    <3> QED BY <1>2, <3>3, <3>4, <3>5, <3>6, <3>7, <3>8, <3>9, <3>10 DEF Next, AtWork
  <2> QED BY <2>4, <2>5, <2>6, <2>7
<1> QED BY <1>1, <1>2

\* At first nothing is found or written.
LEMMA CleanInit ==
  ASSUME Init
  PROVE  NodeInv /\ FoundInv /\ ForkInv
<1>1. /\ dataentries = <<>> /\ pc = "open" /\ unpacked = {} /\ result = "none" /\ found = 1
      /\ disk = [p \in Paths |-> IF p \in OldFiles THEN Node("file", 0, 0) ELSE Nothing]
  BY DEF Init
<1>2. Entries = {} /\ Placed = {}
  BY <1>1 DEF Entries, Placed
<1>3. NodeInv
  BY <1>1 DEF NodeInv, Nothing, Node
<1>4. FoundInv
  BY <1>1, <1>2 DEF FoundInv, Jobs
<1> QED BY <1>2, <1>3, <1>4 DEF ForkInv

\* What is known of the forks is inductive, given the types, reasons and names.
LEMMA CleanInductive == Spec => [](TypeInv /\ ReasonInv /\ NodeInv /\ FoundInv /\ ForkInv)
<1>1. /\ TypeInv /\ ReasonInv /\ NodeInv /\ FoundInv /\ ForkInv
      /\ NameInv /\ [Next]_vars
      => (TypeInv /\ ReasonInv /\ NodeInv /\ FoundInv /\ ForkInv)'
  BY TypeStep, ReasonStep, NodeStep, FoundStep, ForkStep
<1>2. Init => TypeInv /\ ReasonInv /\ NodeInv /\ FoundInv /\ ForkInv
  BY TypeInit, ReasonInit, CleanInit
<1> QED BY <1>1, <1>2, PairInductive, PTL DEF Spec

\* CleanSuccess: an extraction that succeeds, whatever has failed and was retried
\* on the way, has left no fork out of what was found that the client did not leave
\* out or give up; if there is no error either, all there is was found; and the
\* attributes of directories are set, unless setting them failed, of which the
\* code says nothing.
THEOREM SuccessIsClean == Spec => []CleanSuccess
<1>1. ASSUME TypeInv, ReasonInv, FoundInv, ForkInv
      PROVE  CleanSuccess
  <2> SUFFICES ASSUME result \in {"yes", "self"}, ~immediatefailed
               PROVE  /\ \A i \in Placed : Extracted(i)
                      /\ lasterror = "none" => Placed = 1..Len(archive)
                      /\ deferred = {} \/ finishfailed
    BY DEF CleanSuccess
  <2>1. Alive /\ pc = "returned" /\ ~parserstopped
    BY <1>1 DEF Alive, TypeInv, OutcomeInv, ReasonInv
  <2>2. Len(archive) \in Nat
    BY <1>1, ArchiveFacts DEF TypeInv, ConfigInv
  <2>3. ASSUME lasterror = "none"
        PROVE  Placed = 1..Len(archive)
    <3>1. found = Len(archive) + 1 /\ Placed = 1..(found - 1)
      BY <1>1, <2>1, <2>3 DEF FoundInv, Clean
    <3> QED BY <2>2, <3>1
  <2>4. deferred = {} \/ finishfailed
    BY <1>1 DEF FoundInv
  <2>5. ASSUME NEW i \in Placed
        PROVE  Extracted(i)
    <3>1. PICK m \in Entries : i \in Dicts(m)
      BY <1>1, PlacedFacts
    <3>2. PICK f \in Forks : i = Slots(m)[f] /\ i # 0
      BY <3>1 DEF Dicts
    <3>3. Settled(m, f)
      BY <1>1, <2>1, <3>2 DEF ForkInv, Kept, Waiting, Working, Jobs
    <3>4. archive[i].fork = f
      BY <1>1, <3>2, ForkFacts
    <3>5. f = "resource" => i = resourceentries[m]
      BY <3>2, SlotFacts
    <3> QED BY <3>1, <3>2, <3>3, <3>4, <3>5 DEF Settled, Extracted, Entries
  <2> QED BY <2>3, <2>4, <2>5
<1> QED BY <1>1, CleanInductive, PTL
==============================================================================
