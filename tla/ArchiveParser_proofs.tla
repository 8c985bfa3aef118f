-------------------------- MODULE ArchiveParser_proofs --------------------------
(***************************************************************************)
(* Theorems about ArchiveParser, for every archive, every assignment of    *)
(* entries to solid streams, and every client.                             *)
(***************************************************************************)
EXTENDS ArchiveParser, TLAPS

USE EntriesAssumption, LimitsAssumption

-----------------------------------------------------------------------------
(***************************************************************************)
(* Types.                                                                  *)
(***************************************************************************)
LEMMA AppendType ==
  ASSUME NEW S, NEW es \in Seq(S), NEW d \in S
  PROVE  Append(es, d) \in Seq(S) /\ Len(Append(es, d)) = Len(es) + 1
OBVIOUS

\* Linking a dictionary to the next one leaves a sequence of dictionaries.
LEMMA LinkType ==
  ASSUME NEW es \in Seq(Dicts), NEW j \in Nat, NEW i \in 0..NEntries
  PROVE  /\ [es EXCEPT ![j].next = i] \in Seq(Dicts)
         /\ Len([es EXCEPT ![j].next = i]) = Len(es)
<1> DEFINE linked == [es EXCEPT ![j].next = i]
<1>1. \A k \in 1..Len(es) : linked[k] \in Dicts
  <2> SUFFICES ASSUME NEW k \in 1..Len(es) PROVE linked[k] \in Dicts
    OBVIOUS
  <2>1. es[k] \in Dicts
    OBVIOUS
  <2>2. CASE k # j
    BY <2>1, <2>2
  <2>3. CASE k = j
    <3>1. linked[k] = [es[k] EXCEPT !.next = i]
      BY <2>3
    <3> QED
      BY <2>1, <3>1 DEF Dicts
  <2> QED
    BY <2>2, <2>3
<1>2. linked = [k \in 1..Len(es) |-> linked[k]]
  <2>1. es = [k \in 1..Len(es) |-> es[k]]
    OBVIOUS
  <2> QED
    BY <2>1
<1>3. linked \in [1..Len(es) -> Dicts]
  BY <1>1, <1>2
<1>4. linked \in Seq(Dicts)
  BY <1>3
<1>5. Len(linked) = Len(es)
  BY <1>3, <1>4
<1> QED
  BY <1>4, <1>5

LEMMA SolidObjectType ==
  ASSUME NEW i \in 1..NEntries
  PROVE  SolidObject(i) \in SolidObjects
BY DEF SolidObject, SolidObjects

\* addEntry keeps the types of the chain.
LEMMA AddEntryTypes ==
  ASSUME ScanTypeOK, ChainTypeOK, AddEntry
  PROVE  /\ entries' \in Seq(Dicts) /\ Len(entries') = Len(entries) + 1
         /\ ChainTypeOK'
<1> DEFINE obj == SolidObject(next)
           i == Len(entries) + 1
<1>1. next \in 1..NEntries /\ obj \in SolidObjects /\ i \in 1..NEntries
  BY SolidObjectType DEF AddEntry, ScanTypeOK
<1>2. /\ entries \in Seq(Dicts) /\ Len(entries) \in Nat
      /\ firstsoliddict \in 0..NEntries /\ prevsoliddict \in Nat
  BY <1>1 DEF ScanTypeOK, ChainTypeOK
<1> HIDE DEF obj
<1>3. Unchained(obj) \/ Chained(obj)
  BY DEF AddEntry, obj
<1>4. CASE Unchained(obj)
  <2>1. Dict(obj, FALSE, 0) \in Dicts
    BY <1>1 DEF Dict, Dicts
  <2>2. /\ entries' = Append(entries, Dict(obj, FALSE, 0))
        /\ parsersolidobj' = NoObject /\ firstsoliddict' = 0 /\ prevsoliddict' = 0
        /\ issolid' = issolid
    BY <1>4 DEF Unchained
  <2>3. entries' \in Seq(Dicts) /\ Len(entries') = Len(entries) + 1
    BY <1>2, <2>1, <2>2, AppendType
  <2>4. issolid' \in BOOLEAN
    BY <2>2 DEF ChainTypeOK
  <2>5. parsersolidobj' \in SolidObjects
    BY <2>2 DEF SolidObjects
  <2>6. 0 \in 0..Len(entries')
    BY <2>3
  <2> QED
    BY <2>2, <2>3, <2>4, <2>5, <2>6 DEF ChainTypeOK
<1>5. CASE StartsChain(obj) /\ Chained(obj)
  <2>1. Dict(obj, FALSE, 0) \in Dicts
    BY <1>1 DEF Dict, Dicts
  <2>2. /\ entries' = Append(entries, Dict(obj, FALSE, 0))
        /\ parsersolidobj' = obj /\ firstsoliddict' = i /\ prevsoliddict' = i
        /\ issolid' = issolid
    BY <1>5 DEF Chained, StartsChain, JoinsChain
  <2>3. entries' \in Seq(Dicts) /\ Len(entries') = Len(entries) + 1
    BY <1>2, <2>1, <2>2, AppendType
  <2>4. issolid' \in BOOLEAN
    BY <2>2 DEF ChainTypeOK
  <2>5. firstsoliddict' \in 0..Len(entries') /\ prevsoliddict' \in 0..Len(entries')
    BY <1>1, <1>2, <2>2, <2>3
  <2> QED
    BY <1>1, <2>2, <2>3, <2>4, <2>5 DEF ChainTypeOK
<1>6. CASE JoinsChain(obj) /\ Chained(obj)
  <2> DEFINE linked == [entries EXCEPT ![prevsoliddict].next = i]
  <2>1. Dict(obj, TRUE, firstsoliddict) \in Dicts
    BY <1>1, <1>2 DEF Dict, Dicts
  <2>2. /\ entries' = Append(linked, Dict(obj, TRUE, firstsoliddict))
        /\ prevsoliddict' = i /\ issolid' = TRUE
        /\ parsersolidobj' = parsersolidobj /\ firstsoliddict' = firstsoliddict
    BY <1>6 DEF Chained, StartsChain, JoinsChain
  <2>3. linked \in Seq(Dicts) /\ Len(linked) = Len(entries)
    BY <1>1, <1>2, LinkType
  <2> HIDE DEF linked
  <2>4. entries' \in Seq(Dicts) /\ Len(entries') = Len(linked) + 1
    BY <2>1, <2>2, <2>3, AppendType
  <2>5. Len(entries') = Len(entries) + 1
    BY <2>3, <2>4
  <2>6. issolid' \in BOOLEAN /\ parsersolidobj' \in SolidObjects
    BY <2>2 DEF ChainTypeOK
  <2>7. firstsoliddict' \in 0..Len(entries') /\ prevsoliddict' \in 0..Len(entries')
    <3>1. firstsoliddict' \in 0..Len(entries)
      BY <2>2 DEF ChainTypeOK
    <3> QED
      BY <1>2, <2>2, <2>5, <3>1
  <2> QED
    BY <2>4, <2>5, <2>6, <2>7 DEF ChainTypeOK
<1> QED
  BY <1>3, <1>4, <1>5, <1>6 DEF Chained

Openings == [entry : 0..Len(entries), outcome : {"none", "ok", "nil", "raised"},
             handle : Handles, suspect : BOOLEAN]

LEMMA DeliverType ==
  ASSUME NEW i \in 1..Len(entries), NEW outcome \in {"none", "ok", "nil", "raised"},
         NEW handle \in Handles, poisoned' \in BOOLEAN, Deliver(i, outcome, handle)
  PROVE  opened' \in Openings
BY DEF Deliver, Openings

LEMMA NoHandleType == NoHandle \in Handles
BY DEF NoHandle, Handles

LEMMA HandleType ==
  ASSUME NEW obj \in Objects, NEW pass \in Passwords \cup {NoPassword}, made \in Nat
  PROVE  Handle(obj, pass) \in Handles
BY DEF Handle, Handles

\* Everything a step of opening an entry changes keeps its type.
LEMMA OpenTypes ==
  ASSUME TypeOK, NEW i \in 1..Len(entries),
         OpenCached(i) \/ OpenNew(i) \/ OpenUnsupported(i)
           \/ OpenAskingPassword(i) \/ OpenRaises(i)
  PROVE  TypeOK'
<1> USE DEF TypeOK
<1>1. /\ scanVars' = scanVars /\ chainVars' = chainVars /\ fixedVars' = fixedVars
      /\ savedpos' = savedpos
  BY DEF OpenCached, OpenNew, OpenUnsupported, OpenAskingPassword, OpenRaises,
         positionVars
<1>2. entries' = entries
  BY <1>1 DEF scanVars
<1>3. ScanTypeOK' /\ ChainTypeOK'
  BY <1>1 DEF ScanTypeOK, ChainTypeOK, scanVars, chainVars, fixedVars
<1>4. srcpos' \in 0..NEntries + 1 /\ savedpos' \in 0..NEntries + 1
  <2>1. srcpos' = srcpos \/ srcpos' = Elsewhere
    BY DEF OpenCached, OpenNew, OpenUnsupported, OpenAskingPassword, OpenRaises,
           positionVars
  <2> QED
    BY <1>1, <2>1 DEF SolidTypeOK, Elsewhere
<1>5. Openable(i)
  BY DEF OpenCached, OpenNew, OpenUnsupported, OpenAskingPassword, OpenRaises, Missing
<1>6. entries[i].obj \in Objects
  BY <1>5 DEF Openable
<1>7. /\ made' \in Nat /\ raises' \in Nat /\ poisoned' \in BOOLEAN
      /\ currsolidobj' \in Objects \cup {NoObject}
      /\ password' \in Passwords \cup {NoPassword}
      /\ currsolidhandle' \in Handles
      /\ opened' \in Openings
  <2> USE DEF SolidTypeOK
  <2>1. CASE OpenCached(i)
    <3>1. solidVars' = solidVars /\ password' = password
      BY <2>1 DEF OpenCached
    <3>2. poisoned' \in BOOLEAN
      BY <3>1 DEF solidVars
    <3>3. Deliver(i, "nil", NoHandle) \/ Deliver(i, "ok", currsolidhandle)
      BY <2>1 DEF OpenCached
    <3>4. opened' \in Openings
      BY <3>2, <3>3, DeliverType, NoHandleType
    <3> QED
      BY <3>1, <3>4 DEF solidVars
  <2>2. CASE OpenNew(i)
    <3> DEFINE pass == IF entries[i].obj \in Encrypted THEN password ELSE NoPassword
    <3>1. Handle(entries[i].obj, pass) \in Handles
      <4>1. pass \in Passwords \cup {NoPassword}
        OBVIOUS
      <4> QED
        BY <1>6, <4>1, HandleType
    <3> HIDE DEF pass
    <3>2. /\ currsolidobj' = entries[i].obj
          /\ currsolidhandle' = Handle(entries[i].obj, pass)
          /\ made' = made + 1 /\ poisoned' = FALSE
          /\ Deliver(i, "ok", Handle(entries[i].obj, pass))
          /\ raises' = raises /\ password' = password
      BY <2>2 DEF OpenNew, pass
    <3>3. opened' \in Openings
      BY <3>1, <3>2, DeliverType
    <3>4. made' \in Nat /\ raises' \in Nat
      BY <3>2
    <3>5. poisoned' \in BOOLEAN
      BY <3>2
    <3> QED
      BY <1>6, <3>1, <3>2, <3>3, <3>4, <3>5
  <2>3. CASE OpenUnsupported(i)
    <3>1. /\ currsolidobj' = entries[i].obj /\ currsolidhandle' = NoHandle
          /\ poisoned' = FALSE /\ Deliver(i, "nil", NoHandle)
          /\ made' = made /\ raises' = raises /\ password' = password
      BY <2>3 DEF OpenUnsupported
    <3>2. opened' \in Openings
      BY <3>1, DeliverType, NoHandleType
    <3> QED
      BY <1>6, <3>1, <3>2, NoHandleType
  <2>4. CASE OpenAskingPassword(i)
    <3>1. PICK p \in Passwords :
            /\ password' = p
            /\ currsolidobj' = NoObject
            /\ currsolidhandle' = Handle(entries[i].obj, p)
            /\ Deliver(i, "ok", Handle(entries[i].obj, p))
      BY <2>4 DEF OpenAskingPassword
    <3>2. poisoned' = FALSE /\ made' = made + 1 /\ raises' = raises
      BY <2>4 DEF OpenAskingPassword
    <3>3. Handle(entries[i].obj, p) \in Handles
      BY <1>6, HandleType
    <3>4. opened' \in Openings
      BY <3>1, <3>2, <3>3, DeliverType
    <3>5. made' \in Nat /\ raises' \in Nat
      BY <3>2
    <3>6. poisoned' \in BOOLEAN
      BY <3>2
    <3> QED
      BY <3>1, <3>3, <3>4, <3>5, <3>6
  <2>5. CASE OpenRaises(i)
    <3>1. /\ currsolidobj' = entries[i].obj /\ currsolidhandle' = currsolidhandle
          /\ raises' = raises + 1 /\ poisoned' = TRUE
          /\ Deliver(i, "raised", NoHandle)
          /\ made' = made /\ password' = password
      BY <2>5 DEF OpenRaises
    <3>2. opened' \in Openings
      BY <3>1, DeliverType, NoHandleType
    <3> QED
      BY <1>6, <3>1, <3>2
  <2> QED
    BY <2>1, <2>2, <2>3, <2>4, <2>5
<1>8. SolidTypeOK'
  BY <1>2, <1>4, <1>7 DEF SolidTypeOK, Openings
<1> QED
  BY <1>3, <1>8

\* A step that leaves entries alone keeps the types of what is cached.
LEMMA SolidTypesKept ==
  ASSUME SolidTypeOK, entries' = entries, UNCHANGED <<solidVars, password, opened>>,
         srcpos' \in 0..NEntries + 1, savedpos' \in 0..NEntries + 1
  PROVE  SolidTypeOK'
BY DEF SolidTypeOK, solidVars

LEMMA TypeInit == Init => TypeOK
<1> SUFFICES ASSUME Init PROVE TypeOK
  OBVIOUS
<1>1. entries \in Seq(Dicts) /\ Len(entries) = 0
  BY DEF Init
<1>2. ScanTypeOK
  <2>1. next = 1 /\ scan = "parsing" /\ 1 \in 1..NEntries + 1
    BY DEF Init
  <2>2. forcesolid \in BOOLEAN /\ retainpos \in BOOLEAN /\ shouldstop \in BOOLEAN
    BY DEF Init
  <2> QED
    BY <1>1, <2>1, <2>2 DEF ScanTypeOK
<1>3. ChainTypeOK
  <2>1. issolid \in BOOLEAN /\ parsersolidobj \in SolidObjects
    BY DEF Init, SolidObjects
  <2>2. firstsoliddict = 0 /\ prevsoliddict = 0 /\ 0 \in 0..Len(entries)
    BY <1>1 DEF Init
  <2> QED
    BY <2>1, <2>2 DEF ChainTypeOK
<1>4. SolidTypeOK
  <2>1. opened \in [entry : 0..Len(entries), outcome : {"none", "ok", "nil", "raised"},
                    handle : Handles, suspect : BOOLEAN]
    BY <1>1, NoHandleType DEF Init, NotOpened
  <2>2. currsolidhandle \in Handles
    BY NoHandleType DEF Init
  <2>3. srcpos = 1 /\ savedpos = 0 /\ 0 \in 0..NEntries + 1 /\ 1 \in 0..NEntries + 1
    BY DEF Init, Elsewhere
  <2>4. poisoned \in BOOLEAN
    BY DEF Init
  <2>5. made \in Nat /\ raises \in Nat /\ currsolidobj \in Objects \cup {NoObject}
        /\ password \in Passwords \cup {NoPassword}
    BY DEF Init
  <2> QED
    BY <2>1, <2>2, <2>3, <2>4, <2>5 DEF SolidTypeOK
<1> QED
  BY <1>2, <1>3, <1>4 DEF TypeOK

LEMMA TypeStep ==
  ASSUME TypeOK, [Next]_vars
  PROVE  TypeOK'
<1> USE DEF TypeOK
<1>1. CASE AddEntry
  <2>1. /\ entries' \in Seq(Dicts) /\ Len(entries') = Len(entries) + 1
        /\ ChainTypeOK'
    BY <1>1, AddEntryTypes
  <2>2. /\ next \in 1..NEntries /\ next' = next + 1 /\ scan' = "callback"
        /\ srcpos' = next + 1 /\ savedpos' = next + 1
        /\ UNCHANGED <<fixedVars, solidVars, password, opened>>
    BY <1>1 DEF AddEntry, ScanTypeOK
  <2>3. shouldstop' \in BOOLEAN
    BY <1>1 DEF AddEntry, Stops, ScanTypeOK
  <2>4. Len(entries') < next'
    BY <2>1, <2>2 DEF ScanTypeOK
  <2>5. ScanTypeOK'
    BY <2>1, <2>2, <2>3, <2>4 DEF ScanTypeOK, fixedVars
  <2>6. opened' \in [entry : 0..Len(entries'), outcome : {"none", "ok", "nil", "raised"},
                     handle : Handles, suspect : BOOLEAN]
    <3>1. 0..Len(entries) \subseteq 0..Len(entries')
      BY <2>1 DEF ScanTypeOK
    <3> QED
      BY <2>2, <3>1 DEF SolidTypeOK
  <2>7. SolidTypeOK'
    BY <2>2, <2>6 DEF SolidTypeOK, solidVars
  <2> QED
    BY <2>1, <2>5, <2>7
<1>2. CASE DiscardEntry
  <2>1. /\ next \in 1..NEntries /\ next' = next + 1 /\ srcpos' = next + 1
        /\ UNCHANGED <<fixedVars, scan, entries, chainVars, savedpos, solidVars, password, opened>>
    BY <1>2 DEF DiscardEntry, ScanTypeOK
  <2>2. shouldstop' \in BOOLEAN
    BY <1>2 DEF DiscardEntry, Stops, ScanTypeOK
  <2>3. Len(entries') < next'
    BY <2>1 DEF ScanTypeOK
  <2>4. ScanTypeOK'
    BY <2>1, <2>2, <2>3 DEF ScanTypeOK, fixedVars
  <2>5. ChainTypeOK'
    BY <2>1 DEF ChainTypeOK, chainVars
  <2>6. srcpos' \in 0..NEntries + 1 /\ savedpos' \in 0..NEntries + 1
    BY <2>1 DEF SolidTypeOK
  <2>7. SolidTypeOK'
    BY <2>1, <2>6, SolidTypesKept
  <2> QED
    BY <2>4, <2>5, <2>7
<1>3. CASE CallbackReturns \/ CallbackFails \/ ParseEnds \/ ParseRaises
  <2>1. /\ UNCHANGED <<fixedVars, next, entries, shouldstop, chainVars, savedpos,
                       solidVars, password, opened>>
        /\ scan' \in {"parsing", "ok", "break", "error"}
    BY <1>3 DEF CallbackReturns, CallbackFails, ParseEnds, ParseRaises, positionVars
  <2>2. srcpos' \in {srcpos, savedpos, next}
    BY <1>3 DEF CallbackReturns, CallbackFails, ParseEnds, ParseRaises, positionVars
  <2>3. ScanTypeOK'
    BY <2>1 DEF ScanTypeOK, fixedVars
  <2>4. ChainTypeOK'
    BY <2>1 DEF ChainTypeOK, chainVars
  <2>5. srcpos' \in 0..NEntries + 1 /\ savedpos' \in 0..NEntries + 1
    BY <2>1, <2>2 DEF SolidTypeOK, ScanTypeOK
  <2>6. SolidTypeOK'
    BY <2>1, <2>5, SolidTypesKept
  <2> QED
    BY <2>3, <2>4, <2>6
<1>4. CASE Open
  BY <1>4, OpenTypes DEF Open
<1>5. ASSUME NEW p \in Passwords, SetPassword(p)
      PROVE  TypeOK'
  <2>1. UNCHANGED <<fixedVars, scanVars, chainVars, positionVars, made, raises, opened>>
    BY <1>5 DEF SetPassword
  <2>2. /\ password' = p /\ currsolidobj' = NoObject /\ currsolidhandle' = NoHandle
        /\ poisoned' = FALSE
    BY <1>5 DEF SetPassword
  <2>3. ScanTypeOK'
    BY <2>1 DEF ScanTypeOK, fixedVars, scanVars
  <2>4. ChainTypeOK'
    BY <2>1 DEF ChainTypeOK, chainVars, scanVars
  <2>5. poisoned' \in BOOLEAN
    BY <2>2
  <2>6. password' \in Passwords \cup {NoPassword} /\ currsolidobj' \in Objects \cup {NoObject}
        /\ currsolidhandle' \in Handles
    BY <2>2, NoHandleType
  <2>7. SolidTypeOK'
    BY <2>1, <2>5, <2>6 DEF SolidTypeOK, positionVars, scanVars
  <2> QED
    BY <2>3, <2>4, <2>7
<1>6. CASE UNCHANGED vars
  BY <1>6 DEF vars, fixedVars, scanVars, chainVars, positionVars, solidVars,
              ScanTypeOK, ChainTypeOK, SolidTypeOK
<1> QED
  BY <1>1, <1>2, <1>3, <1>4, <1>5, <1>6 DEF Next

\* The variables keep their types: entries are numbered within bounds, links
\* point to entries that exist, and what the solid cache holds is a handle or
\* none.
THEOREM TypeCorrect == Spec => []TypeOK
<1>1. Init => TypeOK
  BY TypeInit
<1>2. TypeOK /\ [Next]_vars => TypeOK'
  BY TypeStep
<1> QED
  BY <1>1, <1>2, PTL DEF Spec

-----------------------------------------------------------------------------
(***************************************************************************)
(* Chains.                                                                 *)
(***************************************************************************)
\* Linking a dictionary changes the link and nothing else.
LEMMA LinkFields ==
  ASSUME NEW es \in Seq(Dicts), NEW j \in Nat, NEW i \in 0..NEntries,
         NEW k \in 1..Len(es)
  PROVE  LET linked == [es EXCEPT ![j].next = i]
         IN  /\ linked[k].obj = es[k].obj
             /\ linked[k].solid = es[k].solid
             /\ linked[k].first = es[k].first
             /\ linked[k].next = IF k = j THEN i ELSE es[k].next
<1> DEFINE linked == [es EXCEPT ![j].next = i]
<1>1. es[k] \in Dicts
  OBVIOUS
<1>2. CASE k # j
  <2>1. linked[k] = es[k]
    BY <1>2
  <2> QED
    BY <1>2, <2>1
<1>3. CASE k = j
  <2>1. linked[k] = [es[k] EXCEPT !.next = i]
    BY <1>3
  <2> QED
    BY <1>1, <1>3, <2>1 DEF Dicts
<1> QED
  BY <1>2, <1>3

LEMMA AppendAt ==
  ASSUME NEW S, NEW es \in Seq(S), NEW d \in S
  PROVE  /\ \A k \in 1..Len(es) : Append(es, d)[k] = es[k]
         /\ Append(es, d)[Len(es) + 1] = d
OBVIOUS

\* Where the run that the next entry may join stands.
RunEnd ==
  LET n == Len(entries)
  IN  /\ n = 0 => parsersolidobj = NoObject
      /\ n > 0 => parsersolidobj = entries[n].obj
      /\ parsersolidobj # NoObject =>
           /\ prevsoliddict = n
           /\ firstsoliddict = IF SameRun(n) THEN entries[n].first ELSE n

ChainInv == ChainsFollowRuns /\ RunEnd

\* What AddEntry makes of the dictionaries: it adds one, and links the one
\* before it exactly if the new one joins its run.
LEMMA AddEntryShape ==
  ASSUME ScanTypeOK, ChainTypeOK, RunEnd, AddEntry
  PROVE  LET n == Len(entries)
             obj == SolidObject(next)
         IN  /\ Len(entries') = n + 1
             /\ \A k \in 1..n : /\ entries'[k].obj = entries[k].obj
                                /\ entries'[k].solid = entries[k].solid
                                /\ entries'[k].first = entries[k].first
                                /\ entries'[k].next = IF JoinsChain(obj) /\ k = n THEN n + 1
                                                      ELSE entries[k].next
             /\ entries'[n + 1].obj = obj
             /\ entries'[n + 1].next = 0
             /\ entries'[n + 1].solid <=> JoinsChain(obj)
             /\ entries'[n + 1].first = IF JoinsChain(obj) THEN firstsoliddict ELSE 0
             /\ parsersolidobj' = obj
             /\ obj # NoObject => /\ prevsoliddict' = n + 1
                                  /\ firstsoliddict' = IF JoinsChain(obj) THEN firstsoliddict
                                                       ELSE n + 1
<1> DEFINE n == Len(entries)
           obj == SolidObject(next)
<1>1. next \in 1..NEntries /\ obj \in SolidObjects /\ n + 1 \in 1..NEntries /\ n \in Nat
  BY SolidObjectType DEF AddEntry, ScanTypeOK
<1>2. /\ entries \in Seq(Dicts) /\ firstsoliddict \in 0..NEntries /\ prevsoliddict \in Nat
  BY <1>1 DEF ScanTypeOK, ChainTypeOK
<1>3. Unchained(obj) \/ Chained(obj)
  BY DEF AddEntry
<1>4. Len(entries') = n + 1
  BY AddEntryTypes
<1> HIDE DEF obj
<1>5. CASE ~JoinsChain(obj)
  <2> DEFINE d == Dict(obj, FALSE, 0)
  <2>1. d \in Dicts
    BY <1>1 DEF Dict, Dicts
  <2>2. d.obj = obj /\ d.solid = FALSE /\ d.first = 0 /\ d.next = 0
    BY DEF Dict
  <2> HIDE DEF d
  <2>3. /\ entries' = Append(entries, d)
        /\ parsersolidobj' = obj
        /\ obj # NoObject => prevsoliddict' = n + 1 /\ firstsoliddict' = n + 1
    BY <1>3, <1>5 DEF Unchained, Chained, StartsChain, d
  <2>4. /\ \A k \in 1..n : entries'[k] = entries[k]
        /\ entries'[n + 1] = d
    BY <1>2, <2>1, <2>3, AppendAt
  <2>5. /\ entries'[n + 1].obj = obj
        /\ entries'[n + 1].next = 0
        /\ entries'[n + 1].first = 0
    BY <2>2, <2>4
  <2>6. entries'[n + 1].solid <=> JoinsChain(obj)
    BY <1>5, <2>2, <2>4
  <2>7. \A k \in 1..n : /\ entries'[k].obj = entries[k].obj
                        /\ entries'[k].solid = entries[k].solid
                        /\ entries'[k].first = entries[k].first
                        /\ entries'[k].next = IF JoinsChain(obj) /\ k = n THEN n + 1
                                              ELSE entries[k].next
    BY <1>5, <2>4
  <2> QED
    BY <1>4, <1>5, <2>3, <2>5, <2>6, <2>7 DEF obj
<1>6. CASE JoinsChain(obj)
  <2> DEFINE d == Dict(obj, TRUE, firstsoliddict)
             linked == [entries EXCEPT ![prevsoliddict].next = n + 1]
  <2>1. d \in Dicts
    BY <1>1, <1>2 DEF Dict, Dicts
  <2>2. d.obj = obj /\ d.solid = TRUE /\ d.first = firstsoliddict /\ d.next = 0
    BY DEF Dict
  <2>3. linked \in Seq(Dicts) /\ Len(linked) = n
    BY <1>1, <1>2, LinkType
  <2>4. \A k \in 1..n : /\ linked[k].obj = entries[k].obj
                        /\ linked[k].solid = entries[k].solid
                        /\ linked[k].first = entries[k].first
                        /\ linked[k].next = IF k = prevsoliddict THEN n + 1
                                            ELSE entries[k].next
    BY <1>1, <1>2, LinkFields
  <2>5. obj # NoObject /\ obj = parsersolidobj
    BY <1>6 DEF JoinsChain
  <2>6. prevsoliddict = n
    BY <2>5 DEF RunEnd
  <2> HIDE DEF d
  <2>7. /\ entries' = Append(linked, d)
        /\ parsersolidobj' = obj
        /\ prevsoliddict' = n + 1 /\ firstsoliddict' = firstsoliddict
    BY <1>3, <1>6 DEF Unchained, Chained, StartsChain, JoinsChain, d
  <2> HIDE DEF linked
  <2>8. /\ \A k \in 1..n : entries'[k] = linked[k]
        /\ entries'[n + 1] = d
    BY <2>1, <2>3, <2>7, AppendAt
  <2>9. /\ entries'[n + 1].obj = obj
        /\ entries'[n + 1].next = 0
        /\ entries'[n + 1].first = firstsoliddict
    BY <2>2, <2>8
  <2>10. entries'[n + 1].solid <=> JoinsChain(obj)
    BY <1>6, <2>2, <2>8
  <2>11. \A k \in 1..n : /\ entries'[k].obj = entries[k].obj
                         /\ entries'[k].solid = entries[k].solid
                         /\ entries'[k].first = entries[k].first
                         /\ entries'[k].next = IF JoinsChain(obj) /\ k = n THEN n + 1
                                               ELSE entries[k].next
    BY <1>6, <2>4, <2>6, <2>8
  <2> QED
    BY <1>4, <1>6, <2>7, <2>9, <2>10, <2>11 DEF obj
<1> QED
  BY <1>5, <1>6

\* SameRun for the dictionaries of another state.
RunIn(es, i) == i > 1 /\ es[i].obj # NoObject /\ es[i].obj = es[i - 1].obj

LEMMA ChainStep ==
  ASSUME TypeOK, ChainInv, [Next]_vars
  PROVE  ChainInv'
<1>1. CASE AddEntry
  <2> DEFINE n == Len(entries)
             obj == SolidObject(next)
             joins == JoinsChain(obj)
  <2>0. n \in Nat /\ ScanTypeOK /\ ChainTypeOK
    BY DEF TypeOK, ScanTypeOK
  <2>1. /\ Len(entries') = n + 1
        /\ \A k \in 1..n : /\ entries'[k].obj = entries[k].obj
                           /\ entries'[k].solid = entries[k].solid
                           /\ entries'[k].first = entries[k].first
                           /\ entries'[k].next = IF joins /\ k = n THEN n + 1
                                                 ELSE entries[k].next
        /\ entries'[n + 1].obj = obj
        /\ entries'[n + 1].next = 0
        /\ entries'[n + 1].solid <=> joins
        /\ entries'[n + 1].first = IF joins THEN firstsoliddict ELSE 0
        /\ parsersolidobj' = obj
        /\ obj # NoObject => /\ prevsoliddict' = n + 1
                             /\ firstsoliddict' = IF joins THEN firstsoliddict ELSE n + 1
    BY <1>1, <2>0, AddEntryShape DEF ChainInv
  <2>2. joins <=> n > 0 /\ obj # NoObject /\ obj = entries[n].obj
    BY <2>0 DEF JoinsChain, ChainInv, RunEnd
  <2> HIDE DEF joins, obj
  <2>3. \A k \in 1..n : RunIn(entries', k) <=> SameRun(k)
    BY <2>0, <2>1 DEF SameRun, RunIn
  <2>4. RunIn(entries', n + 1) <=> joins
    BY <2>0, <2>1, <2>2 DEF RunIn
  <2>5. RunEnd'
    BY <2>0, <2>1, <2>4 DEF RunEnd, RunIn, SameRun
  <2>6. ASSUME NEW i \in 1..n
        PROVE  /\ entries'[i].solid <=> RunIn(entries', i)
               /\ entries'[i].next = IF i < Len(entries') /\ RunIn(entries', i + 1) THEN i + 1 ELSE 0
               /\ entries'[i].first =
                    IF ~RunIn(entries', i) THEN 0
                    ELSE IF RunIn(entries', i - 1) THEN entries'[i - 1].first ELSE i - 1
    <3>1. /\ entries[i].solid <=> SameRun(i)
          /\ entries[i].next = IF i < n /\ SameRun(i + 1) THEN i + 1 ELSE 0
          /\ entries[i].first =
               IF ~SameRun(i) THEN 0
               ELSE IF SameRun(i - 1) THEN entries[i - 1].first ELSE i - 1
      BY DEF ChainInv, ChainsFollowRuns
    <3>2. entries'[i].solid <=> RunIn(entries', i)
      BY <2>1, <2>3, <3>1
    <3>3. entries'[i].next = IF i < Len(entries') /\ RunIn(entries', i + 1) THEN i + 1 ELSE 0
      <4>1. CASE i = n
        BY <2>0, <2>1, <2>4, <3>1, <4>1
      <4>2. CASE i # n
        <5>1. i + 1 \in 1..n
          BY <2>0, <4>2
        <5> QED
          BY <2>0, <2>1, <2>3, <3>1, <4>2, <5>1
      <4> QED
        BY <4>1, <4>2
    <3>4. entries'[i].first = IF ~RunIn(entries', i) THEN 0
            ELSE IF RunIn(entries', i - 1) THEN entries'[i - 1].first ELSE i - 1
      <4>1. CASE ~SameRun(i)
        BY <2>1, <2>3, <3>1, <4>1
      <4>2. CASE SameRun(i)
        <5>1. i - 1 \in 1..n
          BY <2>0, <4>2 DEF SameRun
        <5> QED
          BY <2>1, <2>3, <3>1, <4>2, <5>1
      <4> QED
        BY <4>1, <4>2
    <3> QED
      BY <3>2, <3>3, <3>4
  <2>7. /\ entries'[n + 1].solid <=> RunIn(entries', n + 1)
        /\ entries'[n + 1].next = 0
        /\ entries'[n + 1].first =
             IF ~RunIn(entries', n + 1) THEN 0
             ELSE IF RunIn(entries', n) THEN entries'[n].first ELSE n
    <3>1. CASE ~joins
      BY <2>1, <2>4, <3>1
    <3>2. CASE joins
      <4>1. n \in 1..n /\ parsersolidobj # NoObject
        BY <2>0, <2>2, <3>2 DEF ChainInv, RunEnd
      <4>2. firstsoliddict = IF SameRun(n) THEN entries[n].first ELSE n
        BY <4>1 DEF ChainInv, RunEnd
      <4> QED
        BY <2>1, <2>3, <2>4, <3>2, <4>1, <4>2
    <3> QED
      BY <3>1, <3>2
  <2>8. ChainsFollowRuns'
    <3> SUFFICES ASSUME NEW i \in 1..n + 1
                 PROVE  /\ entries'[i].solid <=> RunIn(entries', i)
                        /\ entries'[i].next =
                             IF i < Len(entries') /\ RunIn(entries', i + 1) THEN i + 1 ELSE 0
                        /\ entries'[i].first =
                             IF ~RunIn(entries', i) THEN 0
                             ELSE IF RunIn(entries', i - 1) THEN entries'[i - 1].first ELSE i - 1
      BY <2>1 DEF ChainsFollowRuns, SameRun, RunIn
    <3>1. CASE i \in 1..n
      BY <2>6, <3>1
    <3>2. CASE i = n + 1
      <4>1. i - 1 = n /\ ~(i < Len(entries'))
        BY <2>0, <2>1, <3>2
      <4> QED
        BY <2>7, <3>2, <4>1
    <3> QED
      BY <2>0, <3>1, <3>2
  <2> QED
    BY <2>5, <2>8 DEF ChainInv
<1>2. CASE entries' = entries /\ chainVars' = chainVars
  BY <1>2 DEF ChainInv, ChainsFollowRuns, RunEnd, SameRun, chainVars
<1>3. Next => AddEntry \/ (entries' = entries /\ chainVars' = chainVars)
  BY DEF Next, DiscardEntry, CallbackReturns, CallbackFails, ParseEnds, ParseRaises, Open,
         OpenCached, OpenNew, OpenUnsupported, OpenAskingPassword, OpenRaises, SetPassword,
         scanVars, chainVars
<1>4. CASE UNCHANGED vars
  BY <1>2, <1>4 DEF vars, scanVars
<1> QED
  BY <1>1, <1>2, <1>3, <1>4

\* Whatever the format parser finds and the delegate does, the links in the
\* dictionaries describe the solid runs.
THEOREM ChainsDescribeRuns == Spec => []ChainsFollowRuns
<1>1. Init => ChainInv
  BY DEF Init, ChainInv, ChainsFollowRuns, RunEnd
<1>2. TypeOK /\ ChainInv /\ [Next]_vars => ChainInv'
  BY ChainStep
<1>3. ChainInv => ChainsFollowRuns
  BY DEF ChainInv
<1> QED
  BY <1>1, <1>2, <1>3, TypeCorrect, PTL DEF Spec

-----------------------------------------------------------------------------
(***************************************************************************)
(* The cached handle.                                                      *)
(***************************************************************************)
\* Unless making it has just raised, the handle kept is the one of the stream
\* that is remembered with it.
HandleFits ==
  currsolidobj # NoObject /\ currsolidhandle # NoHandle /\ ~poisoned =>
    currsolidhandle.stream = currsolidobj

OpenedFits ==
  opened.outcome = "ok" /\ ~opened.suspect =>
    /\ opened.entry \in 1..Len(entries)
    /\ opened.handle.stream = entries[opened.entry].obj

HandleInv == HandleFits /\ OpenedFits

LEMMA HandleStep ==
  ASSUME TypeOK, ChainInv, HandleInv, [Next]_vars
  PROVE  HandleInv'
<1>1. CASE AddEntry
  <2>1. UNCHANGED <<solidVars, opened>>
    BY <1>1 DEF AddEntry
  <2>2. /\ Len(entries') = Len(entries) + 1
        /\ \A k \in 1..Len(entries) : entries'[k].obj = entries[k].obj
    BY <1>1, AddEntryShape DEF TypeOK, ChainInv
  <2>3. Len(entries) \in Nat
    BY DEF TypeOK, ScanTypeOK
  <2>4. HandleFits'
    BY <2>1 DEF HandleInv, HandleFits, solidVars
  <2>5. OpenedFits'
    BY <2>1, <2>2, <2>3 DEF HandleInv, OpenedFits
  <2> QED
    BY <2>4, <2>5 DEF HandleInv
<1>2. ASSUME NEW i \in 1..Len(entries), Openable(i), entries' = entries,
             OpenCached(i) \/ OpenNew(i) \/ OpenUnsupported(i)
               \/ OpenAskingPassword(i) \/ OpenRaises(i)
      PROVE  HandleInv'
  <2>1. entries[i].obj \in Objects /\ entries[i].obj # NoObject
    BY <1>2 DEF Openable
  <2>2. CASE OpenCached(i)
    <3>1. UNCHANGED solidVars /\ entries[i].obj = currsolidobj
      BY <2>2 DEF OpenCached, Cached
    <3>2. HandleFits'
      BY <3>1 DEF HandleInv, HandleFits, solidVars
    <3>3. \/ opened'.outcome = "nil"
          \/ /\ currsolidhandle # NoHandle
             /\ opened'.outcome = "ok" /\ opened'.entry = i
             /\ opened'.handle = currsolidhandle /\ opened'.suspect = poisoned'
      BY <2>2 DEF OpenCached, Deliver
    <3>4. OpenedFits'
      BY <1>2, <2>1, <3>1, <3>2, <3>3 DEF OpenedFits, HandleFits, solidVars
    <3> QED
      BY <3>2, <3>4 DEF HandleInv
  <2>3. CASE OpenNew(i)
    <3>1. /\ currsolidobj' = entries[i].obj
          /\ currsolidhandle'.stream = entries[i].obj
          /\ opened'.handle.stream = entries[i].obj /\ opened'.entry = i
      BY <2>3 DEF OpenNew, Deliver, Handle
    <3> QED
      BY <1>2, <3>1 DEF HandleInv, HandleFits, OpenedFits
  <2>4. CASE OpenUnsupported(i)
    <3>1. currsolidhandle' = NoHandle /\ opened'.outcome = "nil"
      BY <2>4 DEF OpenUnsupported, Deliver
    <3>2. NoHandle' = NoHandle
      BY DEF NoHandle
    <3> QED
      BY <3>1, <3>2 DEF HandleInv, HandleFits, OpenedFits
  <2>5. CASE OpenAskingPassword(i)
    <3>1. /\ currsolidobj' = NoObject
          /\ opened'.handle.stream = entries[i].obj /\ opened'.entry = i
      BY <2>5 DEF OpenAskingPassword, Deliver, Handle
    <3> QED
      BY <1>2, <3>1 DEF HandleInv, HandleFits, OpenedFits
  <2>6. CASE OpenRaises(i)
    <3>1. poisoned' /\ opened'.outcome = "raised"
      BY <2>6 DEF OpenRaises, Deliver
    <3> QED
      BY <3>1 DEF HandleInv, HandleFits, OpenedFits
  <2> QED
    BY <1>2, <2>2, <2>3, <2>4, <2>5, <2>6
<1>3. CASE Open
  <2>1. PICK i \in 1..Len(entries) :
          OpenCached(i) \/ OpenNew(i) \/ OpenUnsupported(i)
            \/ OpenAskingPassword(i) \/ OpenRaises(i)
    BY <1>3 DEF Open
  <2>2. Openable(i) /\ entries' = entries
    BY <2>1 DEF OpenCached, OpenNew, OpenUnsupported, OpenAskingPassword, OpenRaises,
                Missing, scanVars
  <2> QED
    BY <1>2, <2>1, <2>2
<1>4. ASSUME NEW p \in Passwords, SetPassword(p)
      PROVE  HandleInv'
  <2>1. currsolidobj' = NoObject /\ UNCHANGED <<entries, opened>>
    BY <1>4 DEF SetPassword, scanVars
  <2> QED
    BY <2>1 DEF HandleInv, HandleFits, OpenedFits
<1>5. CASE UNCHANGED <<solidVars, entries, opened>>
  BY <1>5 DEF HandleInv, HandleFits, OpenedFits, solidVars
<1>6. Next => \/ AddEntry \/ Open \/ (\E p \in Passwords : SetPassword(p))
              \/ UNCHANGED <<solidVars, entries, opened>>
  BY DEF Next, DiscardEntry, CallbackReturns, CallbackFails, ParseEnds, ParseRaises
<1>7. CASE UNCHANGED vars
  BY <1>5, <1>7 DEF vars, scanVars
<1> QED
  BY <1>1, <1>3, <1>4, <1>5, <1>6, <1>7

\* An entry is read from the handle of its own solid stream, whatever was
\* opened before it and whenever the password was changed, as long as making
\* the handle did not raise.
THEOREM EntriesFromOwnStream == Spec => []FromOwnStream
<1>1. Init => ChainInv /\ HandleInv
  BY DEF Init, ChainInv, ChainsFollowRuns, RunEnd, HandleInv, HandleFits, OpenedFits, NotOpened
<1>2. TypeOK /\ ChainInv /\ HandleInv /\ [Next]_vars => ChainInv' /\ HandleInv'
  BY ChainStep, HandleStep
<1>3. HandleInv => FromOwnStream
  BY DEF HandleInv, OpenedFits, FromOwnStream
<1> QED
  BY <1>1, <1>2, <1>3, TypeCorrect, PTL DEF Spec

-----------------------------------------------------------------------------
(***************************************************************************)
(* The password, the position and the stop.                                *)
(***************************************************************************)
LEMMA PasswordStep ==
  ASSUME TypeOK, PasswordInForce, [Next]_vars
  PROVE  PasswordInForce'
<1>1. ASSUME NEW i \in 1..Len(entries),
             OpenCached(i) \/ OpenNew(i) \/ OpenUnsupported(i)
               \/ OpenAskingPassword(i) \/ OpenRaises(i)
      PROVE  PasswordInForce'
  <2>1. CASE OpenCached(i) \/ OpenRaises(i)
    BY <2>1 DEF OpenCached, OpenRaises, PasswordInForce, solidVars
  <2>2. CASE OpenNew(i)
    BY <2>2 DEF OpenNew, PasswordInForce, Handle
  <2>3. CASE OpenUnsupported(i)
    <3>1. currsolidhandle'.stream = NoObject
      BY <2>3 DEF OpenUnsupported, NoHandle
    <3> QED
      BY <3>1 DEF PasswordInForce
  <2>4. CASE OpenAskingPassword(i)
    BY <2>4 DEF OpenAskingPassword, PasswordInForce, Handle
  <2> QED
    BY <1>1, <2>1, <2>2, <2>3, <2>4
<1>2. ASSUME NEW p \in Passwords, SetPassword(p)
      PROVE  PasswordInForce'
  <2>1. currsolidhandle'.stream = NoObject
    BY <1>2 DEF SetPassword, NoHandle
  <2> QED
    BY <2>1 DEF PasswordInForce
<1>3. CASE UNCHANGED <<solidVars, password>>
  BY <1>3 DEF PasswordInForce, solidVars
<1>4. Next => Open \/ (\E p \in Passwords : SetPassword(p)) \/ UNCHANGED <<solidVars, password>>
  BY DEF Next, AddEntry, DiscardEntry, CallbackReturns, CallbackFails, ParseEnds, ParseRaises
<1>5. CASE UNCHANGED vars
  BY <1>3, <1>5 DEF vars
<1> QED
  BY <1>1, <1>2, <1>3, <1>4, <1>5 DEF Open

\* The handle kept for an encrypted stream is never older than the password.
THEOREM HandlesUsePassword == Spec => []PasswordInForce
<1>1. Init => PasswordInForce
  BY DEF Init, PasswordInForce, NoHandle
<1>2. TypeOK /\ PasswordInForce /\ [Next]_vars => PasswordInForce'
  BY PasswordStep
<1> QED
  BY <1>1, <1>2, TypeCorrect, PTL DEF Spec

PositionInv == HeaderInPlace /\ (scan = "callback" => savedpos = next)

\* The delegate is called back and returns: the parser's handle is before the
\* next header, whatever has been read from it.
THEOREM HeadersInPlace == Spec => []HeaderInPlace
<1>1. Init => PositionInv
  BY DEF Init, PositionInv, HeaderInPlace
<1>2. PositionInv /\ [Next]_vars => PositionInv'
  <2> SUFFICES ASSUME PositionInv, [Next]_vars PROVE PositionInv'
    OBVIOUS
  <2> USE DEF PositionInv, HeaderInPlace
  <2>1. CASE AddEntry
    BY <2>1 DEF AddEntry
  <2>2. CASE DiscardEntry
    BY <2>2 DEF DiscardEntry
  <2>3. CASE CallbackReturns
    BY <2>3 DEF CallbackReturns
  <2>4. CASE CallbackFails \/ ParseEnds \/ ParseRaises
    BY <2>4 DEF CallbackFails, ParseEnds, ParseRaises
  <2>5. CASE Open
    <3>1. scan # "parsing" /\ UNCHANGED <<scan, next, savedpos>>
      BY <2>5 DEF Open, OpenCached, OpenNew, OpenUnsupported, OpenAskingPassword, OpenRaises,
                  Missing, Openable, Delegating, scanVars, positionVars
    <3> QED
      BY <3>1
  <2>6. CASE \E p \in Passwords : SetPassword(p)
    BY <2>6 DEF SetPassword, scanVars, positionVars
  <2>7. CASE UNCHANGED vars
    BY <2>7 DEF vars, scanVars, positionVars
  <2> QED
    BY <2>1, <2>2, <2>3, <2>4, <2>5, <2>6, <2>7 DEF Next
<1>3. PositionInv => HeaderInPlace
  BY DEF PositionInv
<1> QED
  BY <1>1, <1>2, <1>3, PTL DEF Spec

NotStoppedAndDone == scan = "ok" => ~shouldstop

\* A delegate that has asked to stop is not called back again, and its parse
\* does not end as a success.
THEOREM StopsAreFinal == Spec => StopIsFinal
<1>1. Init => NotStoppedAndDone
  BY DEF Init, NotStoppedAndDone
<1>2. NotStoppedAndDone /\ [Next]_vars =>
        /\ NotStoppedAndDone'
        /\ shouldstop => shouldstop' /\ entries' = entries /\ scan' # "ok"
  <2> SUFFICES ASSUME NotStoppedAndDone, [Next]_vars
               PROVE  /\ NotStoppedAndDone'
                      /\ shouldstop => shouldstop' /\ entries' = entries /\ scan' # "ok"
    OBVIOUS
  <2> USE DEF NotStoppedAndDone
  <2>1. CASE AddEntry
    BY <2>1 DEF AddEntry, Stops
  <2>2. CASE DiscardEntry
    BY <2>2 DEF DiscardEntry, Stops
  <2>3. CASE CallbackReturns \/ CallbackFails \/ ParseRaises
    BY <2>3 DEF CallbackReturns, CallbackFails, ParseRaises
  <2>4. CASE ParseEnds
    BY <2>4 DEF ParseEnds
  <2>5. CASE UNCHANGED scanVars
    BY <2>5 DEF scanVars
  <2>6. Next => AddEntry \/ DiscardEntry \/ CallbackReturns \/ CallbackFails \/ ParseEnds
                \/ ParseRaises \/ UNCHANGED scanVars
    BY DEF Next, Open, OpenCached, OpenNew, OpenUnsupported, OpenAskingPassword, OpenRaises,
           SetPassword
  <2>7. CASE UNCHANGED vars
    BY <2>5, <2>7 DEF vars
  <2> QED
    BY <2>1, <2>2, <2>3, <2>4, <2>5, <2>6, <2>7
<1> QED
  BY <1>1, <1>2, PTL DEF Spec, StopIsFinal
=============================================================================
