---------------------------- MODULE SubAllocator ----------------------------
(***************************************************************************)
(* The memory of the PPMd models: the four sub-allocators                  *)
(* (PPMd/SubAllocatorVariantG.c, -VariantH.c, -VariantI.c, -Brimstone.c)   *)
(* and the calls that the models (VariantG.c, VariantH.c, VariantI.c,      *)
(* Context.c) make on them.                                                *)
(*                                                                         *)
(* The heap is counted in units of UNIT_SIZE bytes, 1 .. Units; offset 0   *)
(* is the NULL of the code.  A unit holds what the properties tell apart:  *)
(* the data a client keeps there, the Stamp that marks a free block with   *)
(* its NU, or nothing that matters.  Client data never reads as a stamp    *)
(* (frequencies stay below 124) and neither does what follows the heap     *)
(* (unit Units + 1, which gluing reads): both are assumptions.  Free lists *)
(* are linked through the blocks themselves; here they are sequences,      *)
(* which UnitsAccounted justifies: nobody else owns a listed unit.         *)
(***************************************************************************)
EXTENDS Integers, Sequences, SequencesExt, FiniteSets

CONSTANTS Variants,            \* of "G", "H", "I", "Brimstone"
          N1, N2, N3,          \* sizes that grow by 1, 2, 3 (4 each in the code)
          MaxUnits,            \* the largest block (128 in the code)
          Units,               \* the size of the heap
          TextUnits,           \* units below UnitsStart at first (an eighth)
          BreathBlocks,        \* largest blocks held back by variant G (128)
          GlueReset,           \* allocations between two gluings (255, 2^13)
          MergeLimit,          \* first NU that 16 bits cannot hold (0x10000)
          MoveRange,           \* how near UnitsStart a block is moved up (16K)
          NContexts, NTables   \* bounds on live contexts and state tables

N4 == (MaxUnits + 3 - N1 - 2 * N2 - 3 * N3) \div 4
N_INDEXES == N1 + N2 + N3 + N4
Indexes == 1 .. N_INDEXES

Index2Units == [i \in Indexes |->
    IF i <= N1 THEN i
    ELSE IF i <= N1 + N2 THEN N1 + 2 * (i - N1)
    ELSE IF i <= N1 + N2 + N3 THEN N1 + 2 * N2 + 3 * (i - N1 - N2)
    ELSE N1 + 2 * N2 + 3 * N3 + 4 * (i - N1 - N2 - N3)]

Units2Index(num) == CHOOSE i \in Indexes :
    /\ Index2Units[i] >= num
    /\ \A j \in Indexes : Index2Units[j] >= num => i <= j

ASSUME SizesAssumption ==
    /\ N1 \in Nat \ {0} /\ N2 \in Nat /\ N3 \in Nat
    /\ Index2Units[N_INDEXES] = MaxUnits
ASSUME HeapAssumption ==
    /\ Variants \subseteq {"G", "H", "I", "Brimstone"}
    /\ MaxUnits * (BreathBlocks + 1) < Units /\ TextUnits + MaxUnits < Units
    /\ NContexts > 0 /\ NTables > 0 /\ GlueReset > 0 /\ MergeLimit > MaxUnits

VARIABLES variant,  \* which of the four allocators
          heap,     \* its fields and the memory
          block,    \* the clients' blocks: [at, num] by identity, at = 0 for none
          mode      \* "decode", or the part of RestoreModel that is running

vars == <<variant, heap, block, mode>>

Contexts == 1 .. NContexts
Tables   == NContexts + 1 .. NContexts + NTables
Blocks   == Contexts \cup Tables
Root     == {1, NContexts + 1}   \* the context of order 0 and its table
HasText  == variant \in {"H", "I"}

Junk        == <<>>
Free(nu)    == <<nu>>
Data(id, k) == <<id, k>>

Stamped(mem, p) == Len(mem[p]) = 1
NU(mem, p)      == mem[p][1]

\* What an allocator is after its Init: empty lists, the rest of memory as it was.
InitialHeap(mem) ==
    LET start == IF HasText THEN TextUnits + 1 ELSE 1
        low   == IF variant = "G" THEN 1 + BreathBlocks * MaxUnits ELSE start
    IN [list |-> [i \in Indexes |-> <<>>], mem |-> mem,
        start |-> start, low |-> low, high |-> Units + 1, text |-> 1, glue |-> 0,
        breath |-> IF variant = "G" THEN 1 ELSE 0]

----------------------------------------------------------------------------
(* Free lists *)

\* InsertNode and InsertBlockAfter: only variant I keeps the stamp of a listed block.
InsertNode(h, i, p, nu) ==
    [h EXCEPT !.list[i] = <<p>> \o @,
              !.mem[p] = IF variant = "I" THEN Free(nu) ELSE Junk]

\* RemoveNode and RemoveBlockAfter as the answer of an allocation.
RemoveNode(h, i) == [at |-> Head(h.list[i]), heap |-> [h EXCEPT !.list[i] = Tail(@)]]

SplitBlock(h, p, old, new) ==
    LET q    == p + Index2Units[new]
        diff == Index2Units[old] - Index2Units[new]
        i    == Units2Index(diff)
        k    == Index2Units[i - 1]
    IN IF Index2Units[i] = diff THEN InsertNode(h, i, q, diff)
       ELSE InsertNode(InsertNode(h, i - 1, q, k), Units2Index(diff - k), q + k, diff - k)

\* A merged run of sz units is listed again in pieces of the sizes there are.
RECURSIVE Pieces(_, _, _)
Pieces(h, p, sz) ==
    LET i == Units2Index(sz)
        k == sz - Index2Units[i - 1]
    IN IF sz > MaxUnits
       THEN Pieces(InsertNode(h, N_INDEXES, p, MaxUnits), p + MaxUnits, sz - MaxUnits)
       ELSE IF Index2Units[i] = sz THEN InsertNode(h, i, p, sz)
       ELSE InsertNode(InsertNode(h, k, p + sz - k, k), i - 1, p, sz - k)

AllFree(h) == FlattenSeq(h.list)

\* Mutant: the gap is not cleared, so a stamp from before a restart may stay there.
ClearedAtLowNever(h) == h.mem

ClearedAtLow(h) ==
    IF h.low = h.high THEN h.mem ELSE [h.mem EXCEPT ![h.low] = Junk]

\* Variant I: the block behind p is merged into it as long as it is stamped.
RECURSIVE MergeI(_, _)
MergeI(mem, p) ==
    LET q == p + NU(mem, p)
    IN IF Stamped(mem, q)
       THEN MergeI([mem EXCEPT ![p] = Free(NU(mem, p) + NU(mem, q)), ![q] = Free(0)], p)
       ELSE mem

GlueFreeBlocksI(h) ==
    LET Link(acc, p) == IF NU(acc.mem, p) = 0 THEN acc
                        ELSE [mem |-> MergeI(acc.mem, p), linked |-> Append(acc.linked, p)]
        merged == FoldLeft(Link, [mem |-> ClearedAtLow(h), linked |-> <<>>], AllFree(h))
        Relist(g, p) == IF NU(g.mem, p) = 0 THEN g ELSE Pieces(g, p, NU(g.mem, p))
    IN FoldLeft(Relist,
                [h EXCEPT !.list = [i \in Indexes |-> <<>>], !.mem = merged.mem,
                          !.glue = GlueReset], merged.linked)

\* Variant H stamps every free block first and unlinks what it merges.
RECURSIVE MergeH(_, _)
MergeH(acc, p) ==
    LET q  == p + NU(acc.mem, p)
        nu == NU(acc.mem, p) + NU(acc.mem, q)
    IN IF ~Stamped(acc.mem, q) \/ nu >= MergeLimit THEN acc
       ELSE MergeH([mem |-> [acc.mem EXCEPT ![p] = Free(nu)],
                    linked |-> SelectSeq(acc.linked, LAMBDA x : x # q)], p)

GlueFreeBlocksH(h) ==
    LET all     == Reverse(AllFree(h))
        stamped == [u \in DOMAIN h.mem |->
                      IF \E i \in Indexes : Contains(h.list[i], u)
                      THEN Free(Index2Units[CHOOSE i \in Indexes : Contains(h.list[i], u)])
                      ELSE ClearedAtLow(h)[u]]
        Visit(acc, p) == IF Contains(acc.linked, p) THEN MergeH(acc, p) ELSE acc
        merged  == FoldLeft(Visit, [mem |-> stamped, linked |-> all], all)
        Relist(g, p) == Pieces(g, p, NU(merged.mem, p))
    IN FoldLeft(Relist,
                [h EXCEPT !.list = [i \in Indexes |-> <<>>], !.mem = merged.mem,
                          !.glue = GlueReset], merged.linked)

GlueFreeBlocks(h) == IF variant = "I" THEN GlueFreeBlocksI(h) ELSE GlueFreeBlocksH(h)

----------------------------------------------------------------------------
(* The operations.  Each answers the offset and the heap after it. *)

Larger(h, i) == {j \in Indexes : j > i /\ h.list[j] # <<>>}

\* The smallest larger block there is, cut down to size.
TakeLarger(h, i) ==
    LET j == CHOOSE x \in Larger(h, i) : \A y \in Larger(h, i) : x <= y
        r == RemoveNode(h, j)
    IN [r EXCEPT !.heap = SplitBlock(@, r.at, j, i)]

\* Mutant: the text area may be used up to the byte being written.
FromTextToTheBrim(h, i) ==
    IF h.start - h.text >= Index2Units[i]
    THEN [at |-> h.start - Index2Units[i], heap |-> [h EXCEPT !.start = @ - Index2Units[i]]]
    ELSE [at |-> 0, heap |-> h]

\* _AllocUnits: glue if it is time, cut a larger block, else take from the text area.
FromText(h, i) ==
    IF h.start - h.text > Index2Units[i]
    THEN [at |-> h.start - Index2Units[i], heap |-> [h EXCEPT !.start = @ - Index2Units[i]]]
    ELSE [at |-> 0, heap |-> h]

CutOrFromText(h, i) ==
    IF Larger(h, i) # {} THEN TakeLarger(h, i) ELSE FromText([h EXCEPT !.glue = @ - 1], i)

AfterGluing(h, i) ==
    IF h.list[i] # <<>> THEN RemoveNode(h, i) ELSE CutOrFromText(h, i)

AllocUnitsRare(h, i) ==
    IF h.glue = 0 THEN AfterGluing(GlueFreeBlocks(h), i) ELSE CutOrFromText(h, i)

\* Variant G releases the blocks it held back, the first ones first.
LastBreathReleased(h) ==
    IF h.breath = 0 THEN h
    ELSE FoldLeft(LAMBDA g, b : InsertNode(g, N_INDEXES, h.breath + b * MaxUnits, MaxUnits),
                  [h EXCEPT !.breath = 0], [b \in 1 .. BreathBlocks |-> b - 1])

CutOrFail(h, i) ==
    IF Larger(h, i) # {} THEN TakeLarger(h, i) ELSE [at |-> 0, heap |-> h]

AllocUnits(h, num) ==
    LET i == Units2Index(num)
    IN IF h.list[i] # <<>> THEN RemoveNode(h, i)
       ELSE IF h.low + Index2Units[i] <= h.high
            THEN [at |-> h.low, heap |-> [h EXCEPT !.low = @ + Index2Units[i]]]
       ELSE IF HasText THEN AllocUnitsRare(h, i)
       ELSE CutOrFail(LastBreathReleased(h), i)

AllocContext(h) ==
    IF h.high # h.low THEN [at |-> h.high - 1, heap |-> [h EXCEPT !.high = @ - 1]]
    ELSE IF ~HasText THEN AllocUnits(h, 1)
    ELSE IF h.list[1] # <<>> THEN RemoveNode(h, 1)
    ELSE AllocUnitsRare(h, 1)

Copied(h, from, to, num) ==
    [h EXCEPT !.mem = [u \in DOMAIN @ |-> IF u \in to .. to + num - 1
                                          THEN @[u - to + from] ELSE @[u]]]

\* Mutant: the old block is listed before it is copied.
MovedAfterFreeing(r, at, num) ==
    IF r.at = 0 THEN r
    ELSE [r EXCEPT !.heap = Copied(InsertNode(@, Units2Index(num), at, num), at, r.at, num)]

MovedTo(r, at, num) ==
    IF r.at = 0 THEN r
    ELSE [r EXCEPT !.heap = InsertNode(Copied(@, at, r.at, num), Units2Index(num), at, num)]

ExpandUnits(h, at, num) ==
    IF Units2Index(num) = Units2Index(num + 1) THEN [at |-> at, heap |-> h]
    ELSE MovedTo(AllocUnits(h, num + 1), at, num)

ShrinkUnits(h, at, num, newnum) ==
    LET old == Units2Index(num)
        new == Units2Index(newnum)
        r   == RemoveNode(h, new)
    IN IF old = new THEN [at |-> at, heap |-> h]
       ELSE IF h.list[new] = <<>> THEN [at |-> at, heap |-> SplitBlock(h, at, old, new)]
       ELSE [r EXCEPT !.heap = InsertNode(Copied(@, at, r.at, newnum), old, at, Index2Units[old])]

\* Mutant: the stamp counts the units in use instead of those of the block.
FreeUnitsOfNum(h, at, num) == InsertNode(h, Units2Index(num), at, num)

FreeUnits(h, at, num) == InsertNode(h, Units2Index(num), at, Index2Units[Units2Index(num)])

(* Variant I alone *)

UsedMemory(h) ==
    Units - (h.high - h.low) - (h.start - h.text)
    - FoldLeft(LAMBDA sum, i : sum + Index2Units[i] * Len(h.list[i]), 0, [i \in Indexes |-> i])

\* The stamp left at UnitsStart keeps whatever NU the client's data gives it.
SpecialFreeUnit(h, at) ==
    IF at = h.start THEN [h EXCEPT !.mem[at] = Free(1), !.start = @ + 1]
    ELSE InsertNode(h, 1, at, 1)

MoveUnitsUp(h, at, num) ==
    LET i == Units2Index(num)
        r == RemoveNode(h, i)
        c == Copied(r.heap, at, r.at, num)
    IN IF at > h.start + MoveRange \/ h.list[i] = <<>> \/ at > Head(h.list[i])
       THEN [at |-> at, heap |-> h]
       ELSE [at |-> r.at,
             heap |-> IF at = h.start THEN [c EXCEPT !.start = @ + Index2Units[i]]
                      ELSE InsertNode(c, i, at, Index2Units[i])]

RECURSIVE ExpandTextArea(_)
ExpandTextArea(h) ==
    IF ~Stamped(h.mem, h.start) THEN h
    ELSE ExpandTextArea(
           [h EXCEPT !.start = @ + NU(h.mem, h.start), !.mem[h.start] = Junk,
                     !.list = [i \in Indexes |-> SelectSeq(@[i], LAMBDA x : x # h.start)]])

----------------------------------------------------------------------------
(* The models: contexts of one unit and tables of states *)

Live(b) == {x \in Blocks : b[x].at # 0}
None    == [at |-> 0, num |-> 0]

\* The client fills what it was given; what no block owns any more is forgotten.
Commit(h, b) ==
    /\ block' = b
    /\ heap' = [h EXCEPT !.mem = [u \in DOMAIN @ |->
                   IF Len(@[u]) # 2 \/ \E x \in Live(b) : @[u] = Data(x, u - b[x].at)
                   THEN @[u] ELSE Junk]]

\* The num units from the one numbered from on are written.
Filled(h, id, at, from, num) ==
    [h EXCEPT !.mem = [u \in DOMAIN @ |-> IF u \in at + from .. at + from + num - 1
                                          THEN Data(id, u - at) ELSE @[u]]]

\* RestartModel: Init, the root context and its table of all symbols.
Restart(h) ==
    \E context \in {AllocContext(InitialHeap(h.mem))} :
    \E states \in {AllocUnits(context.heap, MaxUnits)} :
       /\ mode' = "decode"
       /\ Commit(Filled(Filled(states.heap, 1, context.at, 0, 1),
                        NContexts + 1, states.at, 0, MaxUnits),
                 [x \in Blocks |-> CASE x = 1 -> [at |-> context.at, num |-> 1]
                                     [] x = NContexts + 1 -> [at |-> states.at, num |-> MaxUnits]
                                     [] OTHER -> None])

\* RESTART_MODEL: every variant starts over, but variant I may restore its model instead.
OutOfMemory(h) ==
    \/ Restart(h)
    \/ /\ variant = "I"
       /\ mode' \in {"cutoff", "freeze"}
       /\ Commit([h EXCEPT !.text = 1], block)

Fresh(ids) == {x \in ids : block[x].at = 0 /\ \A y \in ids : block[y].at = 0 => x <= y}

NewContext == \E x \in Fresh(Contexts) :
    \E r \in {AllocContext(heap)} :
       /\ mode = "decode"
       /\ IF r.at = 0 THEN OutOfMemory(r.heap)
          ELSE /\ Commit(Filled(r.heap, x, r.at, 0, 1), [block EXCEPT ![x] = [at |-> r.at, num |-> 1]])
               /\ UNCHANGED mode
       /\ UNCHANGED variant

\* A context that had one state gets a table for two.
NewTable == \E x \in Fresh(Tables) :
    \E r \in {AllocUnits(heap, 1)} :
       /\ mode = "decode"
       /\ IF r.at = 0 THEN OutOfMemory(r.heap)
          ELSE /\ Commit(Filled(r.heap, x, r.at, 0, 1), [block EXCEPT ![x] = [at |-> r.at, num |-> 1]])
               /\ UNCHANGED mode
       /\ UNCHANGED variant

\* UpdateModel adds a state to a full table and writes it into the new unit.
GrowTable == \E x \in {y \in Tables \cap Live(block) : block[y].num < MaxUnits} :
    \E num \in {block[x].num} : \E r \in {ExpandUnits(heap, block[x].at, num)} :
       /\ mode = "decode"
       /\ IF r.at = 0 THEN OutOfMemory(r.heap)
          ELSE /\ Commit(Filled(r.heap, x, r.at, num, 1),
                         [block EXCEPT ![x] = [at |-> r.at, num |-> num + 1]])
               /\ UNCHANGED mode
       /\ UNCHANGED variant

\* RescalePPMdContext and ShrinkContext.  The root keeps all its symbols: it is rescaled
\* only after an escape, which rounds up, no symbol is added to it, and CutOffContext
\* leaves order 0 alone.
ShrinkTable == \E x \in (Tables \ Root) \cap Live(block) : \E num \in 1 .. block[x].num - 1 :
    \E r \in {ShrinkUnits(heap, block[x].at, block[x].num, num)} :
       /\ Commit(r.heap, [block EXCEPT ![x] = [at |-> r.at, num |-> num]])
       /\ UNCHANGED <<variant, mode>>

\* RescalePPMdContext and CutOffContext, when one state is left.
FreeTable == \E x \in (Tables \ Root) \cap Live(block) :
    /\ mode # "freeze"
    /\ Commit(FreeUnits(heap, block[x].at, block[x].num), [block EXCEPT ![x] = None])
    /\ UNCHANGED <<variant, mode>>

\* A symbol is stored below UnitsStart.
TextByte ==
    LET h == [heap EXCEPT !.mem[heap.text] = Junk, !.text = @ + 1]
    IN /\ HasText /\ mode = "decode"
       /\ IF h.text >= h.start THEN OutOfMemory(h)
          ELSE Commit(h, block) /\ UNCHANGED mode
       /\ UNCHANGED variant

\* The byte is not needed after all; a frozen model of variant I needs none at all.
TextTakenBack ==
    /\ HasText /\ mode = "decode" /\ heap.text > 1
    /\ \E text \in {heap.text - 1} \cup (IF variant = "I" THEN {1} ELSE {}) :
         Commit([heap EXCEPT !.text = text], block)
    /\ UNCHANGED <<variant, mode>>

(* RestoreModel of variant I *)

\* The table of two states of a context that loses the one just added.
SpecialFreeTable == \E x \in Tables \cap Live(block) :
    /\ mode # "decode" /\ block[x].num = 1
    /\ Commit(SpecialFreeUnit(heap, block[x].at), [block EXCEPT ![x] = None])
    /\ UNCHANGED <<variant, mode>>

\* CutOffContext drops a context, RemoveBinConts frees one; never the root.
DropContext == \E x \in (Contexts \ Root) \cap Live(block) :
    /\ \/ mode = "cutoff" /\ Commit(SpecialFreeUnit(heap, block[x].at), [block EXCEPT ![x] = None])
       \/ mode = "freeze" /\ Commit(FreeUnits(heap, block[x].at, 1), [block EXCEPT ![x] = None])
    /\ UNCHANGED <<variant, mode>>

MoveTable == \E x \in Tables \cap Live(block) :
    \E r \in {MoveUnitsUp(heap, block[x].at, block[x].num)} :
       /\ mode = "cutoff"
       /\ Commit(r.heap, [block EXCEPT ![x].at = r.at])
       /\ UNCHANGED <<variant, mode>>

\* One pass of CutOffContext is over; the loop ends when a quarter is free again.
CutOffPassEnds ==
    \E h \in {ExpandTextArea(heap)} :
       /\ mode = "cutoff"
       /\ IF UsedMemory(h) > 3 * (Units \div 4)
          THEN Commit(h, block) /\ UNCHANGED mode
          ELSE Commit([h EXCEPT !.glue = 0], block) /\ mode' = "decode"
       /\ UNCHANGED variant

\* RemoveBinConts is done, or the model was frozen before (and then GlueCount may rise).
FreezeEnds ==
    /\ mode = "freeze"
    /\ \E g \in {0, heap.glue + (IF Len(heap.list[2]) % 2 = 0 THEN 1 ELSE 0)} :
         g <= GlueReset /\ Commit([heap EXCEPT !.glue = g], block)
    /\ mode' = "decode"
    /\ UNCHANGED variant

Start ==
    /\ mode = "off"
    /\ Restart(heap)
    /\ UNCHANGED variant

\* The allocator is chosen by the format; malloc leaves the memory as it is.
Init ==
    /\ variant \in Variants
    /\ heap = InitialHeap([u \in 1 .. Units + 1 |-> Junk])
    /\ block = [x \in Blocks |-> None]
    /\ mode = "off"

Next ==
    \/ Start
    \/ NewContext \/ NewTable \/ GrowTable
    \/ ShrinkTable \/ FreeTable \/ TextByte \/ TextTakenBack
    \/ SpecialFreeTable \/ DropContext \/ MoveTable \/ CutOffPassEnds \/ FreezeEnds

Spec == Init /\ [][Next]_vars

----------------------------------------------------------------------------
(* Properties *)

\* The bounds of the heap keep their order and every list holds units of the heap.
TypeOK ==
    /\ variant \in Variants /\ mode \in {"off", "decode", "cutoff", "freeze"}
    /\ heap.low <= heap.high /\ heap.high <= Units + 1
    /\ heap.text >= 1 /\ (HasText => heap.text < heap.start)
    /\ heap.glue \in 0 .. GlueReset
    /\ \A i \in Indexes : heap.list[i] \in Seq(1 .. Units)
    /\ \A x \in Blocks : block[x].at \in 0 .. Units /\ block[x].num \in 0 .. MaxUnits

Capacity(x)  == block[x].at .. block[x].at + Index2Units[Units2Index(block[x].num)] - 1
HeldBack     == IF heap.breath = 0 THEN {} ELSE 1 .. BreathBlocks * MaxUnits
Listed       == UNION {ToSet(heap.list[i]) : i \in Indexes}

\* Whatever is allocated, moved, split, glued or freed, every live context and table
\* still holds what its owner wrote, where its owner looks for it.
DataKept ==
    \A x \in Live(block) : \A k \in 0 .. block[x].num - 1 :
        heap.mem[block[x].at + k] = Data(x, k)

\* Above UnitsStart every unit belongs to exactly one live block, listed block or the
\* gap between LowUnit and HighUnit; below it to none.  Nothing leaks, nothing is
\* listed twice, and GetUsedMemory, which decides when variant I stops cutting, is exact.
UnitsAccounted ==
    \A u \in 1 .. Units :
        LET owners == Cardinality({x \in Live(block) : u \in Capacity(x)})
            lists  == Cardinality({<<i, n>> \in Indexes \X (1 .. Units) :
                        /\ n <= Len(heap.list[i])
                        /\ u \in heap.list[i][n] .. heap.list[i][n] + Index2Units[i] - 1})
            spare  == Cardinality({s \in {1, 2} : IF s = 1 THEN u \in heap.low .. heap.high - 1
                                                           ELSE u \in HeldBack})
        IN owners + lists + spare = IF u >= heap.start THEN 1 ELSE 0

\* A stamp tells the truth where it is read: behind a free block (GlueFreeBlocks) and,
\* in variant I, at UnitsStart (ExpandTextArea).  Stale stamps of blocks long merged may
\* lie anywhere else.
StampsTrue ==
    /\ \A i \in Indexes : \A p \in ToSet(heap.list[i]) :
          LET q == p + Index2Units[i]
          IN (HasText /\ Stamped(heap.mem, q) /\ (q # heap.low \/ heap.low = heap.high))
               => (variant = "I" /\ q \in Listed)
    /\ variant = "I" =>
          /\ \A i \in Indexes : \A p \in ToSet(heap.list[i]) : heap.mem[p] = Free(Index2Units[i])
          /\ Stamped(heap.mem, heap.start) => heap.start \in Listed
=============================================================================
