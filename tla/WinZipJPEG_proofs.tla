-------------------------- MODULE WinZipJPEG_proofs --------------------------
(***************************************************************************)
(* Proofs about WinZipJPEG, for every layout, image, number of scans and   *)
(* size of the caller's buffer.                                            *)
(***************************************************************************)
EXTENDS WinZipJPEG, FiniteSetTheorems, SequenceTheorems, WellFoundedInduction, TLAPS

\* A quotient is between the numbers it should be between.
LEMMA DivMod ==
    ASSUME NEW a \in Int, NEW d \in Nat \ {0}
    PROVE  /\ a \div d \in Int
           /\ d * (a \div d) <= a
           /\ a < d * (a \div d) + d
  OBVIOUS

\* A number that is greater by one gives a product that is greater by the
\* factor.
LEMMA LessTimes ==
    ASSUME NEW m \in Int, NEW n \in Int, NEW d \in Nat, m + 1 <= n
    PROVE  m * d + d <= n * d
  OBVIOUS

\* The product of two positive numbers is positive.
LEMMA ProductPositive ==
    ASSUME NEW m \in Nat \ {0}, NEW n \in Nat \ {0}
    PROVE  m * n \in Nat \ {0}
  OBVIOUS

\* Rows divided by a height, rounded up, as the bundle does it twice.
LEMMA CeilingInRange ==
    ASSUME NEW v \in Nat \ {0}, NEW d \in Nat \ {0}
    PROVE  (v + d - 1) \div d \in 1..v
<1> DEFINE q == (v + d - 1) \div d
<1>1. q \in Int /\ d * q <= v + d - 1 /\ v + d - 1 < d * q + d
  BY DivMod
<1> HIDE DEF q
<1>2. q >= 1
  <2> SUFFICES ASSUME q <= 0 PROVE FALSE BY <1>1
  <2>1. d * q <= 0 BY <1>1
  <2> QED BY <2>1, <1>1
<1>3. q <= v
  <2> SUFFICES ASSUME q >= v + 1 PROVE FALSE BY <1>1
  <2>1. d * v + d <= d * q BY <1>1
  <2>2. v <= d * v OBVIOUS
  <2> QED BY <2>1, <2>2, <1>1
<1> QED BY <1>1, <1>2, <1>3 DEF q

\* A place in a buffer of rows is that of one column and one row only.
LEMMA SplitUnique ==
    ASSUME NEW h \in Nat \ {0}, NEW x1 \in 0..(h - 1), NEW x2 \in 0..(h - 1),
           NEW y1 \in Nat, NEW y2 \in Nat, x1 + y1 * h = x2 + y2 * h
    PROVE  x1 = x2 /\ y1 = y2
<1>1. ~(y1 < y2)
  BY LessTimes
<1>2. ~(y2 < y1)
  BY LessTimes
<1> QED BY <1>1, <1>2

\* ... and is inside the buffer.
LEMMA SplitInRange ==
    ASSUME NEW h \in Nat \ {0}, NEW x \in 0..(h - 1), NEW r \in Nat, NEW y \in 0..(r - 1)
    PROVE  x + y * h \in 0..(r * h - 1)
<1>1. y * h + h <= r * h
  BY LessTimes
<1>2. y * h \in Nat /\ r * h \in Int OBVIOUS
<1> QED BY <1>1, <1>2

-----------------------------------------------------------------------------
(***************************************************************************)
(* Decoding.  A slice is decoded over the one before it, so what has to be *)
(* known of the buffer is which of its places are of which slice: those    *)
(* before the block to be decoded next are of this one; the last row, as   *)
(* long as the first row is at work, is of the one before.                 *)
(***************************************************************************)
Cols(i) == 0..(BlocksPerRow(i) - 1)
Started == slice.slicesavailable \/ op = "slice"

Typed ==
    /\ jpeg \in Layouts
    /\ op \in {"none", "slice", "encode"}
    /\ at \in [comp : Nat \ {0}, x : Nat, y : Nat]
    /\ slice \in [sliceheight : Nat, currheight : Nat, finishedrows : Nat, slicesavailable : BOOLEAN]
    /\ DOMAIN blocks = Components /\ DOMAIN neighbours = Components

\* While the scan has slices the buffer has the height of a slice, and all
\* slices so far had that height.
BufferFits == Started =>
    /\ slice.sliceheight = SliceHeight(jpeg)
    /\ slice.finishedrows < jpeg.vmcus
    /\ slice.finishedrows = 0 \/ slice.finishedrows >= slice.sliceheight
    /\ \A i \in Components :
         DOMAIN blocks[i] = 0..(slice.sliceheight * VBlocks(i) * BlocksPerRow(i) - 1)

\* The last row of component i's slice before this one is in the buffer, unless
\* it is the only one and thus the one that is being overwritten.
LastRowKept(i) == slice.finishedrows > 0 /\ ~OneBlockRow(i) =>
    \A x \in Cols(i) : blocks[i][Place(i, x, slice.sliceheight * VBlocks(i) - 1)]
                       = <<x, slice.finishedrows * VBlocks(i) - 1>>

BetweenSlices == (op # "slice" /\ slice.slicesavailable) => \A i \in Components : LastRowKept(i)

\* Block (x, y) of component i comes before the one to be decoded next.
IsBefore(i, x, y) == i < at.comp \/ (i = at.comp /\ (y < at.y \/ (y = at.y /\ x < at.x)))

RowsInSlice(i) == 0..(slice.currheight * VBlocks(i) - 1)

WithinSlice == op = "slice" =>
    /\ slice.currheight \in 1..slice.sliceheight
    /\ slice.finishedrows + slice.currheight <= jpeg.vmcus
    /\ slice.slicesavailable => /\ slice.currheight = slice.sliceheight
                                /\ slice.finishedrows + slice.currheight < jpeg.vmcus
    /\ at.comp \in Components => at.x \in Cols(at.comp) /\ at.y \in RowsInSlice(at.comp)
    /\ \A i \in Components :
         /\ (i > at.comp \/ (i = at.comp /\ at.y = 0)) => LastRowKept(i)
         /\ \A x \in Cols(i), y \in RowsInSlice(i) :
              IsBefore(i, x, y) =>
                 blocks[i][Place(i, x, y)] = <<x, slice.finishedrows * VBlocks(i) + y>>

DecodeInv == Typed /\ BufferFits /\ BetweenSlices /\ WithinSlice /\ NeighboursAreAdjacent

-----------------------------------------------------------------------------
\* What a layout is made of.
LEMMA LayoutFacts ==
    ASSUME jpeg \in Layouts
    PROVE  /\ jpeg.hmcus \in Nat \ {0} /\ jpeg.vmcus \in Nat \ {0}
           /\ Components = 1..Len(jpeg.factors) /\ Len(jpeg.factors) \in 1..4
           /\ \A i \in Components : HBlocks(i) \in Nat \ {0} /\ VBlocks(i) \in Nat \ {0}
<1>1. /\ jpeg.hmcus \in Nat \ {0} /\ jpeg.vmcus \in Nat \ {0}
      /\ jpeg.factors \in Seq((Nat \ {0}) \X (Nat \ {0})) /\ Len(jpeg.factors) \in 1..4
  BY LayoutAssumption
<1>2. Components = 1..Len(jpeg.factors)
  BY <1>1 DEF Components
<1>3. ASSUME NEW i \in Components
      PROVE  HBlocks(i) \in Nat \ {0} /\ VBlocks(i) \in Nat \ {0}
  <2>1. jpeg.factors[i] \in (Nat \ {0}) \X (Nat \ {0})
    BY <1>1, <1>2
  <2> QED
    BY <2>1 DEF HBlocks, VBlocks
<1> QED
  BY <1>1, <1>2, <1>3

\* A row of blocks is not empty.
LEMMA RowFacts ==
    ASSUME jpeg \in Layouts, NEW i \in Components
    PROVE  BlocksPerRow(i) \in Nat \ {0}
<1>1. jpeg.hmcus \in Nat \ {0} /\ HBlocks(i) \in Nat \ {0}
  BY LayoutFacts
<1> QED
  BY <1>1 DEF BlocksPerRow

\* A slice has at least one row and at most all (ReadNextWinZipJPEGBundle).
LEMMA SliceHeightInRange ==
    ASSUME NEW l \in Layouts
    PROVE  SliceHeight(l) \in 1..l.vmcus
<1>1. l.hmcus \in Nat \ {0} /\ l.vmcus \in Nat \ {0}
  BY LayoutAssumption
<1> DEFINE mcus == 2 ^ (l.slicevalue + SlicePower) \div l.hmcus
           div1 == Max({1, mcus})
           div2 == (l.vmcus + div1 - 1) \div div1
<1>2. l.slicevalue + SlicePower \in Nat
  <2>1. l.slicevalue \in 0..31
    BY LayoutAssumption
  <2>2. SlicePower \in Nat
    BY SizeAssumption
  <2> QED
    BY <2>1, <2>2
<1>3. 2 ^ (l.slicevalue + SlicePower) \in Int
  BY <1>2
<1>4. mcus \in Int
  BY <1>1, <1>3, DivMod
<1>5. div1 \in Nat \ {0}
  <2> HIDE DEF mcus
  <2>1. \E m \in {1, mcus} : \A n \in {1, mcus} : m >= n
    BY <1>4
  <2>2. div1 \in {1, mcus} /\ div1 >= 1
    BY <2>1 DEF Max
  <2> QED
    BY <2>2, <1>4
<1> HIDE DEF div1
<1>6. div2 \in Nat \ {0}
  BY <1>1, <1>5, CeilingInRange
<1>7. (l.vmcus + div2 - 1) \div div2 \in 1..l.vmcus
  BY <1>1, <1>6, CeilingInRange
<1>8. SliceHeight(l) = IF l.slicevalue = 0 THEN l.vmcus ELSE (l.vmcus + div2 - 1) \div div2
  BY DEF SliceHeight, div1
<1> QED
  BY <1>1, <1>7, <1>8

\* Steps that touch neither the slice nor the buffer of blocks.
LEMMA OthersKeepDecodeInv ==
    ASSUME DecodeInv, op # "slice", op' \in {"none", "encode"},
           UNCHANGED <<jpeg, at, slice, blocks, neighbours>>
    PROVE  DecodeInv'
<1>1. Components' = Components /\ DOMAIN blocks' = DOMAIN blocks
      /\ DOMAIN neighbours' = DOMAIN neighbours
  BY DEF Components
<1>2. Typed'
  BY <1>1 DEF DecodeInv, Typed
<1>3. BufferFits'
  BY <1>1 DEF DecodeInv, BufferFits, Started, VBlocks, BlocksPerRow, HBlocks
<1>4. BetweenSlices'
  BY <1>1 DEF DecodeInv, BetweenSlices, LastRowKept, OneBlockRow, Cols, Place, VBlocks,
              BlocksPerRow, HBlocks
<1>5. WithinSlice'
  BY DEF WithinSlice
<1>6. NeighboursAreAdjacent'
  <2>1. \A i, x, y : BlockAbove(i, x, y)' = BlockAbove(i, x, y)
    BY DEF BlockAbove, OneBlockRow, VBlocks
  <2> QED
    BY <1>1, <2>1 DEF DecodeInv, NeighboursAreAdjacent
<1> QED
  BY <1>2, <1>3, <1>4, <1>5, <1>6 DEF DecodeInv

\* It holds of the file as opened.
LEMMA DecodeInvInit == Init => DecodeInv
<1> SUFFICES ASSUME Init PROVE DecodeInv
  OBVIOUS
<1>1. Typed
  BY DEF Init, Typed
<1>2. BufferFits /\ BetweenSlices /\ WithinSlice
  BY DEF Init, BufferFits, BetweenSlices, WithinSlice, Started
<1>3. NeighboursAreAdjacent
  BY DEF Init, NeighboursAreAdjacent
<1> QED
  BY <1>1, <1>2, <1>3 DEF DecodeInv

\* A new bundle has a new buffer, with nothing in it to keep.
LEMMA BundleKeepsDecodeInv ==
    ASSUME DecodeInv, ReadNextBundle
    PROVE  DecodeInv'
<1>1. /\ jpeg' = jpeg /\ op' = op /\ op = "none" /\ at' = at /\ neighbours' = neighbours
      /\ Components' = Components
  BY DEF ReadNextBundle, Components
<1>2. CASE scansleft = 0
  BY <1>1, <1>2, OthersKeepDecodeInv DEF ReadNextBundle
<1>3. CASE scansleft # 0
  <2>1. /\ slice' = [sliceheight |-> SliceHeight(jpeg), currheight |-> 0,
                     finishedrows |-> 0, slicesavailable |-> TRUE]
        /\ blocks' = [i \in Components |->
                        [p \in 0..(SliceHeight(jpeg) * VBlocks(i) * BlocksPerRow(i) - 1) |->
                            <<"unset">>]]
    BY <1>3 DEF ReadNextBundle
  <2>2. SliceHeight(jpeg) \in 1..jpeg.vmcus /\ jpeg.vmcus \in Nat
    BY SliceHeightInRange, LayoutFacts DEF DecodeInv, Typed
  <2>3. Typed'
    <3>1. DOMAIN blocks' = Components
      BY <2>1
    <3>2. slice' \in [sliceheight : Nat, currheight : Nat, finishedrows : Nat,
                      slicesavailable : BOOLEAN]
      BY <2>1, <2>2
    <3> QED
      BY <1>1, <3>1, <3>2 DEF DecodeInv, Typed
  <2>4. BufferFits'
    <3>1. slice'.sliceheight = SliceHeight(jpeg) /\ slice'.finishedrows = 0
      BY <2>1
    <3>2. \A i \in Components : DOMAIN blocks'[i] =
            0..(slice'.sliceheight * VBlocks(i) * BlocksPerRow(i) - 1)
      BY <2>1, <3>1
    <3>3. 0 < jpeg.vmcus
      BY <2>2
    <3> QED
      BY <1>1, <3>1, <3>2, <3>3 DEF BufferFits, VBlocks, BlocksPerRow, HBlocks
  <2>5. BetweenSlices' /\ WithinSlice'
    BY <1>1, <2>1 DEF BetweenSlices, WithinSlice, LastRowKept
  <2>6. NeighboursAreAdjacent'
    <3>1. \A i, x, y : BlockAbove(i, x, y)' = BlockAbove(i, x, y)
      BY <1>1 DEF BlockAbove, OneBlockRow, VBlocks
    <3> QED
      BY <1>1, <3>1 DEF DecodeInv, NeighboursAreAdjacent
  <2> QED
    BY <2>3, <2>4, <2>5, <2>6 DEF DecodeInv
<1> QED
  BY <1>2, <1>3

\* At the begin of a slice the buffer still is that of the slice before.
LEMMA SliceKeepsDecodeInv ==
    ASSUME DecodeInv, ReadNextSlice
    PROVE  DecodeInv'
<1> DEFINE last == slice.finishedrows + slice.sliceheight >= jpeg.vmcus
<1>1. /\ jpeg' = jpeg /\ op = "none" /\ op' = "slice" /\ slice.slicesavailable
      /\ at' = [comp |-> 1, x |-> 0, y |-> 0] /\ blocks' = blocks
      /\ Components' = Components
      /\ neighbours' = [i \in Components |-> {}]
      /\ slice' = [slice EXCEPT !.currheight = IF last THEN jpeg.vmcus - slice.finishedrows
                                               ELSE slice.sliceheight,
                                !.slicesavailable = ~last]
  BY DEF ReadNextSlice, Components, MoreSlices
<1>2. /\ jpeg \in Layouts
      /\ slice \in [sliceheight : Nat, currheight : Nat, finishedrows : Nat, slicesavailable : BOOLEAN]
      /\ jpeg.vmcus \in Nat /\ slice.sliceheight \in 1..jpeg.vmcus
      /\ slice.finishedrows < jpeg.vmcus
      /\ slice.finishedrows = 0 \/ slice.finishedrows >= slice.sliceheight
  BY <1>1, SliceHeightInRange, LayoutFacts DEF DecodeInv, Typed, BufferFits, Started
<1>3. /\ slice'.sliceheight = slice.sliceheight /\ slice'.finishedrows = slice.finishedrows
      /\ slice'.slicesavailable = ~last
      /\ slice'.currheight = IF last THEN jpeg.vmcus - slice.finishedrows ELSE slice.sliceheight
      /\ slice' \in [sliceheight : Nat, currheight : Nat, finishedrows : Nat, slicesavailable : BOOLEAN]
  <2>1. jpeg.vmcus - slice.finishedrows \in Nat /\ slice.sliceheight \in Nat
    BY <1>2
  <2> HIDE DEF last
  <2>2. (IF last THEN jpeg.vmcus - slice.finishedrows ELSE slice.sliceheight) \in Nat
    BY <2>1
  <2>3. (~last) \in BOOLEAN
    OBVIOUS
  <2> QED
    BY <1>1, <1>2, <2>2, <2>3
<1> HIDE DEF last
<1>4. /\ slice'.currheight \in 1..slice.sliceheight
      /\ slice.finishedrows + slice'.currheight <= jpeg.vmcus
      /\ slice'.slicesavailable => /\ slice'.currheight = slice.sliceheight
                                   /\ slice.finishedrows + slice'.currheight < jpeg.vmcus
  BY <1>2, <1>3 DEF last
<1>5. Typed'
  BY <1>1, <1>3 DEF DecodeInv, Typed
<1>6. BufferFits'
  BY <1>1, <1>3 DEF DecodeInv, BufferFits, Started, VBlocks, BlocksPerRow, HBlocks
<1>7. \A i \in Components : LastRowKept(i)'
  BY <1>1, <1>3 DEF DecodeInv, BetweenSlices, LastRowKept, OneBlockRow, Cols, Place, VBlocks,
                    BlocksPerRow, HBlocks
<1>8. /\ 1 \in Components => 0 \in Cols(1)' /\ 0 \in RowsInSlice(1)'
      /\ \A i \in Components : \A x \in Cols(i)', y \in RowsInSlice(i)' : ~IsBefore(i, x, y)'
  <2>1. ASSUME 1 \in Components
        PROVE  0 \in Cols(1)' /\ 0 \in RowsInSlice(1)'
    <3>1. BlocksPerRow(1) \in Nat \ {0} /\ VBlocks(1) \in Nat \ {0}
      BY <1>2, <2>1, RowFacts, LayoutFacts
    <3>2. slice'.currheight * VBlocks(1) \in Nat \ {0}
      <4>1. slice'.currheight \in Nat \ {0}
        BY <1>2, <1>4
      <4> QED
        BY <3>1, <4>1, ProductPositive
    <3> QED
      BY <1>1, <3>1, <3>2 DEF Cols, RowsInSlice, VBlocks, BlocksPerRow, HBlocks
  <2>2. ASSUME NEW i \in Components, NEW x \in Cols(i)', NEW y \in RowsInSlice(i)'
        PROVE  ~IsBefore(i, x, y)'
    <3>1. i \in Nat \ {0} /\ x >= 0 /\ x \in Int /\ y >= 0 /\ y \in Int
      BY <1>2, LayoutFacts DEF Cols, RowsInSlice
    <3> QED
      BY <1>1, <3>1 DEF IsBefore
  <2> QED
    BY <2>1, <2>2
<1>9. WithinSlice'
  BY <1>1, <1>3, <1>4, <1>7, <1>8 DEF WithinSlice
<1>10. BetweenSlices' /\ NeighboursAreAdjacent'
  BY <1>1 DEF BetweenSlices, NeighboursAreAdjacent
<1> QED
  BY <1>5, <1>6, <1>9, <1>10 DEF DecodeInv

\* The next block is decoded into its place in the buffer, which no block
\* above or to the left of it has.
\* One block: it is decoded with its neighbours, and stored at its place
\* without harm to what later blocks need.
LEMMA DecodeBlockKeepsDecodeInv ==
    ASSUME DecodeInv, DecodeBlock
    PROVE  DecodeInv'
<1>1. /\ jpeg \in Layouts /\ op = "slice" /\ at.comp \in Components
      /\ at \in [comp : Nat \ {0}, x : Nat, y : Nat]
      /\ DOMAIN blocks = Components /\ DOMAIN neighbours = Components
      /\ slice \in [sliceheight : Nat, currheight : Nat, finishedrows : Nat, slicesavailable : BOOLEAN]
      /\ jpeg' = jpeg /\ op' = op /\ slice' = slice
  BY DEF DecodeInv, Typed, DecodeBlock
<1>0. PICK i \in Components, ax \in Nat, ay \in Nat : i = at.comp /\ ax = at.x /\ ay = at.y
  BY <1>1
<1>2. /\ Components' = Components
      /\ \A j : VBlocks(j)' = VBlocks(j) /\ HBlocks(j)' = HBlocks(j) /\ BlocksPerRow(j)' = BlocksPerRow(j)
      /\ \A j : Cols(j)' = Cols(j) /\ RowsInSlice(j)' = RowsInSlice(j)
      /\ \A j, x, y : Place(j, x, y)' = Place(j, x, y)
      /\ \A j : OneBlockRow(j)' = OneBlockRow(j)
      /\ \A j, x, y : BlockAbove(j, x, y)' = BlockAbove(j, x, y)
  BY <1>0, <1>1 DEF Components, VBlocks, HBlocks, BlocksPerRow, Cols, RowsInSlice, Place,
                    OneBlockRow, BlockAbove
<1>3. PICK W \in Nat \ {0} : W = BlocksPerRow(i)
  BY <1>0, <1>1, RowFacts
<1>4. VBlocks(i) \in Nat \ {0}
  BY <1>0, <1>1, LayoutFacts
<1>5. PICK R \in Nat, C \in Nat, B \in Nat :
        /\ R = slice.sliceheight * VBlocks(i) /\ C = slice.currheight * VBlocks(i)
        /\ B = slice.finishedrows * VBlocks(i)
  BY <1>0, <1>1, <1>4
<1>6. /\ slice.currheight \in 1..slice.sliceheight /\ slice.sliceheight = SliceHeight(jpeg)
      /\ slice.finishedrows + slice.currheight <= jpeg.vmcus
      /\ slice.finishedrows < jpeg.vmcus
      /\ slice.finishedrows = 0 \/ slice.finishedrows >= slice.sliceheight
      /\ DOMAIN blocks[i] = 0..(R * W - 1)
      /\ ax \in 0..(W - 1) /\ ay \in 0..(C - 1)
  BY <1>0, <1>1, <1>3, <1>5 DEF DecodeInv, BufferFits, WithinSlice, Started, Cols, RowsInSlice
<1>7. C <= R /\ C \in Nat \ {0} /\ (slice.finishedrows = 0 => B = 0)
      /\ (slice.finishedrows # 0 => B > 0)
      /\ (OneBlockRow(i) <=> R = 1)
  <2>1. C <= R
    <3>1. PICK s, k, v \in Nat : s = slice.sliceheight /\ k = slice.currheight /\ v = VBlocks(i)
      BY <1>1, <1>4
    <3>2. k = s \/ k + 1 <= s
      BY <1>6, <3>1
    <3>3. k + 1 <= s => k * v + v <= s * v
      BY LessTimes
    <3> QED
      BY <1>5, <3>1, <3>2, <3>3
  <2>2. C \in Nat \ {0} /\ (slice.finishedrows # 0 => B \in Nat \ {0})
    <3>1. slice.currheight \in Nat \ {0}
      BY <1>1, <1>6
    <3>2. C \in Nat \ {0}
      BY <1>4, <1>5, <3>1, ProductPositive
    <3>3. ASSUME slice.finishedrows # 0
          PROVE  B \in Nat \ {0}
      BY <1>1, <1>4, <1>5, <3>3, ProductPositive
    <3> QED
      BY <3>2, <3>3
  <2>3. OneBlockRow(i) <=> R = 1
    BY <1>5, <1>6 DEF OneBlockRow
  <2>4. slice.finishedrows = 0 => B = 0
    BY <1>4, <1>5
  <2> QED
    BY <2>1, <2>2, <2>3, <2>4
<1>8. PICK b, here : b = blocks[i] /\ here = ax + ay * W /\ here = Place(i, ax, ay)
  BY <1>3 DEF Place
<1>9. here \in DOMAIN b
  <2>1. ay \in 0..(R - 1)
    BY <1>6, <1>7
  <2> QED
    BY <1>6, <1>8, <2>1, SplitInRange
<1>10. PICK begun : begun = [b EXCEPT ![here] = <<"begun">>]
  OBVIOUS
<1>11. PICK north, west, read :
         /\ north = IF ay = 0 /\ slice.finishedrows = 0 THEN NoBlock
                    ELSE begun[NorthPlace(i, ax, ay)]
         /\ west = IF ax = 0 THEN NoBlock ELSE begun[Place(i, ax - 1, ay)]
         /\ read = <<ax, B + ay, north, west>>
  OBVIOUS
<1>12. /\ blocks' = [blocks EXCEPT ![i] = [begun EXCEPT ![here] = <<ax, B + ay>>]]
       /\ neighbours' = [neighbours EXCEPT ![i] = neighbours[i] \cup {read}]
  <2>1. B + ay = slice.finishedrows * VBlocks(at.comp) + at.y
    BY <1>0, <1>5
  <2>2. /\ begun = [blocks[at.comp] EXCEPT ![Place(at.comp, at.x, at.y)] = <<"begun">>]
        /\ north = IF at.y = 0 /\ slice.finishedrows = 0 THEN NoBlock
                   ELSE begun[NorthPlace(at.comp, at.x, at.y)]
        /\ west = IF at.x = 0 THEN NoBlock ELSE begun[Place(at.comp, at.x - 1, at.y)]
        /\ read = <<at.x, slice.finishedrows * VBlocks(at.comp) + at.y, north, west>>
    BY <1>0, <1>8, <1>10, <1>11, <2>1
  <2>3. /\ blocks' = [blocks EXCEPT ![at.comp] = [begun EXCEPT ![Place(at.comp, at.x, at.y)] =
                         <<at.x, slice.finishedrows * VBlocks(at.comp) + at.y>>]]
        /\ neighbours' = [neighbours EXCEPT ![at.comp] = neighbours[at.comp] \cup {read}]
    BY <2>2 DEF DecodeBlock
  <2> QED
    BY <1>0, <1>8, <2>1, <2>3
<1>13. /\ DOMAIN blocks' = Components /\ DOMAIN neighbours' = Components
       /\ \A j \in Components : j # i => blocks'[j] = blocks[j]
       /\ DOMAIN blocks'[i] = DOMAIN b
       /\ \A p \in DOMAIN b : blocks'[i][p] = IF p = here THEN <<ax, B + ay>> ELSE b[p]
  BY <1>0, <1>1, <1>8, <1>9, <1>10, <1>12
<1>14. \A x \in 0..(W - 1), y \in 0..(C - 1) :
         IsBefore(i, x, y) => b[x + y * W] = <<x, B + y>>
  BY <1>0, <1>1, <1>3, <1>5, <1>8 DEF DecodeInv, WithinSlice, Cols, RowsInSlice, Place
<1>15. \A x1, x2 \in 0..(W - 1), y1, y2 \in Nat :
         x1 + y1 * W = x2 + y2 * W => x1 = x2 /\ y1 = y2
  BY SplitUnique
<1>16. \A x \in 0..(W - 1), y \in 0..(C - 1) :
         x + y * W \in DOMAIN b
  <2>1. \A x \in 0..(W - 1), y \in 0..(R - 1) : x + y * W \in 0..(R * W - 1)
    BY SplitInRange
  <2>2. \A y \in 0..(C - 1) : y \in 0..(R - 1)
    BY <1>7
  <2> QED
    BY <1>6, <1>8, <2>1, <2>2
<1>17. ay = 0 /\ slice.finishedrows > 0 /\ ~OneBlockRow(i) =>
         \A x \in 0..(W - 1) : b[x + (R - 1) * W] = <<x, B - 1>>
  BY <1>0, <1>1, <1>3, <1>5, <1>8 DEF DecodeInv, WithinSlice, LastRowKept, Cols, Place
\* What the block is decoded with.
<1>18. /\ north = IF B + ay = 0 THEN NoBlock
                 ELSE IF OneBlockRow(i) THEN <<"begun">> ELSE <<ax, B + ay - 1>>
       /\ west = IF ax = 0 THEN NoBlock ELSE <<ax - 1, B + ay>>
  <2>1. ASSUME ay = 0, slice.finishedrows = 0
        PROVE  north = NoBlock /\ B + ay = 0
    BY <2>1, <1>7, <1>11
  <2>2. ASSUME ay = 0, slice.finishedrows # 0, ~OneBlockRow(i)
        PROVE  north = <<ax, B + ay - 1>> /\ B + ay # 0
    <3>1. NorthPlace(i, ax, ay) = ax + (R - 1) * W
      BY <1>3, <1>5, <2>2 DEF NorthPlace, Place
    <3>2. ax + (R - 1) * W # here /\ ax + (R - 1) * W \in DOMAIN b
      <4>1. R - 1 \in Nat /\ R - 1 # 0 /\ R - 1 \in 0..(R - 1)
        BY <1>7, <2>2
      <4> QED
        BY <1>6, <1>8, <1>15, <2>2, <4>1, SplitInRange
    <3>3. b[ax + (R - 1) * W] = <<ax, B - 1>>
      BY <1>0, <1>1, <1>6, <1>17, <2>2
    <3>4. begun[ax + (R - 1) * W] = b[ax + (R - 1) * W]
      BY <1>10, <3>2
    <3>5. B + ay # 0 /\ B + ay - 1 = B - 1
      BY <1>7, <2>2
    <3> QED
      BY <1>11, <2>2, <3>1, <3>3, <3>4, <3>5
  <2>6. ASSUME ay = 0, slice.finishedrows # 0, OneBlockRow(i)
        PROVE  north = <<"begun">> /\ B + ay # 0
    <3>1. R = 1
      BY <1>7, <2>6
    <3>2. NorthPlace(i, ax, ay) = ax + (R - 1) * W
      BY <1>3, <1>5, <2>6 DEF NorthPlace, Place
    <3>3. ax + (R - 1) * W = here
      BY <1>0, <1>3, <1>8, <2>6, <3>1
    <3>4. begun[here] = <<"begun">>
      BY <1>9, <1>10
    <3>5. B + ay # 0
      BY <1>7, <2>6
    <3> QED
      BY <1>11, <2>6, <3>2, <3>3, <3>4, <3>5
  <2>7. ASSUME ay # 0
        PROVE  ~OneBlockRow(i)
    BY <1>0, <1>5, <1>6, <1>7, <2>7
  <2>3. ASSUME ay # 0
        PROVE  north = <<ax, B + ay - 1>> /\ B + ay # 0
    <3>1. NorthPlace(i, ax, ay) = ax + (ay - 1) * W
      BY <1>3, <2>3 DEF NorthPlace, Place
    <3>2. ay - 1 \in 0..(C - 1)
      BY <1>6, <2>3
    <3>3. b[ax + (ay - 1) * W] = <<ax, B + (ay - 1)>>
      <4>1. IsBefore(i, ax, ay - 1)
        BY <1>0, <1>1 DEF IsBefore
      <4> QED
        BY <1>6, <1>14, <3>2, <4>1
    <3>4. ax + (ay - 1) * W # here /\ ax + (ay - 1) * W \in DOMAIN b
      <4>1. ay - 1 \in Nat /\ ay - 1 # ay
        BY <1>0, <2>3
      <4>2. ax + (ay - 1) * W # ax + ay * W
        <5>1. ax \in 0..(W - 1) /\ ay \in Nat
          BY <1>6
        <5>2. ax + (ay - 1) * W = ax + ay * W => ay - 1 = ay
          BY <1>15, <4>1, <5>1
        <5> QED
          BY <4>1, <5>2
      <4> QED
        BY <1>6, <1>8, <1>16, <3>2, <4>2
    <3>5. begun[ax + (ay - 1) * W] = b[ax + (ay - 1) * W]
      BY <1>10, <3>4
    <3>6. B + (ay - 1) = B + ay - 1 /\ B + ay # 0
      BY <1>0, <1>5, <2>3
    <3> QED
      BY <1>11, <2>3, <3>1, <3>3, <3>5, <3>6
  <2>4. ASSUME ax = 0
        PROVE  west = NoBlock
    BY <2>4, <1>11
  <2>5. ASSUME ax # 0
        PROVE  west = <<ax - 1, B + ay>>
    <3>1. Place(i, ax - 1, ay) = (ax - 1) + ay * W
      BY <1>3 DEF Place
    <3>2. ax - 1 \in 0..(W - 1)
      BY <1>0, <1>1, <1>6, <2>5
    <3>3. b[(ax - 1) + ay * W] = <<ax - 1, B + ay>>
      <4>1. IsBefore(i, ax - 1, ay)
        BY <1>0, <1>1 DEF IsBefore
      <4> QED
        BY <1>6, <1>14, <3>2, <4>1
    <3>4. (ax - 1) + ay * W # here /\ (ax - 1) + ay * W \in DOMAIN b
      <4>1. ax - 1 # ax
        BY <1>0
      <4>2. (ax - 1) + ay * W # ax + ay * W
        <5>1. ax \in 0..(W - 1) /\ ay \in Nat
          BY <1>6
        <5>2. (ax - 1) + ay * W = ax + ay * W => ax - 1 = ax
          BY <1>15, <3>2, <5>1
        <5> QED
          BY <4>1, <5>2
      <4> QED
        BY <1>6, <1>8, <1>16, <3>2, <4>2
    <3>5. begun[(ax - 1) + ay * W] = b[(ax - 1) + ay * W]
      BY <1>10, <3>4
    <3> QED
      BY <1>11, <2>5, <3>1, <3>3, <3>5
  <2> QED
    BY <2>1, <2>2, <2>3, <2>4, <2>5, <2>6, <2>7
<1>19. NeighboursAreAdjacent'
  <2>1. read[3] = BlockAbove(i, read[1], read[2]) /\ read[4] = BlockToTheLeft(read[1], read[2])
    <3>1. read[1] = ax /\ read[2] = B + ay /\ read[3] = north /\ read[4] = west
      BY <1>11
    <3> QED
      BY <1>18, <3>1 DEF BlockAbove, BlockToTheLeft
  <2>2. \A j \in Components : \A r \in neighbours'[j] : r \in neighbours[j] \/ (j = i /\ r = read)
    BY <1>0, <1>1, <1>12
  <2>3. \A j \in Components : \A r \in neighbours'[j] :
          r[3] = BlockAbove(j, r[1], r[2]) /\ r[4] = BlockToTheLeft(r[1], r[2])
    BY <2>1, <2>2 DEF DecodeInv, NeighboursAreAdjacent
  <2> QED
    BY <1>2, <2>3 DEF NeighboursAreAdjacent
\* Where the next block is.
<1>20. at' = IF ax + 1 < W THEN [at EXCEPT !.x = ax + 1]
             ELSE IF ay + 1 < C THEN [at EXCEPT !.x = 0, !.y = ay + 1]
             ELSE [comp |-> i + 1, x |-> 0, y |-> 0]
  BY <1>0, <1>3, <1>5 DEF DecodeBlock
<1>21. /\ at' \in [comp : Nat \ {0}, x : Nat, y : Nat]
       /\ \/ at'.comp = i /\ at'.x = ax + 1 /\ at'.x <= W - 1 /\ at'.y = ay
          \/ at'.comp = i /\ ax = W - 1 /\ at'.x = 0 /\ at'.y = ay + 1 /\ at'.y <= C - 1
          \/ at'.comp = i + 1 /\ ax = W - 1 /\ ay = C - 1 /\ at'.x = 0 /\ at'.y = 0
  <2>1. /\ i \in Nat \ {0} /\ i = at.comp /\ ax = at.x /\ ay = at.y
        /\ at \in [comp : Nat \ {0}, x : Nat, y : Nat]
        /\ ax \in 0..(W - 1) /\ ay \in 0..(C - 1)
    BY <1>0, <1>1, <1>6
  <2>2. CASE ax + 1 < W
    <3>1. at' = [at EXCEPT !.x = ax + 1]
      BY <1>20, <2>2
    <3> QED
      BY <2>1, <2>2, <3>1
  <2>3. CASE ~(ax + 1 < W) /\ ay + 1 < C
    <3>1. at' = [at EXCEPT !.x = 0, !.y = ay + 1]
      BY <1>20, <2>3
    <3>2. at' = [comp |-> i, x |-> 0, y |-> ay + 1]
      BY <2>1, <3>1
    <3>3. ax = W - 1 /\ ay + 1 <= C - 1
      BY <2>1, <2>3
    <3> QED
      BY <2>1, <3>2, <3>3
  <2>4. CASE ~(ax + 1 < W) /\ ~(ay + 1 < C)
    <3>1. at' = [comp |-> i + 1, x |-> 0, y |-> 0]
      BY <1>20, <2>4
    <3> QED
      BY <2>1, <2>4, <3>1
  <2> QED
    BY <2>2, <2>3, <2>4
<1>22. \A x \in 0..(W - 1), y \in 0..(C - 1) :
         IsBefore(i, x, y)' => IsBefore(i, x, y) \/ (x = ax /\ y = ay)
  <2>1. i \in Int /\ i = at.comp /\ ax = at.x /\ ay = at.y /\ ax \in Int /\ ay \in Int
    BY <1>0, <1>1, <1>6
  <2> SUFFICES ASSUME NEW x \in 0..(W - 1), NEW y \in 0..(C - 1), IsBefore(i, x, y)'
               PROVE  y < ay \/ (y = ay /\ x < ax) \/ (x = ax /\ y = ay)
    BY <2>1 DEF IsBefore
  <2>2. x \in Int /\ y \in Int /\ x <= W - 1 /\ y <= C - 1
    OBVIOUS
  <2>3. i < at'.comp \/ (i = at'.comp /\ (y < at'.y \/ (y = at'.y /\ x < at'.x)))
    BY DEF IsBefore
  <2> QED
    BY <1>21, <2>1, <2>2, <2>3
<1>23. \A x \in 0..(W - 1), y \in 0..(C - 1) :
         IsBefore(i, x, y)' => blocks'[i][x + y * W] = <<x, B + y>>
  <2> SUFFICES ASSUME NEW x \in 0..(W - 1), NEW y \in 0..(C - 1), IsBefore(i, x, y)'
               PROVE  blocks'[i][x + y * W] = <<x, B + y>>
    OBVIOUS
  <2>1. x + y * W \in DOMAIN b
    BY <1>16
  <2>2. CASE x = ax /\ y = ay
    BY <1>8, <1>13, <2>1, <2>2
  <2>3. CASE ~(x = ax /\ y = ay)
    <3>1. IsBefore(i, x, y)
      BY <1>22, <2>3
    <3>2. x + y * W # here
      <4>1. y \in Nat
        OBVIOUS
      <4> QED
        <5>1. ax \in 0..(W - 1)
          BY <1>6
        <5>2. x + y * W = ax + ay * W => x = ax /\ y = ay
          BY <1>15, <4>1, <5>1
        <5> QED
          BY <1>8, <2>3, <5>2
    <3> QED
      BY <1>13, <1>14, <2>1, <3>1, <3>2
  <2> QED
    BY <2>2, <2>3
<1>24. ASSUME NEW j \in Components, j > at'.comp \/ (j = at'.comp /\ at'.y = 0)
       PROVE  LastRowKept(j)'
  <2>1. CASE j = i
    <3>1. ay = 0 /\ at'.y = 0
      <4>1. i \in Int /\ ay \in Int /\ ay >= 0
        BY <1>0, <1>1, <1>6
      <4>2. i > at'.comp \/ (i = at'.comp /\ at'.y = 0)
        BY <1>24, <2>1
      <4> QED
        BY <1>21, <4>1, <4>2
    <3>2. ASSUME slice.finishedrows > 0, ~OneBlockRow(i), NEW x \in 0..(W - 1)
          PROVE  blocks'[i][x + (R - 1) * W] = <<x, B - 1>>
      <4>1. R - 1 \in Nat /\ R - 1 # 0 /\ R - 1 \in 0..(R - 1)
        BY <1>0, <1>1, <1>7, <3>2
      <4>2. x + (R - 1) * W # here /\ x + (R - 1) * W \in DOMAIN b
        BY <1>6, <1>8, <1>15, <3>1, <4>1, SplitInRange
      <4> QED
        BY <1>13, <1>17, <3>1, <3>2, <4>2
    <3>3. slice'.finishedrows = slice.finishedrows /\ slice'.sliceheight = slice.sliceheight
      BY <1>1
    <3> QED
      BY <1>2, <1>3, <1>5, <2>1, <3>2, <3>3 DEF LastRowKept, Cols, Place
  <2>2. CASE j # i
    <3>1. j > i
      <4>1. i \in Int /\ j \in Int
        BY <1>0, <1>1, LayoutFacts
      <4>2. at'.comp = i \/ at'.comp = i + 1
        BY <1>21
      <4>3. j >= at'.comp
        BY <1>24, <4>1, <4>2
      <4> QED
        BY <2>2, <4>1, <4>2, <4>3
    <3>2. LastRowKept(j)
      BY <1>0, <1>1, <3>1 DEF DecodeInv, WithinSlice
    <3>3. blocks'[j] = blocks[j]
      BY <1>13, <2>2
    <3> QED
      BY <1>0, <1>1, <1>2, <3>2, <3>3 DEF LastRowKept
  <2> QED
    BY <2>1, <2>2
<1>25. ASSUME NEW j \in Components, NEW x \in Cols(j), NEW y \in RowsInSlice(j), IsBefore(j, x, y)'
       PROVE  blocks'[j][Place(j, x, y)] = <<x, slice.finishedrows * VBlocks(j) + y>>
  <2>1. CASE j = i
    BY <1>3, <1>5, <1>23, <1>25, <2>1 DEF Cols, RowsInSlice, Place
  <2>2. CASE j # i
    <3>1. j < i
      <4>1. i \in Int /\ j \in Int
        BY <1>0, <1>1, LayoutFacts
      <4>2. j <= at'.comp /\ ~(j = at'.comp /\ (y < 0 \/ (y = 0 /\ x < 0)))
        <5>1. x \in Int /\ x >= 0 /\ y \in Int /\ y >= 0
          BY DEF Cols, RowsInSlice
        <5> QED
          BY <1>21, <1>25, <4>1, <5>1 DEF IsBefore
      <4>3. j # i + 1 \/ at'.comp # i + 1
        <5>1. x \in Int /\ x >= 0 /\ y \in Int /\ y >= 0
          BY DEF Cols, RowsInSlice
        <5>2. at'.comp = i + 1 => at'.x = 0 /\ at'.y = 0
          BY <1>21, <4>1
        <5> QED
          BY <1>25, <4>1, <5>1, <5>2 DEF IsBefore
      <4> QED
        BY <1>21, <2>2, <4>1, <4>2, <4>3
    <3>2. IsBefore(j, x, y)
      BY <1>0, <3>1 DEF IsBefore
    <3> QED
      BY <1>0, <1>1, <1>13, <2>2, <3>2 DEF DecodeInv, WithinSlice
  <2> QED
    BY <2>1, <2>2
<1>26. at'.comp \in Components => at'.x \in Cols(at'.comp) /\ at'.y \in RowsInSlice(at'.comp)
  <2>1. CASE at'.comp = i
    <3>1. i # i + 1
      BY <1>0, <1>1
    <3>2. at'.x \in 0..(W - 1) /\ at'.y \in 0..(C - 1)
      BY <1>6, <1>7, <1>21, <2>1, <3>1
    <3> QED
      BY <1>3, <1>5, <2>1, <3>2 DEF Cols, RowsInSlice
  <2>2. CASE at'.comp # i /\ at'.comp \in Components
    <3>1. at'.x = 0 /\ at'.y = 0
      BY <1>21, <2>2
    <3>2. BlocksPerRow(at'.comp) \in Nat \ {0} /\ VBlocks(at'.comp) \in Nat \ {0}
      BY <1>0, <1>1, <2>2, RowFacts, LayoutFacts
    <3>3. slice.currheight * VBlocks(at'.comp) \in Nat \ {0}
      BY <1>0, <1>1, <1>6, <3>2, ProductPositive
    <3> QED
      BY <3>1, <3>2, <3>3 DEF Cols, RowsInSlice
  <2> QED
    BY <2>1, <2>2
<1>27. WithinSlice'
  BY <1>0, <1>1, <1>2, <1>24, <1>25, <1>26 DEF DecodeInv, WithinSlice
<1>28. Typed'
  BY <1>0, <1>1, <1>2, <1>13, <1>21 DEF DecodeInv, Typed
<1>29. BufferFits'
  <2>1. \A j \in Components : DOMAIN blocks'[j] = DOMAIN blocks[j]
    BY <1>8, <1>13
  <2> QED
    BY <1>0, <1>1, <1>2, <2>1 DEF DecodeInv, BufferFits, Started
<1>30. BetweenSlices'
  BY <1>0, <1>1 DEF BetweenSlices
<1> QED
  BY <1>19, <1>27, <1>28, <1>29, <1>30 DEF DecodeInv

\* Behind the last block the last row is that of the slice just decoded.
LEMMA FinishKeepsDecodeInv ==
    ASSUME DecodeInv, FinishSlice
    PROVE  DecodeInv'
<1>1. /\ jpeg \in Layouts /\ op = "slice" /\ op' = "none" /\ at.comp \notin Components
      /\ at \in [comp : Nat \ {0}, x : Nat, y : Nat] /\ at' = at
      /\ slice \in [sliceheight : Nat, currheight : Nat, finishedrows : Nat, slicesavailable : BOOLEAN]
      /\ jpeg' = jpeg /\ blocks' = blocks /\ neighbours' = neighbours
      /\ slice' = [slice EXCEPT !.finishedrows = slice.finishedrows + slice.currheight]
      /\ slice.currheight \in 1..slice.sliceheight
      /\ slice.slicesavailable => /\ slice.currheight = slice.sliceheight
                                  /\ slice.finishedrows + slice.currheight < jpeg.vmcus
      /\ slice.finishedrows = 0 \/ slice.finishedrows >= slice.sliceheight
  BY DEF DecodeInv, Typed, BufferFits, WithinSlice, Started, FinishSlice
<1>2. /\ Components' = Components
      /\ \A j : VBlocks(j)' = VBlocks(j) /\ HBlocks(j)' = HBlocks(j) /\ BlocksPerRow(j)' = BlocksPerRow(j)
      /\ \A j : Cols(j)' = Cols(j)
      /\ \A j, x, y : Place(j, x, y)' = Place(j, x, y)
      /\ \A j : OneBlockRow(j)' = OneBlockRow(j)
      /\ \A j, x, y : BlockAbove(j, x, y)' = BlockAbove(j, x, y)
  BY <1>1 DEF Components, VBlocks, HBlocks, BlocksPerRow, Cols, Place, OneBlockRow, BlockAbove
<1>3. /\ slice' \in [sliceheight : Nat, currheight : Nat, finishedrows : Nat, slicesavailable : BOOLEAN]
      /\ slice'.sliceheight = slice.sliceheight
      /\ slice'.finishedrows = slice.finishedrows + slice.currheight
      /\ slice'.slicesavailable = slice.slicesavailable
  BY <1>1
<1>4. Typed'
  BY <1>1, <1>2, <1>3 DEF DecodeInv, Typed
<1>5. BufferFits'
  BY <1>1, <1>2, <1>3 DEF DecodeInv, BufferFits, Started
<1>6. ASSUME slice.slicesavailable, NEW j \in Components
      PROVE  LastRowKept(j)'
  <2>1. j < at.comp
    BY <1>1, LayoutFacts
  <2>2. PICK V \in Nat \ {0} : V = VBlocks(j)
    BY <1>1, LayoutFacts
  <2>3. slice.sliceheight * V \in Nat \ {0}
    BY <1>1, ProductPositive
  <2>4. slice.sliceheight * V - 1 \in RowsInSlice(j)
    BY <1>1, <1>6, <2>2, <2>3 DEF RowsInSlice
  <2>5. \A x \in Cols(j) : blocks[j][Place(j, x, slice.sliceheight * V - 1)]
                            = <<x, slice.finishedrows * V + (slice.sliceheight * V - 1)>>
    BY <1>1, <2>1, <2>2, <2>4 DEF DecodeInv, WithinSlice, IsBefore
  <2>6. slice.finishedrows * V + (slice.sliceheight * V - 1) = slice'.finishedrows * V - 1
    BY <1>1, <1>3, <1>6
  <2> QED
    BY <1>1, <1>2, <1>3, <2>2, <2>5, <2>6 DEF LastRowKept
<1>7. BetweenSlices'
  BY <1>2, <1>3, <1>6 DEF BetweenSlices
<1>8. WithinSlice' /\ NeighboursAreAdjacent'
  BY <1>1, <1>2 DEF DecodeInv, WithinSlice, NeighboursAreAdjacent
<1> QED
  BY <1>4, <1>5, <1>7, <1>8 DEF DecodeInv

\* Every step keeps the invariant.
LEMMA DecodeInvInductive == DecodeInv /\ [Next]_vars => DecodeInv'
<1> SUFFICES ASSUME DecodeInv, [Next]_vars PROVE DecodeInv'
  OBVIOUS
<1>1. CASE ReadNextBundle
  BY <1>1, BundleKeepsDecodeInv
<1>2. CASE ReadNextSlice
  BY <1>2, SliceKeepsDecodeInv
<1>3. CASE DecodeBlock
  BY <1>3, DecodeBlockKeepsDecodeInv
<1>4. CASE FinishSlice
  BY <1>4, FinishKeepsDecodeInv
<1>5. CASE EncodeToBuffer
  <2>1. op # "slice" /\ op' = "encode" /\ UNCHANGED <<jpeg, at, slice, blocks, neighbours>>
    BY <1>5 DEF EncodeToBuffer
  <2> QED
    BY <2>1, OthersKeepDecodeInv
<1>6. CASE EncodeStep
  <2>1. op = "encode" /\ op' = op /\ UNCHANGED <<jpeg, at, slice, blocks, neighbours>>
    BY <1>6 DEF EncodeStep, Emptied, Room, WriteStuffing, WriteByte, WriteMarker,
                PadForMarker, EncodeCoefficient
  <2> QED
    BY <2>1, OthersKeepDecodeInv
<1>7. CASE ReturnBuffer
  <2>1. op # "slice" /\ op' = "none" /\ UNCHANGED <<jpeg, at, slice, blocks, neighbours>>
    BY <1>7 DEF ReturnBuffer
  <2> QED
    BY <2>1, OthersKeepDecodeInv
<1>8. CASE UNCHANGED vars
  <2>1. UNCHANGED <<jpeg, op, at, slice, blocks, neighbours>>
    BY <1>8 DEF vars
  <2>2. op = "slice" \/ (op # "slice" /\ op' \in {"none", "encode"})
    BY <2>1 DEF DecodeInv, Typed
  <2>3. CASE op = "slice"
    <3>1. /\ Components' = Components
          /\ \A j : VBlocks(j)' = VBlocks(j) /\ BlocksPerRow(j)' = BlocksPerRow(j)
          /\ \A j : Cols(j)' = Cols(j) /\ RowsInSlice(j)' = RowsInSlice(j)
          /\ \A j, x, y : Place(j, x, y)' = Place(j, x, y) /\ IsBefore(j, x, y)' = IsBefore(j, x, y)
          /\ \A j : LastRowKept(j)' = LastRowKept(j)
          /\ \A j, x, y : BlockAbove(j, x, y)' = BlockAbove(j, x, y)
      BY <2>1 DEF Components, VBlocks, HBlocks, BlocksPerRow, Cols, RowsInSlice, Place, IsBefore,
                  LastRowKept, OneBlockRow, BlockAbove
    <3>2. Typed'
      BY <2>1, <3>1 DEF DecodeInv, Typed
    <3>3. BufferFits' /\ BetweenSlices'
      BY <2>1, <3>1 DEF DecodeInv, BufferFits, BetweenSlices, Started
    <3>4. WithinSlice'
      BY <2>1, <3>1 DEF DecodeInv, WithinSlice
    <3>5. NeighboursAreAdjacent'
      BY <2>1, <3>1 DEF DecodeInv, NeighboursAreAdjacent
    <3> QED
      BY <3>2, <3>3, <3>4, <3>5 DEF DecodeInv
  <2> QED
    BY <2>1, <2>2, <2>3, OthersKeepDecodeInv
<1> QED
  BY <1>1, <1>2, <1>3, <1>4, <1>5, <1>6, <1>7, <1>8 DEF Next

\* Every block is decoded with the block really to its left, and with the one
\* really above it wherever a slice holds more than one row of blocks, for
\* every size of image, sampling and slice (ReadNextWinZipJPEGSlice).
THEOREM NeighboursFound == Spec => []NeighboursAreAdjacent
<1>1. DecodeInv => NeighboursAreAdjacent
  BY DEF DecodeInv
<1> QED
  BY <1>1, DecodeInvInit, DecodeInvInductive, PTL DEF Spec

\* Every nonempty set of numbers has a least one.
LEMMA LeastNumber ==
    ASSUME NEW T \in SUBSET Nat, T # {}
    PROVE  \E n \in T : \A m \in T : n <= m
<1> DEFINE U == {1..n : n \in T}
<1>1. U \subseteq FiniteSubsetsOf(Nat) /\ U # {}
  <2>1. ASSUME NEW n \in T
        PROVE  1..n \in FiniteSubsetsOf(Nat)
    <3>1. IsFiniteSet(1..n)
      BY FS_Interval
    <3> QED
      BY <3>1 DEF FiniteSubsetsOf
  <2> QED
    BY <2>1
<1>2. PICK u \in U : \A v \in U : ~(<<v, u>> \in StrictSubsetOrdering(Nat))
  BY <1>1, WFMin, FS_StrictSubsetOrderingWellFounded
<1>3. PICK n \in T : u = 1..n
  BY <1>2
<1>4. ASSUME NEW m \in T, m < n
      PROVE  FALSE
  <2>1. n \in 1..n /\ n \notin 1..m
    BY <1>4
  <2>2. PICK v : v = 1..m
    OBVIOUS
  <2>3. v \in SUBSET Nat /\ u \in SUBSET Nat /\ v \subseteq u /\ v # u
    BY <1>3, <1>4, <2>1, <2>2
  <2>4. v \in U
    BY <2>2
  <2>5. <<v, u>> \in StrictSubsetOrdering(Nat)
    BY <2>3 DEF StrictSubsetOrdering
  <2> QED
    BY <1>2, <2>4, <2>5
<1> QED
  BY <1>4

\* Induction over the numbers, for a set of them.
LEMMA NumberInduction ==
    ASSUME NEW T, 0 \in T, \A n \in Nat : n \in T => n + 1 \in T
    PROVE  \A n \in Nat : n \in T
<1> DEFINE U == {n \in Nat : n \notin T}
<1> SUFFICES ASSUME U # {} PROVE FALSE
  OBVIOUS
<1>1. PICK n \in U : \A m \in U : n <= m
  BY LeastNumber
<1>2. n # 0 /\ n \in Nat /\ n \notin T
  OBVIOUS
<1>3. n - 1 \in Nat /\ n - 1 \notin U
  BY <1>1, <1>2
<1>4. (n - 1) + 1 \in T
  BY <1>3
<1> QED
  BY <1>2, <1>4

(***************************************************************************)
(* Flattening sequences of sequences.                                      *)
(***************************************************************************)
\* What FlattenSeq builds up, for the first k of a sequence of sequences.
Flattening(g, s, k) ==
    /\ g[1] = s[1]
    /\ \A i \in 2..k : g[i] = g[i - 1] \o s[i]

\* The running concatenation of a sequence of sequences exists.
LEMMA FlatteningExists ==
    ASSUME NEW S, NEW s \in Seq(Seq(S)), NEW n \in Nat, n \in 1..Len(s)
    PROVE  \E g \in [1..n -> Seq(S)] : Flattening(g, s, n)
<1> DEFINE T == {k \in Nat : k + 1 \in 1..Len(s) =>
                    \E g \in [1..(k + 1) -> Seq(S)] : Flattening(g, s, k + 1)}
<1>1. 0 \in T
  <2> DEFINE g == [i \in 1..1 |-> s[1]]
  <2>1. ASSUME 1 \in 1..Len(s)
        PROVE  g \in [1..1 -> Seq(S)] /\ Flattening(g, s, 1)
    BY <2>1 DEF Flattening
  <2> QED
    BY <2>1
<1>2. ASSUME NEW k \in Nat, k \in T
      PROVE  k + 1 \in T
  <2> SUFFICES ASSUME k + 2 \in 1..Len(s)
               PROVE  \E g \in [1..(k + 2) -> Seq(S)] : Flattening(g, s, k + 2)
    OBVIOUS
  <2>1. PICK g \in [1..(k + 1) -> Seq(S)] : Flattening(g, s, k + 1)
    BY <1>2
  <2> DEFINE h == [i \in 1..(k + 2) |-> IF i = k + 2 THEN g[k + 1] \o s[k + 2] ELSE g[i]]
  <2>2. g[k + 1] \o s[k + 2] \in Seq(S)
    OBVIOUS
  <2>3. h \in [1..(k + 2) -> Seq(S)]
    BY <2>2
  <2>4. Flattening(h, s, k + 2)
    <3>1. h[1] = s[1]
      BY <2>1 DEF Flattening
    <3>2. h[k + 2] = h[(k + 2) - 1] \o s[k + 2]
      <4>1. k + 1 \in 1..(k + 2) /\ k + 1 # k + 2 /\ k + 2 \in 1..(k + 2) /\ (k + 2) - 1 = k + 1
        OBVIOUS
      <4>2. h[k + 2] = g[k + 1] \o s[k + 2] /\ h[k + 1] = g[k + 1]
        BY <4>1
      <4> HIDE DEF h
      <4> QED
        BY <4>1, <4>2
    <3>3. ASSUME NEW i \in 2..(k + 1)
          PROVE  h[i] = h[i - 1] \o s[i]
      <4>1. i \in 1..(k + 2) /\ i - 1 \in 1..(k + 2) /\ i # k + 2 /\ i - 1 # k + 2
        OBVIOUS
      <4>2. h[i] = g[i] /\ h[i - 1] = g[i - 1]
        BY <4>1
      <4> HIDE DEF h
      <4> QED
        BY <2>1, <4>2 DEF Flattening
    <3>4. \A i \in 2..(k + 2) : i \in 2..(k + 1) \/ i = k + 2
      OBVIOUS
    <3> HIDE DEF h
    <3> QED
      BY <3>1, <3>2, <3>3, <3>4 DEF Flattening
  <2> QED
    BY <2>3, <2>4
<1>3. n - 1 \in T
  <2>1. n - 1 \in Nat
    OBVIOUS
  <2> HIDE DEF T
  <2> QED
    BY <1>1, <1>2, <2>1, NumberInduction
<1>4. (n - 1) + 1 = n
  OBVIOUS
<1> QED
  BY <1>3, <1>4

\* It is unique.
LEMMA FlatteningUnique ==
    ASSUME NEW s, NEW g, NEW h, NEW n \in Nat, Flattening(g, s, n), Flattening(h, s, n)
    PROVE  \A i \in 1..n : g[i] = h[i]
<1> DEFINE T == {k \in Nat : k + 1 \in 1..n => g[k + 1] = h[k + 1]}
<1>1. 0 \in T
  BY DEF Flattening
<1>2. ASSUME NEW k \in Nat, k \in T
      PROVE  k + 1 \in T
  <2> SUFFICES ASSUME k + 2 \in 1..n
               PROVE  g[k + 2] = h[k + 2]
    OBVIOUS
  <2>1. k + 2 \in 2..n /\ (k + 2) - 1 = k + 1 /\ k + 1 \in 1..n
    OBVIOUS
  <2>2. g[k + 1] = h[k + 1]
    BY <1>2, <2>1
  <2> QED
    BY <2>1, <2>2 DEF Flattening
<1>3. \A k \in Nat : k \in T
  <2> HIDE DEF T
  <2> QED
    BY <1>1, <1>2, NumberInduction
<1>4. ASSUME NEW i \in 1..n
      PROVE  g[i] = h[i]
  <2>1. i - 1 \in Nat /\ (i - 1) + 1 = i
    OBVIOUS
  <2> QED
    BY <1>3, <2>1
<1> QED
  BY <1>4

\* FlattenSeq is its last value.
LEMMA FlattenIsFlattening ==
    ASSUME NEW S, NEW s \in Seq(Seq(S)), Len(s) # 0
    PROVE  \E g \in [1..Len(s) -> Seq(S)] : Flattening(g, s, Len(s)) /\ FlattenSeq(s) = g[Len(s)]
<1> DEFINE n == Len(s)
           step(g) == [i \in 1..n |-> IF i = 1 THEN s[i] ELSE g[i - 1] \o s[i]]
           f == CHOOSE g : g = step(g)
<1>1. n \in Nat /\ n \in 1..n
  OBVIOUS
<1>2. PICK g \in [1..n -> Seq(S)] : Flattening(g, s, n)
  BY <1>1, FlatteningExists
<1>3. g = step(g)
  <2> HIDE DEF n
  <2>1. ASSUME NEW i \in 1..n
        PROVE  g[i] = step(g)[i]
    <3>1. i = 1 \/ i \in 2..n
      BY <1>1
    <3> QED
      BY <1>2, <3>1 DEF Flattening
  <2> QED
    BY <2>1
<1>4. f = step(f)
  <2> HIDE DEF step
  <2> QED
    BY <1>3
<1>5. Flattening(f, s, n)
  <2>1. f[1] = s[1]
    <3>1. step(f)[1] = s[1]
      BY <1>1
    <3> HIDE DEF step, f
    <3> QED
      BY <1>4, <3>1
  <2>2. ASSUME NEW i \in 2..n
        PROVE  f[i] = f[i - 1] \o s[i]
    <3>1. step(f)[i] = f[i - 1] \o s[i]
      <4>1. i \in 1..n /\ i # 1
        BY <1>1
      <4> HIDE DEF f, n
      <4> QED
        BY <4>1
    <3> HIDE DEF step, f
    <3> QED
      BY <1>4, <3>1
  <2> HIDE DEF f, n
  <2> QED
    BY <2>1, <2>2 DEF Flattening
<1>6. f[n] = g[n]
  <2> HIDE DEF f, n
  <2> QED
    BY <1>1, <1>2, <1>5, FlatteningUnique
<1>7. FlattenSeq(s) = f[n]
  BY DEF FlattenSeq
<1> QED
  BY <1>2, <1>6, <1>7

\* Nothing flattens to nothing.
LEMMA FlattenEmpty == FlattenSeq(<<>>) = <<>>
  BY DEF FlattenSeq

\* Sequences over S flatten to a sequence over S.
LEMMA FlattenType ==
    ASSUME NEW S, NEW s \in Seq(Seq(S))
    PROVE  FlattenSeq(s) \in Seq(S)
<1>1. CASE Len(s) = 0
  <2>1. s = <<>>
    BY <1>1, EmptySeq
  <2>2. FlattenSeq(s) = <<>>
    BY <2>1, FlattenEmpty
  <2> QED
    BY <2>2
<1>2. CASE Len(s) # 0
  <2>1. PICK g \in [1..Len(s) -> Seq(S)] : FlattenSeq(s) = g[Len(s)]
    BY <1>2, FlattenIsFlattening
  <2>2. Len(s) \in 1..Len(s)
    BY <1>2
  <2> QED
    BY <2>1, <2>2
<1> QED
  BY <1>1, <1>2

\* One more sequence is concatenated behind the others.
LEMMA FlattenAppend ==
    ASSUME NEW S, NEW s \in Seq(Seq(S)), NEW x \in Seq(S)
    PROVE  FlattenSeq(Append(s, x)) = FlattenSeq(s) \o x
<1>b. PICK n \in Nat : n = Len(s)
  OBVIOUS
<1>a. PICK t : t = Append(s, x)
  OBVIOUS
<1>1. /\ t \in Seq(Seq(S)) /\ Len(t) = n + 1
      /\ \A i \in 1..n : t[i] = s[i]
      /\ t[n + 1] = x
  BY <1>b, <1>a
<1>2. PICK h \in [1..(n + 1) -> Seq(S)] : Flattening(h, t, n + 1) /\ FlattenSeq(t) = h[n + 1]
  <2>1. Len(t) # 0
    BY <1>1
  <2> QED
    BY <1>1, <2>1, FlattenIsFlattening
<1>3. CASE n = 0
  <2>1. s = <<>>
    BY <1>b, <1>3, EmptySeq
  <2>2. FlattenSeq(s) = <<>>
    BY <2>1, FlattenEmpty
  <2>3. h[1] = t[1]
    BY <1>2 DEF Flattening
  <2>4. FlattenSeq(t) = x
    <3>1. n + 1 = 1
      BY <1>3
    <3>2. t[1] = x
      BY <1>1, <3>1
    <3> QED
      BY <1>2, <2>3, <3>1, <3>2
  <2>5. <<>> \o x = x
    OBVIOUS
  <2> QED
    BY <1>a, <2>2, <2>4, <2>5
<1>4. CASE n # 0
  <2>1. PICK g \in [1..n -> Seq(S)] : Flattening(g, s, n) /\ FlattenSeq(s) = g[n]
    BY <1>b, <1>4, FlattenIsFlattening
  <2>2. Flattening(h, s, n)
    <3>1. h[1] = s[1]
      BY <1>1, <1>2, <1>4 DEF Flattening
    <3>2. ASSUME NEW i \in 2..n
          PROVE  h[i] = h[i - 1] \o s[i]
      <4>1. i \in 2..(n + 1) /\ i \in 1..n
        BY <1>1
      <4> QED
        BY <1>1, <1>2, <4>1 DEF Flattening
    <3> QED
      BY <3>1, <3>2 DEF Flattening
  <2>3. h[n] = g[n]
    <3>1. \A i \in 1..n : h[i] = g[i]
      BY <1>b, <2>1, <2>2, FlatteningUnique
    <3> QED
      BY <1>1, <1>4, <3>1
  <2>4. h[n + 1] = h[n] \o t[n + 1]
    <3>1. n + 1 \in 2..(n + 1) /\ (n + 1) - 1 = n
      BY <1>1, <1>4
    <3> QED
      BY <1>2, <3>1 DEF Flattening
  <2>5. FlattenSeq(t) = FlattenSeq(s) \o x
    <3>1. h[n + 1] = g[n] \o x
      BY <1>1, <2>3, <2>4
    <3>2. FlattenSeq(t) = h[n + 1] /\ FlattenSeq(s) = g[n]
      BY <1>2, <2>1
    <3> QED
      BY <3>1, <3>2
  <2> QED
    BY <1>a, <2>5
<1> QED
  BY <1>3, <1>4

\* t begins with s.
Begins(S, s, t) == \E r \in Seq(S) : t = s \o r

\* A concatenation begins with its first part.
LEMMA BeginsWithPart == \A S : \A s, r \in Seq(S) : Begins(S, s, s \o r)
  BY DEF Begins

\* A sequence begins with itself.
LEMMA BeginsItself == \A S : \A s \in Seq(S) : Begins(S, s, s)
<1> SUFFICES ASSUME NEW S, NEW s \in Seq(S) PROVE Begins(S, s, s)
  OBVIOUS
<1>1. s \o <<>> = s /\ <<>> \in Seq(S)
  BY ConcatEmptySeq, EmptySeq
<1> QED
  BY <1>1 DEF Begins

\* A beginning of a beginning is a beginning.
LEMMA BeginsThrough ==
    \A S : \A s, t, u \in Seq(S) : Begins(S, s, t) /\ Begins(S, t, u) => Begins(S, s, u)
<1> SUFFICES ASSUME NEW S, NEW s \in Seq(S), NEW t \in Seq(S), NEW u \in Seq(S),
                    Begins(S, s, t), Begins(S, t, u)
             PROVE  Begins(S, s, u)
  OBVIOUS
<1>1. PICK a \in Seq(S) : t = s \o a
  BY DEF Begins
<1>2. PICK b \in Seq(S) : u = t \o b
  BY DEF Begins
<1>3. u = s \o (a \o b) /\ a \o b \in Seq(S)
  BY <1>1, <1>2, ConcatAssociative
<1> QED
  BY <1>3 DEF Begins

\* A common head changes nothing.
LEMMA BeginsBehind ==
    \A S : \A h, s, t \in Seq(S) : Begins(S, s, t) => Begins(S, h \o s, h \o t)
<1> SUFFICES ASSUME NEW S, NEW h \in Seq(S), NEW s \in Seq(S), NEW t \in Seq(S), Begins(S, s, t)
             PROVE  Begins(S, h \o s, h \o t)
  OBVIOUS
<1>1. PICK a \in Seq(S) : t = s \o a
  BY DEF Begins
<1>2. h \o t = (h \o s) \o a
  BY <1>1, ConcatAssociative
<1> QED
  BY <1>2 DEF Begins

\* The first n of a sequence.
LEMMA FirstOnes ==
    ASSUME NEW S, NEW s \in Seq(S), NEW n \in 0..Len(s)
    PROVE  /\ SubSeq(s, 1, n) \in Seq(S) /\ Len(SubSeq(s, 1, n)) = n
           /\ \A i \in 1..n : SubSeq(s, 1, n)[i] = s[i]
<1>1. \A i \in 1..n : s[i] \in S
  BY ElementOfSeq
<1> QED
  BY <1>1, SubSeqProperties

\* One more element.
LEMMA FlattenMore ==
    ASSUME NEW S, NEW s \in Seq(Seq(S)), NEW t \in Seq(Seq(S)),
           Len(t) = Len(s) + 1, \A i \in 1..Len(s) : t[i] = s[i]
    PROVE  FlattenSeq(t) = FlattenSeq(s) \o t[Len(s) + 1]
<1>1. PICK n \in Nat : n = Len(s)
  OBVIOUS
<1>2. PICK x : x = t[n + 1]
  OBVIOUS
<1>3. x \in Seq(S)
  BY <1>1, <1>2, ElementOfSeq
<1>4. PICK u : u = Append(s, x)
  OBVIOUS
<1>5. u \in Seq(Seq(S)) /\ Len(u) = n + 1 /\ (\A i \in 1..n : u[i] = s[i]) /\ u[n + 1] = x
  BY <1>1, <1>3, <1>4, AppendProperties
<1>6. ASSUME NEW i \in 1..Len(t)
      PROVE  t[i] = u[i]
  <2>1. i \in 1..n \/ i = n + 1
    BY <1>1
  <2> QED
    BY <1>1, <1>2, <1>5, <2>1
<1>7. t = u
  BY <1>1, <1>5, <1>6, SeqEqual
<1>8. FlattenSeq(u) = FlattenSeq(s) \o x
  BY <1>3, <1>4, FlattenAppend
<1> QED
  BY <1>1, <1>2, <1>7, <1>8

\* A beginning of the sequence gives a beginning of what is flattened.
LEMMA FlattenBegins ==
    ASSUME NEW S, NEW s \in Seq(Seq(S)), NEW t \in Seq(Seq(S)),
           Len(s) <= Len(t), \A i \in 1..Len(s) : t[i] = s[i]
    PROVE  Begins(S, FlattenSeq(s), FlattenSeq(t))
<1>1. PICK n \in Nat : n = Len(s)
  OBVIOUS
<1>2. PICK f \in Seq(S) : f = FlattenSeq(s)
  BY FlattenType
<1> DEFINE T == {d \in Nat : \A u \in Seq(Seq(S)) :
                    (Len(u) = n + d /\ \A i \in 1..n : u[i] = s[i]) => Begins(S, f, FlattenSeq(u))}
<1>3. 0 \in T
  <2> SUFFICES ASSUME NEW u \in Seq(Seq(S)), Len(u) = n + 0, \A i \in 1..n : u[i] = s[i]
               PROVE  Begins(S, f, FlattenSeq(u))
    OBVIOUS
  <2>1. u = s
    BY <1>1, SeqEqual
  <2> QED
    BY <1>2, <2>1, BeginsItself, Zenon
<1>4. ASSUME NEW d \in Nat, d \in T
      PROVE  d + 1 \in T
  <2> SUFFICES ASSUME NEW u \in Seq(Seq(S)), Len(u) = n + (d + 1), \A i \in 1..n : u[i] = s[i]
               PROVE  Begins(S, f, FlattenSeq(u))
    <3>1. d + 1 \in Nat
      OBVIOUS
    <3> QED
      BY <3>1, Zenon
  <2>1. PICK v : v = SubSeq(u, 1, n + d)
    OBVIOUS
  <2>2. v \in Seq(Seq(S)) /\ Len(v) = n + d /\ \A i \in 1..(n + d) : v[i] = u[i]
    <3>1. n + d \in 0..Len(u)
      OBVIOUS
    <3> QED
      BY <2>1, <3>1, FirstOnes
  <2>3. Begins(S, f, FlattenSeq(v))
    <3>1. \A i \in 1..n : v[i] = s[i]
      BY <2>2
    <3>2. \A x \in Seq(Seq(S)) : (Len(x) = n + d /\ \A i \in 1..n : x[i] = s[i])
                                    => Begins(S, f, FlattenSeq(x))
      BY <1>4, Zenon
    <3> QED
      BY <2>2, <3>1, <3>2, Zenon
  <2>4. PICK x : x = u[(n + d) + 1]
    OBVIOUS
  <2>5. x \in Seq(S) /\ FlattenSeq(v) \in Seq(S) /\ FlattenSeq(u) \in Seq(S)
    <3>1. x \in Seq(S)
      BY <2>4, ElementOfSeq
    <3>2. FlattenSeq(v) \in Seq(S) /\ FlattenSeq(u) \in Seq(S)
      BY <2>2, FlattenType
    <3> QED
      BY <3>1, <3>2
  <2>6. FlattenSeq(u) = FlattenSeq(v) \o x
    <3>1. Len(u) = Len(v) + 1 /\ \A i \in 1..Len(v) : u[i] = v[i]
      <4>1. Len(u) = (n + d) + 1
        OBVIOUS
      <4> QED
        BY <2>2, <4>1, Zenon
    <3>2. FlattenSeq(u) = FlattenSeq(v) \o u[Len(v) + 1]
      BY <2>2, <3>1, FlattenMore
    <3> QED
      BY <2>2, <2>4, <3>2
  <2>7. Begins(S, FlattenSeq(v), FlattenSeq(u))
    BY <2>5, <2>6, BeginsWithPart, Zenon
  <2> QED
    BY <2>3, <2>5, <2>7, BeginsThrough, Zenon
<1>5. \A d \in Nat : d \in T
  <2> HIDE DEF T
  <2> QED
    BY <1>3, <1>4, NumberInduction
<1>6. Len(t) - n \in Nat /\ Len(t) = n + (Len(t) - n)
  BY <1>1
<1> QED
  BY <1>1, <1>2, <1>5, <1>6

\* What is empty leaves no trace.
LEMMA FlattenEmpties ==
    ASSUME NEW S, NEW s \in Seq(Seq(S)), NEW t \in Seq(Seq(S)),
           Len(s) <= Len(t), \A i \in 1..Len(s) : t[i] = s[i],
           \A i \in (Len(s) + 1)..Len(t) : t[i] = <<>>
    PROVE  FlattenSeq(t) = FlattenSeq(s)
<1>1. PICK n \in Nat : n = Len(s)
  OBVIOUS
<1>2. PICK f \in Seq(S) : f = FlattenSeq(s)
  BY FlattenType
<1> DEFINE T == {d \in Nat : \A u \in Seq(Seq(S)) :
                    (/\ Len(u) = n + d /\ \A i \in 1..n : u[i] = s[i]
                     /\ \A i \in (n + 1)..(n + d) : u[i] = <<>>)
                       => FlattenSeq(u) = f}
<1>3. 0 \in T
  <2> SUFFICES ASSUME NEW u \in Seq(Seq(S)), Len(u) = n + 0, \A i \in 1..n : u[i] = s[i]
               PROVE  FlattenSeq(u) = f
    OBVIOUS
  <2>1. u = s
    BY <1>1, SeqEqual
  <2> QED
    BY <1>2, <2>1
<1>4. ASSUME NEW d \in Nat, d \in T
      PROVE  d + 1 \in T
  <2> SUFFICES ASSUME NEW u \in Seq(Seq(S)), Len(u) = n + (d + 1), \A i \in 1..n : u[i] = s[i],
                      \A i \in (n + 1)..(n + (d + 1)) : u[i] = <<>>
               PROVE  FlattenSeq(u) = f
    OBVIOUS
  <2>1. PICK v : v = SubSeq(u, 1, n + d)
    OBVIOUS
  <2>2. v \in Seq(Seq(S)) /\ Len(v) = n + d /\ \A i \in 1..(n + d) : v[i] = u[i]
    <3>1. n + d \in 0..Len(u)
      OBVIOUS
    <3> QED
      BY <2>1, <3>1, FirstOnes
  <2>3. FlattenSeq(v) = f
    <3>1. (\A i \in 1..n : v[i] = s[i]) /\ (\A i \in (n + 1)..(n + d) : v[i] = <<>>)
      BY <2>2
    <3>2. \A x \in Seq(Seq(S)) :
             (/\ Len(x) = n + d /\ \A i \in 1..n : x[i] = s[i]
              /\ \A i \in (n + 1)..(n + d) : x[i] = <<>>) => FlattenSeq(x) = f
      BY <1>4, Zenon
    <3> QED
      BY <2>2, <3>1, <3>2, Zenon
  <2>4. u[(n + d) + 1] = <<>>
    OBVIOUS
  <2>5. FlattenSeq(u) = f \o <<>>
    <3>1. Len(u) = Len(v) + 1 /\ \A i \in 1..Len(v) : u[i] = v[i]
      <4>1. Len(u) = (n + d) + 1
        OBVIOUS
      <4> QED
        BY <2>2, <4>1, Zenon
    <3>2. FlattenSeq(u) = FlattenSeq(v) \o u[Len(v) + 1]
      BY <2>2, <3>1, FlattenMore
    <3> QED
      BY <2>2, <2>3, <2>4, <3>2
  <2> QED
    BY <2>5, ConcatEmptySeq
<1>5. \A d \in Nat : d \in T
  <2> HIDE DEF T
  <2> QED
    BY <1>3, <1>4, NumberInduction
<1>6. Len(t) - n \in Nat /\ Len(t) = n + (Len(t) - n)
  BY <1>1
<1> QED
  BY <1>1, <1>2, <1>5, <1>6

\* A beginning is a prefix.
LEMMA BeginsIsPrefix ==
    \A S : \A s, t \in Seq(S) : Begins(S, s, t) => IsPrefix(s, t)
<1> SUFFICES ASSUME NEW S, NEW s \in Seq(S), NEW t \in Seq(S), Begins(S, s, t)
             PROVE  IsPrefix(s, t)
  OBVIOUS
<1>1. PICK r \in Seq(S) : t = s \o r
  BY DEF Begins
<1>2. PICK n \in Nat : n = Len(s)
  OBVIOUS
<1>3. t \in Seq(S) /\ n <= Len(t) /\ \A i \in 1..n : t[i] = s[i]
  BY <1>1, <1>2, ConcatProperties
<1>4. SubSeq(s, 1, n) = s
  BY <1>2, SubSeqFull
<1>5. SubSeq(t, 1, n) \in Seq(S) /\ Len(SubSeq(t, 1, n)) = n
      /\ \A i \in 1..n : SubSeq(t, 1, n)[i] = t[i]
  <2>1. \A i \in 1..n : t[i] \in S
    BY <1>3, ElementOfSeq
  <2> QED
    BY <2>1, SubSeqProperties
<1>6. SubSeq(t, 1, n) = s
  BY <1>2, <1>3, <1>5, SeqEqual
<1> QED
  BY <1>1, <1>2, <1>3, <1>4, <1>6 DEF IsPrefix

(***************************************************************************)
(* Bytes.                                                                  *)
(***************************************************************************)

\* Concatenation is associative, for bytes and for bits.
LEMMA BytesAssociate == \A s, t, u \in Seq(Int) : (s \o t) \o u = s \o (t \o u)
  BY ConcatAssociative, SMTT(20)

\* Concatenation of bits is associative.
LEMMA BitsAssociate == \A s, t, u \in Seq(Bit) : (s \o t) \o u = s \o (t \o u)
  BY ConcatAssociative

\* The first n bytes of a sequence of bits.
Bytes(raw, n) == FlattenSeq([m \in 1..n |-> StuffedByte(raw, m)])

\* Of the bits raw, those of n bytes are behind head in bytes (if a zero is
\* owing it counts as written), the others wait.
Written(head, raw, n, waiting, owing, bytes) ==
    /\ 8 * n + Len(waiting) = Len(raw)
    /\ \A i \in 1..Len(waiting) : waiting[i] = raw[8 * n + i]
    /\ bytes \o (IF owing THEN <<0>> ELSE <<>>) = head \o Bytes(raw, n)

\* The stuffed byte 255, put down in two steps.
LEMMA StuffedByteIsTwo == <<255>> \o <<0>> = <<255, 0>>
<1>1. <<255>> \in Seq(Int) /\ <<0>> \in Seq(Int) /\ <<255, 0>> \in Seq(Int)
  OBVIOUS
<1>2. <<255>> \o <<0>> \in Seq(Int) /\ Len(<<255>> \o <<0>>) = 2
  BY <1>1
<1>3. (<<255>> \o <<0>>)[1] = 255 /\ (<<255>> \o <<0>>)[2] = 0
  BY <1>1
<1>4. PICK s : s = <<255>> \o <<0>>
  OBVIOUS
<1>5. PICK t : t = <<255, 0>>
  OBVIOUS
<1>6. Len(t) = 2 /\ t[1] = 255 /\ t[2] = 0 /\ t \in Seq(Int)
  BY <1>1, <1>5
<1>7. s \in Seq(Int) /\ Len(s) = Len(t) /\ \A i \in 1..Len(s) : s[i] = t[i]
  BY <1>2, <1>3, <1>4, <1>6
<1>8. s = t
  BY <1>6, <1>7, SeqEqual
<1> QED
  BY <1>4, <1>5, <1>8

\* The byte behind the first a bits.
ByteAt(s, a) ==
    128 * s[a + 1] + 64 * s[a + 2] + 32 * s[a + 3] + 16 * s[a + 4]
    + 8 * s[a + 5] + 4 * s[a + 6] + 2 * s[a + 7] + s[a + 8]

\* A byte of the bits is a number.
LEMMA ByteAtType ==
    ASSUME NEW s \in Seq(Bit), NEW a \in Nat, a + 8 <= Len(s)
    PROVE  ByteAt(s, a) \in Int
<1>1. \A i \in 1..8 : s[a + i] \in Int
  <2>1. \A i \in 1..8 : a + i \in 1..Len(s)
    OBVIOUS
  <2>2. \A i \in 1..Len(s) : s[i] \in Bit
    BY ElementOfSeq
  <2> QED
    BY <2>1, <2>2 DEF Bit
<1>2. PICK v1 \in Int : v1 = s[a + 1]
  BY <1>1, SMTT(20)
<1>3. PICK v2 \in Int : v2 = s[a + 2]
  BY <1>1
<1>4. PICK v3 \in Int : v3 = s[a + 3]
  BY <1>1
<1>5. PICK v4 \in Int : v4 = s[a + 4]
  BY <1>1
<1>6. PICK v5 \in Int : v5 = s[a + 5]
  BY <1>1
<1>7. PICK v6 \in Int : v6 = s[a + 6]
  BY <1>1
<1>8. PICK v7 \in Int : v7 = s[a + 7]
  BY <1>1
<1>9. PICK v8 \in Int : v8 = s[a + 8]
  BY <1>1
<1>10. ByteAt(s, a) = 128 * v1 + 64 * v2 + 32 * v3 + 16 * v4 + 8 * v5 + 4 * v6 + 2 * v7 + v8
  BY <1>2, <1>3, <1>4, <1>5, <1>6, <1>7, <1>8, <1>9, Zenon DEF ByteAt
<1>11. 128 * v1 + 64 * v2 + 32 * v3 + 16 * v4 + 8 * v5 + 4 * v6 + 2 * v7 + v8 \in Int
  OBVIOUS
<1> QED
  BY <1>10, <1>11, Zenon

\* The byte of the eight bits behind a position.
LEMMA ByteIsByteAt ==
    ASSUME NEW s \in Seq(Bit), NEW a \in Nat, a + 8 <= Len(s)
    PROVE  Byte(SubSeq(s, a + 1, a + 8)) = ByteAt(s, a)
<1>1. PICK e : e = SubSeq(s, a + 1, a + 8)
  OBVIOUS
<1>2. \A i \in 1..8 : e[i] = s[a + i]
  <2>1. \A i \in (a + 1)..(a + 8) : s[i] \in Bit
    BY ElementOfSeq
  <2>2. (a + 8) - (a + 1) + 1 = 8
    OBVIOUS
  <2>3. \A i \in 1..((a + 8) - (a + 1) + 1) : e[i] = s[(a + 1) + i - 1]
    BY <1>1, <2>1, SubSeqProperties
  <2>4. \A i \in 1..8 : (a + 1) + i - 1 = a + i
    OBVIOUS
  <2> QED
    BY <2>2, <2>3, <2>4
<1>3. /\ e[1] = s[a + 1] /\ e[2] = s[a + 2] /\ e[3] = s[a + 3] /\ e[4] = s[a + 4]
      /\ e[5] = s[a + 5] /\ e[6] = s[a + 6] /\ e[7] = s[a + 7] /\ e[8] = s[a + 8]
  BY <1>2
<1>4. Byte(e) = ByteAt(s, a)
  BY <1>3, Zenon DEF Byte, ByteAt
<1> QED
  BY <1>1, <1>4

\* Bits that are the same make the same byte.
LEMMA SameByteAt ==
    ASSUME NEW s, NEW a \in Nat, NEW t, NEW b \in Nat, \A i \in 1..8 : s[a + i] = t[b + i]
    PROVE  ByteAt(s, a) = ByteAt(t, b)
<1>1. /\ s[a + 1] = t[b + 1] /\ s[a + 2] = t[b + 2] /\ s[a + 3] = t[b + 3] /\ s[a + 4] = t[b + 4]
      /\ s[a + 5] = t[b + 5] /\ s[a + 6] = t[b + 6] /\ s[a + 7] = t[b + 7] /\ s[a + 8] = t[b + 8]
  OBVIOUS
<1> QED
  BY <1>1, Zenon DEF ByteAt

\* The next byte, stuffed when it is 255.
LEMMA StuffedByteAt ==
    ASSUME NEW raw \in Seq(Bit), NEW n \in Nat, 8 * n + 8 <= Len(raw)
    PROVE  StuffedByte(raw, n + 1) = IF ByteAt(raw, 8 * n) = 255 THEN <<255, 0>> ELSE <<ByteAt(raw, 8 * n)>>
<1>1. PICK a \in Nat : a = 8 * n
  OBVIOUS
<1>2. 8 * (n + 1) - 7 = a + 1 /\ 8 * (n + 1) = a + 8 /\ a + 8 <= Len(raw)
  BY <1>1
<1>3. Byte(SubSeq(raw, a + 1, a + 8)) = ByteAt(raw, a)
  BY <1>2, ByteIsByteAt
<1> QED
  BY <1>1, <1>2, <1>3 DEF StuffedByte

\* A stuffed byte is a sequence of bytes.
LEMMA StuffedByteType ==
    ASSUME NEW raw \in Seq(Bit), NEW n \in Nat, 8 * n + 8 <= Len(raw)
    PROVE  StuffedByte(raw, n + 1) \in Seq(Int)
<1>1. PICK v \in Int : v = ByteAt(raw, 8 * n)
  <2>1. 8 * n \in Nat
    OBVIOUS
  <2> QED
    BY <2>1, ByteAtType
<1>2. StuffedByte(raw, n + 1) = IF v = 255 THEN <<255, 0>> ELSE <<v>>
  BY <1>1, StuffedByteAt
<1>3. <<255, 0>> \in Seq(Int)
  OBVIOUS
<1>4. <<v>> \in Seq(Int)
  OBVIOUS
<1> QED
  BY <1>2, <1>3, <1>4, Zenon

\* A byte does not change when more bits come behind it.
LEMMA StuffedByteSame ==
    ASSUME NEW raw \in Seq(Bit), NEW r \in Seq(Bit), NEW n \in Nat, 8 * n + 8 <= Len(raw)
    PROVE  StuffedByte(raw \o r, n + 1) = StuffedByte(raw, n + 1)
<1>1. PICK t : t = raw \o r
  OBVIOUS
<1>2. t \in Seq(Bit) /\ Len(t) >= Len(raw) /\ \A i \in 1..Len(raw) : t[i] = raw[i]
  BY <1>1, ConcatProperties
<1>3. PICK a \in Nat : a = 8 * n
  OBVIOUS
<1>4. \A i \in 1..8 : t[a + i] = raw[a + i]
  BY <1>2, <1>3
<1>5. ByteAt(t, a) = ByteAt(raw, a)
  BY <1>4, SameByteAt
<1>6. 8 * n + 8 <= Len(t)
  BY <1>2
<1>7. /\ StuffedByte(raw, n + 1) = IF ByteAt(raw, a) = 255 THEN <<255, 0>> ELSE <<ByteAt(raw, a)>>
      /\ StuffedByte(t, n + 1) = IF ByteAt(t, a) = 255 THEN <<255, 0>> ELSE <<ByteAt(t, a)>>
  BY <1>2, <1>3, <1>6, StuffedByteAt
<1> QED
  BY <1>1, <1>5, <1>7

\* So are the first n of them.
LEMMA StuffedBytes ==
    ASSUME NEW raw \in Seq(Bit), NEW n \in Nat, 8 * n <= Len(raw)
    PROVE  /\ [m \in 1..n |-> StuffedByte(raw, m)] \in Seq(Seq(Int))
           /\ Len([m \in 1..n |-> StuffedByte(raw, m)]) = n
<1>1. ASSUME NEW m \in 1..n
      PROVE  StuffedByte(raw, m) \in Seq(Int)
  <2>1. m - 1 \in Nat /\ 8 * (m - 1) + 8 <= Len(raw) /\ (m - 1) + 1 = m
    OBVIOUS
  <2>2. StuffedByte(raw, (m - 1) + 1) \in Seq(Int)
    BY <2>1, StuffedByteType
  <2> QED
    BY <2>1, <2>2
<1> QED
  BY <1>1

\* The bytes of the first n octets are bytes.
LEMMA BytesType ==
    ASSUME NEW raw \in Seq(Bit), NEW n \in Nat, 8 * n <= Len(raw)
    PROVE  Bytes(raw, n) \in Seq(Int)
  BY StuffedBytes, FlattenType DEF Bytes

\* One more octet adds its stuffed byte.
LEMMA BytesMore ==
    ASSUME NEW raw \in Seq(Bit), NEW n \in Nat, 8 * n + 8 <= Len(raw)
    PROVE  Bytes(raw, n + 1) = Bytes(raw, n) \o StuffedByte(raw, n + 1)
<1>1. PICK s, t : s = [m \in 1..n |-> StuffedByte(raw, m)] /\ t = [m \in 1..(n + 1) |-> StuffedByte(raw, m)]
  OBVIOUS
<1>2. s \in Seq(Seq(Int)) /\ Len(s) = n /\ t \in Seq(Seq(Int)) /\ Len(t) = n + 1
  <2>1. n + 1 \in Nat /\ 8 * n <= Len(raw) /\ 8 * (n + 1) <= Len(raw)
    OBVIOUS
  <2> QED
    BY <1>1, <2>1, StuffedBytes
<1>3. \A i \in 1..n : t[i] = s[i]
  BY <1>1
<1>4. t[n + 1] = StuffedByte(raw, n + 1)
  BY <1>1
<1>5. FlattenSeq(t) = FlattenSeq(s) \o t[n + 1]
  BY <1>2, <1>3, FlattenMore
<1> QED
  BY <1>1, <1>4, <1>5 DEF Bytes

\* More bits behind them change no byte.
LEMMA BytesSame ==
    ASSUME NEW raw \in Seq(Bit), NEW r \in Seq(Bit), NEW n \in Nat, 8 * n <= Len(raw)
    PROVE  Bytes(raw \o r, n) = Bytes(raw, n)
<1>1. ASSUME NEW m \in 1..n
      PROVE  StuffedByte(raw \o r, m) = StuffedByte(raw, m)
  <2>1. m - 1 \in Nat /\ 8 * (m - 1) + 8 <= Len(raw) /\ (m - 1) + 1 = m
    OBVIOUS
  <2>2. StuffedByte(raw \o r, (m - 1) + 1) = StuffedByte(raw, (m - 1) + 1)
    BY <2>1, StuffedByteSame
  <2> QED
    BY <2>1, <2>2
<1>2. [m \in 1..n |-> StuffedByte(raw \o r, m)] = [m \in 1..n |-> StuffedByte(raw, m)]
  BY <1>1
<1> QED
  BY <1>2 DEF Bytes

\* The bytes of some bits begin those of all.
LEMMA BytesBegin ==
    ASSUME NEW raw \in Seq(Bit), NEW n \in Nat, NEW k \in Nat, n <= k, 8 * k <= Len(raw)
    PROVE  Begins(Int, Bytes(raw, n), Bytes(raw, k))
<1>1. PICK s : s = [m \in 1..n |-> StuffedByte(raw, m)]
  OBVIOUS
<1>2. PICK t : t = [m \in 1..k |-> StuffedByte(raw, m)]
  OBVIOUS
<1>3. s \in Seq(Seq(Int)) /\ Len(s) = n /\ t \in Seq(Seq(Int)) /\ Len(t) = k
  <2>1. 8 * n <= Len(raw)
    OBVIOUS
  <2> QED
    BY <1>1, <1>2, <2>1, StuffedBytes
<1>4. \A i \in 1..n : t[i] = s[i]
  BY <1>1, <1>2
<1>5. Begins(Int, FlattenSeq(s), FlattenSeq(t))
  BY <1>3, <1>4, FlattenBegins
<1> QED
  BY <1>1, <1>2, <1>5, Zenon DEF Bytes

\* No octet, no byte.
LEMMA BytesZero == \A raw : Bytes(raw, 0) = <<>>
<1> SUFFICES ASSUME NEW raw PROVE Bytes(raw, 0) = <<>>
  OBVIOUS
<1>1. [m \in 1..0 |-> StuffedByte(raw, m)] = <<>>
  OBVIOUS
<1> QED
  BY <1>1, FlattenEmpty DEF Bytes

\* Whole bytes of bits wait: one of them is written.
LEMMA WrittenByte ==
    ASSUME NEW head \in Seq(Int), NEW raw \in Seq(Bit), NEW n \in Nat,
           NEW waiting \in Seq(Bit), NEW bytes \in Seq(Int),
           Written(head, raw, n, waiting, FALSE, bytes), Len(waiting) >= 8
    PROVE  /\ Byte(SubSeq(waiting, 1, 8)) \in Int
           /\ Written(head, raw, n + 1, SubSeq(waiting, 9, Len(waiting)),
                      Byte(SubSeq(waiting, 1, 8)) = 255,
                      Append(bytes, Byte(SubSeq(waiting, 1, 8))))
<1>1. PICK byte : byte = Byte(SubSeq(waiting, 1, 8))
  OBVIOUS
<1>2. PICK rest : rest = SubSeq(waiting, 9, Len(waiting))
  OBVIOUS
<1>3. PICK l \in Nat : l = Len(waiting)
  OBVIOUS
<1>4. rest \in Seq(Bit) /\ Len(rest) = l - 8 /\ \A i \in 1..(l - 8) : rest[i] = waiting[8 + i]
  <2>1. \A i \in 9..l : waiting[i] \in Bit
    BY <1>3, ElementOfSeq
  <2>2. l - 9 + 1 = l - 8 /\ 9 <= l + 1 /\ rest = SubSeq(waiting, 9, l)
    BY <1>2, <1>3
  <2>a. SubSeq(waiting, 9, l) \in Seq(Bit)
    BY <2>1, SubSeqProperties
  <2>b. Len(SubSeq(waiting, 9, l)) = IF 9 <= l THEN l - 9 + 1 ELSE 0
    BY <2>1, SubSeqProperties
  <2>3. rest \in Seq(Bit) /\ Len(rest) = l - 9 + 1
    BY <2>a, <2>b, <2>2
  <2>4. \A i \in 1..(l - 9 + 1) : rest[i] = waiting[9 + i - 1]
    BY <1>2, <1>3, <2>1, <2>2, SubSeqProperties
  <2>5. \A i \in 1..(l - 8) : 9 + i - 1 = 8 + i
    OBVIOUS
  <2> QED
    BY <2>2, <2>3, <2>4, <2>5
<1>5. 8 * n + l = Len(raw) /\ \A i \in 1..l : waiting[i] = raw[8 * n + i]
  BY <1>3 DEF Written
<1>6. byte = ByteAt(waiting, 0)
  <2>1. 0 + 8 <= Len(waiting) /\ 0 + 1 = 1 /\ 0 + 8 = 8 /\ 0 \in Nat
    OBVIOUS
  <2>2. Byte(SubSeq(waiting, 0 + 1, 0 + 8)) = ByteAt(waiting, 0)
    BY <2>1, ByteIsByteAt
  <2> QED
    BY <1>1, <2>1, <2>2
<1>7. byte = ByteAt(raw, 8 * n) /\ byte \in Int
  <2>1. \A i \in 1..8 : waiting[0 + i] = raw[8 * n + i]
    <3>1. \A i \in 1..8 : i \in 1..l /\ 0 + i = i
      BY <1>3
    <3> QED
      BY <3>1, <1>5
  <2>2. 8 * n \in Nat /\ 0 \in Nat /\ 8 * n + 8 <= Len(raw)
    BY <1>3, <1>5
  <2>3. ByteAt(waiting, 0) = ByteAt(raw, 8 * n)
    BY <2>1, <2>2, SameByteAt
  <2>4. ByteAt(raw, 8 * n) \in Int
    BY <2>2, ByteAtType
  <2> QED
    BY <1>6, <2>3, <2>4
<1>8. 8 * n + 8 <= Len(raw)
  BY <1>3, <1>5
<1>9. PICK done \in Seq(Int) : done = Bytes(raw, n)
  BY <1>8, BytesType
<1>10. Bytes(raw, n + 1) = done \o StuffedByte(raw, n + 1)
  BY <1>8, <1>9, BytesMore
<1>11. bytes = head \o done
  <2>1. bytes \o <<>> = head \o done
    BY <1>9, Zenon DEF Written
  <2> QED
    BY <2>1, ConcatEmptySeq
<1>12. Append(bytes, byte) \o (IF byte = 255 THEN <<0>> ELSE <<>>) = head \o Bytes(raw, n + 1)
  <2>1. Append(bytes, byte) = bytes \o <<byte>>
    BY <1>7
  <2>2. StuffedByte(raw, n + 1) = IF byte = 255 THEN <<255, 0>> ELSE <<byte>>
    BY <1>7, <1>8, StuffedByteAt
  <2>3. <<byte>> \o (IF byte = 255 THEN <<0>> ELSE <<>>) = StuffedByte(raw, n + 1)
    <3>1. CASE byte = 255
      <4>1. <<255>> \o <<0>> = <<255, 0>>
        BY StuffedByteIsTwo
      <4>2. <<byte>> \o (IF byte = 255 THEN <<0>> ELSE <<>>) = <<255>> \o <<0>>
        BY <3>1, Zenon
      <4>3. StuffedByte(raw, n + 1) = <<255, 0>>
        BY <3>1, <2>2, Zenon
      <4> QED
        BY <4>1, <4>2, <4>3, Zenon
    <3>2. CASE byte # 255
      <4>1. <<byte>> \o <<>> = <<byte>>
        OBVIOUS
      <4> QED
        BY <3>2, <4>1, <2>2
    <3> QED
      BY <3>1, <3>2
  <2>4. <<byte>> \in Seq(Int) /\ (IF byte = 255 THEN <<0>> ELSE <<>>) \in Seq(Int)
    <3>1. <<0>> \in Seq(Int) /\ <<>> \in Seq(Int)
      OBVIOUS
    <3>2. <<byte>> \in Seq(Int)
      BY <1>7
    <3> QED
      BY <3>1, <3>2, Zenon
  <2>5. PICK b, z : b = <<byte>> /\ z = (IF byte = 255 THEN <<0>> ELSE <<>>)
    OBVIOUS
  <2>6. (bytes \o b) \o z = bytes \o (b \o z)
    <3>1. b \in Seq(Int) /\ z \in Seq(Int)
      BY <2>4, <2>5, Zenon
    <3> QED
      BY <3>1, BytesAssociate
  <2>7. StuffedByte(raw, n + 1) \in Seq(Int)
    BY <1>8, StuffedByteType
  <2>8. (head \o done) \o StuffedByte(raw, n + 1) = head \o (done \o StuffedByte(raw, n + 1))
    <3>1. PICK x \in Seq(Int) : x = StuffedByte(raw, n + 1)
      BY <2>7
    <3>2. (head \o done) \o x = head \o (done \o x)
      BY <3>1, BytesAssociate
    <3> QED
      BY <3>1, <3>2, Zenon
  <2> QED
    BY <2>1, <2>3, <2>5, <2>6, <2>8, <1>10, <1>11, Zenon
<1>13. 8 * (n + 1) + Len(rest) = Len(raw) /\ \A i \in 1..Len(rest) : rest[i] = raw[8 * (n + 1) + i]
  <2>1. \A i \in 1..(l - 8) : 8 * n + (8 + i) = 8 * (n + 1) + i /\ 8 + i \in 1..l
    OBVIOUS
  <2>2. 8 * (n + 1) + (l - 8) = Len(raw)
    BY <1>5
  <2> QED
    BY <1>4, <1>5, <2>1, <2>2
<1>14. Written(head, raw, n + 1, rest, byte = 255, Append(bytes, byte))
  BY <1>12, <1>13, Zenon DEF Written
<1> QED
  BY <1>1, <1>2, <1>7, <1>14, Zenon

\* At the start of an interval nothing is coded.
LEMMA WrittenNothing ==
    ASSUME NEW head \in Seq(Int)
    PROVE  Written(head, <<>>, 0, <<>>, FALSE, head)
<1>1. head \o <<>> = head
  BY ConcatEmptySeq
<1>2. Bytes(<<>>, 0) = <<>>
  BY BytesZero, Zenon
<1>3. head \o (IF FALSE THEN <<0>> ELSE <<>>) = head \o Bytes(<<>>, 0)
  BY <1>1, <1>2, Zenon
<1>4. 8 * 0 + Len(<<>>) = Len(<<>>) /\ 1..Len(<<>>) = {}
  OBVIOUS
<1>5. \A i \in 1..Len(<<>>) : <<>>[i] = <<>>[8 * 0 + i]
  BY <1>4
<1> QED
  BY <1>3, <1>4, <1>5, Zenon DEF Written

\* The zero behind a byte 0xff is written.
LEMMA WrittenStuffing ==
    ASSUME NEW head \in Seq(Int), NEW raw, NEW n, NEW waiting, NEW bytes \in Seq(Int),
           Written(head, raw, n, waiting, TRUE, bytes)
    PROVE  Written(head, raw, n, waiting, FALSE, Append(bytes, 0))
<1>1. bytes \o <<0>> = head \o Bytes(raw, n)
  BY Zenon DEF Written
<1>2. Append(bytes, 0) = bytes \o <<0>>
  OBVIOUS
<1>3. Append(bytes, 0) \o <<>> = Append(bytes, 0)
  <2>1. Append(bytes, 0) \in Seq(Int)
    OBVIOUS
  <2> QED
    BY <2>1, ConcatEmptySeq
<1>4. Append(bytes, 0) \o (IF FALSE THEN <<0>> ELSE <<>>) = head \o Bytes(raw, n)
  BY <1>1, <1>2, <1>3, Zenon
<1> QED
  BY <1>4, Zenon DEF Written

\* More is coded.
LEMMA WrittenMore ==
    ASSUME NEW head \in Seq(Int), NEW raw \in Seq(Bit), NEW n \in Nat,
           NEW waiting \in Seq(Bit), NEW owing \in BOOLEAN, NEW bytes \in Seq(Int), NEW r \in Seq(Bit),
           Written(head, raw, n, waiting, owing, bytes)
    PROVE  Written(head, raw \o r, n, waiting \o r, owing, bytes)
<1>1. PICK l \in Nat : l = Len(waiting)
  OBVIOUS
<1>2. PICK m \in Nat : m = Len(r)
  OBVIOUS
<1>q. PICK q \in Nat : q = Len(raw)
  OBVIOUS
<1>3. 8 * n + l = q /\ \A i \in 1..l : waiting[i] = raw[8 * n + i]
  BY <1>1, <1>q DEF Written
<1>4. PICK t : t = raw \o r
  OBVIOUS
<1>5. PICK u : u = waiting \o r
  OBVIOUS
<1>6. /\ Len(t) = q + m
      /\ \A i \in 1..(q + m) : t[i] = IF i <= q THEN raw[i] ELSE r[i - q]
  BY <1>2, <1>4, <1>q, ConcatProperties
<1>7. /\ Len(u) = l + m
      /\ \A i \in 1..(l + m) : u[i] = IF i <= l THEN waiting[i] ELSE r[i - l]
  BY <1>1, <1>2, <1>5, ConcatProperties
<1>8. 8 * n + Len(u) = Len(t)
  BY <1>3, <1>6, <1>7
<1>9. ASSUME NEW i \in 1..Len(u)
      PROVE  u[i] = t[8 * n + i]
  <2>1. PICK j \in Nat : j = 8 * n + i
    OBVIOUS
  <2>2. i \in 1..(l + m) /\ j \in 1..(q + m)
    BY <1>3, <1>7, <2>1
  <2>3. CASE i <= l
    <3>1. j <= q /\ i \in 1..l
      BY <1>3, <2>1, <2>3
    <3>2. u[i] = waiting[i] /\ t[j] = raw[j] /\ waiting[i] = raw[j]
      BY <3>1, <2>1, <2>2, <1>3, <1>6, <1>7
    <3> QED
      BY <3>2, <2>1
  <2>4. CASE i > l
    <3>1. ~(j <= q) /\ j - q = i - l /\ ~(i <= l)
      BY <1>3, <2>1, <2>4
    <3>2. u[i] = r[i - l] /\ t[j] = r[j - q]
      BY <3>1, <2>2, <1>6, <1>7
    <3> QED
      BY <3>1, <3>2, <2>1
  <2> QED
    BY <2>3, <2>4
<1>10. Bytes(t, n) = Bytes(raw, n)
  <2>1. 8 * n <= q
    BY <1>3, <1>q
  <2> QED
    BY <1>4, <1>q, <2>1, BytesSame
<1>11. bytes \o (IF owing THEN <<0>> ELSE <<>>) = head \o Bytes(t, n)
  BY <1>10, Zenon DEF Written
<1>12. Written(head, t, n, u, owing, bytes)
  BY <1>8, <1>9, <1>11, Zenon DEF Written
<1> QED
  BY <1>4, <1>5, <1>12

\* What is written begins the bytes of anything that begins with what is
\* coded.
LEMMA WrittenBegins ==
    ASSUME NEW head \in Seq(Int), NEW raw \in Seq(Bit), NEW n \in Nat, NEW k \in Nat,
           NEW waiting \in Seq(Bit), NEW owing \in BOOLEAN, NEW bytes \in Seq(Int),
           NEW full \in Seq(Bit), Begins(Bit, raw, full), 8 * k <= Len(full), n <= k,
           Written(head, raw, n, waiting, owing, bytes)
    PROVE  Begins(Int, bytes, head \o Bytes(full, k))
<1>1. PICK r \in Seq(Bit) : full = raw \o r
  BY DEF Begins
<1>2. 8 * n <= Len(raw)
  BY DEF Written
<1>3. Bytes(full, n) = Bytes(raw, n)
  BY <1>1, <1>2, BytesSame
<1>4. Begins(Int, Bytes(full, n), Bytes(full, k))
  BY BytesBegin
<1>5. Bytes(full, n) \in Seq(Int) /\ Bytes(full, k) \in Seq(Int)
  <2>1. 8 * n <= Len(full)
    OBVIOUS
  <2> QED
    BY <2>1, BytesType
<1>6. Begins(Int, head \o Bytes(full, n), head \o Bytes(full, k))
  BY <1>4, <1>5, BeginsBehind, Zenon
<1>7. PICK z \in Seq(Int) : z = (IF owing THEN <<0>> ELSE <<>>)
  <2>1. <<0>> \in Seq(Int) /\ <<>> \in Seq(Int)
    OBVIOUS
  <2> QED
    BY <2>1, Zenon
<1>8. bytes \o z = head \o Bytes(full, n)
  BY <1>3, <1>7, Zenon DEF Written
<1>9. Begins(Int, bytes, head \o Bytes(full, n))
  BY <1>8, BeginsWithPart, Zenon
<1>10. head \o Bytes(full, n) \in Seq(Int) /\ head \o Bytes(full, k) \in Seq(Int)
  BY <1>5, ConcatProperties
<1> QED
  BY <1>6, <1>9, <1>10, BeginsThrough, Zenon

\* Nothing waits: all of it is written.
\* Padding what waits pads what is coded.
LEMMA OnesType ==
    ASSUME NEW n \in Nat
    PROVE  Ones(n) \in Seq(Bit) /\ Len(Ones(n)) = n
  BY DEF Ones, Bit

\* All the bits and those that wait need the same padding: they differ by
\* whole bytes.
LEMMA PaddingIsPadding ==
    ASSUME NEW raw \in Seq(Bit), NEW n \in Nat, NEW waiting \in Seq(Bit),
           8 * n + Len(waiting) = Len(raw)
    PROVE  /\ (-Len(raw)) % 8 = (-Len(waiting)) % 8
           /\ (-Len(raw)) % 8 \in 0..7
           /\ (Len(waiting) < 8 /\ Len(waiting) > 0) => (-Len(raw)) % 8 = 8 - Len(waiting)
           /\ Len(waiting) = 0 => (-Len(raw)) % 8 = 0
<1>1. PICK l \in Nat : l = Len(waiting)
  OBVIOUS
<1>2. PICK m \in Nat : m = Len(raw)
  OBVIOUS
<1>3. 8 * n + l = m
  BY <1>1, <1>2
<1> QED
  BY <1>1, <1>2, <1>3

\* Padded bits are whole bytes and begin with the bits.
LEMMA PaddedType ==
    ASSUME NEW raw \in Seq(Bit)
    PROVE  /\ Padded(raw) \in Seq(Bit) /\ Begins(Bit, raw, Padded(raw))
           /\ 8 * (Len(Padded(raw)) \div 8) = Len(Padded(raw))
           /\ Len(raw) <= Len(Padded(raw))
<1>1. PICK m \in Nat : m = Len(raw)
  OBVIOUS
<1>2. PICK d \in 0..7 : d = (-m) % 8
  OBVIOUS
<1>3. PICK r \in Seq(Bit) : r = Ones(d) /\ Len(r) = d
  BY OnesType
<1>4. PICK t : t = raw \o r
  OBVIOUS
<1>5. Padded(raw) = t
  BY <1>1, <1>2, <1>3, <1>4 DEF Padded
<1>6. t \in Seq(Bit) /\ Len(t) = m + d
  BY <1>1, <1>3, <1>4, ConcatProperties
<1>7. Begins(Bit, raw, t)
  BY <1>4, BeginsWithPart, Zenon
<1>8. 8 * ((m + d) \div 8) = m + d
  BY <1>2
<1> QED
  BY <1>1, <1>5, <1>6, <1>7, <1>8

\* Min is the least number of a nonempty set.
LEMMA MinIsLeast ==
    ASSUME NEW T \in SUBSET Nat, T # {}
    PROVE  Min(T) \in T /\ \A x \in T : Min(T) <= x
<1>1. PICK n \in T : \A m \in T : n <= m
  BY LeastNumber
<1> QED
  BY <1>1 DEF Min

\* Max is the greatest number of a bounded nonempty set.
LEMMA MaxIsGreatest ==
    ASSUME NEW n \in Nat, NEW T \in SUBSET (0..n), T # {}
    PROVE  Max(T) \in T /\ \A x \in T : x <= Max(T)
<1> DEFINE U == {x \in Nat : n - x \in T}
<1>1. PICK t \in T : TRUE
  OBVIOUS
<1>2. n - t \in Nat /\ n - (n - t) = t
  OBVIOUS
<1>3. U \in SUBSET Nat /\ U # {}
  BY <1>1, <1>2
<1>4. PICK u \in U : \A x \in U : u <= x
  BY <1>3, LeastNumber
<1>5. n - u \in T
  BY <1>4
<1>6. ASSUME NEW x \in T
      PROVE  x <= n - u
  <2>1. n - x \in Nat /\ n - (n - x) = x
    OBVIOUS
  <2>2. n - x \in U
    BY <2>1
  <2>3. u <= n - x
    BY <2>2, <1>4
  <2> QED
    BY <2>3
<1> HIDE DEF U
<1>7. \E m \in T : \A x \in T : m >= x
  BY <1>5, <1>6
<1> QED
  BY <1>7 DEF Max

(***************************************************************************)
(* Coefficients.                                                           *)
(***************************************************************************)
CodedACs(c, k)       == FlattenSeq([j \in 1..k |-> CodedAC(c, j)])
LongRuns(n)          == FlattenSeq([z \in 1..n |-> ACCode[<<RunLimit, 0>>]])
CodedPart(c, pred, k) ==
    (EncodedDC(c[0] - pred) \o CodedACs(c, k - 1)) \o LongRuns(ZerosBefore(c, k) \div (RunLimit + 1))

PartOfBlock(c, k) ==
    /\ k \in 1..LastCoeff /\ k <= Eob(c) + 1
    /\ ZerosBefore(c, k) % (RunLimit + 1) = 0

\* b is the last coefficient before k that is not zero, or 0.
LastBefore(c, k, b) ==
    /\ b \in 0..(k - 1) /\ (b = 0 \/ c[b] # 0)
    /\ \A j \in (b + 1)..(k - 1) : c[j] = 0

\* What ZerosBefore counts: the zeros behind the last nonzero coefficient
\* before k.
LEMMA LastBeforeIs ==
    ASSUME NEW c, NEW k \in Nat \ {0}
    PROVE  /\ LastBefore(c, k, k - 1 - ZerosBefore(c, k))
           /\ \A b : LastBefore(c, k, b) => ZerosBefore(c, k) = k - 1 - b
           /\ ZerosBefore(c, k) \in 0..(k - 1)
<1> DEFINE T == {0} \cup {j \in 1..(k - 1) : c[j] # 0}
<1>1. k - 1 \in Nat /\ T \in SUBSET (0..(k - 1)) /\ T # {}
  OBVIOUS
<1>2. PICK m : m = Max(T)
  OBVIOUS
<1>3. m \in T /\ \A x \in T : x <= m
  BY <1>1, <1>2, MaxIsGreatest
<1>4. ZerosBefore(c, k) = k - 1 - m
  BY <1>2 DEF ZerosBefore
<1>5. m \in 0..(k - 1) /\ k - 1 - (k - 1 - m) = m
  BY <1>1, <1>3
<1>6. m = 0 \/ c[m] # 0
  BY <1>3
<1>7. ASSUME NEW j \in (m + 1)..(k - 1)
      PROVE  c[j] = 0
  <2> SUFFICES ASSUME c[j] # 0 PROVE FALSE
    OBVIOUS
  <2>1. j \in T /\ j > m
    BY <1>5
  <2> QED
    BY <2>1, <1>3, <1>5
<1>8. ASSUME NEW b, LastBefore(c, k, b)
      PROVE  b = m
  <2>1. b \in T
    BY <1>8 DEF LastBefore
  <2>2. b <= m
    BY <2>1, <1>3
  <2>3. ~(b < m)
    <3> SUFFICES ASSUME b < m PROVE FALSE
      OBVIOUS
    <3>1. m \in (b + 1)..(k - 1)
      BY <1>5, <1>8 DEF LastBefore
    <3>2. c[m] = 0 /\ m # 0
      BY <3>1, <1>8 DEF LastBefore
    <3> QED
      BY <3>2, <1>6
  <2> QED
    BY <2>2, <2>3, <1>5, <1>8 DEF LastBefore
<1>9. LastBefore(c, k, m)
  BY <1>5, <1>6, <1>7 DEF LastBefore
<1> QED
  BY <1>4, <1>5, <1>8, <1>9

\* Eob is the last coefficient that is not zero, or 0.
LEMMA EobIs ==
    ASSUME NEW c
    PROVE  /\ Eob(c) \in 0..LastCoeff /\ (Eob(c) = 0 \/ c[Eob(c)] # 0)
           /\ \A j \in (Eob(c) + 1)..LastCoeff : c[j] = 0
<1> DEFINE T == {0} \cup {j \in 1..LastCoeff : c[j] # 0}
<1>0. LastCoeff \in Nat \ {0}
  BY SizeAssumption
<1>1. T \in SUBSET (0..LastCoeff) /\ T # {}
  BY <1>0
<1>2. Eob(c) \in T /\ \A x \in T : x <= Eob(c)
  BY <1>0, <1>1, MaxIsGreatest DEF Eob
<1>3. PICK e : e = Eob(c)
  OBVIOUS
<1>4. ASSUME NEW j \in (e + 1)..LastCoeff, c[j] # 0
      PROVE  FALSE
  <2>1. e \in 0..LastCoeff
    BY <1>0, <1>2, <1>3
  <2>2. j \in T /\ j > e
    BY <1>0, <1>4, <2>1
  <2> QED
    BY <2>1, <2>2, <1>2, <1>3
<1>5. e \in 0..LastCoeff /\ (e = 0 \/ c[e] # 0)
  BY <1>0, <1>2, <1>3
<1> QED
  BY <1>3, <1>4, <1>5

\* A block all of whose coefficients have codes.
CodedBlock(c) == \A k \in 1..LastCoeff, run \in 0..RunLimit : EncodedAC(c[k], run) \in Seq(Bit)

\* The codes that do not depend on a coefficient.
LEMMA FixedCodes == EndOfBlock \in Seq(Bit) /\ ACCode[<<RunLimit, 0>>] \in Seq(Bit)
  BY CodeAssumption

\* Runs of sixteen zeros are bits.
LEMMA LongRunsType ==
    ASSUME NEW n \in Nat
    PROVE  LongRuns(n) \in Seq(Bit)
<1>1. [z \in 1..n |-> ACCode[<<RunLimit, 0>>]] \in Seq(Seq(Bit))
  BY FixedCodes
<1> QED
  BY <1>1, FlattenType DEF LongRuns

\* One more run of sixteen zeros.
LEMMA LongRunsMore ==
    ASSUME NEW n \in Nat
    PROVE  LongRuns(n + 1) = LongRuns(n) \o ACCode[<<RunLimit, 0>>]
<1>1. PICK x \in Seq(Bit) : x = ACCode[<<RunLimit, 0>>]
  BY FixedCodes
<1>2. PICK s : s = [z \in 1..n |-> x]
  OBVIOUS
<1>3. PICK t : t = [z \in 1..(n + 1) |-> x]
  OBVIOUS
<1>4. s \in Seq(Seq(Bit)) /\ Len(s) = n
  BY <1>2
<1>5. t \in Seq(Seq(Bit)) /\ Len(t) = n + 1 /\ t[n + 1] = x
  BY <1>3
<1>6. \A i \in 1..n : t[i] = s[i]
  BY <1>2, <1>3
<1>7. FlattenSeq(t) = FlattenSeq(s) \o t[n + 1]
  BY <1>4, <1>5, <1>6, FlattenMore
<1> QED
  BY <1>1, <1>2, <1>3, <1>5, <1>7, Zenon DEF LongRuns

\* Fewer runs begin more of them.
LEMMA LongRunsBegin ==
    ASSUME NEW n \in Nat, NEW m \in Nat, n <= m
    PROVE  Begins(Bit, LongRuns(n), LongRuns(m))
<1>1. PICK x \in Seq(Bit) : x = ACCode[<<RunLimit, 0>>]
  BY FixedCodes
<1>2. PICK s : s = [z \in 1..n |-> x]
  OBVIOUS
<1>3. PICK t : t = [z \in 1..m |-> x]
  OBVIOUS
<1>4. s \in Seq(Seq(Bit)) /\ Len(s) = n
  BY <1>2
<1>5. t \in Seq(Seq(Bit)) /\ Len(t) = m
  BY <1>3
<1>6. \A i \in 1..n : t[i] = s[i]
  BY <1>2, <1>3
<1>7. Begins(Bit, FlattenSeq(s), FlattenSeq(t))
  BY <1>4, <1>5, <1>6, FlattenBegins
<1> QED
  BY <1>1, <1>2, <1>3, <1>7, Zenon DEF LongRuns

\* No run, no bits.
LEMMA LongRunsNone == LongRuns(0) = <<>>
<1>1. [z \in 1..0 |-> ACCode[<<RunLimit, 0>>]] = <<>>
  OBVIOUS
<1> QED
  BY <1>1, FlattenEmpty DEF LongRuns

\* A full run of zeros has no value bits.
LEMMA FullRun == EncodedAC(0, RunLimit) = ACCode[<<RunLimit, 0>>]
<1>1. Abs(0) = 0 /\ Category(0) = 0
  BY DEF Abs, Category
<1>2. \A n : Bits(n, 0) = <<>>
  BY DEF Bits
<1>3. ValueBits(0) = <<>>
  BY <1>1, <1>2, Zenon DEF ValueBits
<1>4. ACCode[<<RunLimit, 0>>] \o <<>> = ACCode[<<RunLimit, 0>>]
  BY FixedCodes, ConcatEmptySeq
<1> QED
  BY <1>1, <1>3, <1>4, Zenon DEF EncodedAC

\* A quotient and a remainder, recognised.
LEMMA Division ==
    ASSUME NEW q \in Nat, NEW r \in Nat, NEW d \in Nat, r < d
    PROVE  /\ (q * d + r) \div d = q
           /\ (q * d + r) % d = r
<1>1. PICK n \in Nat : n = q * d + r
  OBVIOUS
<1>2. PICK p \in Int : p = n \div d
  OBVIOUS
<1>3. d * p <= n /\ n < d * p + d /\ n % d = n - d * p
  BY <1>2
<1>4. ~(p < q)
  <2> SUFFICES ASSUME p + 1 <= q PROVE FALSE
    OBVIOUS
  <2>1. p * d + d <= q * d
    BY LessTimes
  <2> QED
    BY <2>1, <1>1, <1>3
<1>5. ~(q < p)
  <2> SUFFICES ASSUME q + 1 <= p PROVE FALSE
    OBVIOUS
  <2>1. q * d + d <= p * d
    BY LessTimes
  <2> QED
    BY <2>1, <1>1, <1>3
<1>6. p = q
  BY <1>4, <1>5
<1>7. n % d = r
  BY <1>1, <1>3, <1>6
<1> QED
  BY <1>1, <1>2, <1>6, <1>7

\* The code of a coefficient is bits.
LEMMA CodedACType ==
    ASSUME NEW c, CodedBlock(c), NEW k \in 1..LastCoeff
    PROVE  CodedAC(c, k) \in Seq(Bit)
<1>0. LastCoeff \in Nat /\ RunLimit \in Nat
  BY SizeAssumption
<1>1. PICK z \in Nat : z = ZerosBefore(c, k)
  BY <1>0, LastBeforeIs
<1>2. PICK q \in Nat : q = z \div (RunLimit + 1)
  BY <1>0
<1>3. PICK r \in 0..RunLimit : r = z % (RunLimit + 1)
  BY <1>0
<1>4. EncodedAC(c[k], r) \in Seq(Bit)
  BY DEF CodedBlock
<1>5. LongRuns(q) \o EncodedAC(c[k], r) \in Seq(Bit)
  BY <1>4, LongRunsType, ConcatProperties
<1>6. CodedAC(c, k) = IF c[k] = 0 THEN <<>> ELSE LongRuns(q) \o EncodedAC(c[k], r)
  BY <1>1, <1>2, <1>3, Zenon DEF CodedAC, LongRuns
<1>7. <<>> \in Seq(Bit)
  OBVIOUS
<1> QED
  BY <1>5, <1>6, <1>7, Zenon

\* The codes of the first k coefficients.
LEMMA CodedACSeqs ==
    ASSUME NEW c, CodedBlock(c), NEW k \in 0..LastCoeff
    PROVE  /\ [j \in 1..k |-> CodedAC(c, j)] \in Seq(Seq(Bit))
           /\ Len([j \in 1..k |-> CodedAC(c, j)]) = k
<1>0. LastCoeff \in Nat
  BY SizeAssumption
<1>1. ASSUME NEW j \in 1..k
      PROVE  CodedAC(c, j) \in Seq(Bit)
  <2>1. j \in 1..LastCoeff
    BY <1>0
  <2> QED
    BY <2>1, CodedACType
<1> QED
  BY <1>0, <1>1

\* Their concatenation is bits.
LEMMA CodedACsType ==
    ASSUME NEW c, CodedBlock(c), NEW k \in 0..LastCoeff
    PROVE  CodedACs(c, k) \in Seq(Bit)
  BY CodedACSeqs, FlattenType DEF CodedACs

\* One more coefficient.
LEMMA CodedACsMore ==
    ASSUME NEW c, CodedBlock(c), NEW k \in 1..LastCoeff
    PROVE  CodedACs(c, k) = CodedACs(c, k - 1) \o CodedAC(c, k)
<1>0. LastCoeff \in Nat
  BY SizeAssumption
<1>1. PICK s : s = [j \in 1..(k - 1) |-> CodedAC(c, j)]
  OBVIOUS
<1>2. PICK t : t = [j \in 1..k |-> CodedAC(c, j)]
  OBVIOUS
<1>3. k - 1 \in 0..LastCoeff /\ k \in 0..LastCoeff /\ (k - 1) + 1 = k
  BY <1>0
<1>4. s \in Seq(Seq(Bit)) /\ Len(s) = k - 1
  BY <1>1, <1>3, CodedACSeqs
<1>5. t \in Seq(Seq(Bit)) /\ Len(t) = k
  BY <1>2, <1>3, CodedACSeqs
<1>6. \A i \in 1..(k - 1) : t[i] = s[i]
  BY <1>1, <1>2, <1>3
<1>7. t[k] = CodedAC(c, k)
  BY <1>2, <1>3
<1>8. FlattenSeq(t) = FlattenSeq(s) \o t[Len(s) + 1]
  BY <1>3, <1>4, <1>5, <1>6, FlattenMore
<1>9. Len(s) + 1 = k
  BY <1>3, <1>4
<1> QED
  BY <1>1, <1>2, <1>7, <1>8, <1>9, Zenon DEF CodedACs

\* Fewer coefficients begin more of them, and zeros have no code of their
\* own.
LEMMA CodedACsBegin ==
    ASSUME NEW c, CodedBlock(c), NEW k \in 0..LastCoeff, NEW m \in 0..LastCoeff, k <= m
    PROVE  /\ Begins(Bit, CodedACs(c, k), CodedACs(c, m))
           /\ (\A j \in (k + 1)..m : c[j] = 0) => CodedACs(c, m) = CodedACs(c, k)
<1>0. LastCoeff \in Nat
  BY SizeAssumption
<1>1. PICK s : s = [j \in 1..k |-> CodedAC(c, j)]
  OBVIOUS
<1>2. PICK t : t = [j \in 1..m |-> CodedAC(c, j)]
  OBVIOUS
<1>3. s \in Seq(Seq(Bit)) /\ Len(s) = k
  BY <1>1, CodedACSeqs
<1>4. t \in Seq(Seq(Bit)) /\ Len(t) = m
  BY <1>2, CodedACSeqs
<1>5. \A i \in 1..k : t[i] = s[i]
  BY <1>0, <1>1, <1>2
<1>6. Begins(Bit, FlattenSeq(s), FlattenSeq(t))
  BY <1>3, <1>4, <1>5, FlattenBegins
<1>7. ASSUME \A j \in (k + 1)..m : c[j] = 0
      PROVE  FlattenSeq(t) = FlattenSeq(s)
  <2>1. \A i \in (k + 1)..m : t[i] = <<>>
    <3>1. ASSUME NEW i \in (k + 1)..m
          PROVE  t[i] = <<>>
      <4>1. i \in 1..m
        BY <1>0
      <4>2. t[i] = CodedAC(c, i)
        BY <4>1, <1>2
      <4> QED
        BY <4>2, <1>7 DEF CodedAC
    <3> QED
      BY <3>1
  <2> QED
    BY <2>1, <1>3, <1>4, <1>5, FlattenEmpties
<1> QED
  BY <1>1, <1>2, <1>6, <1>7, Zenon DEF CodedACs

\* A code is the long runs before it and then that of the value.
LEMMA CodedACIs ==
    ASSUME NEW c, NEW k, c[k] # 0
    PROVE  CodedAC(c, k) = LongRuns(ZerosBefore(c, k) \div (RunLimit + 1))
                           \o EncodedAC(c[k], ZerosBefore(c, k) % (RunLimit + 1))
  BY Zenon DEF CodedAC, LongRuns

\* The bits of a part of a block are bits.
LEMMA PartTypes ==
    ASSUME NEW c, CodedBlock(c), NEW pred, EncodedDC(c[0] - pred) \in Seq(Bit), NEW k \in 1..LastCoeff
    PROVE  /\ ZerosBefore(c, k) \div (RunLimit + 1) \in Nat
           /\ CodedACs(c, k - 1) \in Seq(Bit)
           /\ EncodedDC(c[0] - pred) \o CodedACs(c, k - 1) \in Seq(Bit)
           /\ CodedPart(c, pred, k) \in Seq(Bit)
<1>0. LastCoeff \in Nat /\ RunLimit \in Nat
  BY SizeAssumption
<1>1. PICK z \in Nat : z = ZerosBefore(c, k)
  BY <1>0, LastBeforeIs
<1>2. PICK q \in Nat : q = z \div (RunLimit + 1)
  BY <1>0
<1>3. CodedACs(c, k - 1) \in Seq(Bit)
  <2>1. k - 1 \in 0..LastCoeff
    BY <1>0
  <2> QED
    BY <2>1, CodedACsType
<1>4. EncodedDC(c[0] - pred) \o CodedACs(c, k - 1) \in Seq(Bit)
  BY <1>3, ConcatProperties
<1>5. LongRuns(q) \in Seq(Bit)
  BY LongRunsType
<1>6. PICK a \in Seq(Bit) : a = EncodedDC(c[0] - pred) \o CodedACs(c, k - 1)
  BY <1>4
<1>7. a \o LongRuns(q) \in Seq(Bit)
  BY <1>5, ConcatProperties
<1>8. CodedPart(c, pred, k) = a \o LongRuns(q)
  BY <1>1, <1>2, <1>6, Zenon DEF CodedPart
<1> QED
  BY <1>1, <1>2, <1>3, <1>4, <1>7, <1>8, Zenon

\* After the DC value the encoder is at the first coefficient.
LEMMA FirstPart ==
    ASSUME NEW c, CodedBlock(c), NEW pred, EncodedDC(c[0] - pred) \in Seq(Bit)
    PROVE  CodedPart(c, pred, 1) = EncodedDC(c[0] - pred) /\ PartOfBlock(c, 1)
<1>0. LastCoeff \in Nat \ {0} /\ RunLimit \in Nat
  BY SizeAssumption
<1>1. ZerosBefore(c, 1) = 0
  BY LastBeforeIs
<1>2. 0 \div (RunLimit + 1) = 0 /\ 0 % (RunLimit + 1) = 0
  BY <1>0
<1>3. CodedACs(c, 0) = <<>>
  <2>1. [j \in 1..0 |-> CodedAC(c, j)] = <<>>
    OBVIOUS
  <2> QED
    BY <2>1, FlattenEmpty DEF CodedACs
<1>4. PICK d \in Seq(Bit) : d = EncodedDC(c[0] - pred)
  OBVIOUS
<1>5. d \o <<>> = d
  BY ConcatEmptySeq
<1>6. 1 - 1 = 0
  OBVIOUS
<1>7. CodedPart(c, pred, 1) = (d \o CodedACs(c, 0)) \o LongRuns(0)
  BY <1>1, <1>2, <1>4, <1>6 DEF CodedPart
<1>8. CodedPart(c, pred, 1) = d
  BY <1>3, <1>5, <1>7, LongRunsNone, Zenon
<1>9. PartOfBlock(c, 1)
  BY <1>0, <1>1, <1>2, EobIs DEF PartOfBlock
<1> QED
  BY <1>4, <1>8, <1>9

\* Behind the last coefficient that is not zero, the code for the end of the
\* block completes it.
LEMMA LastPart ==
    ASSUME NEW c, CodedBlock(c), NEW pred, EncodedDC(c[0] - pred) \in Seq(Bit),
           NEW k, PartOfBlock(c, k), k > Eob(c), Eob(c) # LastCoeff
    PROVE  CodedPart(c, pred, k) \o EndOfBlock = BlockBits(c, pred)
<1>0. LastCoeff \in Nat \ {0} /\ RunLimit \in Nat
  BY SizeAssumption
<1>1. PICK e \in 0..LastCoeff : e = Eob(c)
  BY EobIs
<1>2. k = e + 1 /\ k \in 1..LastCoeff /\ k - 1 = e
  BY <1>0, <1>1 DEF PartOfBlock
<1>3. ZerosBefore(c, k) = 0
  <2>1. LastBefore(c, k, e)
    <3>1. e \in 0..(k - 1) /\ (e + 1)..(k - 1) = {}
      BY <1>0, <1>1, <1>2
    <3>2. e = 0 \/ c[e] # 0
      BY <1>1, EobIs
    <3> QED
      BY <3>1, <3>2 DEF LastBefore
  <2>2. k \in Nat \ {0}
    BY <1>0, <1>2
  <2>3. ZerosBefore(c, k) = k - 1 - e
    BY <2>1, <2>2, LastBeforeIs
  <2> QED
    BY <2>3, <1>0, <1>1, <1>2
<1>4. CodedACs(c, LastCoeff) = CodedACs(c, e)
  <2>1. \A j \in (e + 1)..LastCoeff : c[j] = 0
    BY <1>1, EobIs
  <2>2. LastCoeff \in 0..LastCoeff /\ e <= LastCoeff
    BY <1>0
  <2> QED
    BY <2>1, <2>2, CodedACsBegin
<1>5. PICK a \in Seq(Bit) : a = EncodedDC(c[0] - pred) \o CodedACs(c, e)
  BY <1>2, PartTypes
<1>6. a \o <<>> = a
  BY ConcatEmptySeq
<1>7. LongRuns(ZerosBefore(c, k) \div (RunLimit + 1)) = <<>>
  <2>1. 0 \div (RunLimit + 1) = 0
    BY <1>0
  <2> QED
    BY <2>1, <1>3, LongRunsNone
<1>8. CodedPart(c, pred, k) = a
  BY <1>2, <1>5, <1>6, <1>7, Zenon DEF CodedPart
<1>9. BlockBits(c, pred) = EncodedDC(c[0] - pred) \o CodedACs(c, LastCoeff) \o EndOfBlock
  BY Zenon DEF BlockBits, CodedACs
<1> QED
  BY <1>4, <1>5, <1>8, <1>9, Zenon

Associates(a, b, c) == (a \o b) \o c = a \o (b \o c)

\* Concatenation of bits is associative, behind a name.
LEMMA BitsDoAssociate == \A a, b, c \in Seq(Bit) : Associates(a, b, c)
  BY BitsAssociate DEF Associates

\* Division of natural numbers.
LEMMA DivNat ==
    ASSUME NEW a \in Nat, NEW d \in Nat \ {0}
    PROVE  a \div d \in Nat /\ a % d \in 0..(d - 1) /\ a = d * (a \div d) + (a % d)
<1>1. PICK q \in Int : q = a \div d
  OBVIOUS
<1>2. a % d \in 0..(d - 1) /\ a = d * q + (a % d)
  BY <1>1
<1>3. ~(q < 0)
  <2> SUFFICES ASSUME q + 1 <= 0 PROVE FALSE
    OBVIOUS
  <2>1. q * d + d <= 0 * d
    BY LessTimes
  <2> QED
    BY <2>1, <1>2
<1> QED
  BY <1>1, <1>2, <1>3

\* Where the encoder stops next.
NextStop(c, k) == Min({j \in k..LastCoeff : j = LastCoeff \/ j = k + RunLimit \/ c[j] # 0})

\* Where the coder stops next: a nonzero coefficient, or sixteen zeros
\* further.
LEMMA NextStopIs ==
    ASSUME NEW c, NEW k \in 1..LastCoeff, k <= Eob(c)
    PROVE  /\ NextStop(c, k) \in k..Eob(c) /\ NextStop(c, k) <= k + RunLimit
           /\ \A j \in k..(NextStop(c, k) - 1) : c[j] = 0
           /\ c[NextStop(c, k)] = 0 => NextStop(c, k) = k + RunLimit /\ NextStop(c, k) < Eob(c)
<1>0. LastCoeff \in Nat \ {0} /\ RunLimit \in Nat
  BY SizeAssumption
<1>1. PICK e \in 0..LastCoeff : e = Eob(c)
  BY EobIs
<1>2. c[e] # 0 /\ e \in k..LastCoeff
  BY <1>0, <1>1, EobIs
<1>3. PICK T : T = {j \in k..LastCoeff : j = LastCoeff \/ j = k + RunLimit \/ c[j] # 0}
  OBVIOUS
<1>4. T \in SUBSET Nat /\ e \in T
  BY <1>0, <1>2, <1>3
<1>5. PICK s : s = Min(T)
  OBVIOUS
<1>6. s \in T /\ \A x \in T : s <= x
  BY <1>4, <1>5, MinIsLeast
<1>7. s \in k..e
  BY <1>0, <1>3, <1>4, <1>6
<1>8. s <= k + RunLimit
  <2>1. CASE k + RunLimit <= LastCoeff
    <3>1. k + RunLimit \in T
      BY <1>0, <1>3, <2>1
    <3> QED
      BY <3>1, <1>6
  <2>2. CASE k + RunLimit > LastCoeff
    BY <1>0, <1>7, <2>2
  <2> QED
    BY <1>0, <2>1, <2>2
<1>9. ASSUME NEW j \in k..(s - 1), c[j] # 0
      PROVE  FALSE
  <2>1. j \in T /\ j < s
    BY <1>0, <1>3, <1>7, <1>9
  <2> QED
    BY <2>1, <1>6, <1>7
<1>10. ASSUME c[s] = 0
       PROVE  s = k + RunLimit /\ s < e
  <2>1. s # e
    BY <1>2, <1>10
  <2>2. s < e /\ s # LastCoeff
    BY <1>0, <1>7, <2>1
  <2> QED
    BY <2>2, <1>3, <1>6, <1>10
<1>11. NextStop(c, k) = s
  BY <1>3, <1>5 DEF NextStop
<1> QED
  BY <1>1, <1>7, <1>8, <1>9, <1>10, <1>11

\* The zeros before a later coefficient, if there are only zeros between.
LEMMA MoreZeros ==
    ASSUME NEW c, NEW k \in Nat \ {0}, NEW m \in Nat, k <= m, \A j \in k..(m - 1) : c[j] = 0
    PROVE  ZerosBefore(c, m) = ZerosBefore(c, k) + (m - k)
<1>1. PICK z \in Nat : z = ZerosBefore(c, k) /\ z \in 0..(k - 1)
  BY LastBeforeIs
<1>2. PICK b : b = k - 1 - z
  OBVIOUS
<1>3. LastBefore(c, k, b)
  BY <1>1, <1>2, LastBeforeIs
<1>4. b \in 0..(m - 1) /\ (b = 0 \/ c[b] # 0)
  BY <1>3 DEF LastBefore
<1>5. ASSUME NEW j \in (b + 1)..(m - 1)
      PROVE  c[j] = 0
  <2>1. CASE j \in (b + 1)..(k - 1)
    BY <2>1, <1>3 DEF LastBefore
  <2>2. CASE j \in k..(m - 1)
    BY <2>2
  <2> QED
    BY <2>1, <2>2, <1>4
<1>6. LastBefore(c, m, b)
  BY <1>4, <1>5 DEF LastBefore
<1>7. ZerosBefore(c, m) = m - 1 - b
  BY <1>6, LastBeforeIs
<1> QED
  BY <1>1, <1>2, <1>7

\* One more code, for a value or a full run of zeros.
LEMMA NextPart ==
    ASSUME NEW c, CodedBlock(c), NEW pred, EncodedDC(c[0] - pred) \in Seq(Bit),
           NEW k, PartOfBlock(c, k), k <= Eob(c), NEW s, s = NextStop(c, k)
    PROVE  /\ EncodedAC(c[s], s - k) \in Seq(Bit)
           /\ s < LastCoeff =>
                /\ PartOfBlock(c, s + 1)
                /\ CodedPart(c, pred, k) \o EncodedAC(c[s], s - k) = CodedPart(c, pred, s + 1)
           /\ s = LastCoeff =>
                CodedPart(c, pred, k) \o EncodedAC(c[s], s - k) = BlockBits(c, pred)
<1>0. LastCoeff \in Nat \ {0} /\ RunLimit \in Nat
  BY SizeAssumption
<1>1. PICK e \in 0..LastCoeff : e = Eob(c)
  BY EobIs
<1>k. k \in 1..LastCoeff /\ k <= e
  BY <1>1 DEF PartOfBlock
<1>2. /\ s \in k..e /\ s <= k + RunLimit
      /\ \A j \in k..(s - 1) : c[j] = 0
      /\ c[s] = 0 => s = k + RunLimit /\ s < e
  BY <1>1, <1>k, NextStopIs
<1>3. s \in 1..LastCoeff /\ s - k \in 0..RunLimit
  BY <1>0, <1>k, <1>2
<1>4. PICK x \in Seq(Bit) : x = EncodedAC(c[s], s - k)
  BY <1>3 DEF CodedBlock
<1>5. PICK z \in Nat : z = ZerosBefore(c, k) /\ z \in 0..(k - 1)
  BY <1>0, <1>k, LastBeforeIs
<1>6. PICK d \in Nat \ {0} : d = RunLimit + 1
  BY <1>0
<1>7. PICK q \in Nat : q = z \div d
  BY DivNat
<1>8. z = q * d /\ d > 0
  <2>1. z % d = 0
    BY <1>5, <1>6 DEF PartOfBlock
  <2>2. z = d * q + (z % d)
    BY <1>7, DivNat
  <2> QED
    BY <2>1, <2>2
<1>9. PICK dc \in Seq(Bit) : dc = EncodedDC(c[0] - pred)
  OBVIOUS
<1>10. PICK a \in Seq(Bit) : a = CodedACs(c, k - 1)
  BY <1>k, PartTypes
<1>11. PICK l \in Seq(Bit) : l = LongRuns(q)
  BY LongRunsType
<1>12. CodedPart(c, pred, k) = (dc \o a) \o l
  BY <1>5, <1>6, <1>7, <1>9, <1>10, <1>11, Zenon DEF CodedPart
<1>13. CodedPart(c, pred, k) \o x = (dc \o a) \o (l \o x)
  <2>1. PICK u \in Seq(Bit) : u = dc \o a
    BY ConcatProperties
  <2>2. (u \o l) \o x = u \o (l \o x)
    BY BitsAssociate, SMTT(20)
  <2> QED
    BY <1>12, <2>1, <2>2, Zenon
<1>14. CodedACs(c, s - 1) = a
  <2>1. k - 1 \in 0..LastCoeff /\ s - 1 \in 0..LastCoeff /\ k - 1 <= s - 1 /\ (k - 1) + 1 = k
    BY <1>0, <1>k, <1>2, <1>3, SMTT(20)
  <2>2. \A j \in ((k - 1) + 1)..(s - 1) : c[j] = 0
    BY <2>1, <1>2
  <2> QED
    BY <2>1, <2>2, <1>10, CodedACsBegin
<1>15. CodedACs(c, s) = a \o CodedAC(c, s)
  BY <1>3, <1>14, CodedACsMore
<1>16. (s + 1) - 1 = s /\ s + 1 \in Nat \ {0}
  BY <1>0, <1>3
<1>17. CASE c[s] # 0
  <2>1. ZerosBefore(c, s) = q * d + (s - k)
    <3>1. k \in Nat \ {0} /\ s \in Nat /\ k <= s
      BY <1>0, <1>k, <1>2
    <3>2. ZerosBefore(c, s) = z + (s - k)
      BY <3>1, <1>2, <1>5, MoreZeros
    <3> QED
      BY <3>2, <1>8, Zenon
  <2>2. ZerosBefore(c, s) \div d = q /\ ZerosBefore(c, s) % d = s - k
    <3>1. PICK r \in Nat : r = s - k /\ r < d
      BY <1>0, <1>3, <1>6
    <3>2. (q * d + r) \div d = q /\ (q * d + r) % d = r
      <4>1. \A q0, d0, r0 \in Nat :
              r0 < d0 => (q0 * d0 + r0) \div d0 = q0 /\ (q0 * d0 + r0) % d0 = r0
        BY Division
      <4>2. q \in Nat /\ d \in Nat /\ r \in Nat /\ r < d
        BY <1>6, <1>7, <3>1
      <4> QED
        BY <4>1, <4>2, Zenon
    <3> QED
      BY <3>1, <3>2, <2>1, Zenon
  <2>3. CodedAC(c, s) = l \o x
    BY <1>4, <1>6, <1>11, <1>17, <2>2, CodedACIs
  <2>4. CodedPart(c, pred, k) \o x = dc \o CodedACs(c, s)
    <3>1. PICK y \in Seq(Bit) : y = l \o x
      BY ConcatProperties
    <3>2. (dc \o a) \o y = dc \o (a \o y)
      BY BitsAssociate, SMTT(20)
    <3> QED
      BY <1>13, <1>15, <2>3, <3>1, <3>2, Zenon
  <2>5. PICK t \in Seq(Bit) : t = dc \o CodedACs(c, s)
    <3>1. CodedACs(c, s) \in Seq(Bit)
      BY <1>0, <1>3, CodedACsType
    <3> QED
      BY <3>1, ConcatProperties
  <2>6. t \o <<>> = t
    BY ConcatEmptySeq
  <2>7. ASSUME s < LastCoeff
        PROVE  PartOfBlock(c, s + 1) /\ CodedPart(c, pred, k) \o x = CodedPart(c, pred, s + 1)
    <3>1. LastBefore(c, s + 1, s)
      <4>1. s \in 0..((s + 1) - 1) /\ (s + 1)..((s + 1) - 1) = {}
        BY <1>0, <1>3
      <4> QED
        BY <4>1, <1>17 DEF LastBefore
    <3>2. ZerosBefore(c, s + 1) = 0
      <4>1. ZerosBefore(c, s + 1) = (s + 1) - 1 - s
        BY <3>1, <1>16, LastBeforeIs
      <4> QED
        BY <4>1, <1>0, <1>3
    <3>3. 0 \div d = 0 /\ 0 % d = 0
      BY <1>8
    <3>a. s + 1 \in 1..LastCoeff /\ s + 1 <= e + 1
      BY <1>0, <1>2, <1>3, <2>7
    <3>4. PartOfBlock(c, s + 1)
      BY <3>a, <3>2, <3>3, <1>1, <1>6, Zenon DEF PartOfBlock
    <3>5. CodedPart(c, pred, s + 1) = t \o <<>>
      BY <3>2, <3>3, <1>6, <1>9, <1>16, <2>5, LongRunsNone, Zenon DEF CodedPart
    <3> QED
      BY <3>4, <3>5, <2>4, <2>5, <2>6, Zenon
  <2>8. ASSUME s = LastCoeff
        PROVE  CodedPart(c, pred, k) \o x = BlockBits(c, pred)
    <3>1. Eob(c) = LastCoeff
      BY <1>0, <1>1, <1>2, <2>8
    <3>2. BlockBits(c, pred) = dc \o CodedACs(c, LastCoeff) \o <<>>
      BY <3>1, <1>9, Zenon DEF BlockBits, CodedACs
    <3> QED
      BY <3>2, <2>4, <2>5, <2>6, <2>8, Zenon
  <2> QED
    BY <1>4, <2>7, <2>8
<1>18. CASE c[s] = 0
  <2>1. s = k + RunLimit /\ s < e
    BY <1>2, <1>18
  <2>2. s < LastCoeff /\ s + 1 \in 1..LastCoeff /\ s + 1 <= e + 1
    BY <1>0, <2>1, <1>3
  <2>3. x = ACCode[<<RunLimit, 0>>]
    <3>1. s - k = RunLimit
      BY <2>1, <1>0, <1>k
    <3> QED
      BY <3>1, <1>4, <1>18, FullRun
  <2>4. l \o x = LongRuns(q + 1)
    BY <2>3, <1>11, LongRunsMore
  <2>5. ZerosBefore(c, s + 1) = (q + 1) * d + 0
    <3>1. k \in Nat \ {0} /\ s + 1 \in Nat /\ k <= s + 1
      BY <1>0, <1>k, <1>2
    <3>2. \A j \in k..((s + 1) - 1) : c[j] = 0
      <4>1. \A j \in k..((s + 1) - 1) : j = s \/ j \in k..(s - 1)
        BY <1>0, <1>k, <1>3, SMTT(20)
      <4> QED
        BY <4>1, <1>2, <1>18
    <3>3. ZerosBefore(c, s + 1) = z + ((s + 1) - k)
      BY <3>1, <3>2, <1>5, MoreZeros
    <3>4. (s + 1) - k = d
      BY <2>1, <1>0, <1>6, <1>k
    <3> QED
      BY <3>3, <3>4, <1>8
  <2>6. ZerosBefore(c, s + 1) \div d = q + 1 /\ ZerosBefore(c, s + 1) % d = 0
    <3>1. q + 1 \in Nat /\ 0 \in Nat /\ 0 < d
      BY <1>8
    <3>2. ((q + 1) * d + 0) \div d = q + 1 /\ ((q + 1) * d + 0) % d = 0
      BY <3>1, Division
    <3> QED
      BY <3>2, <2>5, Zenon
  <2>7. PartOfBlock(c, s + 1)
    BY <2>2, <2>6, <1>1, <1>6 DEF PartOfBlock
  <2>8. CodedACs(c, s) = a
    <3>1. k - 1 \in 0..LastCoeff /\ s \in 0..LastCoeff /\ k - 1 <= s /\ (k - 1) + 1 = k
      BY <1>0, <1>k, <1>2, <1>3, SMTT(20)
    <3>2. \A j \in ((k - 1) + 1)..s : c[j] = 0
      <4>1. \A j \in ((k - 1) + 1)..s : j = s \/ j \in k..(s - 1)
        BY <1>0, <1>k, <1>3
      <4> QED
        BY <4>1, <1>2, <1>18
    <3> QED
      BY <3>1, <3>2, <1>10, CodedACsBegin
  <2>9. CodedPart(c, pred, s + 1) = (dc \o a) \o LongRuns(q + 1)
    BY <2>6, <2>8, <1>6, <1>9, <1>16, Zenon DEF CodedPart
  <2>10. CodedPart(c, pred, k) \o x = CodedPart(c, pred, s + 1)
    BY <2>4, <2>9, <1>13, Zenon
  <2>11. s # LastCoeff
    BY <2>2, <1>0, <1>3
  <2> QED
    BY <1>4, <2>7, <2>10, <2>11
<1> QED
  BY <1>17, <1>18

\* What is coded of a block begins all of it.
LEMMA PartBegins ==
    ASSUME NEW c, CodedBlock(c), NEW pred, EncodedDC(c[0] - pred) \in Seq(Bit),
           NEW k, PartOfBlock(c, k)
    PROVE  /\ CodedPart(c, pred, k) \in Seq(Bit) /\ BlockBits(c, pred) \in Seq(Bit)
           /\ Begins(Bit, CodedPart(c, pred, k), BlockBits(c, pred))
<1>0. LastCoeff \in Nat \ {0} /\ RunLimit \in Nat
  BY SizeAssumption
<1>1. PICK e \in 0..LastCoeff : e = Eob(c)
  BY EobIs
<1>k. k \in 1..LastCoeff
  BY DEF PartOfBlock
<1>2. PICK dc \in Seq(Bit) : dc = EncodedDC(c[0] - pred)
  OBVIOUS
<1>3. PICK all \in Seq(Bit) : all = CodedACs(c, LastCoeff)
  BY <1>0, CodedACsType
<1>4. PICK eob \in Seq(Bit) : eob = (IF Eob(c) = LastCoeff THEN <<>> ELSE EndOfBlock)
  <2>1. <<>> \in Seq(Bit)
    OBVIOUS
  <2> QED
    BY <2>1, FixedCodes, Zenon
<1>5. BlockBits(c, pred) = (dc \o all) \o eob
  BY <1>2, <1>3, <1>4, Zenon DEF BlockBits, CodedACs
<1>6. PICK u \in Seq(Bit) : u = dc \o all
  BY ConcatProperties
<1>7. BlockBits(c, pred) = u \o eob /\ u \o eob \in Seq(Bit)
  <2>1. u \o eob \in Seq(Bit)
    BY ConcatProperties
  <2> QED
    BY <2>1, <1>5, <1>6, Zenon
<1>8. PICK p \in Seq(Bit) : p = CodedPart(c, pred, k)
  BY <1>k, PartTypes
<1>9. CASE k > e
  <2>1. e # LastCoeff
    BY <1>0, <1>9, <1>k
  <2>2. p \o EndOfBlock = BlockBits(c, pred)
    BY <2>1, <1>1, <1>8, <1>9, LastPart
  <2>3. Begins(Bit, p, BlockBits(c, pred))
    BY <2>2, FixedCodes, BeginsWithPart, Zenon
  <2> QED
    BY <2>3, <1>7, <1>8
<1>10. CASE k <= e
  <2>1. PICK T : T = {j \in k..LastCoeff : c[j] # 0}
    OBVIOUS
  <2>2. T \in SUBSET Nat /\ e \in T
    <3>1. e \in k..LastCoeff /\ e # 0
      BY <1>0, <1>k, <1>10
    <3>2. c[e] # 0
      BY <3>1, <1>1, EobIs
    <3> QED
      BY <3>1, <3>2, <2>1, <1>0, <1>k
  <2>3. PICK j \in T : \A i \in T : j <= i
    BY <2>2, LeastNumber
  <2>4. j \in 1..LastCoeff /\ k <= j /\ c[j] # 0
    BY <1>0, <1>k, <2>1
  <2>5. \A i \in k..(j - 1) : c[i] = 0
    <3>1. ASSUME NEW i \in k..(j - 1), c[i] # 0
          PROVE  FALSE
      <4>1. i \in T /\ i < j
        BY <1>0, <1>k, <2>1, <2>4, <3>1
      <4> QED
        BY <4>1, <2>3, <2>4
    <3> QED
      BY <3>1
  <2>6. PICK d \in Nat \ {0} : d = RunLimit + 1
    BY <1>0
  <2>7. PICK q \in Nat : q = ZerosBefore(c, k) \div d
    BY <2>6, <1>k, PartTypes
  <2>8. PICK m \in Nat : m = ZerosBefore(c, j) \div d
    BY <2>6, <2>4, PartTypes
  <2>9. q <= m
    <3>1. PICK z \in Nat : z = ZerosBefore(c, k)
      BY <1>0, <1>k, LastBeforeIs
    <3>2. k \in Nat \ {0} /\ j \in Nat
      BY <1>0, <1>k, <2>4
    <3>3. ZerosBefore(c, j) = z + (j - k)
      BY <3>1, <3>2, <2>4, <2>5, MoreZeros
    <3>a. PICK y \in Nat : y = z + (j - k) /\ y >= z
      BY <3>2, <2>4
    <3>b. q = z \div d /\ m = y \div d
      BY <3>1, <3>3, <3>a, <2>7, <2>8
    <3>4. d * q <= z /\ y < d * m + d
      BY <3>b, DivMod
    <3>5. SUFFICES ASSUME m + 1 <= q PROVE FALSE
      OBVIOUS
    <3>6. m * d + d <= q * d
      BY <3>5, LessTimes
    <3>7. m * d = d * m /\ q * d = d * q
      OBVIOUS
    <3>8. PICK dm \in Nat : dm = d * m
      OBVIOUS
    <3>9. PICK dq \in Nat : dq = d * q
      OBVIOUS
    <3>10. dm + d <= dq
      BY <3>6, <3>7, <3>8, <3>9, Zenon
    <3>11. dq <= z /\ y < dm + d
      BY <3>4, <3>8, <3>9, Zenon
    <3> QED
      BY <3>10, <3>11, <3>a
  <2>10. PICK l \in Seq(Bit) : l = LongRuns(q)
    BY LongRunsType
  <2>11. PICK ac \in Seq(Bit) : ac = CodedAC(c, j)
    BY <2>4, CodedACType
  <2>12. Begins(Bit, l, ac)
    <3>1. PICK lm \in Seq(Bit) : lm = LongRuns(m)
      BY LongRunsType
    <3>2. Begins(Bit, l, lm)
      BY <2>9, <2>10, <3>1, LongRunsBegin
    <3>3. PICK r \in 0..RunLimit : r = ZerosBefore(c, j) % d
      <4>1. ZerosBefore(c, j) \in Nat
        BY <1>0, <2>4, LastBeforeIs
      <4> QED
        BY <4>1, <1>0, <2>6
    <3>4. PICK y \in Seq(Bit) : y = EncodedAC(c[j], r)
      BY <2>4 DEF CodedBlock
    <3>5. ac = lm \o y
      BY <2>4, <2>6, <2>8, <2>11, <3>1, <3>3, <3>4, CodedACIs
    <3>6. Begins(Bit, lm, ac)
      BY <3>5, BeginsWithPart, Zenon
    <3> QED
      BY <3>2, <3>6, BeginsThrough, Zenon
  <2>13. PICK a \in Seq(Bit) : a = CodedACs(c, k - 1)
    BY <1>k, PartTypes
  <2>14. CodedACs(c, j) = a \o ac
    <3>1. k - 1 \in 0..LastCoeff /\ j - 1 \in 0..LastCoeff /\ k - 1 <= j - 1 /\ (k - 1) + 1 = k
      BY <1>0, <1>k, <2>4
    <3>2. \A i \in ((k - 1) + 1)..(j - 1) : c[i] = 0
      BY <3>1, <2>5
    <3>3. CodedACs(c, j - 1) = a
      BY <3>1, <3>2, <2>13, CodedACsBegin
    <3>4. CodedACs(c, j) = CodedACs(c, j - 1) \o CodedAC(c, j)
      BY <2>4, CodedACsMore
    <3> QED
      BY <3>3, <3>4, <2>11
  <2>15. Begins(Bit, CodedACs(c, j), all)
    <3>1. j \in 0..LastCoeff /\ LastCoeff \in 0..LastCoeff /\ j <= LastCoeff
      BY <1>0, <2>4
    <3> QED
      BY <3>1, <1>3, CodedACsBegin
  <2>16. PICK al \in Seq(Bit) : al = a \o l
    BY ConcatProperties
  <2>17. PICK aac \in Seq(Bit) : aac = a \o ac
    BY ConcatProperties
  <2>18. Begins(Bit, al, aac)
    BY <2>12, <2>16, <2>17, BeginsBehind, Zenon
  <2>19. Begins(Bit, al, all)
    BY <2>14, <2>15, <2>17, <2>18, BeginsThrough, Zenon
  <2>20. Begins(Bit, dc \o al, u)
    BY <2>19, <1>6, BeginsBehind, Zenon
  <2>21. p = dc \o al
    <3>a. LongRuns(ZerosBefore(c, k) \div (RunLimit + 1)) = l
      BY <2>6, <2>7, <2>10
    <3>1. p = (dc \o a) \o l
      BY <3>a, <2>13, <1>2, <1>8, Zenon DEF CodedPart
    <3>2. (dc \o a) \o l = dc \o (a \o l)
      <4>1. Associates(dc, a, l)
        BY BitsDoAssociate, Zenon
      <4> QED
        BY <4>1 DEF Associates
    <3> QED
      BY <3>1, <3>2, <2>16, Zenon
  <2>22. Begins(Bit, u, u \o eob)
    BY BeginsWithPart, Zenon
  <2>23. Begins(Bit, p, u \o eob)
    BY <2>20, <2>21, <2>22, <1>7, BeginsThrough, Zenon
  <2> QED
    BY <2>23, <1>7, <1>8, Zenon
<1> QED
  BY <1>0, <1>1, <1>k, <1>9, <1>10

(***************************************************************************)
(* Blocks.                                                                 *)
(***************************************************************************)
BlocksOf(layout) == [comp : DOMAIN layout.factors, c : layout.patterns]
DCs(layout)      == {0} \cup {q[0] : q \in layout.patterns}

\* The blocks of an image have codes.
LEMMA PatternCodes ==
    ASSUME NEW l \in Layouts, NEW p \in l.patterns, NEW d \in DCs(l)
    PROVE  CodedBlock(p) /\ EncodedDC(p[0] - d) \in Seq(Bit)
  BY CodeAssumption DEF CodedBlock, DCs

\* The code of a block is bits.
LEMMA BlockBitsType ==
    ASSUME NEW l \in Layouts, NEW p \in l.patterns, NEW d \in DCs(l)
    PROVE  BlockBits(p, d) \in Seq(Bit)
<1>1. CodedBlock(p) /\ EncodedDC(p[0] - d) \in Seq(Bit)
  BY PatternCodes
<1>2. PartOfBlock(p, 1)
  BY <1>1, FirstPart
<1> QED
  BY <1>1, <1>2, PartBegins

\* The blocks of component i in a list.
OfComponent(list, i) == {m \in DOMAIN list : list[m].comp = i}

\* The predicted DC is that of the last block of the component, or 0.
LEMMA PredictedIs ==
    ASSUME NEW l \in Layouts, NEW list \in Seq(BlocksOf(l)), NEW i
    PROVE  /\ Predicted(list, i) \in DCs(l)
           /\ OfComponent(list, i) = {} => Predicted(list, i) = 0
           /\ \A m \in OfComponent(list, i) :
                (\A x \in OfComponent(list, i) : x <= m) => Predicted(list, i) = list[m].c[0]
<1>1. PICK n \in Nat : n = Len(list)
  OBVIOUS
<1>2. PICK T : T = OfComponent(list, i)
  OBVIOUS
<1>3. T \in SUBSET (0..n) /\ \A m \in T : m \in 1..n
  BY <1>1, <1>2 DEF OfComponent
<1>4. Predicted(list, i) = IF T = {} THEN 0 ELSE list[Max(T)].c[0]
  BY <1>2, Zenon DEF Predicted, OfComponent
<1>5. ASSUME T # {}
      PROVE  Max(T) \in T /\ \A x \in T : x <= Max(T)
  BY <1>3, <1>5, MaxIsGreatest
<1>6. \A m \in 1..n : list[m] \in BlocksOf(l)
  BY <1>1, ElementOfSeq
<1>7. Predicted(list, i) \in DCs(l)
  <2>1. CASE T = {}
    <3>1. 0 \in DCs(l)
      BY DEF DCs
    <3> QED
      BY <3>1, <2>1, <1>4
  <2>2. CASE T # {}
    <3>1. list[Max(T)] \in BlocksOf(l)
      BY <2>2, <1>3, <1>5, <1>6
    <3>2. list[Max(T)].c \in l.patterns
      BY <3>1 DEF BlocksOf
    <3>3. list[Max(T)].c[0] \in DCs(l)
      BY <3>2, Zenon DEF DCs
    <3> QED
      BY <3>3, <2>2, <1>4
  <2> QED
    BY <2>1, <2>2
<1>8. ASSUME NEW m \in T, \A x \in T : x <= m
      PROVE  Predicted(list, i) = list[m].c[0]
  <2>1. T # {} /\ Max(T) \in T /\ m <= Max(T) /\ Max(T) <= m
    BY <1>5, <1>8
  <2>2. PICK x \in T : x = Max(T)
    BY <2>1
  <2>3. x \in 1..n /\ m \in 1..n /\ m <= x /\ x <= m
    BY <2>1, <2>2, <1>3
  <2>4. m = x
    BY <2>3
  <2> QED
    BY <2>1, <2>2, <2>4, <1>4
<1> QED
  BY <1>2, <1>4, <1>7, <1>8

\* A block changes the prediction of its own component only.
LEMMA PredictedAppend ==
    ASSUME NEW l \in Layouts, NEW list \in Seq(BlocksOf(l)), NEW b \in BlocksOf(l), NEW i
    PROVE  Predicted(Append(list, b), i) = IF b.comp = i THEN b.c[0] ELSE Predicted(list, i)
<1>1. PICK n \in Nat : n = Len(list)
  OBVIOUS
<1>2. PICK more \in Seq(BlocksOf(l)) : more = Append(list, b)
  BY AppendProperties
<1>3. Len(more) = n + 1 /\ more[n + 1] = b /\ \A m \in 1..n : more[m] = list[m]
  BY <1>1, <1>2, AppendProperties
<1>4. DOMAIN more = 1..(n + 1) /\ DOMAIN list = 1..n
  BY <1>1, <1>3
<1>5. CASE b.comp = i
  <2>1. n + 1 \in OfComponent(more, i)
    BY <1>3, <1>4, <1>5 DEF OfComponent
  <2>2. \A x \in OfComponent(more, i) : x <= n + 1
    BY <1>4 DEF OfComponent
  <2>3. Predicted(more, i) = more[n + 1].c[0]
    BY <2>1, <2>2, PredictedIs
  <2> QED
    BY <2>3, <1>2, <1>3, <1>5
<1>6. CASE b.comp # i
  <2>1. OfComponent(more, i) = OfComponent(list, i)
    <3>1. ASSUME NEW x \in OfComponent(more, i)
          PROVE  x \in OfComponent(list, i)
      <4>1. x \in 1..(n + 1) /\ more[x].comp = i
        BY <1>4 DEF OfComponent
      <4>2. x # n + 1
        BY <4>1, <1>3, <1>6
      <4>3. x \in 1..n
        BY <4>1, <4>2
      <4> QED
        BY <4>1, <4>3, <1>3, <1>4 DEF OfComponent
    <3>2. ASSUME NEW x \in OfComponent(list, i)
          PROVE  x \in OfComponent(more, i)
      <4>1. x \in 1..n /\ list[x].comp = i
        BY <1>4 DEF OfComponent
      <4>2. x \in 1..(n + 1)
        BY <4>1
      <4> QED
        BY <4>1, <4>2, <1>3, <1>4 DEF OfComponent
    <3> QED
      BY <3>1, <3>2
  <2>2. \A m \in OfComponent(list, i) : more[m] = list[m]
    BY <1>3, <1>4 DEF OfComponent
  <2>3. PICK T : T = OfComponent(list, i)
    OBVIOUS
  <2>4. CASE T = {}
    BY <2>1, <2>3, <2>4, <1>2, <1>6, PredictedIs
  <2>5. CASE T # {}
    <3>1. T \in SUBSET (0..n)
      BY <1>4, <2>3 DEF OfComponent
    <3>2. PICK m \in T : \A x \in T : x <= m
      BY <3>1, <2>5, MaxIsGreatest
    <3>3. Predicted(list, i) = list[m].c[0]
      BY <3>2, <2>3, PredictedIs
    <3>4. Predicted(more, i) = more[m].c[0]
      BY <3>2, <2>1, <2>3, PredictedIs
    <3> QED
      BY <3>3, <3>4, <2>2, <2>3, <1>2, <1>6
  <2> QED
    BY <2>4, <2>5
<1> QED
  BY <1>5, <1>6

\* Without a block, 0 is predicted.
LEMMA PredictedNone == \A i : Predicted(<<>>, i) = 0
  BY DEF Predicted

\* The codes of the blocks of a list.
Codes(list) == [n \in DOMAIN list |->
    BlockBits(list[n].c, Predicted(SubSeq(list, 1, n - 1), list[n].comp))]

\* The codes of the blocks of a list.
LEMMA CodesType ==
    ASSUME NEW l \in Layouts, NEW list \in Seq(BlocksOf(l))
    PROVE  Codes(list) \in Seq(Seq(Bit)) /\ Len(Codes(list)) = Len(list)
<1>1. PICK n \in Nat : n = Len(list)
  OBVIOUS
<1>2. DOMAIN list = 1..n
  BY <1>1
<1>3. ASSUME NEW m \in 1..n
      PROVE  BlockBits(list[m].c, Predicted(SubSeq(list, 1, m - 1), list[m].comp)) \in Seq(Bit)
  <2>1. list[m] \in BlocksOf(l)
    BY <1>1, ElementOfSeq
  <2>2. list[m].c \in l.patterns
    BY <2>1 DEF BlocksOf
  <2>3. m - 1 \in 0..Len(list)
    BY <1>1
  <2>4. PICK part \in Seq(BlocksOf(l)) : part = SubSeq(list, 1, m - 1)
    BY <2>3, FirstOnes
  <2>5. Predicted(part, list[m].comp) \in DCs(l)
    BY PredictedIs
  <2> QED
    BY <2>2, <2>4, <2>5, BlockBitsType
<1> QED
  BY <1>1, <1>2, <1>3 DEF Codes

\* The code of a list of blocks is bits.
LEMMA IntervalBitsType ==
    ASSUME NEW l \in Layouts, NEW list \in Seq(BlocksOf(l))
    PROVE  IntervalBits(list) \in Seq(Bit)
<1>1. IntervalBits(list) = FlattenSeq(Codes(list))
  BY Zenon DEF IntervalBits, Codes
<1> QED
  BY <1>1, CodesType, FlattenType

\* No block, no bits.
LEMMA IntervalBitsNone == IntervalBits(<<>>) = <<>>
<1>1. Codes(<<>>) = <<>>
  BY DEF Codes
<1>2. IntervalBits(<<>>) = FlattenSeq(Codes(<<>>))
  BY Zenon DEF IntervalBits, Codes
<1> QED
  BY <1>1, <1>2, FlattenEmpty

\* A list's blocks are coded alike in all lists it begins.
LEMMA SameFirstOnes ==
    ASSUME NEW S, NEW s \in Seq(S), NEW t \in Seq(S), NEW n \in Nat, n <= Len(s), n <= Len(t),
           \A i \in 1..n : t[i] = s[i]
    PROVE  SubSeq(t, 1, n) = SubSeq(s, 1, n)
<1>1. n \in 0..Len(s) /\ n \in 0..Len(t)
  OBVIOUS
<1>a. PICK u : u = SubSeq(s, 1, n)
  OBVIOUS
<1>b. PICK v : v = SubSeq(t, 1, n)
  OBVIOUS
<1>2. u \in Seq(S) /\ Len(u) = n /\ \A i \in 1..n : u[i] = s[i]
  BY <1>1, <1>a, FirstOnes
<1>3. v \in Seq(S) /\ Len(v) = n /\ \A i \in 1..n : v[i] = t[i]
  BY <1>1, <1>b, FirstOnes
<1>4. Len(u) = Len(v) /\ \A i \in 1..Len(u) : u[i] = v[i]
  BY <1>2, <1>3
<1>5. u = v
  BY <1>2, <1>3, <1>4, SeqEqual
<1> QED
  BY <1>a, <1>b, <1>5

\* The code of a block depends on the blocks before it only.
LEMMA CodesAgree ==
    ASSUME NEW l \in Layouts, NEW list \in Seq(BlocksOf(l)), NEW more \in Seq(BlocksOf(l)),
           Len(list) <= Len(more), \A i \in 1..Len(list) : more[i] = list[i]
    PROVE  \A i \in 1..Len(list) : Codes(more)[i] = Codes(list)[i]
<1>1. PICK n \in Nat : n = Len(list)
  OBVIOUS
<1>2. PICK m \in Nat : m = Len(more)
  OBVIOUS
<1>3. n <= m /\ DOMAIN list = 1..n /\ DOMAIN more = 1..m
  BY <1>1, <1>2
<1>4. ASSUME NEW i \in 1..n
      PROVE  Codes(more)[i] = Codes(list)[i]
  <2>1. i - 1 \in Nat /\ i - 1 <= Len(list) /\ i - 1 <= Len(more) /\ i \in 1..m
    BY <1>1, <1>2, <1>3
  <2>2. \A j \in 1..(i - 1) : more[j] = list[j]
    BY <1>1
  <2>3. SubSeq(more, 1, i - 1) = SubSeq(list, 1, i - 1)
    BY <2>1, <2>2, SameFirstOnes
  <2>4. more[i] = list[i]
    BY <1>1
  <2>5. Codes(list)[i] = BlockBits(list[i].c, Predicted(SubSeq(list, 1, i - 1), list[i].comp))
    BY <1>3 DEF Codes
  <2>6. Codes(more)[i] = BlockBits(more[i].c, Predicted(SubSeq(more, 1, i - 1), more[i].comp))
    BY <1>3, <2>1 DEF Codes
  <2> QED
    BY <2>3, <2>4, <2>5, <2>6
<1> QED
  BY <1>1, <1>4

\* The code of a beginning of a list begins its code.
LEMMA IntervalBitsBegin ==
    ASSUME NEW l \in Layouts, NEW list \in Seq(BlocksOf(l)), NEW more \in Seq(BlocksOf(l)),
           Begins(BlocksOf(l), list, more)
    PROVE  Begins(Bit, IntervalBits(list), IntervalBits(more))
<1>1. PICK r \in Seq(BlocksOf(l)) : more = list \o r
  BY DEF Begins
<1>2. Len(list) <= Len(more) /\ \A i \in 1..Len(list) : more[i] = list[i]
  BY <1>1, ConcatProperties
<1>3. PICK s \in Seq(Seq(Bit)) : s = Codes(list) /\ Len(s) = Len(list)
  BY CodesType
<1>4. PICK t \in Seq(Seq(Bit)) : t = Codes(more) /\ Len(t) = Len(more)
  BY CodesType
<1>5. \A i \in 1..Len(s) : t[i] = s[i]
  BY <1>2, <1>3, <1>4, CodesAgree
<1>6. Begins(Bit, FlattenSeq(s), FlattenSeq(t))
  BY <1>2, <1>3, <1>4, <1>5, FlattenBegins
<1> QED
  BY <1>3, <1>4, <1>6, Zenon DEF IntervalBits, Codes

\* One more block adds its code, with the DC predicted for it.
LEMMA IntervalBitsAppend ==
    ASSUME NEW l \in Layouts, NEW list \in Seq(BlocksOf(l)), NEW b \in BlocksOf(l)
    PROVE  IntervalBits(Append(list, b)) =
               IntervalBits(list) \o BlockBits(b.c, Predicted(list, b.comp))
<1>1. PICK n \in Nat : n = Len(list)
  OBVIOUS
<1>2. PICK more \in Seq(BlocksOf(l)) : more = Append(list, b)
  BY AppendProperties
<1>3. Len(more) = n + 1 /\ more[n + 1] = b /\ \A m \in 1..n : more[m] = list[m]
  BY <1>1, <1>2, AppendProperties
<1>4. PICK s \in Seq(Seq(Bit)) : s = Codes(list) /\ Len(s) = n
  BY <1>1, CodesType
<1>5. PICK t \in Seq(Seq(Bit)) : t = Codes(more) /\ Len(t) = n + 1
  BY <1>3, CodesType
<1>6. \A i \in 1..n : t[i] = s[i]
  <2>1. Len(list) <= Len(more) /\ \A i \in 1..Len(list) : more[i] = list[i]
    BY <1>1, <1>3
  <2>2. \A i \in 1..Len(list) : Codes(more)[i] = Codes(list)[i]
    BY <2>1, CodesAgree
  <2> QED
    BY <2>2, <1>1, <1>4, <1>5
<1>7. FlattenSeq(t) = FlattenSeq(s) \o t[n + 1]
  BY <1>4, <1>5, <1>6, FlattenMore
<1>8. SubSeq(more, 1, n) = list
  <2>1. n <= Len(list) /\ n <= Len(more)
    BY <1>1, <1>3
  <2>2. SubSeq(more, 1, n) = SubSeq(list, 1, n)
    BY <2>1, <1>3, SameFirstOnes
  <2>3. n \in 0..Len(list)
    BY <1>1
  <2>f. /\ SubSeq(list, 1, n) \in Seq(BlocksOf(l)) /\ Len(SubSeq(list, 1, n)) = n
        /\ \A i \in 1..n : SubSeq(list, 1, n)[i] = list[i]
    BY <2>3, FirstOnes
  <2>4. PICK u \in Seq(BlocksOf(l)) :
             u = SubSeq(list, 1, n) /\ Len(u) = n /\ \A i \in 1..n : u[i] = list[i]
    BY <2>f, Zenon
  <2>5. Len(u) = Len(list) /\ \A i \in 1..Len(u) : u[i] = list[i]
    BY <1>1, <2>4
  <2>6. u = list
    BY <2>5, SeqEqual
  <2> QED
    BY <2>2, <2>4, <2>6
<1>9. t[n + 1] = BlockBits(b.c, Predicted(list, b.comp))
  <2>1. n + 1 \in DOMAIN more /\ (n + 1) - 1 = n
    BY <1>3
  <2>2. t[n + 1] = BlockBits(more[n + 1].c, Predicted(SubSeq(more, 1, (n + 1) - 1), more[n + 1].comp))
    BY <2>1, <1>5, Zenon DEF Codes
  <2> QED
    BY <2>1, <2>2, <1>3, <1>8
<1> QED
  BY <1>2, <1>4, <1>5, <1>7, <1>9, Zenon DEF IntervalBits, Codes

(***************************************************************************)
(* MCUs.                                                                   *)
(***************************************************************************)

\* Multiplication is monotone.
LEMMA TimesMonotone ==
    ASSUME NEW d \in Nat, NEW m \in Nat, NEW n \in Nat, m <= n
    PROVE  d * m <= d * n
<1>1. PICK k \in Nat : n = m + k
  <2>1. n - m \in Nat /\ n = m + (n - m)
    OBVIOUS
  <2> QED
    BY <2>1
<1>2. d * n = d * m + d * k /\ d * k \in Nat /\ d * m \in Nat
  BY <1>1
<1> QED
  BY <1>2

\* What a layout is.
LEMMA LayoutParts ==
    ASSUME NEW l \in Layouts
    PROVE  /\ l.hmcus \in Nat \ {0} /\ l.vmcus \in Nat \ {0} /\ l.interval \in Nat
           /\ DOMAIN l.factors = 1..Len(l.factors) /\ Len(l.factors) \in 1..4
           /\ \A i \in 1..Len(l.factors) :
                l.factors[i][1] \in Nat \ {0} /\ l.factors[i][2] \in Nat \ {0}
<1>1. /\ l.hmcus \in Nat \ {0} /\ l.vmcus \in Nat \ {0} /\ l.interval \in Nat
      /\ l.factors \in Seq((Nat \ {0}) \X (Nat \ {0})) /\ Len(l.factors) \in 1..4
  BY LayoutAssumption
<1>2. DOMAIN l.factors = 1..Len(l.factors)
  BY <1>1
<1>3. ASSUME NEW i \in 1..Len(l.factors)
      PROVE  l.factors[i][1] \in Nat \ {0} /\ l.factors[i][2] \in Nat \ {0}
  <2>1. l.factors[i] \in (Nat \ {0}) \X (Nat \ {0})
    BY <1>1, ElementOfSeq
  <2> QED
    BY <2>1
<1> QED
  BY <1>1, <1>2, <1>3

\* Every block of an image is one of the patterns.
LEMMA ImagePattern ==
    ASSUME NEW l \in Layouts, NEW img \in Image(l), NEW i \in DOMAIN l.factors,
           NEW y \in 0..(l.vmcus * l.factors[i][2] - 1), NEW x \in 0..(l.hmcus * l.factors[i][1] - 1)
    PROVE  img[i][y][x] \in l.patterns
<1>1. PICK f \in [Places(l) -> l.patterns] :
        img = [j \in DOMAIN l.factors |->
                 [yy \in Rows(l, j) |-> [xx \in Columns(l, j) |-> f[<<j, <<yy, xx>>>>]]]]
  BY Zenon DEF Image
<1>2. y \in Rows(l, i) /\ x \in Columns(l, i)
  BY DEF Rows, Columns
<1>3. <<i, <<y, x>>>> \in Places(l)
  <2>1. <<i, <<y, x>>>> \in {i} \X (Rows(l, i) \X Columns(l, i))
    BY <1>2
  <2> QED
    BY <2>1, Zenon DEF Places
<1>4. img[i][y][x] = f[<<i, <<y, x>>>>]
  BY <1>1, <1>2, Zenon
<1> QED
  BY <1>1, <1>3, <1>4

\* The image has MCUs, and a restart interval has some.
LEMMA MCUsType ==
    ASSUME NEW l \in Layouts
    PROVE  /\ MCUs(l) \in Nat \ {0} /\ Interval(l) \in Nat \ {0}
           /\ l.interval = 0 => Interval(l) = MCUs(l)
           /\ l.interval # 0 => Interval(l) = l.interval
<1>1. MCUs(l) \in Nat \ {0}
  BY LayoutParts, ProductPositive DEF MCUs
<1> QED
  BY <1>1, LayoutParts DEF Interval

\* Which block of the image the n-th block of a component of an MCU is.
LEMMA PlaceInImage ==
    ASSUME NEW l \in Layouts, NEW img \in Image(l), NEW i \in DOMAIN l.factors,
           NEW mcu \in 0..(MCUs(l) - 1), NEW n \in 1..(l.factors[i][1] * l.factors[i][2])
    PROVE  img[i][(mcu \div l.hmcus) * l.factors[i][2] + (n - 1) \div l.factors[i][1]]
                 [(mcu % l.hmcus) * l.factors[i][1] + ((n - 1) % l.factors[i][1])] \in l.patterns
<1>1. PICK h \in Nat \ {0} : h = l.factors[i][1]
  BY LayoutParts
<1>2. PICK v \in Nat \ {0} : v = l.factors[i][2]
  BY LayoutParts
<1>3. PICK hm \in Nat \ {0} : hm = l.hmcus
  BY LayoutParts
<1>4. PICK vm \in Nat \ {0} : vm = l.vmcus
  BY LayoutParts
<1>5. mcu \in Nat /\ mcu < hm * vm
  BY <1>3, <1>4, MCUsType DEF MCUs
<1>6. PICK row \in Nat : row = mcu \div hm
  BY <1>5, DivNat
<1>7. PICK col \in 0..(hm - 1) : col = mcu % hm
  BY <1>5, DivNat
<1>8. row \in 0..(vm - 1)
  <2> SUFFICES ASSUME vm <= row PROVE FALSE
    OBVIOUS
  <2>1. mcu = hm * row + col
    BY <1>5, <1>6, <1>7, DivNat
  <2>2. hm * vm <= hm * row
    BY TimesMonotone
  <2> QED
    BY <2>1, <2>2, <1>5
<1>9. n - 1 \in Nat /\ n - 1 < h * v
  BY <1>1, <1>2
<1>10. PICK y \in Nat : y = (n - 1) \div h
  BY <1>9, DivNat
<1>11. PICK x \in 0..(h - 1) : x = (n - 1) % h
  BY <1>9, DivNat
<1>12. y \in 0..(v - 1)
  <2> SUFFICES ASSUME v <= y PROVE FALSE
    OBVIOUS
  <2>1. n - 1 = h * y + x
    BY <1>9, <1>10, <1>11, DivNat
  <2>2. h * v <= h * y
    BY TimesMonotone
  <2> QED
    BY <2>1, <2>2, <1>9
<1>13. y + row * v \in 0..(vm * v - 1)
  BY <1>8, <1>12, SplitInRange
<1>14. x + col * h \in 0..(hm * h - 1)
  BY <1>7, <1>11, SplitInRange
<1>15. row * v + y = y + row * v /\ col * h + x = x + col * h
  OBVIOUS
<1>16. img[i][row * v + y][col * h + x] \in l.patterns
  BY <1>1, <1>2, <1>3, <1>4, <1>13, <1>14, <1>15, ImagePattern
<1> QED
  BY <1>1, <1>2, <1>3, <1>6, <1>7, <1>10, <1>11, <1>16

\* The blocks of a component in an MCU.
LEMMA ComponentBlocksType ==
    ASSUME NEW l \in Layouts, NEW img \in Image(l), NEW i \in DOMAIN l.factors,
           NEW mcu \in 0..(MCUs(l) - 1)
    PROVE  /\ ComponentBlocks(img, l, i, mcu) \in Seq(BlocksOf(l))
           /\ Len(ComponentBlocks(img, l, i, mcu)) = l.factors[i][1] * l.factors[i][2]
           /\ l.factors[i][1] * l.factors[i][2] \in Nat \ {0}
<1>1. PICK k \in Nat \ {0} : k = l.factors[i][1] * l.factors[i][2]
  BY LayoutParts, ProductPositive
<1> DEFINE b(n) == [comp |-> i,
             c |-> img[i][(mcu \div l.hmcus) * l.factors[i][2] + (n - 1) \div l.factors[i][1]]
                         [(mcu % l.hmcus) * l.factors[i][1] + ((n - 1) % l.factors[i][1])]]
<1>2. \A n \in 1..k : b(n) \in BlocksOf(l)
  <2>1. ASSUME NEW n \in 1..k
        PROVE  b(n) \in BlocksOf(l)
    BY <1>1, PlaceInImage DEF BlocksOf
  <2> QED
    BY <2>1
<1>3. ComponentBlocks(img, l, i, mcu) = [n \in 1..k |-> b(n)]
  BY <1>1, Zenon DEF ComponentBlocks
<1> HIDE DEF b
<1>4. [n \in 1..k |-> b(n)] \in Seq(BlocksOf(l)) /\ Len([n \in 1..k |-> b(n)]) = k
  BY <1>2
<1> QED
  BY <1>1, <1>3, <1>4

WholeMCUs(img, layout, k, m) ==
    FlattenSeq([j \in 1..m |-> MCUBlocks(img, layout, k * Interval(layout) + j - 1)])
WholeComponents(img, layout, mcu, m) ==
    FlattenSeq([i \in 1..m |-> ComponentBlocks(img, layout, i, mcu)])
InComponent(img, layout, mcu, i, m) == SubSeq(ComponentBlocks(img, layout, i, mcu), 1, m)

\* The blocks of the first m components of an MCU.
LEMMA ComponentSeqs ==
    ASSUME NEW l \in Layouts, NEW img \in Image(l), NEW mcu \in 0..(MCUs(l) - 1),
           NEW m \in 0..Len(l.factors)
    PROVE  /\ [i \in 1..m |-> ComponentBlocks(img, l, i, mcu)] \in Seq(Seq(BlocksOf(l)))
           /\ Len([i \in 1..m |-> ComponentBlocks(img, l, i, mcu)]) = m
           /\ m \in Nat
<1>1. m \in Nat /\ m <= Len(l.factors) /\ Len(l.factors) \in Nat
  BY LayoutParts
<1>2. ASSUME NEW i \in 1..m
      PROVE  ComponentBlocks(img, l, i, mcu) \in Seq(BlocksOf(l))
  <2>1. i \in DOMAIN l.factors
    BY <1>1, LayoutParts
  <2> QED
    BY <2>1, ComponentBlocksType
<1> QED
  BY <1>1, <1>2

\* Their concatenation is a list of blocks.
LEMMA WholeComponentsType ==
    ASSUME NEW l \in Layouts, NEW img \in Image(l), NEW mcu \in 0..(MCUs(l) - 1),
           NEW m \in 0..Len(l.factors)
    PROVE  WholeComponents(img, l, mcu, m) \in Seq(BlocksOf(l))
  BY ComponentSeqs, FlattenType DEF WholeComponents

\* An MCU is its components.
LEMMA MCUIsComponents ==
    ASSUME NEW l \in Layouts, NEW img, NEW mcu
    PROVE  MCUBlocks(img, l, mcu) = WholeComponents(img, l, mcu, Len(l.factors))
  BY LayoutParts, Zenon DEF MCUBlocks, WholeComponents

\* One more component of the MCU.
LEMMA WholeComponentsMore ==
    ASSUME NEW l \in Layouts, NEW img \in Image(l), NEW mcu \in 0..(MCUs(l) - 1),
           NEW m \in 1..Len(l.factors)
    PROVE  WholeComponents(img, l, mcu, m) =
               WholeComponents(img, l, mcu, m - 1) \o ComponentBlocks(img, l, m, mcu)
<1>1. PICK s : s = [i \in 1..(m - 1) |-> ComponentBlocks(img, l, i, mcu)]
  OBVIOUS
<1>2. PICK t : t = [i \in 1..m |-> ComponentBlocks(img, l, i, mcu)]
  OBVIOUS
<1>3. m - 1 \in 0..Len(l.factors) /\ m \in 0..Len(l.factors) /\ (m - 1) + 1 = m
  BY LayoutParts
<1>4. s \in Seq(Seq(BlocksOf(l))) /\ Len(s) = m - 1
  BY <1>1, <1>3, ComponentSeqs
<1>5. t \in Seq(Seq(BlocksOf(l))) /\ Len(t) = m
  BY <1>2, <1>3, ComponentSeqs
<1>6. \A i \in 1..(m - 1) : t[i] = s[i]
  BY <1>1, <1>2, <1>3
<1>7. t[m] = ComponentBlocks(img, l, m, mcu)
  BY <1>2, <1>3
<1>8. FlattenSeq(t) = FlattenSeq(s) \o t[Len(s) + 1]
  BY <1>3, <1>4, <1>5, <1>6, FlattenMore
<1>9. Len(s) + 1 = m
  BY <1>3, <1>4
<1> QED
  BY <1>1, <1>2, <1>7, <1>8, <1>9, Zenon DEF WholeComponents

\* No component, no block.
LEMMA NoComponents == \A img, l, mcu : WholeComponents(img, l, mcu, 0) = <<>>
<1> SUFFICES ASSUME NEW img, NEW l, NEW mcu PROVE WholeComponents(img, l, mcu, 0) = <<>>
  OBVIOUS
<1>1. [i \in 1..0 |-> ComponentBlocks(img, l, i, mcu)] = <<>>
  OBVIOUS
<1> QED
  BY <1>1, FlattenEmpty DEF WholeComponents

\* None of the blocks of a component.
LEMMA NoneInComponent == \A img, l, mcu, i : InComponent(img, l, mcu, i, 0) = <<>>
  BY SubSeqEmpty DEF InComponent

\* One more block of a component.
LEMMA InComponentMore ==
    ASSUME NEW l \in Layouts, NEW img \in Image(l), NEW i \in DOMAIN l.factors,
           NEW mcu \in 0..(MCUs(l) - 1), NEW m \in Nat, m < l.factors[i][1] * l.factors[i][2]
    PROVE  /\ InComponent(img, l, mcu, i, m) \in Seq(BlocksOf(l))
           /\ ComponentBlocks(img, l, i, mcu)[m + 1] \in BlocksOf(l)
           /\ InComponent(img, l, mcu, i, m + 1) =
                Append(InComponent(img, l, mcu, i, m), ComponentBlocks(img, l, i, mcu)[m + 1])
           /\ m + 1 = l.factors[i][1] * l.factors[i][2] =>
                InComponent(img, l, mcu, i, m + 1) = ComponentBlocks(img, l, i, mcu)
<1>1. PICK s \in Seq(BlocksOf(l)) : s = ComponentBlocks(img, l, i, mcu)
  BY ComponentBlocksType
<1>2. PICK n \in Nat : n = l.factors[i][1] * l.factors[i][2] /\ n = Len(s)
  BY <1>1, ComponentBlocksType
<1>3. m \in 0..Len(s) /\ m + 1 \in 0..Len(s) /\ m + 1 \in 1..Len(s)
  BY <1>2
<1>4. PICK u : u = SubSeq(s, 1, m)
  OBVIOUS
<1>5. PICK v : v = SubSeq(s, 1, m + 1)
  OBVIOUS
<1>6. u \in Seq(BlocksOf(l)) /\ Len(u) = m /\ \A j \in 1..m : u[j] = s[j]
  BY <1>3, <1>4, FirstOnes
<1>7. v \in Seq(BlocksOf(l)) /\ Len(v) = m + 1 /\ \A j \in 1..(m + 1) : v[j] = s[j]
  BY <1>3, <1>5, FirstOnes
<1>8. PICK b \in BlocksOf(l) : b = s[m + 1]
  BY <1>3, ElementOfSeq
<1>9. PICK a \in Seq(BlocksOf(l)) : a = Append(u, b)
  BY <1>6, AppendProperties
<1>10. Len(a) = m + 1 /\ a[m + 1] = b /\ \A j \in 1..m : a[j] = u[j]
  BY <1>6, <1>9, AppendProperties
<1>11. \A j \in 1..(m + 1) : a[j] = v[j]
  <2>1. \A j \in 1..(m + 1) : j = m + 1 \/ j \in 1..m
    OBVIOUS
  <2> QED
    BY <2>1, <1>6, <1>7, <1>8, <1>10
<1>12. v = a
  BY <1>7, <1>10, <1>11, SeqEqual
<1>13. ASSUME m + 1 = n
       PROVE  v = s
  BY <1>2, <1>7, <1>13, SeqEqual
<1> QED
  BY <1>1, <1>2, <1>4, <1>5, <1>6, <1>8, <1>9, <1>12, <1>13 DEF InComponent

\* The blocks of the first m MCUs of an interval.
LEMMA MCUSeqs ==
    ASSUME NEW l \in Layouts, NEW img \in Image(l), NEW k \in Nat, NEW m \in Nat,
           k * Interval(l) + m <= MCUs(l)
    PROVE  /\ [j \in 1..m |-> MCUBlocks(img, l, k * Interval(l) + j - 1)] \in Seq(Seq(BlocksOf(l)))
           /\ Len([j \in 1..m |-> MCUBlocks(img, l, k * Interval(l) + j - 1)]) = m
<1>1. PICK a \in Nat : a = k * Interval(l)
  BY MCUsType
<1>2. MCUs(l) \in Nat /\ Len(l.factors) \in Nat
  BY MCUsType, LayoutParts
<1>3. ASSUME NEW j \in 1..m
      PROVE  MCUBlocks(img, l, a + j - 1) \in Seq(BlocksOf(l))
  <2>1. a + j - 1 \in 0..(MCUs(l) - 1) /\ Len(l.factors) \in 0..Len(l.factors)
    BY <1>1, <1>2
  <2>2. WholeComponents(img, l, a + j - 1, Len(l.factors)) \in Seq(BlocksOf(l))
    BY <2>1, WholeComponentsType
  <2> QED
    BY <2>2, MCUIsComponents
<1>4. /\ [j \in 1..m |-> MCUBlocks(img, l, a + j - 1)] \in Seq(Seq(BlocksOf(l)))
      /\ Len([j \in 1..m |-> MCUBlocks(img, l, a + j - 1)]) = m
  BY <1>3
<1> QED
  BY <1>1, <1>4, Zenon

\* Their concatenation is a list of blocks.
LEMMA WholeMCUsType ==
    ASSUME NEW l \in Layouts, NEW img \in Image(l), NEW k \in Nat, NEW m \in Nat,
           k * Interval(l) + m <= MCUs(l)
    PROVE  WholeMCUs(img, l, k, m) \in Seq(BlocksOf(l))
  BY MCUSeqs, FlattenType DEF WholeMCUs

\* One more MCU.
LEMMA WholeMCUsMore ==
    ASSUME NEW l \in Layouts, NEW img \in Image(l), NEW k \in Nat, NEW m \in Nat,
           k * Interval(l) + m < MCUs(l)
    PROVE  WholeMCUs(img, l, k, m + 1) =
               WholeMCUs(img, l, k, m) \o MCUBlocks(img, l, k * Interval(l) + m)
<1>a. PICK a \in Nat : a = k * Interval(l)
  BY MCUsType
<1>b. MCUs(l) \in Nat
  BY MCUsType
<1>1. PICK s : s = [j \in 1..m |-> MCUBlocks(img, l, a + j - 1)]
  OBVIOUS
<1>2. PICK t : t = [j \in 1..(m + 1) |-> MCUBlocks(img, l, a + j - 1)]
  OBVIOUS
<1>3. k * Interval(l) + m <= MCUs(l) /\ k * Interval(l) + (m + 1) <= MCUs(l) /\ m + 1 \in Nat
  BY <1>a, <1>b
<1>4. s \in Seq(Seq(BlocksOf(l))) /\ Len(s) = m
  BY <1>1, <1>3, <1>a, MCUSeqs
<1>5. t \in Seq(Seq(BlocksOf(l))) /\ Len(t) = m + 1
  BY <1>2, <1>3, <1>a, MCUSeqs
<1>6. \A i \in 1..m : t[i] = s[i]
  BY <1>1, <1>2
<1>7. t[m + 1] = MCUBlocks(img, l, a + m)
  <2>1. m + 1 \in 1..(m + 1) /\ a + (m + 1) - 1 = a + m
    OBVIOUS
  <2> QED
    BY <1>2, <2>1
<1>8. FlattenSeq(t) = FlattenSeq(s) \o t[m + 1]
  BY <1>4, <1>5, <1>6, FlattenMore
<1> QED
  BY <1>1, <1>2, <1>7, <1>8, <1>a, Zenon DEF WholeMCUs

\* Fewer MCUs begin more of them.
LEMMA WholeMCUsBegin ==
    ASSUME NEW l \in Layouts, NEW img \in Image(l), NEW k \in Nat, NEW m \in Nat, NEW n \in Nat,
           m <= n, k * Interval(l) + n <= MCUs(l)
    PROVE  Begins(BlocksOf(l), WholeMCUs(img, l, k, m), WholeMCUs(img, l, k, n))
<1>a. PICK a \in Nat : a = k * Interval(l)
  BY MCUsType
<1>b. MCUs(l) \in Nat
  BY MCUsType
<1>1. PICK s : s = [j \in 1..m |-> MCUBlocks(img, l, a + j - 1)]
  OBVIOUS
<1>2. PICK t : t = [j \in 1..n |-> MCUBlocks(img, l, a + j - 1)]
  OBVIOUS
<1>3. k * Interval(l) + m <= MCUs(l)
  BY <1>a, <1>b
<1>4. s \in Seq(Seq(BlocksOf(l))) /\ Len(s) = m
  BY <1>1, <1>3, <1>a, MCUSeqs
<1>5. t \in Seq(Seq(BlocksOf(l))) /\ Len(t) = n
  BY <1>2, <1>a, MCUSeqs
<1>6. \A i \in 1..m : t[i] = s[i]
  BY <1>1, <1>2
<1>7. Begins(BlocksOf(l), FlattenSeq(s), FlattenSeq(t))
  BY <1>4, <1>5, <1>6, FlattenBegins
<1> QED
  BY <1>1, <1>2, <1>7, <1>a, Zenon DEF WholeMCUs

\* No MCU, no block.
LEMMA NoMCUs == \A img, l, k : WholeMCUs(img, l, k, 0) = <<>>
<1> SUFFICES ASSUME NEW img, NEW l, NEW k PROVE WholeMCUs(img, l, k, 0) = <<>>
  OBVIOUS
<1>1. [j \in 1..0 |-> MCUBlocks(img, l, k * Interval(l) + j - 1)] = <<>>
  OBVIOUS
<1> QED
  BY <1>1, FlattenEmpty DEF WholeMCUs

(***************************************************************************)
(* What is coded of interval k + 1 when m MCUs are, and of the next one    *)
(* the components before i and of that j blocks.                           *)
(***************************************************************************)
CodedList(img, l, k, m, i, j) ==
    (WholeMCUs(img, l, k, m) \o WholeComponents(img, l, k * Interval(l) + m, i - 1))
    \o InComponent(img, l, k * Interval(l) + m, i, j)

\* Before the first block of an MCU, the MCUs before it are coded.
LEMMA WholeMCUsOnly ==
    ASSUME NEW l \in Layouts, NEW img \in Image(l), NEW k \in Nat, NEW m \in Nat,
           k * Interval(l) + m <= MCUs(l)
    PROVE  CodedList(img, l, k, m, 1, 0) = WholeMCUs(img, l, k, m)
<1>1. PICK s \in Seq(BlocksOf(l)) : s = WholeMCUs(img, l, k, m)
  BY WholeMCUsType
<1>2. s \o <<>> = s
  BY ConcatEmptySeq
<1>3. WholeComponents(img, l, k * Interval(l) + m, 1 - 1) = <<>>
  <2>1. 1 - 1 = 0
    OBVIOUS
  <2> QED
    BY <2>1, NoComponents
<1>4. InComponent(img, l, k * Interval(l) + m, 1, 0) = <<>>
  BY NoneInComponent
<1> QED
  BY <1>1, <1>2, <1>3, <1>4, Zenon DEF CodedList

\* Concatenation of blocks is associative, behind a name.
LEMMA BlocksDoAssociate ==
    \A l : \A a, b, c \in Seq(BlocksOf(l)) : Associates(a, b, c)
<1> SUFFICES ASSUME NEW l, NEW a \in Seq(BlocksOf(l)), NEW b \in Seq(BlocksOf(l)),
                    NEW c \in Seq(BlocksOf(l))
             PROVE  Associates(a, b, c)
  OBVIOUS
<1> QED
  BY ConcatAssociative DEF Associates

\* Appending is concatenating.
LEMMA AppendBehind ==
    ASSUME NEW S, NEW s \in Seq(S), NEW t \in Seq(S), NEW b \in S
    PROVE  s \o Append(t, b) = Append(s \o t, b)
<1>1. <<b>> \in Seq(S)
  OBVIOUS
<1>2. PICK e \in Seq(S) : e = <<b>>
  BY <1>1
<1>3. Append(t, b) = t \o e
  BY <1>2, AppendIsConcat
<1>4. PICK u \in Seq(S) : u = s \o t
  BY ConcatProperties
<1>5. Append(u, b) = u \o e
  BY <1>2, AppendIsConcat
<1>6. (s \o t) \o e = s \o (t \o e)
  BY ConcatAssociative
<1> QED
  BY <1>3, <1>4, <1>5, <1>6, Zenon

\* One more block of component i of MCU m: it is appended to the list of the
\* coded blocks.
LEMMA CodedListMore ==
    ASSUME NEW l \in Layouts, NEW img \in Image(l), NEW k \in Nat, NEW m \in Nat,
           k * Interval(l) + m < MCUs(l), NEW i \in DOMAIN l.factors, NEW j \in Nat,
           j < l.factors[i][1] * l.factors[i][2]
    PROVE  LET b == ComponentBlocks(img, l, i, k * Interval(l) + m)[j + 1]
           IN  /\ CodedList(img, l, k, m, i, j) \in Seq(BlocksOf(l)) /\ b \in BlocksOf(l)
               /\ CodedList(img, l, k, m, i, j + 1) = Append(CodedList(img, l, k, m, i, j), b)
               /\ j + 1 = l.factors[i][1] * l.factors[i][2] =>
                    CodedList(img, l, k, m, i, j + 1) =
                      IF i < Len(l.factors) THEN CodedList(img, l, k, m, i + 1, 0)
                      ELSE CodedList(img, l, k, m + 1, 1, 0)
<1>a. PICK a \in Nat : a = k * Interval(l)
  BY MCUsType
<1>b. MCUs(l) \in Nat /\ Len(l.factors) \in Nat /\ i \in 1..Len(l.factors)
  BY MCUsType, LayoutParts, SMTT(20)
<1>1. PICK mcu \in 0..(MCUs(l) - 1) : mcu = k * Interval(l) + m
  BY <1>a, <1>b
<1>2. PICK B : B = BlocksOf(l)
  OBVIOUS
<1>3. PICK ws \in Seq(B) : ws = WholeMCUs(img, l, k, m)
  <2>1. k * Interval(l) + m <= MCUs(l)
    BY <1>a, <1>b
  <2> QED
    BY <1>2, <2>1, WholeMCUsType
<1>4. i - 1 \in 0..Len(l.factors) /\ (i + 1) - 1 = i /\ i \in 0..Len(l.factors)
  BY <1>b, SMTT(20)
<1>5. PICK cs \in Seq(B) : cs = WholeComponents(img, l, mcu, i - 1)
  BY <1>2, <1>4, WholeComponentsType
<1>6. PICK u \in Seq(B) : u = InComponent(img, l, mcu, i, j)
  BY <1>2, InComponentMore
<1>7. PICK b \in B : b = ComponentBlocks(img, l, i, mcu)[j + 1]
  BY <1>2, InComponentMore
<1>8. InComponent(img, l, mcu, i, j + 1) = Append(u, b)
  BY <1>6, <1>7, InComponentMore
<1>9. PICK p \in Seq(B) : p = ws \o cs
  BY ConcatProperties
<1>10. PICK q \in Seq(B) : q = p \o u
  BY ConcatProperties
<1>11. CodedList(img, l, k, m, i, j) = q
  BY <1>1, <1>3, <1>5, <1>6, <1>9, <1>10, Zenon DEF CodedList
<1>12. p \o Append(u, b) = Append(q, b)
  BY <1>10, AppendBehind, SMTT(20)
<1>13. CodedList(img, l, k, m, i, j + 1) = p \o Append(u, b)
  BY <1>1, <1>3, <1>5, <1>8, <1>9, Zenon DEF CodedList
<1>14. ASSUME j + 1 = l.factors[i][1] * l.factors[i][2]
       PROVE  CodedList(img, l, k, m, i, j + 1) =
                IF i < Len(l.factors) THEN CodedList(img, l, k, m, i + 1, 0)
                ELSE CodedList(img, l, k, m + 1, 1, 0)
  <2>1. PICK c \in Seq(B) : c = ComponentBlocks(img, l, i, mcu)
    BY <1>2, ComponentBlocksType
  <2>2. Append(u, b) = c
    BY <1>8, <1>14, <2>1, InComponentMore
  <2>3. PICK d \in Seq(B) : d = cs \o c
    BY ConcatProperties
  <2>4. WholeComponents(img, l, mcu, i) = d
    BY <1>b, <1>5, <2>1, <2>3, WholeComponentsMore
  <2>5. p \o c = ws \o d
    <3>1. Associates(ws, cs, c)
      BY <1>2, BlocksDoAssociate, Zenon
    <3> QED
      BY <3>1, <1>9, <2>3, Zenon DEF Associates
  <2>6. CASE i < Len(l.factors)
    <3>1. PICK x \in Seq(B) : x = ws \o d
      BY ConcatProperties
    <3>2. x \o <<>> = x
      BY ConcatEmptySeq
    <3>3. InComponent(img, l, mcu, i + 1, 0) = <<>>
      BY NoneInComponent
    <3>4. CodedList(img, l, k, m, i + 1, 0) = (ws \o d) \o <<>>
      BY <3>3, <1>1, <1>3, <1>4, <2>4, Zenon DEF CodedList
    <3> QED
      BY <3>1, <3>2, <3>4, <2>2, <2>5, <2>6, <1>13, Zenon
  <2>7. CASE ~(i < Len(l.factors))
    <3>1. i = Len(l.factors)
      BY <1>b, <2>7, SMTT(20)
    <3>2. MCUBlocks(img, l, mcu) = d
      BY <3>1, <2>4, MCUIsComponents
    <3>3. WholeMCUs(img, l, k, m + 1) = ws \o d
      BY <3>2, <1>1, <1>3, WholeMCUsMore
    <3>4. k * Interval(l) + (m + 1) <= MCUs(l) /\ m + 1 \in Nat
      BY <1>a, <1>b, SMTT(20)
    <3>5. CodedList(img, l, k, m + 1, 1, 0) = ws \o d
      BY <3>3, <3>4, WholeMCUsOnly
    <3> QED
      BY <3>5, <2>2, <2>5, <2>7, <1>13, Zenon
  <2> QED
    BY <2>6, <2>7
<1> QED
  BY <1>1, <1>2, <1>7, <1>11, <1>12, <1>13, <1>14, Zenon

\* The first elements of a sequence begin it.
LEMMA FirstOnesBegin ==
    ASSUME NEW S, NEW s \in Seq(S), NEW j \in 0..Len(s)
    PROVE  Begins(S, SubSeq(s, 1, j), s)
<1>1. PICK n \in Nat : n = Len(s)
  OBVIOUS
<1>2. PICK u : u = SubSeq(s, 1, j)
  OBVIOUS
<1>3. PICK r : r = SubSeq(s, j + 1, n)
  OBVIOUS
<1>4. u \in Seq(S) /\ Len(u) = j /\ \A i \in 1..j : u[i] = s[i]
  BY <1>2, FirstOnes
<1>5. \A i \in (j + 1)..n : s[i] \in S
  <2>1. \A i \in (j + 1)..n : i \in 1..Len(s)
    BY <1>1
  <2> QED
    BY <2>1, ElementOfSeq
<1>6. r \in Seq(S) /\ \A i \in 1..(n - (j + 1) + 1) : r[i] = s[(j + 1) + i - 1]
  BY <1>1, <1>3, <1>5, SubSeqProperties
<1>7. Len(r) = n - j
  <2>1. Len(r) = IF j + 1 <= n THEN n - (j + 1) + 1 ELSE 0
    BY <1>1, <1>3, <1>5, SubSeqProperties
  <2> QED
    BY <2>1, <1>1
<1>8. \A i \in 1..(n - j) : r[i] = s[j + i]
  <2>1. \A i \in 1..(n - j) : i \in 1..(n - (j + 1) + 1) /\ (j + 1) + i - 1 = j + i
    BY <1>1
  <2> QED
    BY <2>1, <1>6
<1>9. PICK t : t = u \o r
  OBVIOUS
<1>c. j \in 0..n /\ n - j \in Nat
  BY <1>1
<1>d. PICK d \in Nat : d = n - j
  BY <1>c
<1>e. j + d = n
  BY <1>c, <1>d
<1>10. /\ t \in Seq(S) /\ Len(t) = j + d
       /\ \A i \in 1..(j + d) : t[i] = IF i <= j THEN u[i] ELSE r[i - j]
  <2>1. Len(r) = d /\ r \in Seq(S)
    BY <1>6, <1>7, <1>d
  <2> QED
    BY <2>1, <1>4, <1>9, ConcatProperties
<1>11. Len(t) = n
  BY <1>c, <1>d, <1>e, <1>10
<1>12. ASSUME NEW i \in 1..n
       PROVE  t[i] = s[i]
  <2>1. t[i] = IF i <= j THEN u[i] ELSE r[i - j]
    BY <1>c, <1>d, <1>e, <1>10
  <2>2. CASE i <= j
    BY <2>1, <2>2, <1>4
  <2>3. CASE i > j
    <3>1. i - j \in 1..(n - j) /\ j + (i - j) = i /\ ~(i <= j)
      BY <1>1, <2>3
    <3> QED
      BY <3>1, <2>1, <1>8
  <2> QED
    BY <2>2, <2>3
<1>13. t = s
  BY <1>1, <1>10, <1>11, <1>12, SeqEqual
<1>14. Begins(S, u, u \o r)
  BY <1>4, <1>6, BeginsWithPart, Zenon
<1> QED
  BY <1>2, <1>9, <1>13, <1>14

\* The first components begin the MCU.
LEMMA WholeComponentsBegin ==
    ASSUME NEW l \in Layouts, NEW img \in Image(l), NEW mcu \in 0..(MCUs(l) - 1),
           NEW m \in 0..Len(l.factors)
    PROVE  Begins(BlocksOf(l), WholeComponents(img, l, mcu, m), MCUBlocks(img, l, mcu))
<1>0. PICK n \in Nat : n = Len(l.factors) /\ n \in 0..Len(l.factors)
  BY LayoutParts
<1>1. PICK s : s = [i \in 1..m |-> ComponentBlocks(img, l, i, mcu)]
  OBVIOUS
<1>2. PICK t : t = [i \in 1..n |-> ComponentBlocks(img, l, i, mcu)]
  OBVIOUS
<1>3. s \in Seq(Seq(BlocksOf(l))) /\ Len(s) = m
  BY <1>1, ComponentSeqs
<1>4. t \in Seq(Seq(BlocksOf(l))) /\ Len(t) = n
  BY <1>0, <1>2, ComponentSeqs
<1>5. m <= n /\ m \in Nat
  BY <1>0
<1>6. \A i \in 1..m : t[i] = s[i]
  BY <1>1, <1>2, <1>5
<1>7. Begins(BlocksOf(l), FlattenSeq(s), FlattenSeq(t))
  BY <1>3, <1>4, <1>5, <1>6, FlattenBegins
<1>8. MCUBlocks(img, l, mcu) = FlattenSeq(t)
  BY <1>0, <1>2, MCUIsComponents DEF WholeComponents
<1> QED
  BY <1>1, <1>7, <1>8, Zenon DEF WholeComponents

\* The blocks before a place of MCU m begin those of the MCUs up to m.
LEMMA CodedListBegins ==
    ASSUME NEW l \in Layouts, NEW img \in Image(l), NEW k \in Nat, NEW m \in Nat,
           k * Interval(l) + m < MCUs(l), NEW i \in DOMAIN l.factors, NEW j \in Nat,
           j <= l.factors[i][1] * l.factors[i][2]
    PROVE  /\ CodedList(img, l, k, m, i, j) \in Seq(BlocksOf(l))
           /\ Begins(BlocksOf(l), CodedList(img, l, k, m, i, j), WholeMCUs(img, l, k, m + 1))
<1>a. PICK a \in Nat : a = k * Interval(l)
  BY MCUsType
<1>b. MCUs(l) \in Nat /\ Len(l.factors) \in Nat /\ i \in 1..Len(l.factors)
  BY MCUsType, LayoutParts
<1>1. PICK mcu \in 0..(MCUs(l) - 1) : mcu = k * Interval(l) + m
  BY <1>a, <1>b
<1>2. PICK B : B = BlocksOf(l)
  OBVIOUS
<1>3. PICK ws \in Seq(B) : ws = WholeMCUs(img, l, k, m)
  <2>1. k * Interval(l) + m <= MCUs(l)
    BY <1>a, <1>b
  <2> QED
    BY <1>2, <2>1, WholeMCUsType
<1>4. i - 1 \in 0..Len(l.factors) /\ i \in 0..Len(l.factors)
  BY <1>b, SMTT(20)
<1>5. PICK cs \in Seq(B) : cs = WholeComponents(img, l, mcu, i - 1)
  BY <1>2, <1>4, WholeComponentsType
<1>6. PICK c \in Seq(B) : c = ComponentBlocks(img, l, i, mcu)
  BY <1>2, ComponentBlocksType
<1>7. j \in 0..Len(c)
  BY <1>6, ComponentBlocksType
<1>8. PICK u : u = SubSeq(c, 1, j)
  OBVIOUS
<1>9. u \in Seq(B) /\ Begins(B, u, c)
  BY <1>7, <1>8, FirstOnes, FirstOnesBegin
<1>10. InComponent(img, l, mcu, i, j) = u
  BY <1>6, <1>8 DEF InComponent
<1>11. PICK csu \in Seq(B) : csu = cs \o u
  BY <1>9, ConcatProperties
<1>12. PICK csc \in Seq(B) : csc = cs \o c
  BY ConcatProperties
<1>13. Begins(B, csu, csc)
  BY <1>9, <1>11, <1>12, BeginsBehind, Zenon
<1>14. csc = WholeComponents(img, l, mcu, i)
  BY <1>b, <1>5, <1>6, <1>12, WholeComponentsMore
<1>15. PICK all \in Seq(B) : all = MCUBlocks(img, l, mcu)
  <2>1. Len(l.factors) \in 0..Len(l.factors)
    BY <1>b
  <2>2. WholeComponents(img, l, mcu, Len(l.factors)) \in Seq(B)
    BY <2>1, <1>2, WholeComponentsType
  <2> QED
    BY <2>2, MCUIsComponents
<1>16. Begins(B, csc, all)
  BY <1>2, <1>4, <1>14, <1>15, WholeComponentsBegin
<1>17. Begins(B, csu, all)
  BY <1>13, <1>16, BeginsThrough, Zenon
<1>18. Begins(B, ws \o csu, ws \o all)
  BY <1>17, BeginsBehind, Zenon
<1>19. WholeMCUs(img, l, k, m + 1) = ws \o all
  BY <1>1, <1>3, <1>15, WholeMCUsMore
<1>20. CodedList(img, l, k, m, i, j) = ws \o csu
  <2>1. Associates(ws, cs, u)
    BY <1>2, <1>9, BlocksDoAssociate, Zenon
  <2>2. (ws \o cs) \o u = ws \o csu
    BY <2>1, <1>11, Zenon DEF Associates
  <2> QED
    BY <2>2, <1>1, <1>3, <1>5, <1>10, Zenon DEF CodedList
<1>21. ws \o csu \in Seq(B)
  BY ConcatProperties
<1> QED
  BY <1>2, <1>18, <1>19, <1>20, <1>21, Zenon

(***************************************************************************)
(* Intervals.                                                              *)
(***************************************************************************)
Size(l, k) == Lesser(Interval(l), MCUs(l) - k * Interval(l))

\* Where interval k + 1 starts and how many MCUs it has: all but the last
\* have the full number.
LEMMA IntervalFacts ==
    ASSUME NEW l \in Layouts, NEW k \in Nat, k < Intervals(l)
    PROVE  /\ Size(l, k) \in Nat \ {0} /\ k * Interval(l) + Size(l, k) <= MCUs(l)
           /\ Size(l, k) <= Interval(l) /\ k * Interval(l) \in Nat
           /\ k + 1 < Intervals(l) => Size(l, k) = Interval(l) /\ (k + 1) * Interval(l) < MCUs(l)
           /\ k + 1 = Intervals(l) => k * Interval(l) + Size(l, k) = MCUs(l)
           /\ Intervals(l) \in Nat
<1>1. PICK d \in Nat \ {0} : d = Interval(l)
  BY MCUsType
<1>2. PICK n \in Nat \ {0} : n = MCUs(l)
  BY MCUsType
<1>3. n + d - 1 \in Nat
  OBVIOUS
<1>4. PICK q \in Nat : q = (n + d - 1) \div d
  BY <1>3, DivNat
<1>5. Intervals(l) = q
  BY <1>1, <1>2, <1>4 DEF Intervals
<1>6. d * q <= n + d - 1 /\ n + d - 1 < d * q + d
  BY <1>3, <1>4, DivMod
<1>7. PICK dq \in Nat : dq = q * d /\ dq <= n + d - 1 /\ n <= dq
  <2>1. d * q = q * d /\ q * d \in Nat
    OBVIOUS
  <2> QED
    BY <2>1, <1>6
<1>8. PICK kd \in Nat : kd = k * d
  OBVIOUS
<1>9. kd + d <= dq
  BY <1>5, <1>7, <1>8, LessTimes
<1>10. kd + 1 <= n
  BY <1>7, <1>9
<1>11. Size(l, k) = IF d < n - kd THEN d ELSE n - kd
  BY <1>1, <1>2, <1>8, Zenon DEF Size, Lesser
<1>12. ASSUME k + 1 < q
       PROVE  kd + d < n /\ (k + 1) * d = kd + d
  <2>1. (k + 1) * d + d <= q * d
    BY <1>12, LessTimes
  <2>2. (k + 1) * d = kd + d
    BY <1>8
  <2> QED
    BY <2>1, <2>2, <1>7
<1>13. ASSUME k + 1 = q
       PROVE  n <= kd + d
  <2>1. q * d = k * d + d
    BY <1>13
  <2> QED
    BY <2>1, <1>7, <1>8
<1>14. PICK z : z = Size(l, k)
  OBVIOUS
<1>15. z \in Nat \ {0} /\ kd + z <= n /\ z <= d
  BY <1>10, <1>11, <1>14
<1>16. k + 1 < q => z = d
  BY <1>11, <1>12, <1>14
<1>17. k + 1 = q => kd + z = n
  BY <1>10, <1>11, <1>13, <1>14
<1> QED
  BY <1>1, <1>2, <1>5, <1>8, <1>12, <1>14, <1>15, <1>16, <1>17

\* There is an interval, and only one when there are no restart markers.
LEMMA SomeInterval ==
    ASSUME NEW l \in Layouts
    PROVE  /\ Intervals(l) \in Nat \ {0}
           /\ l.interval = 0 => Intervals(l) = 1
<1>1. PICK d \in Nat \ {0} : d = Interval(l)
  BY MCUsType
<1>2. PICK n \in Nat \ {0} : n = MCUs(l)
  BY MCUsType
<1>3. n + d - 1 \in Nat
  OBVIOUS
<1>4. PICK q \in Nat : q = (n + d - 1) \div d
  BY <1>3, DivNat
<1>5. Intervals(l) = q
  BY <1>1, <1>2, <1>4 DEF Intervals
<1>6. d * q <= n + d - 1 /\ n + d - 1 < d * q + d
  BY <1>3, <1>4, DivMod
<1>7. q # 0
  BY <1>6
<1>8. ASSUME d = n
      PROVE  q = 1
  <2>1. PICK dq \in Nat : dq = d * q /\ dq <= n + d - 1
    BY <1>6
  <2>2. SUFFICES ASSUME q >= 2 PROVE FALSE
    BY <1>7
  <2>3. d * 2 <= d * q
    BY <2>2, TimesMonotone
  <2>4. d * 2 = d + d
    OBVIOUS
  <2> QED
    BY <2>1, <2>3, <2>4, <1>8
<1> QED
  BY <1>1, <1>2, <1>5, <1>7, <1>8, MCUsType

\* The blocks of interval k + 1.
LEMMA IntervalIs ==
    ASSUME NEW l \in Layouts, NEW img \in Image(l), NEW k \in Nat, k < Intervals(l)
    PROVE  /\ IntervalBlocks(img, l, k + 1) = WholeMCUs(img, l, k, Size(l, k))
           /\ IntervalBlocks(img, l, k + 1) \in Seq(BlocksOf(l))
           /\ IntervalBits(IntervalBlocks(img, l, k + 1)) \in Seq(Bit)
<1>1. (k + 1) - 1 = k
  OBVIOUS
<1>2. IntervalBlocks(img, l, k + 1) = WholeMCUs(img, l, k, Size(l, k))
  BY <1>1, Zenon DEF IntervalBlocks, WholeMCUs, Size
<1>3. Size(l, k) \in Nat /\ k * Interval(l) + Size(l, k) <= MCUs(l)
  BY IntervalFacts
<1>4. WholeMCUs(img, l, k, Size(l, k)) \in Seq(BlocksOf(l))
  BY <1>3, WholeMCUsType
<1> QED
  BY <1>2, <1>4, IntervalBitsType

\* The stuffed bytes of bits.
LEMMA StuffedType ==
    ASSUME NEW bits \in Seq(Bit)
    PROVE  /\ Len(Padded(bits)) \div 8 \in Nat
           /\ Stuffed(bits) = Bytes(Padded(bits), Len(Padded(bits)) \div 8)
           /\ Stuffed(bits) \in Seq(Int)
<1>1. PICK p \in Seq(Bit) : p = Padded(bits)
  BY PaddedType
<1>2. PICK n \in Nat : n = Len(p) \div 8
  OBVIOUS
<1>3. 8 * n = Len(p)
  BY <1>1, <1>2, PaddedType
<1>4. Bytes(p, n) \in Seq(Int)
  BY <1>3, BytesType
<1>5. Stuffed(bits) = Bytes(p, n)
  BY <1>1, <1>2, Zenon DEF Stuffed, Bytes
<1> QED
  BY <1>1, <1>2, <1>4, <1>5

\* The marker before an interval: none before the first, RST0..RST7 in turn
\* before the others.
LEMMA MarkerType ==
    ASSUME NEW n \in Nat \ {0}
    PROVE  /\ MarkerBefore(n) \in Seq(Int)
           /\ MarkerBefore(1) = <<>>
           /\ n # 1 => MarkerBefore(n) = <<255, 208 + ((n - 2) % 8)>>
<1>1. PICK x \in Int : x = 208 + ((n - 2) % 8)
  OBVIOUS
<1>2. <<255, x>> \in Seq(Int) /\ <<>> \in Seq(Int)
  OBVIOUS
<1> QED
  BY <1>1, <1>2, Zenon DEF MarkerBefore

\* An interval with what is before it, and those that are done.
Part(img, l, n) == MarkerBefore(n) \o Stuffed(IntervalBits(IntervalBlocks(img, l, n)))
DoneParts(img, l, k) == FlattenSeq([n \in 1..k |-> Part(img, l, n)])
IntervalOf(img, l, k) == IntervalBits(IntervalBlocks(img, l, k + 1))
HeadOf(img, l, k) == DoneParts(img, l, k) \o MarkerBefore(k + 1)

\* The bytes of the first k intervals, each behind its marker.
LEMMA PartSeqs ==
    ASSUME NEW l \in Layouts, NEW img \in Image(l), NEW k \in Nat, k <= Intervals(l)
    PROVE  /\ [n \in 1..k |-> Part(img, l, n)] \in Seq(Seq(Int))
           /\ Len([n \in 1..k |-> Part(img, l, n)]) = k
<1>0. Intervals(l) \in Nat
  BY SomeInterval
<1>1. ASSUME NEW n \in 1..k
      PROVE  Part(img, l, n) \in Seq(Int)
  <2>1. n - 1 \in Nat /\ n - 1 < Intervals(l) /\ (n - 1) + 1 = n /\ n \in Nat \ {0}
    BY <1>0
  <2>2. IntervalBits(IntervalBlocks(img, l, (n - 1) + 1)) \in Seq(Bit)
    BY <2>1, IntervalIs
  <2>3. Stuffed(IntervalBits(IntervalBlocks(img, l, n))) \in Seq(Int)
    BY <2>1, <2>2, StuffedType
  <2> QED
    BY <2>1, <2>3, MarkerType, ConcatProperties DEF Part
<1> QED
  BY <1>1

\* The first k intervals, and what is delivered before the bits of interval
\* k + 1.
LEMMA DoneType ==
    ASSUME NEW l \in Layouts, NEW img \in Image(l), NEW k \in Nat, k <= Intervals(l)
    PROVE  DoneParts(img, l, k) \in Seq(Int) /\ HeadOf(img, l, k) \in Seq(Int)
<1>1. DoneParts(img, l, k) \in Seq(Int)
  BY PartSeqs, FlattenType DEF DoneParts
<1>2. MarkerBefore(k + 1) \in Seq(Int)
  BY MarkerType
<1> QED
  BY <1>1, <1>2, ConcatProperties DEF HeadOf

\* One more interval.
LEMMA DoneMore ==
    ASSUME NEW l \in Layouts, NEW img \in Image(l), NEW k \in Nat, k < Intervals(l)
    PROVE  DoneParts(img, l, k + 1) = HeadOf(img, l, k) \o Stuffed(IntervalOf(img, l, k))
<1>0. Intervals(l) \in Nat
  BY SomeInterval
<1>1. PICK s : s = [n \in 1..k |-> Part(img, l, n)]
  OBVIOUS
<1>2. PICK t : t = [n \in 1..(k + 1) |-> Part(img, l, n)]
  OBVIOUS
<1>3. k <= Intervals(l) /\ k + 1 <= Intervals(l) /\ k + 1 \in Nat
  BY <1>0
<1>4. s \in Seq(Seq(Int)) /\ Len(s) = k
  BY <1>1, <1>3, PartSeqs
<1>5. t \in Seq(Seq(Int)) /\ Len(t) = k + 1
  BY <1>2, <1>3, PartSeqs
<1>6. \A i \in 1..k : t[i] = s[i]
  BY <1>1, <1>2
<1>7. t[k + 1] = Part(img, l, k + 1)
  BY <1>2
<1>8. FlattenSeq(t) = FlattenSeq(s) \o t[k + 1]
  BY <1>4, <1>5, <1>6, FlattenMore
<1>9. PICK d \in Seq(Int) : d = DoneParts(img, l, k)
  BY <1>3, DoneType
<1>10. PICK m \in Seq(Int) : m = MarkerBefore(k + 1)
  BY MarkerType
<1>11. PICK z \in Seq(Int) : z = Stuffed(IntervalOf(img, l, k))
  BY IntervalIs, StuffedType DEF IntervalOf
<1>12. (d \o m) \o z = d \o (m \o z)
  BY BytesAssociate
<1>13. DoneParts(img, l, k + 1) = d \o (m \o z)
  BY <1>1, <1>2, <1>7, <1>8, <1>9, <1>10, <1>11, Zenon DEF DoneParts, Part, IntervalOf
<1> QED
  BY <1>9, <1>10, <1>11, <1>12, <1>13, Zenon DEF HeadOf

\* The first intervals begin the scan, and all of them are the scan.
LEMMA DoneBegins ==
    ASSUME NEW l \in Layouts, NEW img \in Image(l), NEW k \in Nat, k <= Intervals(l)
    PROVE  /\ Begins(Int, DoneParts(img, l, k), TheScan(img, l))
           /\ DoneParts(img, l, Intervals(l)) = TheScan(img, l)
           /\ TheScan(img, l) \in Seq(Int)
<1>0. PICK m \in Nat : m = Intervals(l)
  BY SomeInterval
<1>1. PICK s : s = [n \in 1..k |-> Part(img, l, n)]
  OBVIOUS
<1>2. PICK t : t = [n \in 1..m |-> Part(img, l, n)]
  OBVIOUS
<1>3. s \in Seq(Seq(Int)) /\ Len(s) = k
  BY <1>1, PartSeqs
<1>4. t \in Seq(Seq(Int)) /\ Len(t) = m
  <2>1. m <= Intervals(l)
    BY <1>0
  <2> QED
    BY <1>2, <2>1, PartSeqs
<1>5. k <= m /\ \A i \in 1..k : t[i] = s[i]
  BY <1>0, <1>1, <1>2
<1>6. Begins(Int, FlattenSeq(s), FlattenSeq(t))
  BY <1>3, <1>4, <1>5, FlattenBegins
<1>7. FlattenSeq(t) = TheScan(img, l)
  BY <1>0, <1>2, Zenon DEF TheScan, Part
<1>8. FlattenSeq(t) \in Seq(Int)
  BY <1>4, FlattenType
<1> QED
  BY <1>0, <1>1, <1>2, <1>6, <1>7, <1>8, Zenon DEF DoneParts

\* Before the first interval nothing is delivered.
LEMMA NothingDone ==
    \A img, l : DoneParts(img, l, 0) = <<>> /\ HeadOf(img, l, 0) = <<>>
<1> SUFFICES ASSUME NEW img, NEW l
             PROVE  DoneParts(img, l, 0) = <<>> /\ HeadOf(img, l, 0) = <<>>
  OBVIOUS
<1>1. [n \in 1..0 |-> Part(img, l, n)] = <<>>
  OBVIOUS
<1>2. DoneParts(img, l, 0) = <<>>
  BY <1>1, FlattenEmpty DEF DoneParts
<1>3. MarkerBefore(0 + 1) = <<>>
  BY DEF MarkerBefore
<1>4. <<>> \o <<>> = <<>>
  OBVIOUS
<1> QED
  BY <1>2, <1>3, <1>4, Zenon DEF HeadOf

\* What is written in an interval begins the scan.
LEMMA WrittenBeginsScan ==
    ASSUME NEW l \in Layouts, NEW img \in Image(l), NEW k \in Nat, k < Intervals(l),
           NEW raw \in Seq(Bit), NEW n \in Nat, NEW waiting \in Seq(Bit), NEW owing \in BOOLEAN,
           NEW bytes \in Seq(Int), Begins(Bit, raw, Padded(IntervalOf(img, l, k))),
           Written(HeadOf(img, l, k), raw, n, waiting, owing, bytes)
    PROVE  Begins(Int, bytes, TheScan(img, l))
<1>0. Intervals(l) \in Nat /\ k + 1 <= Intervals(l) /\ k <= Intervals(l) /\ k + 1 \in Nat
  BY SomeInterval
<1>1. PICK bits \in Seq(Bit) : bits = IntervalOf(img, l, k)
  BY IntervalIs DEF IntervalOf
<1>2. PICK full \in Seq(Bit) : full = Padded(bits)
  BY PaddedType
<1>3. PICK m \in Nat : m = Len(full) \div 8
  OBVIOUS
<1>4. 8 * m = Len(full)
  BY <1>2, <1>3, PaddedType
<1>5. n <= m
  <2>1. PICK r \in Seq(Bit) : full = raw \o r
    BY <1>1, <1>2 DEF Begins
  <2>2. PICK a \in Nat : a = Len(raw)
    OBVIOUS
  <2>3. a <= Len(full)
    BY <2>1, <2>2, ConcatProperties
  <2>4. 8 * n <= a
    BY <2>2 DEF Written
  <2> QED
    BY <1>4, <2>3, <2>4
<1>6. PICK head \in Seq(Int) : head = HeadOf(img, l, k)
  BY <1>0, DoneType
<1>7. Begins(Int, bytes, head \o Bytes(full, m))
  <2>1. Begins(Bit, raw, full) /\ 8 * m <= Len(full)
    BY <1>1, <1>2, <1>4
  <2>2. Written(head, raw, n, waiting, owing, bytes)
    BY <1>6
  <2> QED
    BY <2>1, <2>2, <1>5, WrittenBegins
<1>8. DoneParts(img, l, k + 1) = head \o Bytes(full, m)
  <2>1. Stuffed(bits) = Bytes(full, m)
    BY <1>2, <1>3, StuffedType
  <2> QED
    BY <2>1, <1>1, <1>6, DoneMore
<1>9. PICK d \in Seq(Int) : d = DoneParts(img, l, k + 1)
  BY <1>0, DoneType
<1>10. PICK scan \in Seq(Int) : scan = TheScan(img, l)
  BY <1>0, DoneBegins
<1>11. Begins(Int, d, scan)
  BY <1>0, <1>9, <1>10, DoneBegins
<1>12. Begins(Int, bytes, d)
  BY <1>7, <1>8, <1>9
<1>13. Begins(Int, bytes, scan)
  BY <1>11, <1>12, BeginsThrough, Zenon
<1> QED
  BY <1>10, <1>13

\* All of an interval is written.
LEMMA IntervalWritten ==
    ASSUME NEW l \in Layouts, NEW img \in Image(l), NEW k \in Nat, k < Intervals(l),
           NEW n \in Nat, NEW waiting \in Seq(Bit), Len(waiting) = 0, NEW bytes \in Seq(Int),
           Written(HeadOf(img, l, k), Padded(IntervalOf(img, l, k)), n, waiting, FALSE, bytes)
    PROVE  bytes = DoneParts(img, l, k + 1)
<1>0. Intervals(l) \in Nat /\ k <= Intervals(l)
  BY SomeInterval
<1>1. PICK bits \in Seq(Bit) : bits = IntervalOf(img, l, k)
  BY IntervalIs DEF IntervalOf
<1>2. PICK full \in Seq(Bit) : full = Padded(bits)
  BY PaddedType
<1>3. PICK head \in Seq(Int) : head = HeadOf(img, l, k)
  BY <1>0, DoneType
<1>4. Len(full) = 8 * n /\ bytes = head \o Bytes(full, n)
  <2>1. Written(head, full, n, waiting, FALSE, bytes)
    BY <1>1, <1>2, <1>3
  <2>2. Len(full) = 8 * n
    BY <1>2, <2>1 DEF Written
  <2>3. bytes \o <<>> = head \o Bytes(full, n)
    BY <2>1, Zenon DEF Written
  <2> QED
    BY <2>2, <2>3, ConcatEmptySeq
<1>5. Len(full) \div 8 = n
  BY <1>4
<1>6. Stuffed(bits) = Bytes(full, n)
  BY <1>2, <1>5, StuffedType
<1> QED
  BY <1>1, <1>3, <1>4, <1>6, DoneMore

\* The block coded after j blocks of component i in MCU m of interval k + 1.
BlockAt(img, l, k, m, i, j) == ComponentBlocks(img, l, i, k * Interval(l) + m)[j + 1]

\* The writer is at that block: raw are the bits of those before it, and
\* pred are the DC values it predicts from.
AtBlock(img, l, k, m, i, j, raw, pred) ==
    /\ raw = IntervalBits(CodedList(img, l, k, m, i, j))
    /\ pred = [c \in DOMAIN l.factors |-> Predicted(CodedList(img, l, k, m, i, j), c)]

\* It is inside the block, before coefficient pos.
InBlock(img, l, k, m, i, j, pos, raw, pred) ==
    LET list == CodedList(img, l, k, m, i, j)
        b    == BlockAt(img, l, k, m, i, j)
    IN  /\ PartOfBlock(b.c, pos)
        /\ raw = IntervalBits(list) \o CodedPart(b.c, Predicted(list, i), pos)
        /\ pred = [c \in DOMAIN l.factors |-> Predicted(Append(list, b), c)]

\* It is behind the block.
BehindBlock(img, l, k, m, i, j, raw, pred) ==
    LET list == CodedList(img, l, k, m, i, j)
        b    == BlockAt(img, l, k, m, i, j)
    IN  /\ raw = IntervalBits(list) \o BlockBits(b.c, Predicted(list, i))
        /\ pred = [c \in DOMAIN l.factors |-> Predicted(Append(list, b), c)]

\* A place in an interval.
ABlock(img, l, k, m, i, j) ==
    /\ l \in Layouts /\ img \in Image(l) /\ k \in Nat /\ m \in Nat
    /\ k * Interval(l) + m < MCUs(l)
    /\ i \in DOMAIN l.factors /\ j \in Nat /\ j < l.factors[i][1] * l.factors[i][2]

\* A block that is to be coded, and the blocks coded before it.
LEMMA BlockFacts ==
    ASSUME NEW l, NEW img, NEW k, NEW m, NEW i, NEW j, ABlock(img, l, k, m, i, j),
           NEW list, list = CodedList(img, l, k, m, i, j),
           NEW b, b = BlockAt(img, l, k, m, i, j)
    PROVE  /\ l \in Layouts /\ list \in Seq(BlocksOf(l)) /\ b \in BlocksOf(l) /\ b.comp = i
           /\ IntervalBits(list) \in Seq(Bit) /\ b.c \in l.patterns
           /\ Predicted(list, i) \in DCs(l) /\ CodedBlock(b.c)
           /\ EncodedDC(b.c[0] - Predicted(list, i)) \in Seq(Bit)
<1>1. /\ l \in Layouts /\ img \in Image(l) /\ k \in Nat /\ m \in Nat
      /\ k * Interval(l) + m < MCUs(l)
      /\ i \in DOMAIN l.factors /\ j \in Nat /\ j < l.factors[i][1] * l.factors[i][2]
  BY DEF ABlock
<1>2. list \in Seq(BlocksOf(l)) /\ b \in BlocksOf(l)
  BY <1>1, CodedListMore DEF BlockAt
<1>3. b.comp = i /\ b.c \in l.patterns
  <2>1. PICK n \in Nat : n = l.factors[i][1] * l.factors[i][2]
    BY <1>1, LayoutParts, SMTT(20)
  <2>2. j + 1 \in 1..n
    BY <1>1, <2>1
  <2>3. b.comp = i
    BY <2>1, <2>2 DEF BlockAt, ComponentBlocks
  <2>4. b.c \in l.patterns
    BY <1>2 DEF BlocksOf
  <2> QED
    BY <2>3, <2>4
<1>4. IntervalBits(list) \in Seq(Bit)
  BY <1>1, <1>2, IntervalBitsType
<1>5. Predicted(list, i) \in DCs(l)
  BY <1>1, <1>2, PredictedIs
<1>6. CodedBlock(b.c) /\ EncodedDC(b.c[0] - Predicted(list, i)) \in Seq(Bit)
  BY <1>1, <1>3, <1>5, PatternCodes
<1> QED
  BY <1>1, <1>2, <1>3, <1>4, <1>5, <1>6

\* An interval begins with nothing coded and nothing to predict from.
LEMMA AtBegin ==
    ASSUME NEW l \in Layouts, NEW img \in Image(l), NEW k \in Nat, k < Intervals(l)
    PROVE  AtBlock(img, l, k, 0, 1, 0, <<>>, [c \in DOMAIN l.factors |-> 0])
<1>1. k * Interval(l) + 0 <= MCUs(l)
  <2>1. PICK e \in Nat, s \in Nat, t \in Nat : e = k * Interval(l) /\ s = Size(l, k) /\ t = MCUs(l)
    BY IntervalFacts, MCUsType
  <2> QED
    BY <2>1, IntervalFacts
<1>2. CodedList(img, l, k, 0, 1, 0) = <<>>
  <2>1. 0 \in Nat
    OBVIOUS
  <2>2. CodedList(img, l, k, 0, 1, 0) = WholeMCUs(img, l, k, 0)
    BY <1>1, <2>1, WholeMCUsOnly
  <2> QED
    BY <2>2, NoMCUs
<1>3. <<>> = IntervalBits(<<>>)
  BY IntervalBitsNone
<1>4. [c \in DOMAIN l.factors |-> 0] = [c \in DOMAIN l.factors |-> Predicted(<<>>, c)]
  BY PredictedNone
<1> QED
  BY <1>2, <1>3, <1>4, Zenon DEF AtBlock

\* The DC value is coded.
LEMMA AfterDC ==
    ASSUME NEW l, NEW img, NEW k, NEW m, NEW i, NEW j, ABlock(img, l, k, m, i, j),
           NEW raw, NEW pred, AtBlock(img, l, k, m, i, j, raw, pred),
           NEW c, c = BlockAt(img, l, k, m, i, j).c
    PROVE  /\ raw \in Seq(Bit) /\ EncodedDC(c[0] - pred[i]) \in Seq(Bit)
           /\ InBlock(img, l, k, m, i, j, 1, raw \o EncodedDC(c[0] - pred[i]),
                      [pred EXCEPT ![i] = c[0]])
<1>1. PICK list : list = CodedList(img, l, k, m, i, j)
  OBVIOUS
<1>2. PICK b : b = BlockAt(img, l, k, m, i, j)
  OBVIOUS
<1>3. /\ l \in Layouts /\ list \in Seq(BlocksOf(l)) /\ b \in BlocksOf(l) /\ b.comp = i
      /\ IntervalBits(list) \in Seq(Bit) /\ CodedBlock(b.c) /\ b.c = c
      /\ EncodedDC(b.c[0] - Predicted(list, i)) \in Seq(Bit)
  BY <1>1, <1>2, BlockFacts
<1>4. i \in DOMAIN l.factors
  BY DEF ABlock
<1>5. /\ raw = IntervalBits(list)
      /\ pred = [d \in DOMAIN l.factors |-> Predicted(list, d)]
  BY <1>1 DEF AtBlock
<1>6. pred[i] = Predicted(list, i)
  BY <1>4, <1>5
<1>7. CodedPart(c, Predicted(list, i), 1) = EncodedDC(c[0] - Predicted(list, i)) /\ PartOfBlock(c, 1)
  BY <1>3, FirstPart
<1>8. [pred EXCEPT ![i] = c[0]] = [d \in DOMAIN l.factors |-> Predicted(Append(list, b), d)]
  <2>1. \A d : Predicted(Append(list, b), d) = IF i = d THEN c[0] ELSE Predicted(list, d)
    BY <1>3, PredictedAppend
  <2> QED
    BY <1>4, <1>5, <2>1
<1>9. raw \o EncodedDC(c[0] - pred[i]) = IntervalBits(list) \o CodedPart(c, Predicted(list, i), 1)
  BY <1>5, <1>6, <1>7
<1>10. InBlock(img, l, k, m, i, j, 1, raw \o EncodedDC(c[0] - pred[i]), [pred EXCEPT ![i] = c[0]])
  BY <1>1, <1>2, <1>3, <1>7, <1>8, <1>9 DEF InBlock
<1> QED
  BY <1>3, <1>5, <1>6, <1>10

\* Zeros and a value are coded, and the block has more.
LEMMA AfterAC ==
    ASSUME NEW l, NEW img, NEW k, NEW m, NEW i, NEW j, ABlock(img, l, k, m, i, j),
           NEW pos, NEW raw, NEW pred, InBlock(img, l, k, m, i, j, pos, raw, pred),
           NEW c, c = BlockAt(img, l, k, m, i, j).c, pos <= Eob(c),
           NEW s, s = NextStop(c, pos)
    PROVE  /\ raw \in Seq(Bit) /\ EncodedAC(c[s], s - pos) \in Seq(Bit)
           /\ s < LastCoeff =>
                InBlock(img, l, k, m, i, j, s + 1, raw \o EncodedAC(c[s], s - pos), pred)
           /\ s = LastCoeff =>
                BehindBlock(img, l, k, m, i, j, raw \o EncodedAC(c[s], s - pos), pred)
<1>1. PICK list : list = CodedList(img, l, k, m, i, j)
  OBVIOUS
<1>2. PICK b : b = BlockAt(img, l, k, m, i, j)
  OBVIOUS
<1>3. /\ IntervalBits(list) \in Seq(Bit) /\ CodedBlock(c) /\ b.c = c
      /\ EncodedDC(c[0] - Predicted(list, i)) \in Seq(Bit)
  BY <1>1, <1>2, BlockFacts
<1>4. /\ PartOfBlock(c, pos)
      /\ raw = IntervalBits(list) \o CodedPart(c, Predicted(list, i), pos)
      /\ pred = [d \in DOMAIN l.factors |-> Predicted(Append(list, b), d)]
  BY <1>1, <1>2, <1>3 DEF InBlock
<1>5. PICK p : p = CodedPart(c, Predicted(list, i), pos)
  OBVIOUS
<1>6. PICK e : e = EncodedAC(c[s], s - pos)
  OBVIOUS
<1>7. p \in Seq(Bit)
  BY <1>3, <1>4, <1>5, PartBegins
<1>8. /\ e \in Seq(Bit)
      /\ s < LastCoeff => /\ PartOfBlock(c, s + 1)
                          /\ p \o e = CodedPart(c, Predicted(list, i), s + 1)
      /\ s = LastCoeff => p \o e = BlockBits(c, Predicted(list, i))
  <2>1. PICK q : q = Predicted(list, i)
    OBVIOUS
  <2>2. CodedBlock(c) /\ EncodedDC(c[0] - q) \in Seq(Bit) /\ PartOfBlock(c, pos)
    BY <1>3, <1>4, <2>1, Zenon
  <2>3. /\ EncodedAC(c[s], s - pos) \in Seq(Bit)
        /\ s < LastCoeff =>
             /\ PartOfBlock(c, s + 1)
             /\ CodedPart(c, q, pos) \o EncodedAC(c[s], s - pos) = CodedPart(c, q, s + 1)
        /\ s = LastCoeff =>
             CodedPart(c, q, pos) \o EncodedAC(c[s], s - pos) = BlockBits(c, q)
    BY <2>2, NextPart, SMTT(90)
  <2> QED
    BY <1>5, <1>6, <2>1, <2>3, Zenon
<1>9. PICK h \in Seq(Bit) : h = IntervalBits(list)
  BY <1>3
<1>10. raw = h \o p /\ raw \in Seq(Bit)
  BY <1>4, <1>5, <1>7, <1>9, ConcatProperties
<1>11. raw \o e = h \o (p \o e)
  BY <1>7, <1>8, <1>9, <1>10, BitsAssociate, SMTT(20)
<1>12. ASSUME s < LastCoeff
       PROVE  InBlock(img, l, k, m, i, j, s + 1, raw \o e, pred)
  <2>1. raw \o e = IntervalBits(list) \o CodedPart(c, Predicted(list, i), s + 1)
    BY <1>8, <1>9, <1>11, <1>12
  <2>2. PartOfBlock(c, s + 1)
    BY <1>8, <1>12
  <2> QED
    BY <1>1, <1>2, <1>3, <1>4, <2>1, <2>2, Zenon DEF InBlock
<1>13. ASSUME s = LastCoeff
       PROVE  BehindBlock(img, l, k, m, i, j, raw \o e, pred)
  <2>1. raw \o e = IntervalBits(list) \o BlockBits(c, Predicted(list, i))
    BY <1>8, <1>9, <1>11, <1>13
  <2> QED
    BY <1>1, <1>2, <1>3, <1>4, <2>1, Zenon DEF BehindBlock
<1> QED
  BY <1>1, <1>6, <1>8, <1>10, <1>12, <1>13

\* The end of the block is coded.
LEMMA AfterEnd ==
    ASSUME NEW l, NEW img, NEW k, NEW m, NEW i, NEW j, ABlock(img, l, k, m, i, j),
           NEW pos, NEW raw, NEW pred, InBlock(img, l, k, m, i, j, pos, raw, pred),
           NEW c, c = BlockAt(img, l, k, m, i, j).c, pos > Eob(c), Eob(c) # LastCoeff
    PROVE  /\ raw \in Seq(Bit) /\ EndOfBlock \in Seq(Bit)
           /\ BehindBlock(img, l, k, m, i, j, raw \o EndOfBlock, pred)
<1>1. PICK list : list = CodedList(img, l, k, m, i, j)
  OBVIOUS
<1>2. PICK b : b = BlockAt(img, l, k, m, i, j)
  OBVIOUS
<1>3. /\ IntervalBits(list) \in Seq(Bit) /\ CodedBlock(c) /\ b.c = c
      /\ EncodedDC(c[0] - Predicted(list, i)) \in Seq(Bit)
  BY <1>1, <1>2, BlockFacts
<1>4. /\ PartOfBlock(c, pos)
      /\ raw = IntervalBits(list) \o CodedPart(c, Predicted(list, i), pos)
      /\ pred = [d \in DOMAIN l.factors |-> Predicted(Append(list, b), d)]
  BY <1>1, <1>2, <1>3 DEF InBlock
<1>5. PICK p : p = CodedPart(c, Predicted(list, i), pos)
  OBVIOUS
<1>6. PICK e \in Seq(Bit) : e = EndOfBlock
  BY FixedCodes
<1>7. p \in Seq(Bit)
  BY <1>3, <1>4, <1>5, PartBegins
<1>8. p \o e = BlockBits(c, Predicted(list, i))
  BY <1>3, <1>4, <1>5, <1>6, LastPart
<1>9. PICK h \in Seq(Bit) : h = IntervalBits(list)
  BY <1>3
<1>10. raw = h \o p /\ raw \in Seq(Bit)
  BY <1>4, <1>5, <1>7, <1>9, ConcatProperties
<1>11. raw \o e = h \o (p \o e)
  BY <1>7, <1>9, <1>10, BitsAssociate
<1>12. raw \o e = IntervalBits(list) \o BlockBits(b.c, Predicted(list, i))
  BY <1>3, <1>8, <1>9, <1>11
<1>13. BehindBlock(img, l, k, m, i, j, raw \o e, pred)
  BY <1>1, <1>2, <1>4, <1>12, Zenon DEF BehindBlock
<1> QED
  BY <1>6, <1>10, <1>13

\* Behind a block the writer is at the next one.
LEMMA AfterBlock ==
    ASSUME NEW l, NEW img, NEW k, NEW m, NEW i, NEW j, ABlock(img, l, k, m, i, j),
           NEW raw, NEW pred, BehindBlock(img, l, k, m, i, j, raw, pred)
    PROVE  LET last == j + 1 = l.factors[i][1] * l.factors[i][2]
           IN  /\ ~last => AtBlock(img, l, k, m, i, j + 1, raw, pred)
               /\ (last /\ i < Len(l.factors)) => AtBlock(img, l, k, m, i + 1, 0, raw, pred)
               /\ (last /\ ~(i < Len(l.factors))) => AtBlock(img, l, k, m + 1, 1, 0, raw, pred)
<1>b. PICK b : b = BlockAt(img, l, k, m, i, j)
  OBVIOUS
<1>l. PICK list : list = CodedList(img, l, k, m, i, j)
  OBVIOUS
<1>0. /\ raw = IntervalBits(list) \o BlockBits(b.c, Predicted(list, i))
      /\ pred = [d \in DOMAIN l.factors |-> Predicted(Append(list, b), d)]
  BY <1>b, <1>l, Zenon DEF BehindBlock
<1>1. /\ l \in Layouts /\ list \in Seq(BlocksOf(l)) /\ b \in BlocksOf(l) /\ b.comp = i
  BY <1>b, <1>l, BlockFacts
<1>2. PICK more : more = Append(list, b)
  OBVIOUS
<1>3. raw = IntervalBits(more)
  BY <1>0, <1>1, <1>2, IntervalBitsAppend
<1>4. pred = [d \in DOMAIN l.factors |-> Predicted(more, d)]
  BY <1>0, <1>2
<1>5. /\ CodedList(img, l, k, m, i, j + 1) = Append(list, b)
      /\ j + 1 = l.factors[i][1] * l.factors[i][2] =>
            CodedList(img, l, k, m, i, j + 1) =
              IF i < Len(l.factors) THEN CodedList(img, l, k, m, i + 1, 0)
              ELSE CodedList(img, l, k, m + 1, 1, 0)
  <2>1. /\ l \in Layouts /\ img \in Image(l) /\ k \in Nat /\ m \in Nat
        /\ k * Interval(l) + m < MCUs(l)
        /\ i \in DOMAIN l.factors /\ j \in Nat /\ j < l.factors[i][1] * l.factors[i][2]
    BY DEF ABlock
  <2> QED
    BY <1>b, <1>l, <2>1, CodedListMore DEF BlockAt
<1> QED
  BY <1>2, <1>3, <1>4, <1>5 DEF AtBlock

\* An MCU that is not the first of the next interval is of this one.
LEMMA OfThisInterval ==
    ASSUME NEW l \in Layouts, NEW k \in Nat, NEW m \in Nat, k < Intervals(l),
           m <= Interval(l), k * Interval(l) + m <= MCUs(l)
    PROVE  /\ m <= Size(l, k)
           /\ m < Interval(l) /\ k * Interval(l) + m < MCUs(l) => m + 1 <= Size(l, k)
           /\ m = Interval(l) \/ k * Interval(l) + m = MCUs(l) => m = Size(l, k)
<1>1. PICK e \in Nat, s \in Nat, t \in Nat, f \in Nat :
        e = k * Interval(l) /\ s = Size(l, k) /\ t = MCUs(l) /\ f = Interval(l)
  BY IntervalFacts, MCUsType
<1>2. s = IF f < t - e THEN f ELSE t - e
  BY <1>1 DEF Size, Lesser
<1>3. m <= f /\ e + m <= t
  BY <1>1
<1>4. /\ m <= s
      /\ m < f /\ e + m < t => m + 1 <= s
      /\ m = f \/ e + m = t => m = s
  BY <1>2, <1>3
<1> QED
  BY <1>1, <1>4

\* The bits of the blocks before the one at work begin those of the interval,
\* also with those of the block itself.
LEMMA BlockBegins ==
    ASSUME NEW l, NEW img, NEW k, NEW m, NEW i, NEW j, ABlock(img, l, k, m, i, j),
           k < Intervals(l), m < Interval(l),
           NEW list, list = CodedList(img, l, k, m, i, j),
           NEW b, b = BlockAt(img, l, k, m, i, j)
    PROVE  /\ IntervalOf(img, l, k) \in Seq(Bit)
           /\ Begins(Bit, IntervalBits(list), IntervalOf(img, l, k))
           /\ IntervalBits(list) \o BlockBits(b.c, Predicted(list, i)) \in Seq(Bit)
           /\ Begins(Bit, IntervalBits(list) \o BlockBits(b.c, Predicted(list, i)), IntervalOf(img, l, k))
<1>1. /\ l \in Layouts /\ img \in Image(l) /\ k \in Nat /\ m \in Nat
      /\ k * Interval(l) + m < MCUs(l)
      /\ i \in DOMAIN l.factors /\ j \in Nat /\ j < l.factors[i][1] * l.factors[i][2]
      /\ k < Intervals(l)
  BY DEF ABlock
<1>2. m + 1 <= Size(l, k) /\ k * Interval(l) + Size(l, k) <= MCUs(l) /\ Size(l, k) \in Nat
  <2>1. k * Interval(l) + m <= MCUs(l) /\ m <= Interval(l)
    <3>1. PICK e \in Nat, t \in Nat, f \in Nat : e = k * Interval(l) /\ t = MCUs(l) /\ f = Interval(l)
      BY <1>1, IntervalFacts, MCUsType
    <3> QED
      BY <1>1, <3>1
  <2> QED
    BY <1>1, <2>1, OfThisInterval, IntervalFacts
<1>3. PICK full : full = IntervalBlocks(img, l, k + 1)
  OBVIOUS
<1>4. full = WholeMCUs(img, l, k, Size(l, k)) /\ full \in Seq(BlocksOf(l))
      /\ IntervalBits(full) \in Seq(Bit)
  BY <1>1, <1>3, IntervalIs
<1>5. PICK mcus : mcus = WholeMCUs(img, l, k, m + 1)
  OBVIOUS
<1>6. mcus \in Seq(BlocksOf(l)) /\ Begins(BlocksOf(l), mcus, full)
  <2>1. k * Interval(l) + (m + 1) <= MCUs(l)
    <3>1. PICK e \in Nat, t \in Nat, s \in Nat : e = k * Interval(l) /\ t = MCUs(l) /\ s = Size(l, k)
      BY <1>1, IntervalFacts, MCUsType
    <3> QED
      BY <1>1, <1>2, <3>1
  <2> QED
    BY <1>1, <1>2, <1>4, <1>5, <2>1, WholeMCUsType, WholeMCUsBegin
<1>7. \A n \in Nat : n <= l.factors[i][1] * l.factors[i][2] =>
        /\ CodedList(img, l, k, m, i, n) \in Seq(BlocksOf(l))
        /\ Begins(Bit, IntervalBits(CodedList(img, l, k, m, i, n)), IntervalBits(full))
  <2> SUFFICES ASSUME NEW n \in Nat, n <= l.factors[i][1] * l.factors[i][2],
                      NEW some, some = CodedList(img, l, k, m, i, n)
               PROVE  some \in Seq(BlocksOf(l)) /\ Begins(Bit, IntervalBits(some), IntervalBits(full))
    OBVIOUS
  <2>1. some \in Seq(BlocksOf(l)) /\ Begins(BlocksOf(l), some, mcus)
    BY <1>1, <1>5, CodedListBegins
  <2>2. Begins(BlocksOf(l), some, full)
    BY <1>4, <1>6, <2>1, BeginsThrough, Zenon
  <2> QED
    BY <1>1, <1>4, <2>1, <2>2, IntervalBitsBegin
<1>8. IntervalBits(Append(list, b)) = IntervalBits(list) \o BlockBits(b.c, Predicted(list, i))
  <2>1. list \in Seq(BlocksOf(l)) /\ b \in BlocksOf(l) /\ b.comp = i
    BY BlockFacts
  <2> QED
    BY <1>1, <2>1, IntervalBitsAppend
<1>9. Append(list, b) = CodedList(img, l, k, m, i, j + 1)
  BY <1>1, CodedListMore DEF BlockAt
<1>10. j <= l.factors[i][1] * l.factors[i][2] /\ j + 1 <= l.factors[i][1] * l.factors[i][2]
       /\ j + 1 \in Nat
  <2>0. l.factors[i][1] \in Nat /\ l.factors[i][2] \in Nat
    BY <1>1, LayoutParts
  <2>1. PICK n \in Nat : n = l.factors[i][1] * l.factors[i][2]
    BY <2>0
  <2> QED
    BY <1>1, <2>1
<1>11. Begins(Bit, IntervalBits(list), IntervalBits(full))
  BY <1>1, <1>7, <1>10
<1>12. PICK more : more = Append(list, b)
  OBVIOUS
<1>13. more \in Seq(BlocksOf(l)) /\ Begins(Bit, IntervalBits(more), IntervalBits(full))
  BY <1>7, <1>9, <1>10, <1>12
<1>14. IntervalBits(more) \in Seq(Bit)
  BY <1>1, <1>13, IntervalBitsType
<1>15. IntervalOf(img, l, k) = IntervalBits(full)
  BY <1>3 DEF IntervalOf
<1> QED
  BY <1>4, <1>8, <1>11, <1>12, <1>13, <1>14, <1>15, Zenon

\* ... so what is coded so far, to a coefficient, begins the interval.
LEMMA CodedBegins ==
    ASSUME NEW l, NEW img, NEW k, NEW m, NEW i, NEW j, ABlock(img, l, k, m, i, j),
           k < Intervals(l), m < Interval(l), NEW raw, NEW pred, NEW pos,
           \/ AtBlock(img, l, k, m, i, j, raw, pred)
           \/ InBlock(img, l, k, m, i, j, pos, raw, pred)
    PROVE  /\ raw \in Seq(Bit) /\ IntervalOf(img, l, k) \in Seq(Bit)
           /\ Begins(Bit, raw, IntervalOf(img, l, k))
<1>1. PICK list : list = CodedList(img, l, k, m, i, j)
  OBVIOUS
<1>2. PICK b : b = BlockAt(img, l, k, m, i, j)
  OBVIOUS
<1>3. PICK p : p = Predicted(list, i)
  OBVIOUS
<1>4. /\ IntervalBits(list) \in Seq(Bit) /\ CodedBlock(b.c)
      /\ EncodedDC(b.c[0] - p) \in Seq(Bit)
  BY <1>1, <1>2, <1>3, BlockFacts
<1>5. PICK full : full = IntervalOf(img, l, k)
  OBVIOUS
<1>6. /\ full \in Seq(Bit) /\ Begins(Bit, IntervalBits(list), full)
      /\ IntervalBits(list) \o BlockBits(b.c, p) \in Seq(Bit)
      /\ Begins(Bit, IntervalBits(list) \o BlockBits(b.c, p), full)
  BY <1>1, <1>2, <1>3, <1>5, BlockBegins
<1>7. ASSUME AtBlock(img, l, k, m, i, j, raw, pred)
      PROVE  raw \in Seq(Bit) /\ Begins(Bit, raw, full)
  <2>1. raw = IntervalBits(list)
    BY <1>1, <1>7 DEF AtBlock
  <2> QED
    BY <1>4, <1>6, <2>1
<1>8. ASSUME InBlock(img, l, k, m, i, j, pos, raw, pred)
      PROVE  raw \in Seq(Bit) /\ Begins(Bit, raw, full)
  <2>1. PartOfBlock(b.c, pos) /\ raw = IntervalBits(list) \o CodedPart(b.c, p, pos)
    BY <1>1, <1>2, <1>3, <1>8 DEF InBlock
  <2>2. PICK h \in Seq(Bit) : h = IntervalBits(list)
    BY <1>4
  <2>3. /\ CodedPart(b.c, p, pos) \in Seq(Bit) /\ BlockBits(b.c, p) \in Seq(Bit)
        /\ Begins(Bit, CodedPart(b.c, p, pos), BlockBits(b.c, p))
    BY <1>4, <2>1, PartBegins
  <2>4. raw \in Seq(Bit) /\ raw = h \o CodedPart(b.c, p, pos)
    BY <2>1, <2>2, <2>3, ConcatProperties
  <2>5. Begins(Bit, raw, h \o BlockBits(b.c, p))
    BY <2>2, <2>3, <2>4, BeginsBehind, Zenon
  <2>6. h \o BlockBits(b.c, p) \in Seq(Bit) /\ Begins(Bit, h \o BlockBits(b.c, p), full)
    BY <1>6, <2>2
  <2> QED
    BY <1>6, <2>4, <2>5, <2>6, BeginsThrough, Zenon
<1> QED
  BY <1>5, <1>6, <1>7, <1>8

\* Behind its last block the interval is coded.
LEMMA CodedIsInterval ==
    ASSUME NEW l \in Layouts, NEW img \in Image(l), NEW k \in Nat, k < Intervals(l), NEW m \in Nat,
           k * Interval(l) + m <= MCUs(l), m <= Interval(l),
           m = Interval(l) \/ k * Interval(l) + m = MCUs(l),
           NEW raw, NEW pred, AtBlock(img, l, k, m, 1, 0, raw, pred)
    PROVE  raw = IntervalOf(img, l, k) /\ raw \in Seq(Bit)
<1>1. m = Size(l, k)
  BY OfThisInterval
<1>2. CodedList(img, l, k, m, 1, 0) = WholeMCUs(img, l, k, m)
  BY WholeMCUsOnly
<1>3. IntervalBlocks(img, l, k + 1) = WholeMCUs(img, l, k, m)
  BY <1>1, IntervalIs
<1>4. raw = IntervalBits(IntervalBlocks(img, l, k + 1))
  BY <1>2, <1>3, Zenon DEF AtBlock
<1>5. raw \in Seq(Bit)
  BY <1>4, IntervalIs
<1> QED
  BY <1>4, <1>5 DEF IntervalOf

(***************************************************************************)
(* What has been written.                                                  *)
(***************************************************************************)
Each    == Interval(jpeg)

\* MCUs coded so far.
Reached ==
    IF w.mcusavailable
    THEN (slice.finishedrows - slice.currheight + w.row) * jpeg.hmcus + w.col
    ELSE slice.finishedrows * jpeg.hmcus

\* The scan has more to code.
Unfinished == w.mcusavailable \/ Started

\* Blocks of the component at work that are coded.
BlocksCoded == w.y * HBlocks(w.comp) + w.x

SoFar(head, raw) == \E n \in Nat : Written(head, raw, n, w.bits, w.needsstuffing, out)

\* In interval k + 1: at a block, or inside one.
Coding(k) ==
    /\ Unfinished /\ ~w.writerestartmarker
    /\ \E raw \in Seq(Bit) :
         /\ SoFar(HeadOf(image, jpeg, k), raw)
         /\ IF w.coeff = 0
            THEN AtBlock(image, jpeg, k, w.mcucounter, w.comp, BlocksCoded, raw, w.predicted)
            ELSE InBlock(image, jpeg, k, w.mcucounter, w.comp, BlocksCoded, w.coeff, raw, w.predicted)

\* All of it is coded and padded, and a marker is due.
Due(k) ==
    /\ Unfinished /\ w.writerestartmarker /\ w.mcucounter = Each
    /\ SoFar(HeadOf(image, jpeg, k), Padded(IntervalOf(image, jpeg, k)))

\* The first half of the marker before interval k + 1 is written.
HalfMarked(k) ==
    /\ Unfinished /\ ~w.writerestartmarker /\ w.mcucounter = 0 /\ k > 0
    /\ w.comp = 1 /\ w.x = 0 /\ w.y = 0 /\ w.coeff = 0
    /\ w.predicted = [i \in Components |-> 0]
    /\ w.bits = Bits(208 + ((k - 1) % 8), 8) /\ ~w.needsstuffing
    /\ out = DoneParts(image, jpeg, k) \o <<255>>

\* The last interval is coded and padded.
Closing(k) ==
    /\ ~Unfinished /\ ~w.writerestartmarker /\ k + 1 = Intervals(jpeg)
    /\ SoFar(HeadOf(image, jpeg, k), Padded(IntervalOf(image, jpeg, k)))

\* What interval the writer is in.
Where(k) ==
    /\ Reached = k * Each + w.mcucounter /\ w.mcucounter <= Each
    /\ w.mcucounter = Each => w.comp = 1 /\ w.x = 0 /\ w.y = 0 /\ w.coeff = 0
    /\ w.restartmarkerindex = k % 8

Begun == scansleft # Scans

ScanSoFar == Begun =>
    \E k \in 0..(Intervals(jpeg) - 1) :
        Where(k) /\ (Coding(k) \/ Due(k) \/ HalfMarked(k) \/ Closing(k))

\* Where the writer is, and that the blocks of the slice are in the buffer.
WriterAt ==
    /\ w.mcusavailable =>
         /\ op # "slice"
         /\ slice.currheight \in 1..slice.finishedrows
         /\ w.row < slice.currheight /\ w.col < jpeg.hmcus
         /\ w.x < HBlocks(w.comp) /\ w.y < VBlocks(w.comp) /\ w.coeff <= LastCoeff
         /\ \A i \in Components : \A x \in Cols(i), y \in RowsInSlice(i) :
              blocks[i][Place(i, x, y)] =
                  <<x, (slice.finishedrows - slice.currheight) * VBlocks(i) + y>>
    /\ ~w.mcusavailable => w.comp = 1 /\ w.x = 0 /\ w.y = 0 /\ w.coeff = 0

\* Slices are read as long as the scan has rows; before the first scan there
\* is nothing to write, and behind the last none to read.
ScanAt ==
    /\ scansleft \in 0..Scans /\ image \in Image(jpeg)
    /\ Begun => /\ slice.finishedrows <= jpeg.vmcus
                /\ Started <=> slice.finishedrows < jpeg.vmcus
    /\ ~Begun => op = "none" /\ ~MoreBytes /\ ~Unfinished /\ out = <<>>
    /\ (op = "slice" /\ ~slice.slicesavailable) =>
            slice.finishedrows + slice.currheight = jpeg.vmcus
    /\ reachedend => ~Unfinished /\ scansleft = 0

WriterStates ==
    [mcusavailable : BOOLEAN, row : Nat, col : Nat, comp : Components, x : Nat, y : Nat,
     coeff : Nat, mcucounter : Nat, restartmarkerindex : Nat, writerestartmarker : BOOLEAN,
     predicted : [Components -> Int], bits : Seq(Bit), needsstuffing : BOOLEAN]

WriterTyped == w \in WriterStates /\ out \in Seq(Int) /\ reachedend \in BOOLEAN

ScanInv == DecodeInv /\ WriterTyped /\ WriterAt /\ ScanAt /\ ScanSoFar

-----------------------------------------------------------------------------
\* Blocks of a component in an MCU, row by row: a step across, a step down,
\* and the last.
LEMMA BlockCount ==
    ASSUME NEW h \in Nat \ {0}, NEW v \in Nat \ {0}, NEW x \in Nat, NEW y \in Nat, x < h, y < v
    PROVE  /\ y * h + x \in Nat /\ y * h + x < h * v
           /\ x + 1 < h => y * h + (x + 1) = (y * h + x) + 1 /\ (y * h + x) + 1 < h * v
           /\ ~(x + 1 < h) /\ y + 1 < v =>
                (y + 1) * h + 0 = (y * h + x) + 1 /\ (y * h + x) + 1 < h * v
           /\ ~(x + 1 < h) /\ ~(y + 1 < v) => (y * h + x) + 1 = h * v
<1>1. y * h + h <= v * h
  BY LessTimes
<1>2. PICK a \in Nat, b \in Nat : a = y * h /\ b = v * h
  OBVIOUS
<1>3. h * v = b /\ (y + 1) * h = a + h
  BY <1>2
<1>4. y + 1 < v => a + h < b
  <2>1. y + 1 < v => (y + 1) * h + h <= v * h
    BY LessTimes
  <2> QED
    BY <1>2, <1>3, <2>1
<1>5. ~(y + 1 < v) => a + h = b
  <2>1. ~(y + 1 < v) => y + 1 = v
    OBVIOUS
  <2> QED
    BY <1>2, <1>3, <2>1
<1>6. a + h <= b
  BY <1>1, <1>2
<1> QED
  BY <1>2, <1>3, <1>4, <1>5, <1>6

\* The MCU at work, in its slice and in the image.
LEMMA MCUInImage ==
    ASSUME NEW h \in Nat \ {0}, NEW v \in Nat, NEW f \in Nat, NEW s \in 1..f, NEW r \in Nat,
           NEW c \in Nat, f <= v, r < s, c < h
    PROVE  /\ f - s + r \in Nat /\ (f - s + r) * h + c \in Nat /\ f * h \in Nat
           /\ (f - s + r) * h + c < f * h /\ f * h <= h * v
           /\ ((f - s + r) * h + c) \div h = f - s + r
           /\ ((f - s + r) * h + c) % h = c
           /\ c + 1 < h => (f - s + r) * h + (c + 1) = ((f - s + r) * h + c) + 1
           /\ ~(c + 1 < h) => (f - s + (r + 1)) * h + 0 = ((f - s + r) * h + c) + 1
           /\ (~(c + 1 < h) /\ ~(r + 1 < s)) => f * h = ((f - s + r) * h + c) + 1
<1>1. PICK q \in Nat : q = f - s + r
  OBVIOUS
<1>2. q + 1 <= f /\ f - s + (r + 1) = q + 1 /\ (~(r + 1 < s) => q + 1 = f)
  BY <1>1
<1>3. q * h + h <= f * h
  BY <1>2, LessTimes
<1>4. f * h <= h * v
  <2>1. h * f <= h * v
    BY TimesMonotone
  <2> QED
    BY <2>1
<1>5. (q * h + c) \div h = q /\ (q * h + c) % h = c
  BY Division
<1>6. PICK a \in Nat, b \in Nat : a = q * h /\ b = f * h
  OBVIOUS
<1>7. (q + 1) * h = a + h
  BY <1>6
<1>8. (~(c + 1 < h) => (q + 1) * h + 0 = (a + c) + 1)
  BY <1>7, <1>6
<1>9. (~(c + 1 < h) /\ ~(r + 1 < s)) => b = (a + c) + 1
  BY <1>2, <1>6, <1>7
<1> QED
  BY <1>1, <1>2, <1>3, <1>4, <1>5, <1>6, <1>8, <1>9

\* What is known of a state while the scan is written.
LEMMA StateFacts ==
    ASSUME DecodeInv, WriterTyped
    PROVE  /\ jpeg \in Layouts /\ Components = DOMAIN jpeg.factors
           /\ jpeg.hmcus \in Nat \ {0} /\ jpeg.vmcus \in Nat \ {0}
           /\ slice.finishedrows \in Nat /\ slice.currheight \in Nat
           /\ slice.slicesavailable \in BOOLEAN
           /\ w.mcusavailable \in BOOLEAN /\ w.row \in Nat /\ w.col \in Nat /\ w.comp \in Components
           /\ w.x \in Nat /\ w.y \in Nat /\ w.coeff \in Nat /\ w.mcucounter \in Nat
           /\ w.restartmarkerindex \in Nat /\ w.writerestartmarker \in BOOLEAN
           /\ w.predicted \in [Components -> Int] /\ w.bits \in Seq(Bit)
           /\ w.needsstuffing \in BOOLEAN /\ out \in Seq(Int) /\ reachedend \in BOOLEAN
           /\ HBlocks(w.comp) \in Nat \ {0} /\ VBlocks(w.comp) \in Nat \ {0}
           /\ HBlocks(w.comp) = jpeg.factors[w.comp][1] /\ VBlocks(w.comp) = jpeg.factors[w.comp][2]
           /\ Each \in Nat \ {0} /\ MCUs(jpeg) \in Nat \ {0} /\ Intervals(jpeg) \in Nat \ {0}
           /\ MCUs(jpeg) = jpeg.hmcus * jpeg.vmcus
<1>1. jpeg \in Layouts
  BY DEF DecodeInv, Typed
<1>2. /\ w.mcusavailable \in BOOLEAN /\ w.row \in Nat /\ w.col \in Nat /\ w.comp \in Components
      /\ w.x \in Nat /\ w.y \in Nat /\ w.coeff \in Nat /\ w.mcucounter \in Nat
      /\ w.restartmarkerindex \in Nat /\ w.writerestartmarker \in BOOLEAN
      /\ w.predicted \in [Components -> Int] /\ w.bits \in Seq(Bit)
      /\ w.needsstuffing \in BOOLEAN /\ out \in Seq(Int) /\ reachedend \in BOOLEAN
  BY DEF WriterTyped, WriterStates
<1>3. /\ slice.finishedrows \in Nat /\ slice.currheight \in Nat
      /\ slice.slicesavailable \in BOOLEAN
  BY DEF DecodeInv, Typed
<1>4. Components = DOMAIN jpeg.factors
  BY DEF Components
<1>5. /\ jpeg.hmcus \in Nat \ {0} /\ jpeg.vmcus \in Nat \ {0}
      /\ HBlocks(w.comp) \in Nat \ {0} /\ VBlocks(w.comp) \in Nat \ {0}
  BY <1>1, <1>2, LayoutFacts
<1>6. HBlocks(w.comp) = jpeg.factors[w.comp][1] /\ VBlocks(w.comp) = jpeg.factors[w.comp][2]
  BY DEF HBlocks, VBlocks
<1>7. Each \in Nat \ {0} /\ MCUs(jpeg) \in Nat \ {0} /\ Intervals(jpeg) \in Nat \ {0}
  BY <1>1, MCUsType, SomeInterval DEF Each
<1>8. MCUs(jpeg) = jpeg.hmcus * jpeg.vmcus
  BY DEF MCUs
<1> QED
  BY <1>1, <1>2, <1>3, <1>4, <1>5, <1>6, <1>7, <1>8

\* How far the scan has come.
LEMMA ReachedIs ==
    ASSUME DecodeInv, WriterTyped, WriterAt, ScanAt, Begun
    PROVE  /\ Reached \in Nat /\ Reached <= MCUs(jpeg)
           /\ Unfinished => Reached < MCUs(jpeg)
           /\ ~Unfinished => Reached = MCUs(jpeg)
<1>1. PICK h \in Nat \ {0}, v \in Nat \ {0} : h = jpeg.hmcus /\ v = jpeg.vmcus
  BY StateFacts
<1>2. PICK f \in Nat, s \in Nat : f = slice.finishedrows /\ s = slice.currheight
  BY StateFacts
<1>3. PICK r \in Nat, c \in Nat : r = w.row /\ c = w.col
  BY StateFacts
<1>4. f <= v /\ (Started <=> f < v)
  BY <1>1, <1>2 DEF ScanAt
<1>5. MCUs(jpeg) = h * v
  BY <1>1 DEF MCUs
<1>6. CASE w.mcusavailable
  <2>1. s \in 1..f /\ r < s /\ c < h
    BY <1>1, <1>2, <1>3, <1>6 DEF WriterAt
  <2>2. Reached = (f - s + r) * h + c /\ Unfinished
    BY <1>1, <1>2, <1>3, <1>6 DEF Reached, Unfinished
  <2>3. /\ (f - s + r) * h + c \in Nat /\ f * h \in Nat
        /\ (f - s + r) * h + c < f * h /\ f * h <= h * v
    <3>1. h \in Nat \ {0} /\ v \in Nat /\ f \in Nat /\ r \in Nat /\ c \in Nat /\ f <= v
      BY <1>1, <1>2, <1>3, <1>4
    <3> QED
      BY <2>1, <3>1, MCUInImage, Zenon
  <2>4. PICK a \in Nat, b \in Nat, d \in Nat : a = (f - s + r) * h + c /\ b = f * h /\ d = h * v
    BY <2>3
  <2> QED
    BY <1>5, <2>2, <2>3, <2>4
<1>7. CASE ~w.mcusavailable
  <2>1. Reached = f * h /\ (Unfinished <=> Started)
    BY <1>1, <1>2, <1>7 DEF Reached, Unfinished
  <2>2. f * h \in Nat /\ v * h \in Nat /\ h * v = v * h
    OBVIOUS
  <2>3. f < v => f * h + h <= v * h
    BY LessTimes
  <2>4. PICK a \in Nat, b \in Nat : a = f * h /\ b = v * h
    BY <2>2
  <2>5. ~(f < v) => f = v
    BY <1>4
  <2> QED
    BY <1>4, <1>5, <2>1, <2>2, <2>3, <2>4, <2>5
<1> QED
  BY <1>6, <1>7, StateFacts

\* ... and in which interval it is.
LEMMA WhereIs ==
    ASSUME DecodeInv, WriterTyped, WriterAt, ScanAt, Begun,
           NEW k, k \in 0..(Intervals(jpeg) - 1), Where(k)
    PROVE  /\ k \in Nat /\ k < Intervals(jpeg) /\ k <= Intervals(jpeg) /\ k + 1 \in Nat
           /\ k + 1 <= Intervals(jpeg)
           /\ k * Each + w.mcucounter \in Nat /\ w.mcucounter <= Each
           /\ k * Each + w.mcucounter <= MCUs(jpeg)
           /\ Unfinished => k * Each + w.mcucounter < MCUs(jpeg)
           /\ (Unfinished /\ w.mcucounter = Each) =>
                k + 1 < Intervals(jpeg) /\ jpeg.interval # 0
           /\ (Unfinished /\ jpeg.interval = 0) => w.mcucounter < Each
<1>1. k \in Nat /\ k < Intervals(jpeg) /\ k <= Intervals(jpeg) /\ k + 1 \in Nat
      /\ k + 1 <= Intervals(jpeg)
  <2>1. PICK n \in Nat : n = Intervals(jpeg)
    BY StateFacts
  <2>2. k \in 0..(n - 1)
    BY <2>1
  <2> QED
    BY <2>1, <2>2
<1>2. PICK e \in Nat, m \in Nat : e = Each /\ m = w.mcucounter
  BY StateFacts
<1>3. PICK t \in Nat, r \in Nat : t = MCUs(jpeg) /\ r = Reached
  BY StateFacts, ReachedIs
<1>4. r = k * e + m /\ m <= e
  BY <1>2, <1>3 DEF Where
<1>5. r <= t /\ (Unfinished => r < t)
  BY <1>3, ReachedIs
<1>6. PICK p \in Nat : p = k * e
  BY <1>1, <1>2
<1>7. ASSUME Unfinished, m = e
      PROVE  k + 1 < Intervals(jpeg) /\ jpeg.interval # 0
  <2>1. ASSUME k + 1 = Intervals(jpeg)
        PROVE  FALSE
    <3>1. PICK s \in Nat : s = Size(jpeg, k)
      BY <1>1, StateFacts, IntervalFacts
    <3>2. p + s = t /\ s <= e
      BY <1>1, <1>2, <1>3, <1>6, <2>1, <3>1, StateFacts, IntervalFacts DEF Each
    <3> QED
      BY <1>4, <1>5, <1>6, <1>7, <3>2
  <2>2. k + 1 < Intervals(jpeg)
    BY <1>1, <2>1, StateFacts
  <2>3. jpeg.interval # 0
    <3>1. Intervals(jpeg) # 1
      BY <1>1, <2>2
    <3> QED
      BY <3>1, StateFacts, SomeInterval
  <2> QED
    BY <2>2, <2>3
<1> QED
  BY <1>1, <1>2, <1>3, <1>4, <1>5, <1>6, <1>7

\* The block at work is the one the scan has next.
LEMMA CurrBlockIs ==
    ASSUME DecodeInv, WriterTyped, WriterAt, ScanAt, Begun, w.mcusavailable,
           NEW k, k \in 0..(Intervals(jpeg) - 1), Where(k)
    PROVE  /\ ABlock(image, jpeg, k, w.mcucounter, w.comp, BlocksCoded)
           /\ CurrBlock = BlockAt(image, jpeg, k, w.mcucounter, w.comp, BlocksCoded).c
<1>1. PICK i : i = w.comp
  OBVIOUS
<1>2. PICK H \in Nat \ {0}, V \in Nat \ {0} :
        H = HBlocks(i) /\ V = VBlocks(i)
  BY <1>1, StateFacts
<1>3. PICK h \in Nat \ {0}, v \in Nat \ {0} : h = jpeg.hmcus /\ v = jpeg.vmcus
  BY StateFacts
<1>4. PICK f \in Nat, s \in Nat : f = slice.finishedrows /\ s = slice.currheight
  BY StateFacts
<1>5. PICK r \in Nat, c \in Nat : r = w.row /\ c = w.col
  BY StateFacts
<1>6. PICK x \in Nat, y \in Nat : x = w.x /\ y = w.y
  BY StateFacts
<1>7. /\ s \in 1..f /\ r < s /\ c < h /\ x < H /\ y < V /\ i \in Components
      /\ f <= v
      /\ \A a \in Cols(i), b \in RowsInSlice(i) :
           blocks[i][Place(i, a, b)] = <<a, (f - s) * V + b>>
  <2>1. i \in Components /\ f <= v
    BY <1>1, <1>3, <1>4, StateFacts DEF ScanAt
  <2>2. s \in 1..f /\ r < s /\ c < h /\ x < H /\ y < V
    BY <1>1, <1>2, <1>3, <1>4, <1>5, <1>6 DEF WriterAt
  <2>3. \A a \in Cols(i), b \in RowsInSlice(i) :
          blocks[i][Place(i, a, b)] =
            <<a, (slice.finishedrows - slice.currheight) * VBlocks(i) + b>>
    BY <2>1, Zenon DEF WriterAt
  <2> QED
    BY <1>2, <1>4, <2>1, <2>2, <2>3
<1>8. PICK q \in Nat : q = f - s + r
  BY <1>7
<1>9. PICK mcu \in Nat : mcu = q * h + c
  OBVIOUS
<1>10. mcu = k * Each + w.mcucounter /\ mcu < MCUs(jpeg)
  <2>1. Reached = mcu
    BY <1>3, <1>4, <1>5, <1>8, <1>9 DEF Reached
  <2>2. Unfinished
    BY DEF Unfinished
  <2>3. Reached = k * Each + w.mcucounter
    BY DEF Where
  <2> QED
    BY <2>1, <2>2, <2>3, ReachedIs
<1>11. mcu \div h = q /\ mcu % h = c
  BY <1>7, <1>9, Division
<1>12. PICK j \in Nat : j = y * H + x
  OBVIOUS
<1>13. j \div H = y /\ j % H = x /\ j < H * V
  BY <1>7, <1>12, Division, BlockCount
<1>14. BlocksCoded = j
  BY <1>1, <1>2, <1>6, <1>12 DEF BlocksCoded
<1>15. ABlock(image, jpeg, k, w.mcucounter, i, j)
  <2>1. jpeg \in Layouts /\ image \in Image(jpeg) /\ k \in Nat /\ w.mcucounter \in Nat
    BY StateFacts DEF ScanAt
  <2>2. i \in DOMAIN jpeg.factors /\ j < jpeg.factors[i][1] * jpeg.factors[i][2]
    BY <1>1, <1>2, <1>7, <1>13, StateFacts
  <2> QED
    BY <1>10, <2>1, <2>2 DEF ABlock, Each
<1>16. PICK n \in Nat : n = j + 1
  OBVIOUS
<1>17. BlockAt(image, jpeg, k, w.mcucounter, i, j).c = image[i][q * V + y][c * H + x]
  <2>1. n \in 1..(H * V) /\ n - 1 = j
    BY <1>13, <1>16
  <2>2. ComponentBlocks(image, jpeg, i, mcu)[n] =
          [comp |-> i, c |-> image[i][(mcu \div h) * V + (n - 1) \div H][(mcu % h) * H + ((n - 1) % H)]]
    <3>1. H = jpeg.factors[i][1] /\ V = jpeg.factors[i][2]
      BY <1>2 DEF HBlocks, VBlocks
    <3> QED
      BY <1>3, <2>1, <3>1 DEF ComponentBlocks
  <2>3. BlockAt(image, jpeg, k, w.mcucounter, i, j) = ComponentBlocks(image, jpeg, i, mcu)[n]
    BY <1>10, <1>16 DEF BlockAt, Each
  <2>4. PICK d : d = image[i][q * V + y][c * H + x]
    OBVIOUS
  <2>5. BlockAt(image, jpeg, k, w.mcucounter, i, j) = [comp |-> i, c |-> d]
    BY <1>11, <1>13, <2>1, <2>2, <2>3, <2>4, Zenon
  <2>6. [comp |-> i, c |-> d].c = d
    OBVIOUS
  <2> QED
    BY <2>4, <2>5, <2>6, Zenon
<1>18. c * H + x \in Cols(i) /\ r * V + y \in RowsInSlice(i)
  <2>1. x + c * H \in 0..(h * H - 1)
    BY <1>7, SplitInRange
  <2>2. y + r * V \in 0..(s * V - 1)
    BY <1>7, SplitInRange
  <2>3. PICK a \in Nat, b \in Nat : a = c * H /\ b = r * V
    OBVIOUS
  <2>4. Cols(i) = 0..(h * H - 1) /\ RowsInSlice(i) = 0..(s * V - 1)
    BY <1>2, <1>3, <1>4 DEF Cols, RowsInSlice, BlocksPerRow
  <2> QED
    BY <2>1, <2>2, <2>3, <2>4
<1>19. CurrBlock = image[i][(f - s) * V + (r * V + y)][c * H + x]
  <2>1. PICK from : from = blocks[i][Place(i, c * H + x, r * V + y)]
    OBVIOUS
  <2>2. from = <<c * H + x, (f - s) * V + (r * V + y)>>
    BY <1>7, <1>18, <2>1
  <2>3. from[1] = c * H + x /\ from[2] = (f - s) * V + (r * V + y)
    BY <2>2
  <2>4. CurrBlock = image[i][from[2]][from[1]]
    BY <1>1, <1>2, <1>5, <1>6, <2>1 DEF CurrBlock
  <2> QED
    BY <2>3, <2>4
<1>20. (f - s) * V + (r * V + y) = q * V + y
  <2>1. PICK g \in Nat : g = f - s
    BY <1>7
  <2>2. q = g + r
    BY <1>8, <2>1
  <2>3. (g + r) * V = g * V + r * V
    OBVIOUS
  <2>4. PICK a \in Nat, b \in Nat : a = g * V /\ b = r * V
    OBVIOUS
  <2> QED
    BY <2>1, <2>2, <2>3, <2>4
<1> QED
  BY <1>1, <1>14, <1>15, <1>17, <1>19, <1>20

\* A step that writes nothing and leaves the writer in its place.
SamePlace ==
    /\ UNCHANGED <<jpeg, image, out, scansleft>>
    /\ Reached' = Reached /\ (Unfinished' <=> Unfinished)
    /\ w'.comp = w.comp /\ w'.x = w.x /\ w'.y = w.y /\ w'.coeff = w.coeff
    /\ w'.mcucounter = w.mcucounter /\ w'.restartmarkerindex = w.restartmarkerindex
    /\ w'.writerestartmarker = w.writerestartmarker /\ w'.predicted = w.predicted
    /\ w'.bits = w.bits /\ w'.needsstuffing = w.needsstuffing

\* A step that changes none of these variables keeps what is known of the
\* scan.
LEMMA SamePlaceSameScan ==
    ASSUME ScanSoFar, SamePlace
    PROVE  ScanSoFar'
<1>1. /\ jpeg' = jpeg /\ image' = image /\ out' = out /\ scansleft' = scansleft
      /\ Reached' = Reached /\ (Unfinished' <=> Unfinished)
      /\ w'.comp = w.comp /\ w'.x = w.x /\ w'.y = w.y /\ w'.coeff = w.coeff
      /\ w'.mcucounter = w.mcucounter /\ w'.restartmarkerindex = w.restartmarkerindex
      /\ w'.writerestartmarker = w.writerestartmarker /\ w'.predicted = w.predicted
      /\ w'.bits = w.bits /\ w'.needsstuffing = w.needsstuffing
  BY DEF SamePlace
<1>2. Each' = Each /\ BlocksCoded' = BlocksCoded /\ (Begun' <=> Begun) /\ Components' = Components
  BY <1>1 DEF Each, BlocksCoded, HBlocks, Begun, Components
<1>3. \A head, raw : SoFar(head, raw)' <=> SoFar(head, raw)
  BY <1>1, Zenon DEF SoFar
<1>4. ASSUME NEW k
      PROVE  /\ Where(k)' <=> Where(k)
             /\ Coding(k)' <=> Coding(k)
             /\ Due(k)' <=> Due(k)
             /\ HalfMarked(k)' <=> HalfMarked(k)
             /\ Closing(k)' <=> Closing(k)
  <2>1. Where(k)' <=> Where(k)
    BY <1>1, <1>2, Zenon DEF Where
  <2>2. Coding(k)' <=> Coding(k)
    BY <1>1, <1>2, <1>3, Zenon DEF Coding
  <2>3. Due(k)' <=> Due(k)
    BY <1>1, <1>2, <1>3, Zenon DEF Due
  <2>4. HalfMarked(k)' <=> HalfMarked(k)
    BY <1>1, <1>2, ZenonT(40) DEF HalfMarked
  <2>5. Closing(k)' <=> Closing(k)
    BY <1>1, <1>3, Zenon DEF Closing
  <2> QED
    BY <2>1, <2>2, <2>3, <2>4, <2>5
<1> QED
  BY <1>1, <1>2, <1>4, Zenon DEF ScanSoFar

\* Calls to encode, and steps that change nothing.
LEMMA OthersKeepScanInv ==
    ASSUME ScanInv, DecodeInv',
           UNCHANGED <<jpeg, image, scansleft, reachedend, slice, blocks, w, out>>,
           \/ op = "none" /\ op' = "encode" /\ MoreBytes
           \/ op = "encode" /\ op' = "none"
           \/ op' = op
    PROVE  ScanInv'
<1>1. /\ jpeg' = jpeg /\ image' = image /\ scansleft' = scansleft /\ reachedend' = reachedend
      /\ slice' = slice /\ blocks' = blocks /\ w' = w /\ out' = out
  OBVIOUS
<1>2. /\ Components' = Components /\ (Begun' <=> Begun) /\ (MoreBytes' <=> MoreBytes)
      /\ \A j : VBlocks(j)' = VBlocks(j) /\ HBlocks(j)' = HBlocks(j)
      /\ \A j : Cols(j)' = Cols(j) /\ RowsInSlice(j)' = RowsInSlice(j)
      /\ \A j, x, y : Place(j, x, y)' = Place(j, x, y)
  BY <1>1 DEF Components, VBlocks, HBlocks, BlocksPerRow, Cols, RowsInSlice, Place, Begun, MoreBytes
<1>3. (Started' <=> Started) /\ (Unfinished' <=> Unfinished) /\ Reached' = Reached
      /\ (op' = "slice" <=> op = "slice")
  BY <1>1 DEF Started, Unfinished, Reached
<1>4. SamePlace
  BY <1>1, <1>3, Zenon DEF SamePlace
<1>5. ScanSoFar'
  BY <1>4, SamePlaceSameScan DEF ScanInv
<1>6. WriterTyped'
  BY <1>1, <1>2 DEF ScanInv, WriterTyped, WriterStates
<1>7. WriterAt'
  BY <1>1, <1>2, <1>3 DEF ScanInv, WriterAt
<1>8. ScanAt'
  BY <1>1, <1>2, <1>3 DEF ScanInv, ScanAt
<1> QED
  BY <1>5, <1>6, <1>7, <1>8 DEF ScanInv

\* A slice begins, and a block is decoded: the writer waits.
LEMMA DecodingKeepsScanInv ==
    ASSUME ScanInv, DecodeInv', ReadNextSlice \/ DecodeBlock
    PROVE  ScanInv'
<1>1. /\ jpeg' = jpeg /\ image' = image /\ scansleft' = scansleft /\ reachedend' = reachedend
      /\ w' = w /\ out' = out /\ op' = "slice"
  BY DEF ReadNextSlice, DecodeBlock
<1>2. /\ ~w.mcusavailable /\ Started /\ Started'
      /\ slice'.finishedrows = slice.finishedrows
  <2>1. CASE ReadNextSlice
    <3>1. slice.finishedrows = slice'.finishedrows
      BY <2>1 DEF ReadNextSlice, ScanInv, DecodeInv, Typed
    <3> QED
      BY <2>1, <3>1 DEF ReadNextSlice, MoreBytes, MoreSlices, Started
  <2>2. CASE DecodeBlock
    BY <2>2 DEF DecodeBlock, Started, ScanInv, WriterAt
  <2> QED
    BY <2>1, <2>2
<1>3. Components' = Components /\ (Begun' <=> Begun)
  BY <1>1 DEF Components, Begun
<1>4. Reached' = Reached /\ (Unfinished' <=> Unfinished)
  BY <1>1, <1>2 DEF Reached, Unfinished
<1>5. SamePlace
  BY <1>1, <1>4, Zenon DEF SamePlace
<1>6. ScanSoFar'
  BY <1>5, SamePlaceSameScan DEF ScanInv
<1>7. WriterTyped'
  BY <1>1, <1>3 DEF ScanInv, WriterTyped, WriterStates
<1>8. WriterAt'
  BY <1>1, <1>2 DEF ScanInv, WriterAt
<1>9. Begun
  BY <1>2 DEF ScanInv, ScanAt, Unfinished
<1>10. ~slice'.slicesavailable => slice'.finishedrows + slice'.currheight = jpeg.vmcus
  <2>0. /\ slice \in [sliceheight : Nat, currheight : Nat, finishedrows : Nat, slicesavailable : BOOLEAN]
        /\ jpeg.vmcus \in Nat
    BY LayoutFacts DEF ScanInv, DecodeInv, Typed
  <2>1. CASE ReadNextSlice
    <3> DEFINE last == slice.finishedrows + slice.sliceheight >= jpeg.vmcus
    <3>2. slice' = [slice EXCEPT !.currheight = IF last THEN jpeg.vmcus - slice.finishedrows
                                               ELSE slice.sliceheight,
                                 !.slicesavailable = ~last]
      BY <2>1 DEF ReadNextSlice
    <3> HIDE DEF last
    <3>3. slice'.slicesavailable = (~last) /\ (~slice'.slicesavailable => last)
      BY <2>0, <3>2 DEF last
    <3>4. last => slice'.currheight = jpeg.vmcus - slice.finishedrows
      BY <2>0, <3>2
    <3>5. PICK f \in Nat, v \in Nat : f = slice.finishedrows /\ v = jpeg.vmcus
      BY <2>0
    <3> QED
      BY <1>2, <3>3, <3>4, <3>5
  <2>2. CASE DecodeBlock
    BY <2>2 DEF DecodeBlock, ScanInv, ScanAt
  <2> QED
    BY <2>1, <2>2
<1>11. ScanAt'
  BY <1>1, <1>2, <1>3, <1>4, <1>9, <1>10 DEF ScanInv, ScanAt
<1> QED
  BY <1>6, <1>7, <1>8, <1>11 DEF ScanInv

\* The slice is decoded, and the writer goes to its first block.
LEMMA FinishKeepsScanInv ==
    ASSUME ScanInv, DecodeInv', FinishSlice
    PROVE  ScanInv'
<1>1. /\ jpeg' = jpeg /\ image' = image /\ scansleft' = scansleft /\ reachedend' = reachedend
      /\ out' = out /\ op = "slice" /\ op' = "none" /\ blocks' = blocks
      /\ at.comp \notin Components
      /\ slice' = [slice EXCEPT !.finishedrows = slice.finishedrows + slice.currheight]
      /\ w' = [w EXCEPT !.mcusavailable = TRUE, !.row = 0, !.col = 0, !.comp = 1,
                        !.x = 0, !.y = 0, !.coeff = 0]
  BY DEF FinishSlice
<1>2. /\ slice \in [sliceheight : Nat, currheight : Nat, finishedrows : Nat, slicesavailable : BOOLEAN]
      /\ w \in WriterStates /\ at.comp \in Nat \ {0} /\ jpeg \in Layouts
  BY DEF ScanInv, DecodeInv, Typed, WriterTyped
<1>3. /\ slice'.finishedrows = slice.finishedrows + slice.currheight
      /\ slice'.currheight = slice.currheight /\ slice'.sliceheight = slice.sliceheight
      /\ slice'.slicesavailable = slice.slicesavailable
  BY <1>1, <1>2
<1>4. ~w.mcusavailable /\ w.comp = 1 /\ w.x = 0 /\ w.y = 0 /\ w.coeff = 0
  BY <1>1 DEF ScanInv, WriterAt
<1>5. /\ w'.mcusavailable = TRUE /\ w'.row = 0 /\ w'.col = 0
      /\ w'.comp = w.comp /\ w'.x = w.x /\ w'.y = w.y /\ w'.coeff = w.coeff
      /\ w'.mcucounter = w.mcucounter /\ w'.restartmarkerindex = w.restartmarkerindex
      /\ w'.writerestartmarker = w.writerestartmarker /\ w'.predicted = w.predicted
      /\ w'.bits = w.bits /\ w'.needsstuffing = w.needsstuffing
      /\ w' \in WriterStates
  BY <1>1, <1>2, <1>4 DEF WriterStates
<1>6. /\ Components' = Components /\ (Begun' <=> Begun) /\ 1 \in Components
      /\ \A j : VBlocks(j)' = VBlocks(j) /\ HBlocks(j)' = HBlocks(j)
      /\ \A j : Cols(j)' = Cols(j) /\ RowsInSlice(j)' = RowsInSlice(j)
      /\ \A j, x, y : Place(j, x, y)' = Place(j, x, y)
  <2>1. 1 \in Components
    <3>1. jpeg \in Layouts
      BY <1>2
    <3>2. Components = 1..Len(jpeg.factors) /\ Len(jpeg.factors) \in 1..4
      BY <3>1, LayoutFacts
    <3>3. \A n \in 1..4 : 1 \in 1..n
      OBVIOUS
    <3> QED
      BY <3>2, <3>3, Zenon
  <2>2. /\ Components' = Components /\ (Begun' <=> Begun)
        /\ \A j : VBlocks(j)' = VBlocks(j) /\ HBlocks(j)' = HBlocks(j)
        /\ \A j : BlocksPerRow(j)' = BlocksPerRow(j)
    BY <1>1 DEF Components, VBlocks, HBlocks, BlocksPerRow, Begun
  <2>3. \A j : Cols(j)' = Cols(j)
    BY <2>2 DEF Cols
  <2>4. \A j : RowsInSlice(j)' = RowsInSlice(j)
    BY <1>3, <2>2 DEF RowsInSlice
  <2>5. \A j, x, y : Place(j, x, y)' = Place(j, x, y)
    BY <2>2 DEF Place
  <2> QED
    BY <2>1, <2>2, <2>3, <2>4, <2>5
<1>7. Started /\ Unfinished /\ Unfinished'
  BY <1>1, <1>5 DEF Started, Unfinished
<1>8. /\ slice.currheight \in 1..slice.sliceheight
      /\ slice.finishedrows + slice.currheight <= jpeg.vmcus
      /\ slice.slicesavailable => slice.finishedrows + slice.currheight < jpeg.vmcus
      /\ \A j \in Components : \A x \in Cols(j), y \in RowsInSlice(j) :
           IsBefore(j, x, y) => blocks[j][Place(j, x, y)] = <<x, slice.finishedrows * VBlocks(j) + y>>
  BY <1>1, Zenon DEF ScanInv, DecodeInv, WithinSlice
<1>9. PICK f \in Nat, s \in Nat : f = slice.finishedrows /\ s = slice.currheight
  BY <1>2
<1>10. (f + s) - s = f /\ (f + s) - s + 0 = f /\ s \in 1..(f + s)
  BY <1>8, <1>9
<1>11. Reached' = Reached
  <2>1. PICK h \in Nat : h = jpeg.hmcus
    BY <1>2, LayoutFacts
  <2>2. Reached' = ((f + s) - s + 0) * h + 0
    BY <1>1, <1>3, <1>5, <1>9, <2>1 DEF Reached
  <2>3. Reached = f * h
    BY <1>4, <1>9, <2>1 DEF Reached
  <2>4. PICK a \in Nat : a = f * h
    BY <2>1
  <2> QED
    BY <1>10, <2>2, <2>3, <2>4
<1>12. SamePlace
  BY <1>1, <1>5, <1>7, <1>11, Zenon DEF SamePlace
<1>13. ScanSoFar'
  BY <1>12, SamePlaceSameScan DEF ScanInv
<1>14. WriterTyped'
  BY <1>1, <1>5, <1>6 DEF ScanInv, WriterTyped, WriterStates
<1>15. \A j \in Components : \A x \in Cols(j), y \in RowsInSlice(j) :
          blocks[j][Place(j, x, y)] = <<x, slice.finishedrows * VBlocks(j) + y>>
  <2>1. \A j \in Components : j < at.comp
    BY <1>1, <1>2, LayoutFacts
  <2>2. \A j \in Components : \A x, y : IsBefore(j, x, y)
    BY <2>1 DEF IsBefore
  <2> QED
    BY <1>8, <2>2
<1>16. WriterAt'
  <2>1. (slice.finishedrows + slice.currheight) - slice.currheight = slice.finishedrows
    BY <1>9, <1>10
  <2>2. \A j \in Components : \A x \in Cols(j), y \in RowsInSlice(j) :
          blocks'[j][Place(j, x, y)] =
            <<x, (slice'.finishedrows - slice'.currheight) * VBlocks(j) + y>>
    BY <1>1, <1>3, <1>15, <2>1
  <2>3. slice'.currheight \in 1..slice'.finishedrows
    BY <1>3, <1>9, <1>10
  <2>4. w'.row < slice'.currheight
    BY <1>3, <1>5, <1>8, <1>9
  <2>5. w'.col < jpeg'.hmcus /\ w'.x < HBlocks(w.comp)' /\ w'.y < VBlocks(w.comp)'
    <3>1. HBlocks(1) \in Nat \ {0} /\ VBlocks(1) \in Nat \ {0} /\ jpeg.hmcus \in Nat \ {0}
      BY <1>2, <1>6, LayoutFacts
    <3> QED
      BY <1>1, <1>4, <1>5, <1>6, <3>1
  <2>6. w'.coeff <= LastCoeff
    BY <1>4, <1>5, SizeAssumption
  <2>7. op' # "slice" /\ w'.mcusavailable /\ w'.comp = w.comp
    BY <1>1, <1>5
  <2> QED
    BY <1>6, <2>2, <2>3, <2>4, <2>5, <2>6, <2>7 DEF WriterAt
<1>17. Begun /\ ~reachedend
  BY <1>7 DEF ScanInv, ScanAt
<1>18. ScanAt'
  <2>1. slice'.finishedrows <= jpeg'.vmcus
    BY <1>1, <1>3, <1>8
  <2>2. Started' <=> slice'.finishedrows < jpeg'.vmcus
    <3>1. Started' <=> slice.slicesavailable
      BY <1>1, <1>2, <1>3 DEF Started
    <3>2. ~slice.slicesavailable => ~(slice.finishedrows + slice.currheight < jpeg.vmcus)
      BY <1>1, <1>9, LayoutFacts DEF ScanInv, ScanAt
    <3> QED
      BY <1>1, <1>3, <1>8, <3>1, <3>2
  <2> QED
    BY <1>1, <1>6, <1>7, <1>17, <2>1, <2>2 DEF ScanInv, ScanAt
<1> QED
  BY <1>13, <1>14, <1>16, <1>18 DEF ScanInv

\* A scan begins with nothing written, and its first interval.
LEMMA ScanBegins ==
    ASSUME DecodeInv', WriterTyped', image' \in Image(jpeg'), w' = WriterReset', out' = <<>>,
           slice'.slicesavailable, slice'.finishedrows = 0
    PROVE  ScanSoFar'
<1>1. /\ jpeg' \in Layouts /\ Intervals(jpeg') \in Nat \ {0} /\ Each' \in Nat \ {0}
      /\ jpeg'.hmcus \in Nat
  <2>1. jpeg' \in Layouts
    BY DEF DecodeInv, Typed
  <2> QED
    BY <2>1, SomeInterval, MCUsType, LayoutParts DEF Each
<1>2. /\ w'.mcusavailable = FALSE /\ w'.comp = 1 /\ w'.x = 0 /\ w'.y = 0 /\ w'.coeff = 0
      /\ w'.mcucounter = 0 /\ w'.restartmarkerindex = 0 /\ w'.writerestartmarker = FALSE
      /\ w'.predicted = [i \in Components' |-> 0] /\ w'.bits = <<>> /\ w'.needsstuffing = FALSE
  BY DEF WriterReset
<1>3. Unfinished'
  BY DEF Unfinished, Started
<1>4. Where(0)'
  <2>1. Reached' = 0
    BY <1>1, <1>2 DEF Reached
  <2>2. 0 * Each' + 0 = 0 /\ 0 <= Each' /\ 0 # Each' /\ 0 % 8 = 0
    <3>1. \A e \in Nat \ {0} : 0 * e + 0 = 0 /\ 0 <= e /\ 0 # e
      OBVIOUS
    <3>2. 0 % 8 = 0
      OBVIOUS
    <3> QED
      BY <1>1, <3>1, <3>2, Zenon
  <2> QED
    BY <1>2, <2>1, <2>2, Zenon DEF Where
<1>5. BlocksCoded' = 0
  <2>1. 1 \in DOMAIN jpeg'.factors
    BY <1>2 DEF WriterTyped, WriterStates, Components
  <2>2. jpeg'.factors[1][1] \in Nat
    BY <1>1, <2>1, LayoutParts
  <2> QED
    BY <1>2, <2>2 DEF BlocksCoded, HBlocks
<1>6. SoFar(HeadOf(image, jpeg, 0), <<>>)'
  <2>1. HeadOf(image', jpeg', 0) = <<>>
    BY NothingDone, Zenon
  <2>2. <<>> \in Seq(Int) /\ 0 \in Nat
    OBVIOUS
  <2>3. Written(<<>>, <<>>, 0, <<>>, FALSE, <<>>)
    BY <2>2, WrittenNothing
  <2> QED
    BY <1>2, <2>1, <2>2, <2>3, Zenon DEF SoFar
<1>7. AtBlock(image', jpeg', 0, 0, 1, 0, <<>>, w'.predicted)
  <2>1. 0 \in Nat /\ 0 < Intervals(jpeg')
    BY <1>1
  <2>2. AtBlock(image', jpeg', 0, 0, 1, 0, <<>>, [c \in DOMAIN jpeg'.factors |-> 0])
    BY <1>1, <2>1, AtBegin
  <2> QED
    BY <1>2, <2>2, Zenon DEF Components
<1>8. Coding(0)'
  <2>1. <<>> \in Seq(Bit)
    OBVIOUS
  <2> QED
    BY <1>2, <1>3, <1>5, <1>6, <1>7, <2>1, Zenon DEF Coding
<1>9. 0 \in 0..(Intervals(jpeg') - 1)
  BY <1>1
<1> QED
  BY <1>4, <1>8, <1>9, Zenon DEF ScanSoFar

\* The next scan, or the end of the image.
LEMMA BundleKeepsScanInv ==
    ASSUME ScanInv, DecodeInv', ReadNextBundle
    PROVE  ScanInv'
<1>1. /\ jpeg' = jpeg /\ image' = image /\ op' = op /\ op = "none" /\ ~MoreBytes /\ ~MoreSlices
      /\ Components' = Components
  BY DEF ReadNextBundle, Components
<1>2. ~w.mcusavailable
  BY <1>1 DEF MoreBytes
<1>3. scansleft \in 0..Scans /\ Scans \in Nat /\ (reachedend => scansleft = 0)
      /\ image \in Image(jpeg) /\ reachedend \in BOOLEAN
  BY SizeAssumption DEF ScanInv, ScanAt, WriterTyped
<1>4. CASE scansleft = 0
  <2>1. /\ reachedend' = TRUE /\ scansleft' = scansleft /\ slice' = slice /\ blocks' = blocks
        /\ w' = w /\ out' = out
    BY <1>4 DEF ReadNextBundle
  <2>2. /\ (Begun' <=> Begun) /\ (Started' <=> Started) /\ (Unfinished' <=> Unfinished)
        /\ Reached' = Reached /\ (MoreBytes' <=> MoreBytes)
    BY <1>1, <2>1 DEF Begun, Started, Unfinished, Reached, MoreBytes
  <2>3. ~Unfinished
    BY <1>1, <1>2 DEF Unfinished, Started, MoreSlices, ScanInv, ScanAt
  <2>4. SamePlace
    BY <1>1, <2>1, <2>2, Zenon DEF SamePlace
  <2>5. ScanSoFar'
    BY <2>4, SamePlaceSameScan DEF ScanInv
  <2>6. WriterTyped'
    BY <1>1, <2>1 DEF ScanInv, WriterTyped, WriterStates
  <2>7. WriterAt'
    BY <1>2, <2>1 DEF ScanInv, WriterAt
  <2>8. ScanAt'
    BY <1>1, <1>4, <2>1, <2>2, <2>3 DEF ScanInv, ScanAt
  <2> QED
    BY <2>5, <2>6, <2>7, <2>8 DEF ScanInv
<1>5. CASE scansleft # 0
  <2>1. /\ reachedend' = reachedend /\ scansleft' = scansleft - 1 /\ w' = WriterReset /\ out' = <<>>
        /\ slice' = [sliceheight |-> SliceHeight(jpeg), currheight |-> 0,
                     finishedrows |-> 0, slicesavailable |-> TRUE]
    BY <1>5 DEF ReadNextBundle
  <2>2. /\ slice'.finishedrows = 0 /\ slice'.slicesavailable = TRUE
    BY <2>1
  <2>3. ~reachedend /\ scansleft' \in 0..Scans /\ scansleft' # Scans
    BY <1>3, <1>5, <2>1
  <2>4. w' = WriterReset'
    BY <1>1, <2>1 DEF WriterReset
  <2>5. jpeg \in Layouts /\ 1 \in Components
    <3>1. jpeg \in Layouts
      BY DEF ScanInv, DecodeInv, Typed
    <3>2. Components = 1..Len(jpeg.factors) /\ Len(jpeg.factors) \in 1..4
      BY <3>1, LayoutFacts
    <3>3. \A n \in 1..4 : 1 \in 1..n
      OBVIOUS
    <3> QED
      BY <3>1, <3>2, <3>3, Zenon
  <2>6. WriterTyped'
    <3>1. WriterReset \in WriterStates
      <4>1. [i \in Components |-> 0] \in [Components -> Int] /\ <<>> \in Seq(Bit)
        OBVIOUS
      <4> QED
        BY <2>5, <4>1 DEF WriterReset, WriterStates
    <3>2. <<>> \in Seq(Int)
      OBVIOUS
    <3> QED
      BY <1>1, <1>3, <2>1, <3>1, <3>2 DEF WriterTyped, WriterStates
  <2>7. ScanSoFar'
    BY <1>1, <1>3, <2>1, <2>2, <2>4, <2>6, ScanBegins
  <2>8. ~w'.mcusavailable /\ w'.comp = 1 /\ w'.x = 0 /\ w'.y = 0 /\ w'.coeff = 0
    BY <2>1 DEF WriterReset
  <2>9. WriterAt'
    BY <2>8 DEF WriterAt
  <2>10. ScanAt'
    <3>1. jpeg.vmcus \in Nat \ {0}
      BY <2>5, LayoutFacts
    <3>2. Begun' /\ Started'
      BY <2>2, <2>3 DEF Begun, Started
    <3>3. 0 <= jpeg'.vmcus /\ 0 < jpeg'.vmcus
      BY <1>1, <3>1
    <3> QED
      BY <1>1, <1>3, <2>1, <2>2, <2>3, <3>2, <3>3 DEF ScanAt
  <2> QED
    BY <2>6, <2>7, <2>9, <2>10 DEF ScanInv
<1> QED
  BY <1>4, <1>5

\* It holds of the file as opened.
LEMMA ScanInvInit == Init => ScanInv
<1> SUFFICES ASSUME Init PROVE ScanInv
  OBVIOUS
<1>1. /\ jpeg \in Layouts /\ image \in Image(jpeg) /\ scansleft = Scans /\ reachedend = FALSE
      /\ op = "none" /\ w = WriterReset /\ out = <<>>
      /\ slice = [sliceheight |-> 0, currheight |-> 0, finishedrows |-> 0, slicesavailable |-> FALSE]
  BY DEF Init
<1>2. DecodeInv
  BY DecodeInvInit
<1>3. 1 \in Components
  <2>2. Components = 1..Len(jpeg.factors) /\ Len(jpeg.factors) \in 1..4
    BY <1>1, LayoutFacts
  <2>3. \A n \in 1..4 : 1 \in 1..n
    OBVIOUS
  <2> QED
    BY <2>2, <2>3, Zenon
<1>4. WriterTyped
  <2>1. [i \in Components |-> 0] \in [Components -> Int] /\ <<>> \in Seq(Bit) /\ <<>> \in Seq(Int)
    OBVIOUS
  <2>2. WriterReset \in WriterStates
    BY <1>3, <2>1 DEF WriterReset, WriterStates
  <2> QED
    BY <1>1, <2>1, <2>2 DEF WriterTyped
<1>5. /\ ~w.mcusavailable /\ w.comp = 1 /\ w.x = 0 /\ w.y = 0 /\ w.coeff = 0 /\ w.bits = <<>>
      /\ ~w.needsstuffing /\ ~w.writerestartmarker
  BY <1>1 DEF WriterReset
<1>6. WriterAt
  BY <1>5 DEF WriterAt
<1>7. ~Unfinished /\ ~MoreBytes /\ ~Begun
  BY <1>1, <1>5 DEF Unfinished, Started, MoreBytes, Begun
<1>8. ScanAt
  BY <1>1, <1>7, SizeAssumption DEF ScanAt
<1>9. ScanSoFar
  BY <1>7 DEF ScanSoFar
<1> QED
  BY <1>2, <1>4, <1>6, <1>8, <1>9 DEF ScanInv

\* What a step of EncodeWinZipJPEGBlocksToBuffer leaves alone.
WhileEncoding ==
    /\ op = "encode" /\ op' = op
    /\ UNCHANGED <<jpeg, image, scansleft, reachedend, slice, blocks>>

\* ... and what it leaves if it codes nothing.
SameBlock ==
    /\ w'.mcusavailable = w.mcusavailable /\ w'.row = w.row /\ w'.col = w.col
    /\ w'.comp = w.comp /\ w'.x = w.x /\ w'.y = w.y /\ w'.coeff = w.coeff

\* A step within a block keeps the place of the writer.
LEMMA SameBlockFacts ==
    ASSUME ScanInv, WhileEncoding, SameBlock
    PROVE  /\ WriterAt' /\ ScanAt' /\ Begun /\ Begun'
           /\ Reached' = Reached /\ (Unfinished' <=> Unfinished)
           /\ Each' = Each /\ BlocksCoded' = BlocksCoded /\ Components' = Components
           /\ jpeg' = jpeg /\ image' = image
<1>1. /\ jpeg' = jpeg /\ image' = image /\ scansleft' = scansleft /\ reachedend' = reachedend
      /\ slice' = slice /\ blocks' = blocks /\ op = "encode" /\ op' = "encode"
  BY DEF WhileEncoding
<1>2. /\ w'.mcusavailable = w.mcusavailable /\ w'.row = w.row /\ w'.col = w.col
      /\ w'.comp = w.comp /\ w'.x = w.x /\ w'.y = w.y /\ w'.coeff = w.coeff
  BY DEF SameBlock
<1>3. /\ Components' = Components /\ (Begun' <=> Begun) /\ Each' = Each
      /\ \A j : VBlocks(j)' = VBlocks(j) /\ HBlocks(j)' = HBlocks(j)
      /\ \A j : Cols(j)' = Cols(j) /\ RowsInSlice(j)' = RowsInSlice(j)
      /\ \A j, x, y : Place(j, x, y)' = Place(j, x, y)
  BY <1>1 DEF Components, VBlocks, HBlocks, BlocksPerRow, Cols, RowsInSlice, Place, Begun, Each
<1>4. /\ (Started' <=> Started) /\ (Unfinished' <=> Unfinished) /\ Reached' = Reached
      /\ BlocksCoded' = BlocksCoded
  BY <1>1, <1>2 DEF Started, Unfinished, Reached, BlocksCoded, HBlocks
<1>5. Begun
  BY <1>1 DEF ScanInv, ScanAt
<1>6. HBlocks(w.comp)' = HBlocks(w.comp) /\ VBlocks(w.comp)' = VBlocks(w.comp)
  BY <1>1, <1>2 DEF HBlocks, VBlocks
<1>7. WriterAt'
  BY <1>1, <1>2, <1>3, <1>6 DEF ScanInv, WriterAt
<1>8. ScanAt'
  BY <1>1, <1>3, <1>4, <1>5 DEF ScanInv, ScanAt
<1> QED
  BY <1>1, <1>3, <1>4, <1>5, <1>7, <1>8

\* Intervals have what is before them, and bits.
LEMMA HeadFacts ==
    ASSUME ScanInv, Begun, NEW k, k \in 0..(Intervals(jpeg) - 1), Where(k)
    PROVE  /\ k \in Nat /\ k < Intervals(jpeg) /\ k + 1 <= Intervals(jpeg)
           /\ jpeg \in Layouts /\ image \in Image(jpeg)
           /\ HeadOf(image, jpeg, k) \in Seq(Int)
           /\ IntervalOf(image, jpeg, k) \in Seq(Bit)
           /\ Padded(IntervalOf(image, jpeg, k)) \in Seq(Bit)
           /\ DoneParts(image, jpeg, k) \in Seq(Int) /\ DoneParts(image, jpeg, k + 1) \in Seq(Int)
<1>1. /\ k \in Nat /\ k < Intervals(jpeg) /\ k <= Intervals(jpeg) /\ k + 1 <= Intervals(jpeg)
      /\ k + 1 \in Nat
  BY WhereIs DEF ScanInv
<1>2. jpeg \in Layouts /\ image \in Image(jpeg)
  BY DEF ScanInv, ScanAt, DecodeInv, Typed
<1>3. HeadOf(image, jpeg, k) \in Seq(Int) /\ DoneParts(image, jpeg, k) \in Seq(Int)
  BY <1>1, <1>2, DoneType
<1>4. DoneParts(image, jpeg, k + 1) \in Seq(Int)
  BY <1>1, <1>2, DoneType
<1>5. IntervalOf(image, jpeg, k) \in Seq(Bit)
  BY <1>1, <1>2, IntervalIs DEF IntervalOf
<1> QED
  BY <1>1, <1>2, <1>3, <1>4, <1>5, PaddedType

\* A step that only writes leaves the stage.
LEMMA WritingKeepsStage ==
    ASSUME ScanInv, WhileEncoding, SameBlock,
           w'.mcucounter = w.mcucounter, w'.restartmarkerindex = w.restartmarkerindex,
           w'.writerestartmarker = w.writerestartmarker, w'.predicted = w.predicted,
           \A head \in Seq(Int), raw \in Seq(Bit) : SoFar(head, raw) => SoFar(head, raw)',
           NEW k, k \in 0..(Intervals(jpeg) - 1), Where(k),
           Coding(k) \/ Due(k) \/ Closing(k)
    PROVE  Where(k)' /\ (Coding(k)' \/ Due(k)' \/ Closing(k)')
<1>1. /\ Begun /\ Reached' = Reached /\ (Unfinished' <=> Unfinished)
      /\ Each' = Each /\ BlocksCoded' = BlocksCoded /\ jpeg' = jpeg /\ image' = image
  BY SameBlockFacts
<1>2. w'.comp = w.comp /\ w'.x = w.x /\ w'.y = w.y /\ w'.coeff = w.coeff
  BY DEF SameBlock
<1>3. /\ HeadOf(image, jpeg, k) \in Seq(Int)
      /\ Padded(IntervalOf(image, jpeg, k)) \in Seq(Bit)
  BY <1>1, HeadFacts
<1>4. Where(k)'
  BY <1>1, <1>2, Zenon DEF Where
<1>5. \A raw \in Seq(Bit) :
        SoFar(HeadOf(image, jpeg, k), raw) => SoFar(HeadOf(image, jpeg, k), raw)'
  <2>1. HeadOf(image, jpeg, k)' = HeadOf(image, jpeg, k)
    BY <1>1, Zenon
  <2>2. ASSUME NEW raw \in Seq(Bit), NEW head \in Seq(Int), head = HeadOf(image, jpeg, k),
               SoFar(head, raw)
        PROVE  SoFar(HeadOf(image, jpeg, k), raw)'
    <3>1. SoFar(head, raw)'
      BY <2>2
    <3>2. PICK n \in Nat : Written(head, raw, n, w'.bits, w'.needsstuffing, out')
      BY <3>1 DEF SoFar
    <3>3. Written(HeadOf(image', jpeg', k), raw, n, w'.bits, w'.needsstuffing, out')
      BY <2>1, <2>2, <3>2, Zenon
    <3> QED
      BY <3>3, Zenon DEF SoFar
  <2> QED
    BY <1>3, <2>2
<1>6. ASSUME Coding(k)
      PROVE  Coding(k)'
  BY <1>1, <1>2, <1>5, <1>6, Zenon DEF Coding
<1>7. ASSUME Due(k)
      PROVE  Due(k)'
  <2>1. SoFar(HeadOf(image, jpeg, k), Padded(IntervalOf(image, jpeg, k)))'
    BY <1>1, <1>3, <1>5, <1>7, Zenon DEF Due
  <2> QED
    BY <1>1, <1>7, <2>1, Zenon DEF Due
<1>8. ASSUME Closing(k)
      PROVE  Closing(k)'
  <2>1. SoFar(HeadOf(image, jpeg, k), Padded(IntervalOf(image, jpeg, k)))'
    BY <1>1, <1>3, <1>5, <1>8, Zenon DEF Closing
  <2> QED
    BY <1>1, <1>8, <2>1, Zenon DEF Closing
<1> QED
  BY <1>4, <1>6, <1>7, <1>8

\* Stages in an interval make the invariant, if the writer is typed.
LEMMA StageMakesInv ==
    ASSUME DecodeInv', WriterTyped', WriterAt', ScanAt', NEW k, k \in 0..(Intervals(jpeg') - 1),
           Where(k)', Coding(k)' \/ Due(k)' \/ HalfMarked(k)' \/ Closing(k)'
    PROVE  ScanInv'
<1>1. ScanSoFar'
  BY Zenon DEF ScanSoFar
<1> QED
  BY <1>1 DEF ScanInv

\* The zero behind a byte 0xff.
LEMMA StuffingKeepsScanInv ==
    ASSUME ScanInv, DecodeInv', WhileEncoding, WriteStuffing
    PROVE  ScanInv'
<1>1. /\ w.needsstuffing /\ out' = Append(out, 0) /\ w' = [w EXCEPT !.needsstuffing = FALSE]
  BY DEF WriteStuffing, Put
<1>2. w \in WriterStates /\ out \in Seq(Int) /\ reachedend \in BOOLEAN
  BY DEF ScanInv, WriterTyped
<1>3. /\ w' \in WriterStates /\ w'.needsstuffing = FALSE
      /\ w'.mcusavailable = w.mcusavailable /\ w'.row = w.row /\ w'.col = w.col
      /\ w'.comp = w.comp /\ w'.x = w.x /\ w'.y = w.y /\ w'.coeff = w.coeff
      /\ w'.mcucounter = w.mcucounter /\ w'.restartmarkerindex = w.restartmarkerindex
      /\ w'.writerestartmarker = w.writerestartmarker /\ w'.predicted = w.predicted
      /\ w'.bits = w.bits
  BY <1>1, <1>2 DEF WriterStates
<1>4. SameBlock
  BY <1>3 DEF SameBlock
<1>5. /\ WriterAt' /\ ScanAt' /\ Begun /\ jpeg' = jpeg /\ Components' = Components
  BY <1>4, SameBlockFacts
<1>6. WriterTyped'
  <2>1. Append(out, 0) \in Seq(Int)
    BY <1>2
  <2>2. reachedend' = reachedend
    BY DEF WhileEncoding
  <2> QED
    BY <1>1, <1>2, <1>3, <1>5, <2>1, <2>2 DEF WriterTyped, WriterStates
<1>7. \A head \in Seq(Int), raw \in Seq(Bit) : SoFar(head, raw) => SoFar(head, raw)'
  <2> SUFFICES ASSUME NEW head \in Seq(Int), NEW raw \in Seq(Bit), SoFar(head, raw)
               PROVE  SoFar(head, raw)'
    OBVIOUS
  <2>1. PICK n \in Nat : Written(head, raw, n, w.bits, w.needsstuffing, out)
    BY DEF SoFar
  <2>2. Written(head, raw, n, w.bits, TRUE, out)
    <3>1. w.needsstuffing = TRUE
      BY <1>1, StateFacts DEF ScanInv
    <3> QED
      BY <2>1, <3>1, Zenon
  <2>3. Written(head, raw, n, w.bits, FALSE, Append(out, 0))
    BY <1>2, <2>2, WrittenStuffing, Zenon
  <2>4. Written(head, raw, n, w'.bits, w'.needsstuffing, out')
    BY <1>1, <1>3, <2>3, Zenon
  <2> QED
    BY <2>4, Zenon DEF SoFar
<1>8. PICK k : /\ k \in 0..(Intervals(jpeg) - 1) /\ Where(k)
               /\ Coding(k) \/ Due(k) \/ HalfMarked(k) \/ Closing(k)
  BY <1>5 DEF ScanInv, ScanSoFar
<1>9. ~HalfMarked(k)
  BY <1>1 DEF HalfMarked
<1>10. Where(k)' /\ (Coding(k)' \/ Due(k)' \/ Closing(k)')
  BY <1>3, <1>4, <1>7, <1>8, <1>9, WritingKeepsStage
<1>11. k \in 0..(Intervals(jpeg') - 1)
  BY <1>5, <1>8
<1> QED
  BY <1>5, <1>6, <1>10, <1>11, StageMakesInv

\* The bits of the second half of a marker.
LEMMA MarkerBits ==
    ASSUME NEW i \in 0..7
    PROVE  /\ Bits(208 + i, 8) \in Seq(Bit) /\ Len(Bits(208 + i, 8)) = 8
           /\ Byte(SubSeq(Bits(208 + i, 8), 1, 8)) = 208 + i
<1>1. PICK s : s = Bits(208 + i, 8)
  OBVIOUS
<1>2. s = [j \in 1..8 |-> ((208 + i) \div 2 ^ (8 - j)) % 2]
  BY <1>1 DEF Bits
<1>3. /\ 2 ^ 0 = 1 /\ 2 ^ 1 = 2 /\ 2 ^ 2 = 4 /\ 2 ^ 3 = 8 /\ 2 ^ 4 = 16 /\ 2 ^ 5 = 32
      /\ 2 ^ 6 = 64 /\ 2 ^ 7 = 128
  OBVIOUS
<1>4. /\ s[1] = ((208 + i) \div 128) % 2 /\ s[2] = ((208 + i) \div 64) % 2
      /\ s[3] = ((208 + i) \div 32) % 2 /\ s[4] = ((208 + i) \div 16) % 2
      /\ s[5] = ((208 + i) \div 8) % 2 /\ s[6] = ((208 + i) \div 4) % 2
      /\ s[7] = ((208 + i) \div 2) % 2 /\ s[8] = ((208 + i) \div 1) % 2
  BY <1>2, <1>3
<1>5. /\ s[1] = 1 /\ s[2] = 1 /\ s[3] = 0 /\ s[4] = 1 /\ s[5] = 0
      /\ s[6] = (i \div 4) % 2 /\ s[7] = (i \div 2) % 2 /\ s[8] = i % 2
  BY <1>4
<1>6. s \in Seq(Bit) /\ Len(s) = 8
  <2>1. \A j \in 1..8 : s[j] \in Bit
    BY <1>5 DEF Bit
  <2>2. [j \in 1..8 |-> s[j]] \in Seq(Bit) /\ Len([j \in 1..8 |-> s[j]]) = 8
    BY <2>1
  <2>3. s = [j \in 1..8 |-> s[j]]
    BY <1>2
  <2> QED
    BY <2>2, <2>3, Zenon
<1>7. Byte(SubSeq(s, 1, 8)) = ByteAt(s, 0)
  <2>1. 0 \in Nat /\ 0 + 8 <= Len(s) /\ 0 + 1 = 1 /\ 0 + 8 = 8
    BY <1>6
  <2>2. Byte(SubSeq(s, 0 + 1, 0 + 8)) = ByteAt(s, 0)
    BY <1>6, <2>1, ByteIsByteAt
  <2> QED
    BY <2>1, <2>2, Zenon
<1>8. ByteAt(s, 0) = 208 + i
  <2>1. 4 * ((i \div 4) % 2) + 2 * ((i \div 2) % 2) + (i % 2) = i
    OBVIOUS
  <2>2. ByteAt(s, 0) = 128 * s[1] + 64 * s[2] + 32 * s[3] + 16 * s[4] + 8 * s[5] + 4 * s[6] + 2 * s[7] + s[8]
    BY DEF ByteAt
  <2>3. PICK a \in Int, b \in Int, c \in Int : a = (i \div 4) % 2 /\ b = (i \div 2) % 2 /\ c = i % 2
    OBVIOUS
  <2>4. ByteAt(s, 0) = 208 + (4 * a + 2 * b + c)
    BY <1>5, <2>2, <2>3
  <2>5. 4 * a + 2 * b + c = i
    BY <2>1, <2>3
  <2> QED
    BY <2>4, <2>5
<1> QED
  BY <1>1, <1>6, <1>7, <1>8

\* A byte is written: of what is coded, or the second half of a marker.
LEMMA ByteKeepsScanInv ==
    ASSUME ScanInv, DecodeInv', WhileEncoding, WriteByte
    PROVE  ScanInv'
<1>1. w \in WriterStates /\ out \in Seq(Int) /\ reachedend \in BOOLEAN /\ w.bits \in Seq(Bit)
  BY DEF ScanInv, WriterTyped, WriterStates
<1>2. PICK byte : byte = Byte(SubSeq(w.bits, 1, 8))
  OBVIOUS
<1>3. PICK rest : rest = SubSeq(w.bits, 9, Len(w.bits))
  OBVIOUS
<1>4. /\ ~w.needsstuffing /\ Len(w.bits) >= 8 /\ out' = Append(out, byte)
      /\ w' = [w EXCEPT !.bits = rest, !.needsstuffing = (byte = 255)]
  BY <1>2, <1>3 DEF WriteByte, Put
<1>0. PICK stuff : stuff = (byte = 255) /\ stuff \in BOOLEAN
  OBVIOUS
<1>5. rest \in Seq(Bit)
  BY <1>1, <1>3, <1>4, SubSeqProperties
<1>6. /\ w' \in WriterStates
      /\ w'.mcusavailable = w.mcusavailable /\ w'.row = w.row /\ w'.col = w.col
      /\ w'.comp = w.comp /\ w'.x = w.x /\ w'.y = w.y /\ w'.coeff = w.coeff
      /\ w'.mcucounter = w.mcucounter /\ w'.restartmarkerindex = w.restartmarkerindex
      /\ w'.writerestartmarker = w.writerestartmarker /\ w'.predicted = w.predicted
      /\ w'.bits = rest /\ w'.needsstuffing = stuff
  <2>1. w' = [w EXCEPT !.bits = rest, !.needsstuffing = stuff]
    BY <1>0, <1>4, Zenon
  <2> QED
    BY <1>0, <1>1, <1>5, <2>1 DEF WriterStates
<1>7. w'.bits = rest /\ w'.needsstuffing = (byte = 255)
  BY <1>0, <1>6, Zenon
<1>8. SameBlock
  BY <1>6 DEF SameBlock
<1>9. /\ WriterAt' /\ ScanAt' /\ Begun /\ jpeg' = jpeg /\ image' = image /\ Components' = Components
      /\ Reached' = Reached /\ (Unfinished' <=> Unfinished)
      /\ Each' = Each /\ BlocksCoded' = BlocksCoded
  BY <1>8, SameBlockFacts
<1>10. PICK k : /\ k \in 0..(Intervals(jpeg) - 1) /\ Where(k)
                /\ Coding(k) \/ Due(k) \/ HalfMarked(k) \/ Closing(k)
  BY <1>9 DEF ScanInv, ScanSoFar
<1>11. k \in 0..(Intervals(jpeg') - 1)
  BY <1>9, <1>10
<1>12. reachedend' \in BOOLEAN
  BY <1>1 DEF WhileEncoding
<1>13. ASSUME byte \in Int
       PROVE  WriterTyped'
  <2>1. Append(out, byte) \in Seq(Int)
    BY <1>1, <1>13
  <2> QED
    BY <1>4, <1>6, <1>9, <1>12, <2>1 DEF WriterTyped, WriterStates
<1>14. w.needsstuffing = FALSE
  BY <1>4, StateFacts DEF ScanInv
<1>15. \A head \in Seq(Int), raw \in Seq(Bit) :
          SoFar(head, raw) => byte \in Int /\ SoFar(head, raw)'
  <2> SUFFICES ASSUME NEW head \in Seq(Int), NEW raw \in Seq(Bit), SoFar(head, raw)
               PROVE  byte \in Int /\ SoFar(head, raw)'
    OBVIOUS
  <2>1. PICK n \in Nat : Written(head, raw, n, w.bits, w.needsstuffing, out)
    BY DEF SoFar
  <2>2. Written(head, raw, n, w.bits, FALSE, out)
    BY <1>14, <2>1, Zenon
  <2>3. PICK waiting \in Seq(Bit) : waiting = w.bits
    BY <1>1
  <2>4. Written(head, raw, n, waiting, FALSE, out) /\ Len(waiting) >= 8
    BY <1>4, <2>2, <2>3
  <2>a. /\ head \in Seq(Int) /\ raw \in Seq(Bit) /\ n \in Nat
        /\ waiting \in Seq(Bit) /\ out \in Seq(Int)
    BY <1>1, <2>1, <2>3
  <2>5. /\ Byte(SubSeq(waiting, 1, 8)) \in Int
        /\ Written(head, raw, n + 1, SubSeq(waiting, 9, Len(waiting)),
                   Byte(SubSeq(waiting, 1, 8)) = 255, Append(out, Byte(SubSeq(waiting, 1, 8))))
    BY <2>a, <2>4, WrittenByte, Zenon
  <2>6. Written(head, raw, n + 1, rest, byte = 255, Append(out, byte))
    BY <1>2, <1>3, <2>3, <2>5, Zenon
  <2>7. Written(head, raw, n + 1, w'.bits, w'.needsstuffing, out')
    BY <1>4, <1>7, <2>6, Zenon
  <2>8. n + 1 \in Nat
    OBVIOUS
  <2>9. byte \in Int
    BY <1>2, <2>3, <2>5
  <2> QED
    BY <2>7, <2>8, <2>9, Zenon DEF SoFar
<1>16. CASE Coding(k) \/ Due(k) \/ Closing(k)
  <2>1. Where(k)' /\ (Coding(k)' \/ Due(k)' \/ Closing(k)')
    BY <1>6, <1>8, <1>10, <1>15, <1>16, WritingKeepsStage
  <2>2. /\ HeadOf(image, jpeg, k) \in Seq(Int)
        /\ Padded(IntervalOf(image, jpeg, k)) \in Seq(Bit)
    BY <1>9, <1>10, HeadFacts
  <2>3. \E raw \in Seq(Bit) : SoFar(HeadOf(image, jpeg, k), raw)
    BY <1>16, <2>2, Zenon DEF Coding, Due, Closing
  <2>4. byte \in Int
    BY <1>15, <2>2, <2>3, Zenon
  <2> QED
    BY <1>9, <1>11, <1>13, <2>1, <2>4, StageMakesInv
<1>17. CASE HalfMarked(k)
  <2>1. /\ Unfinished /\ ~w.writerestartmarker /\ w.mcucounter = 0 /\ k > 0
        /\ w.comp = 1 /\ w.x = 0 /\ w.y = 0 /\ w.coeff = 0
        /\ w.predicted = [i \in Components |-> 0]
        /\ w.bits = Bits(208 + ((k - 1) % 8), 8)
        /\ out = DoneParts(image, jpeg, k) \o <<255>>
    BY <1>17 DEF HalfMarked
  <2>2. /\ k \in Nat /\ k < Intervals(jpeg) /\ jpeg \in Layouts /\ image \in Image(jpeg)
        /\ DoneParts(image, jpeg, k) \in Seq(Int)
    BY <1>9, <1>10, HeadFacts
  <2>3. PICK i \in 0..7 : i = (k - 1) % 8
    <3>1. k - 1 \in Nat
      BY <2>1, <2>2
    <3>2. (k - 1) % 8 \in 0..7
      BY <3>1
    <3> QED
      BY <3>2
  <2>4. byte = 208 + i /\ Len(w.bits) = 8
    BY <1>2, <2>1, <2>3, MarkerBits, SMTT(20)
  <2>5. rest = <<>> /\ byte # 255 /\ byte \in Int
    <3>1. Len(rest) = 0
      BY <1>1, <1>3, <2>4, SubSeqProperties
    <3> QED
      BY <1>5, <2>3, <2>4, <3>1, EmptySeq
  <2>6. WriterTyped'
    BY <1>13, <2>5
  <2>7. Where(k)'
    BY <1>6, <1>9, <1>10, Zenon DEF Where
  <2>8. out' = HeadOf(image, jpeg, k)
    <3>1. PICK d \in Seq(Int) : d = DoneParts(image, jpeg, k)
      BY <2>2
    <3>2. MarkerBefore(k + 1) = <<255, byte>>
      <4>1. k + 1 \in Nat \ {0} /\ k + 1 # 1 /\ (k + 1) - 2 = k - 1
        BY <2>1, <2>2
      <4>2. MarkerBefore(k + 1) = <<255, 208 + (((k + 1) - 2) % 8)>>
        BY <4>1, MarkerType
      <4> QED
        BY <2>3, <2>4, <4>1, <4>2, Zenon
    <3>3. <<255, byte>> = <<255>> \o <<byte>>
      <4>1. <<255>> \in Seq(Int) /\ <<byte>> \in Seq(Int) /\ <<255, byte>> \in Seq(Int)
        BY <2>5
      <4>2. <<255>> \o <<byte>> \in Seq(Int) /\ Len(<<255>> \o <<byte>>) = 2
            /\ (<<255>> \o <<byte>>)[1] = 255 /\ (<<255>> \o <<byte>>)[2] = byte
        BY <4>1
      <4> QED
        BY <4>1, <4>2, SeqEqual
    <3>4. out' = (d \o <<255>>) \o <<byte>>
      <4>1. <<255>> \in Seq(Int)
        OBVIOUS
      <4>2. PICK t \in Seq(Int) : t = d \o <<255>>
        BY <4>1, ConcatProperties
      <4>3. Append(t, byte) = t \o <<byte>>
        BY <2>5, AppendIsConcat
      <4>4. out = t
        BY <2>1, <3>1, <4>2, Zenon
      <4> QED
        BY <1>4, <4>2, <4>3, <4>4, Zenon
    <3>5. (d \o <<255>>) \o <<byte>> = d \o (<<255>> \o <<byte>>)
      <4>1. <<255>> \in Seq(Int) /\ <<byte>> \in Seq(Int)
        BY <2>5
      <4> QED
        BY <4>1, BytesAssociate
    <3> QED
      BY <3>1, <3>2, <3>3, <3>4, <3>5, Zenon DEF HeadOf
  <2>9. SoFar(HeadOf(image, jpeg, k), <<>>)'
    <3>1. PICK head \in Seq(Int) : head = HeadOf(image, jpeg, k)
      BY <1>9, <1>10, HeadFacts
    <3>2. Written(head, <<>>, 0, <<>>, FALSE, head)
      BY WrittenNothing
    <3>3. w'.needsstuffing = FALSE
      BY <1>7, <2>5
    <3>4. Written(HeadOf(image', jpeg', k), <<>>, 0, w'.bits, w'.needsstuffing, out')
      BY <1>7, <1>9, <2>5, <2>8, <3>1, <3>2, <3>3, Zenon
    <3>5. 0 \in Nat
      OBVIOUS
    <3> QED
      BY <3>4, <3>5, Zenon DEF SoFar
  <2>10. BlocksCoded' = 0
    <3>1. HBlocks(w.comp) \in Nat
      BY StateFacts DEF ScanInv
    <3>2. BlocksCoded = 0
      BY <2>1, <3>1 DEF BlocksCoded
    <3> QED
      BY <1>9, <3>2
  <2>11. AtBlock(image, jpeg, k, 0, 1, 0, <<>>, w.predicted)
    <3>1. AtBlock(image, jpeg, k, 0, 1, 0, <<>>, [c \in DOMAIN jpeg.factors |-> 0])
      BY <2>2, AtBegin
    <3> QED
      BY <2>1, <3>1, Zenon DEF Components
  <2>12. Coding(k)'
    <3>1. <<>> \in Seq(Bit)
      OBVIOUS
    <3>2. /\ w'.coeff = 0 /\ w'.mcucounter = 0 /\ w'.comp = 1 /\ ~w'.writerestartmarker
          /\ w'.predicted = w.predicted
      BY <1>6, <2>1
    <3> QED
      BY <1>9, <2>1, <2>9, <2>10, <2>11, <3>1, <3>2, Zenon DEF Coding
  <2> QED
    BY <1>9, <1>11, <2>6, <2>7, <2>12, StageMakesInv
<1> QED
  BY <1>10, <1>16, <1>17

\* What fills bits to a byte.
Fill(bits) == Ones((-Len(bits)) % 8)

\* The padding is bits.
LEMMA FillType ==
    ASSUME NEW bits \in Seq(Bit)
    PROVE  Fill(bits) \in Seq(Bit)
<1>1. (-Len(bits)) % 8 \in Nat
  <2>1. PICK l \in Nat : l = Len(bits)
    OBVIOUS
  <2> QED
    BY <2>1
<1> QED
  BY <1>1, OnesType DEF Fill

\* Bits are left of an interval when it is padded, or none.
LEMMA PaddingWhatWaits ==
    ASSUME NEW head \in Seq(Int), NEW raw \in Seq(Bit), NEW n \in Nat, NEW waiting \in Seq(Bit),
           NEW owing \in BOOLEAN, NEW bytes \in Seq(Int),
           Written(head, raw, n, waiting, owing, bytes)
    PROVE  Written(head, Padded(raw), n, waiting \o Fill(waiting), owing, bytes)
<1>1. 8 * n + Len(waiting) = Len(raw)
  BY DEF Written
<1>2. (-Len(raw)) % 8 = (-Len(waiting)) % 8
  BY <1>1, PaddingIsPadding
<1>3. PICK fill \in Seq(Bit) : fill = Fill(waiting)
  BY FillType
<1>4. Padded(raw) = raw \o fill
  BY <1>2, <1>3, Zenon DEF Padded, Fill
<1>5. Written(head, raw \o fill, n, waiting \o fill, owing, bytes)
  BY WrittenMore, Zenon
<1> QED
  BY <1>3, <1>4, <1>5, Zenon

\* The bits before a marker are padded to a byte.
LEMMA PadKeepsScanInv ==
    ASSUME ScanInv, DecodeInv', WhileEncoding, PadForMarker
    PROVE  ScanInv'
<1>1. w \in WriterStates /\ out \in Seq(Int) /\ reachedend \in BOOLEAN /\ w.bits \in Seq(Bit)
  BY DEF ScanInv, WriterTyped, WriterStates
<1>2. PICK padded : padded = IF w.bits = <<>> THEN <<>> ELSE w.bits \o Ones(8 - Len(w.bits))
  OBVIOUS
<1>3. /\ ~w.needsstuffing /\ Len(w.bits) < 8 /\ ~w.writerestartmarker /\ RestartDue
      /\ w' = [w EXCEPT !.bits = padded, !.writerestartmarker = TRUE] /\ out' = out
  BY <1>2, Zenon DEF PadForMarker, Emptied
<1>4. padded = w.bits \o Fill(w.bits)
  <2>1. PICK len \in Nat : len = Len(w.bits)
    BY <1>1
  <2>2. CASE len = 0
    <3>1. w.bits = <<>>
      BY <1>1, <2>1, <2>2, EmptySeq
    <3>2. (-len) % 8 = 0
      BY <2>2
    <3>3. Ones(0) = <<>>
      BY DEF Ones
    <3>4. <<>> \o <<>> = <<>>
      OBVIOUS
    <3> QED
      BY <1>2, <2>1, <3>1, <3>2, <3>3, <3>4, Zenon DEF Fill
  <2>3. CASE len # 0
    <3>1. w.bits # <<>>
      BY <2>1, <2>3
    <3>2. (-len) % 8 = 8 - len
      <4>1. Len(w.bits) < 8
        BY <1>3
      <4>2. len < 8
        BY <2>1, <4>1, Zenon
      <4>3. len \in 1..7
        <5>1. \A a \in Nat : a # 0 /\ a < 8 => a \in 1..7
          OBVIOUS
        <5> QED
          BY <2>1, <2>3, <4>2, <5>1, Zenon
      <4>4. \A a \in 1..7 : (-a) % 8 = 8 - a
        OBVIOUS
      <4> QED
        BY <4>3, <4>4
    <3> QED
      BY <1>2, <2>1, <3>1, <3>2, Zenon DEF Fill
  <2> QED
    BY <2>2, <2>3
<1>5. w.mcusavailable \/ slice.slicesavailable
  BY <1>3 DEF RestartDue
<1>6. Unfinished
  BY <1>5 DEF Unfinished, Started
<1>7. Begun
  BY <1>6 DEF ScanInv, ScanAt
<1>8. PICK k : /\ k \in 0..(Intervals(jpeg) - 1) /\ Where(k)
               /\ Coding(k) \/ Due(k) \/ HalfMarked(k) \/ Closing(k)
  BY <1>7 DEF ScanInv, ScanSoFar
<1>9. w.mcucounter = Each /\ Each \in Nat \ {0}
  <2>1. jpeg \in Layouts
    BY DEF ScanInv, DecodeInv, Typed
  <2> QED
    BY <1>3, <2>1, MCUsType DEF RestartDue, Each
<1>10. Coding(k)
  BY <1>3, <1>6, <1>8, <1>9 DEF Due, HalfMarked, Closing
<1>11. /\ k \in Nat /\ k < Intervals(jpeg) /\ jpeg \in Layouts /\ image \in Image(jpeg)
       /\ HeadOf(image, jpeg, k) \in Seq(Int)
  BY <1>7, <1>8, HeadFacts
<1>12. w.comp = 1 /\ w.x = 0 /\ w.y = 0 /\ w.coeff = 0
  BY <1>8, <1>9 DEF Where
<1>13. BlocksCoded = 0
  <2>1. HBlocks(w.comp) \in Nat
    BY StateFacts DEF ScanInv
  <2> QED
    BY <1>12, <2>1 DEF BlocksCoded
<1>14. PICK raw \in Seq(Bit) :
         /\ SoFar(HeadOf(image, jpeg, k), raw)
         /\ AtBlock(image, jpeg, k, w.mcucounter, 1, 0, raw, w.predicted)
  BY <1>10, <1>12, <1>13, Zenon DEF Coding
<1>15. raw = IntervalOf(image, jpeg, k)
  <2>1. w.mcucounter \in Nat /\ w.mcucounter <= Each /\ k * Each + w.mcucounter <= MCUs(jpeg)
    BY <1>7, <1>8, <1>9, WhereIs DEF ScanInv
  <2>2. /\ k * Interval(jpeg) + w.mcucounter <= MCUs(jpeg) /\ w.mcucounter <= Interval(jpeg)
        /\ w.mcucounter = Interval(jpeg)
    BY <1>9, <2>1 DEF Each
  <2> QED
    BY <1>11, <1>14, <2>1, <2>2, CodedIsInterval
<1>16. PICK n \in Nat : Written(HeadOf(image, jpeg, k), raw, n, w.bits, w.needsstuffing, out)
  BY <1>14 DEF SoFar
<1>17. /\ padded \in Seq(Bit)
       /\ Written(HeadOf(image, jpeg, k), Padded(raw), n, padded, w.needsstuffing, out)
  <2>1. PICK owing \in BOOLEAN : owing = w.needsstuffing
    BY StateFacts DEF ScanInv
  <2>2. PICK waiting \in Seq(Bit) : waiting = w.bits
    BY <1>1
  <2>3. PICK head \in Seq(Int) : head = HeadOf(image, jpeg, k)
    BY <1>11
  <2>4. Written(head, raw, n, waiting, owing, out) /\ raw \in Seq(Bit) /\ n \in Nat
    BY <1>14, <1>16, <2>1, <2>2, <2>3, Zenon
  <2>5. padded = waiting \o Fill(waiting)
    BY <1>4, <2>2, Zenon
  <2>6. Written(head, Padded(raw), n, waiting \o Fill(waiting), owing, out)
    BY <1>1, <2>4, PaddingWhatWaits, Zenon
  <2>7. waiting \o Fill(waiting) \in Seq(Bit)
    BY FillType, ConcatProperties
  <2> QED
    BY <2>1, <2>3, <2>5, <2>6, <2>7, Zenon
<1>18. /\ w' \in WriterStates
       /\ w'.mcusavailable = w.mcusavailable /\ w'.row = w.row /\ w'.col = w.col
       /\ w'.comp = w.comp /\ w'.x = w.x /\ w'.y = w.y /\ w'.coeff = w.coeff
       /\ w'.mcucounter = w.mcucounter /\ w'.restartmarkerindex = w.restartmarkerindex
       /\ w'.writerestartmarker = TRUE /\ w'.bits = padded /\ w'.needsstuffing = w.needsstuffing
  BY <1>1, <1>3, <1>17 DEF WriterStates
<1>19. SameBlock
  BY <1>18 DEF SameBlock
<1>20. /\ WriterAt' /\ ScanAt' /\ jpeg' = jpeg /\ image' = image /\ Components' = Components
       /\ Reached' = Reached /\ (Unfinished' <=> Unfinished) /\ Each' = Each
  BY <1>19, SameBlockFacts
<1>21. WriterTyped'
  <2>1. reachedend' = reachedend
    BY DEF WhileEncoding
  <2> QED
    BY <1>1, <1>3, <1>18, <1>20, <2>1 DEF WriterTyped, WriterStates
<1>22. Where(k)'
  BY <1>8, <1>18, <1>20, Zenon DEF Where
<1>23. SoFar(HeadOf(image, jpeg, k), Padded(IntervalOf(image, jpeg, k)))'
  <2>1. Written(HeadOf(image', jpeg', k), Padded(IntervalOf(image', jpeg', k)), n, w'.bits,
                w'.needsstuffing, out')
    BY <1>3, <1>15, <1>17, <1>18, <1>20, Zenon
  <2> QED
    BY <2>1, Zenon DEF SoFar
<1>24. Due(k)'
  BY <1>6, <1>9, <1>18, <1>20, <1>23, Zenon DEF Due
<1>25. k \in 0..(Intervals(jpeg') - 1)
  BY <1>8, <1>20
<1> QED
  BY <1>20, <1>21, <1>22, <1>24, <1>25, StageMakesInv

\* The first half of the marker is written, the other put behind it.
LEMMA MarkerKeepsScanInv ==
    ASSUME ScanInv, DecodeInv', WhileEncoding, WriteMarker
    PROVE  ScanInv'
<1>1. w \in WriterStates /\ out \in Seq(Int) /\ reachedend \in BOOLEAN /\ w.bits \in Seq(Bit)
  BY DEF ScanInv, WriterTyped, WriterStates
<1>2. PICK i \in Nat : i = w.restartmarkerindex
  BY <1>1 DEF WriterStates
<1>3. PICK mark : mark = w.bits \o Bits(208 + i, 8)
  OBVIOUS
<1>4. PICK next \in Nat : next = (i + 1) % 8
  BY <1>2
<1>5. /\ ~w.needsstuffing /\ Len(w.bits) < 8 /\ w.writerestartmarker /\ out' = Append(out, 255)
      /\ w' = [w EXCEPT !.bits = mark, !.restartmarkerindex = next, !.mcucounter = 0,
                        !.predicted = [j \in Components |-> 0], !.writerestartmarker = FALSE]
  BY <1>2, <1>3, <1>4, Zenon DEF WriteMarker, Emptied, Put
<1>6. Begun
  BY DEF ScanInv, ScanAt, WhileEncoding
<1>7. PICK k : /\ k \in 0..(Intervals(jpeg) - 1) /\ Where(k)
               /\ Coding(k) \/ Due(k) \/ HalfMarked(k) \/ Closing(k)
  BY <1>6 DEF ScanInv, ScanSoFar
<1>8. Due(k)
  BY <1>5, <1>7 DEF Coding, HalfMarked, Closing
<1>9. /\ k \in Nat /\ k < Intervals(jpeg) /\ k + 1 <= Intervals(jpeg)
      /\ jpeg \in Layouts /\ image \in Image(jpeg)
      /\ HeadOf(image, jpeg, k) \in Seq(Int) /\ DoneParts(image, jpeg, k + 1) \in Seq(Int)
      /\ Padded(IntervalOf(image, jpeg, k)) \in Seq(Bit) /\ IntervalOf(image, jpeg, k) \in Seq(Bit)
  BY <1>6, <1>7, HeadFacts
<1>10. Unfinished /\ w.mcucounter = Each
  BY <1>8 DEF Due
<1>11. k + 1 < Intervals(jpeg) /\ Each \in Nat \ {0}
  BY <1>6, <1>7, <1>10, WhereIs, StateFacts DEF ScanInv
<1>12. /\ Reached = k * Each + Each /\ i = k % 8
       /\ w.comp = 1 /\ w.x = 0 /\ w.y = 0 /\ w.coeff = 0
  BY <1>2, <1>7, <1>10 DEF Where
<1>13. PICK n \in Nat :
         Written(HeadOf(image, jpeg, k), Padded(IntervalOf(image, jpeg, k)), n, w.bits,
                 w.needsstuffing, out)
  BY <1>8 DEF Due, SoFar
<1>14. w.bits = <<>>
  <2>1. PICK full \in Seq(Bit) : full = Padded(IntervalOf(image, jpeg, k))
    BY <1>9
  <2>2. PICK len \in Nat : len = Len(w.bits)
    BY <1>1
  <2>3. 8 * n + len = Len(full)
    BY <1>13, <2>1, <2>2 DEF Written
  <2>4. 8 * (Len(full) \div 8) = Len(full)
    BY <1>9, <2>1, PaddedType
  <2>5. PICK q \in Int : q = Len(full) \div 8
    BY <2>1
  <2>6. len < 8
    BY <1>5, <2>2
  <2>7. len = 0
    BY <2>3, <2>4, <2>5, <2>6
  <2> QED
    BY <1>1, <2>2, <2>7, EmptySeq
<1>15. out = DoneParts(image, jpeg, k + 1)
  <2>1. w.needsstuffing = FALSE
    BY <1>5, StateFacts DEF ScanInv
  <2>2. PICK waiting \in Seq(Bit) : waiting = <<>> /\ Len(waiting) = 0
    <3>1. <<>> \in Seq(Bit) /\ Len(<<>>) = 0
      OBVIOUS
    <3> QED
      BY <3>1, Zenon
  <2>3. Written(HeadOf(image, jpeg, k), Padded(IntervalOf(image, jpeg, k)), n, waiting, FALSE, out)
    BY <1>13, <1>14, <2>1, <2>2, Zenon
  <2> QED
    BY <1>1, <1>9, <2>2, <2>3, IntervalWritten, Zenon
<1>16. mark = Bits(208 + (k % 8), 8) /\ mark \in Seq(Bit)
  <2>1. i \in 0..7
    BY <1>9, <1>12
  <2>2. Bits(208 + i, 8) \in Seq(Bit)
    BY <2>1, MarkerBits
  <2>3. <<>> \o Bits(208 + i, 8) = Bits(208 + i, 8)
    BY <2>2, ConcatEmptySeq
  <2> QED
    BY <1>3, <1>12, <1>14, <2>2, <2>3, Zenon
<1>17. [j \in Components |-> 0] \in [Components -> Int]
  OBVIOUS
<1>18. /\ w' \in WriterStates
       /\ w'.mcusavailable = w.mcusavailable /\ w'.row = w.row /\ w'.col = w.col
       /\ w'.comp = w.comp /\ w'.x = w.x /\ w'.y = w.y /\ w'.coeff = w.coeff
       /\ w'.mcucounter = 0 /\ w'.restartmarkerindex = next
       /\ w'.writerestartmarker = FALSE /\ w'.bits = mark /\ w'.needsstuffing = w.needsstuffing
       /\ w'.predicted = [j \in Components |-> 0]
  <2>1. PICK none \in [Components -> Int] : none = [j \in Components |-> 0]
    BY <1>17
  <2>2. w' = [w EXCEPT !.bits = mark, !.restartmarkerindex = next, !.mcucounter = 0,
                       !.predicted = none, !.writerestartmarker = FALSE]
    BY <1>5, <2>1, Zenon
  <2>3. /\ w' \in WriterStates
        /\ w'.mcusavailable = w.mcusavailable /\ w'.row = w.row /\ w'.col = w.col
        /\ w'.comp = w.comp /\ w'.x = w.x /\ w'.y = w.y /\ w'.coeff = w.coeff
        /\ w'.mcucounter = 0 /\ w'.restartmarkerindex = next
        /\ w'.writerestartmarker = FALSE /\ w'.bits = mark /\ w'.needsstuffing = w.needsstuffing
        /\ w'.predicted = none
    BY <1>1, <1>3, <1>4, <1>16, <2>1, <2>2 DEF WriterStates
  <2> QED
    BY <2>1, <2>3, Zenon
<1>19. SameBlock
  BY <1>18 DEF SameBlock
<1>20. /\ WriterAt' /\ ScanAt' /\ jpeg' = jpeg /\ image' = image /\ Components' = Components
       /\ Reached' = Reached /\ (Unfinished' <=> Unfinished) /\ Each' = Each
  BY <1>19, SameBlockFacts
<1>21. WriterTyped'
  <2>1. reachedend' = reachedend
    BY DEF WhileEncoding
  <2>2. Append(out, 255) \in Seq(Int)
    BY <1>1
  <2> QED
    BY <1>1, <1>5, <1>18, <1>20, <2>1, <2>2 DEF WriterTyped, WriterStates
<1>22. Where(k + 1)'
  <2>1. PICK e \in Nat \ {0} : e = Each
    BY <1>11
  <2>2. k * e + e = (k + 1) * e + 0 /\ 0 <= e /\ 0 # e
    BY <1>9, <2>1
  <2>3. next = (k + 1) % 8
    BY <1>4, <1>9, <1>12
  <2> QED
    BY <1>12, <1>18, <1>20, <2>1, <2>2, <2>3, Zenon DEF Where
<1>23. HalfMarked(k + 1)'
  <2>1. out' = DoneParts(image, jpeg, k + 1) \o <<255>>
    BY <1>5, <1>9, <1>15, AppendIsConcat
  <2>2. (k + 1) - 1 = k /\ k + 1 > 0
    BY <1>9
  <2>3. mark = Bits(208 + (((k + 1) - 1) % 8), 8)
    BY <1>16, <2>2, Zenon
  <2>4. Unfinished' /\ ~w'.writerestartmarker /\ w'.mcucounter = 0
        /\ w'.comp = 1 /\ w'.x = 0 /\ w'.y = 0 /\ w'.coeff = 0 /\ ~w'.needsstuffing
        /\ w'.bits = mark
    BY <1>5, <1>10, <1>12, <1>18, <1>20
  <2>5. w'.predicted = [j \in Components' |-> 0]
    BY <1>18, <1>20
  <2>6. out' = DoneParts(image', jpeg', k + 1) \o <<255>>
    BY <1>20, <2>1, Zenon
  <2> QED
    BY <2>2, <2>3, <2>4, <2>5, <2>6, Zenon DEF HalfMarked
<1>24. k + 1 \in 0..(Intervals(jpeg') - 1)
  <2>1. PICK m \in Nat : m = Intervals(jpeg)
    BY <1>9, SomeInterval
  <2>2. k + 1 \in 0..(m - 1)
    BY <1>9, <1>11, <2>1
  <2> QED
    BY <1>20, <2>1, <2>2
<1> QED
  BY <1>20, <1>21, <1>22, <1>23, <1>24, StageMakesInv

\* What the next coefficient of the block at work does.
CoefficientTo(k, raw, add, pred, pos) ==
    /\ add \in Seq(Bit) /\ raw \o add \in Seq(Bit)
    /\ pred \in [Components -> Int] /\ pos \in Nat \ {0}
    /\ NextCoefficient(w, CurrBlock) =
         [w EXCEPT !.bits = w.bits \o add, !.predicted = pred, !.coeff = pos]
    /\ IF pos <= LastCoeff
       THEN InBlock(image, jpeg, k, w.mcucounter, w.comp, BlocksCoded, pos, raw \o add, pred)
       ELSE BehindBlock(image, jpeg, k, w.mcucounter, w.comp, BlocksCoded, raw \o add, pred)

\* The first coefficient is the DC value.
LEMMA FirstCoefficient ==
    ASSUME ScanInv, Begun, w.mcusavailable, w.coeff = 0,
           NEW k, k \in 0..(Intervals(jpeg) - 1), Where(k), NEW raw \in Seq(Bit),
           AtBlock(image, jpeg, k, w.mcucounter, w.comp, BlocksCoded, raw, w.predicted)
    PROVE  \E add, pred, pos : CoefficientTo(k, raw, add, pred, pos)
<1>1. PICK c : c = CurrBlock
  OBVIOUS
<1>2. PICK i, m, j : i = w.comp /\ m = w.mcucounter /\ j = BlocksCoded
  OBVIOUS
<1>3. ABlock(image, jpeg, k, m, i, j) /\ c = BlockAt(image, jpeg, k, m, i, j).c
  BY <1>1, <1>2, CurrBlockIs DEF ScanInv
<1>4. c \in jpeg.patterns /\ jpeg \in Layouts
  BY <1>3, BlockFacts
<1>5. c[0] \in Int
  BY <1>4, LayoutAssumption, SizeAssumption
<1>6. w \in WriterStates /\ i \in Components /\ w.predicted \in [Components -> Int]
  BY <1>2, StateFacts DEF ScanInv, WriterTyped
<1>7. AtBlock(image, jpeg, k, m, i, j, raw, w.predicted)
  BY <1>2
<1>8. PICK add : add = EncodedDC(c[0] - w.predicted[i])
  OBVIOUS
<1>9. PICK pred : pred = [w.predicted EXCEPT ![i] = c[0]]
  OBVIOUS
<1>10. add \in Seq(Bit) /\ InBlock(image, jpeg, k, m, i, j, 1, raw \o add, pred)
  BY <1>3, <1>7, <1>8, <1>9, AfterDC
<1>11. raw \o add \in Seq(Bit)
  BY <1>10, ConcatProperties
<1>12. pred \in [Components -> Int]
  BY <1>5, <1>6, <1>9
<1>13. NextCoefficient(w, CurrBlock) = [w EXCEPT !.bits = w.bits \o add, !.predicted = pred, !.coeff = 1]
  BY <1>1, <1>2, <1>6, <1>8, <1>9 DEF NextCoefficient, WriterStates
<1>14. 1 \in Nat \ {0} /\ 1 <= LastCoeff
  BY SizeAssumption
<1>15. CoefficientTo(k, raw, add, pred, 1)
  BY <1>2, <1>10, <1>11, <1>12, <1>13, <1>14 DEF CoefficientTo
<1> QED
  BY <1>15

\* Behind the last value that is not zero the block is ended.
LEMMA EndCoefficient ==
    ASSUME ScanInv, Begun, w.mcusavailable, w.coeff # 0,
           w.coeff > Eob(CurrBlock), Eob(CurrBlock) # LastCoeff,
           NEW k, k \in 0..(Intervals(jpeg) - 1), Where(k), NEW raw \in Seq(Bit),
           InBlock(image, jpeg, k, w.mcucounter, w.comp, BlocksCoded, w.coeff, raw, w.predicted)
    PROVE  \E add, pred, pos : CoefficientTo(k, raw, add, pred, pos)
<1>1. PICK c : c = CurrBlock
  OBVIOUS
<1>2. PICK i, m, j : i = w.comp /\ m = w.mcucounter /\ j = BlocksCoded
  OBVIOUS
<1>3. ABlock(image, jpeg, k, m, i, j) /\ c = BlockAt(image, jpeg, k, m, i, j).c
  BY <1>1, <1>2, CurrBlockIs DEF ScanInv
<1>4. PICK pos : pos = w.coeff
  OBVIOUS
<1>5. PICK pred : pred = w.predicted
  OBVIOUS
<1>6. w \in WriterStates /\ pred \in [Components -> Int]
  BY <1>5, StateFacts DEF ScanInv, WriterTyped
<1>7. InBlock(image, jpeg, k, m, i, j, pos, raw, pred) /\ pos > Eob(c) /\ Eob(c) # LastCoeff /\ pos # 0
  BY <1>1, <1>2, <1>4, <1>5
<1>10. PICK add : add = EndOfBlock
  OBVIOUS
<1>11. add \in Seq(Bit) /\ BehindBlock(image, jpeg, k, m, i, j, raw \o add, pred)
  BY <1>3, <1>7, <1>10, AfterEnd
<1>14. raw \o add \in Seq(Bit)
  BY <1>11, ConcatProperties
<1>15. NextCoefficient(w, CurrBlock) =
         [w EXCEPT !.bits = w.bits \o add, !.predicted = pred, !.coeff = LastCoeff + 1]
  BY <1>1, <1>4, <1>5, <1>6, <1>7, <1>10 DEF NextCoefficient, WriterStates
<1>16. LastCoeff + 1 \in Nat \ {0} /\ ~(LastCoeff + 1 <= LastCoeff)
  BY SizeAssumption
<1>17. CoefficientTo(k, raw, add, pred, LastCoeff + 1)
  BY <1>2, <1>6, <1>11, <1>14, <1>15, <1>16, Zenon DEF CoefficientTo
<1> QED
  BY <1>17

\* Otherwise a run of zeros is coded, with the value it ends at.
LEMMA RunOfCoefficients ==
    ASSUME ScanInv, Begun, w.mcusavailable, w.coeff # 0,
           ~(w.coeff > Eob(CurrBlock) /\ Eob(CurrBlock) # LastCoeff),
           NEW k, k \in 0..(Intervals(jpeg) - 1), Where(k), NEW raw \in Seq(Bit),
           InBlock(image, jpeg, k, w.mcucounter, w.comp, BlocksCoded, w.coeff, raw, w.predicted)
    PROVE  \E add, pred, pos : CoefficientTo(k, raw, add, pred, pos)
<1>1. PICK c : c = CurrBlock
  OBVIOUS
<1>2. PICK i, m, j : i = w.comp /\ m = w.mcucounter /\ j = BlocksCoded
  OBVIOUS
<1>3. ABlock(image, jpeg, k, m, i, j) /\ c = BlockAt(image, jpeg, k, m, i, j).c
  BY <1>1, <1>2, CurrBlockIs DEF ScanInv
<1>4. PICK pos : pos = w.coeff
  OBVIOUS
<1>5. PICK pred : pred = w.predicted
  OBVIOUS
<1>6. w \in WriterStates /\ pred \in [Components -> Int]
  BY <1>5, StateFacts DEF ScanInv, WriterTyped
<1>7. InBlock(image, jpeg, k, m, i, j, pos, raw, pred)
  BY <1>2, <1>4, <1>5
<1>10. pos \in 1..LastCoeff /\ pos <= Eob(c)
  <2>1. pos \in 1..LastCoeff
    BY <1>7 DEF InBlock, PartOfBlock
  <2>2. PICK e \in 0..LastCoeff : e = Eob(c)
    BY EobIs
  <2>3. ~(pos > e /\ e # LastCoeff)
    BY <1>1, <1>4, <2>2
  <2> QED
    BY <2>1, <2>2, <2>3, SizeAssumption
<1>11. PICK s : s = NextStop(c, pos)
  OBVIOUS
<1>12. s \in Nat /\ s <= LastCoeff
  <2>1. PICK e \in 0..LastCoeff : e = Eob(c)
    BY EobIs
  <2>2. s \in pos..e
    BY <1>10, <1>11, <2>1, NextStopIs
  <2> QED
    BY <1>10, <2>1, <2>2, SizeAssumption
<1>13. PICK add : add = EncodedAC(c[s], s - pos)
  OBVIOUS
<1>14. /\ add \in Seq(Bit)
       /\ s < LastCoeff => InBlock(image, jpeg, k, m, i, j, s + 1, raw \o add, pred)
       /\ s = LastCoeff => BehindBlock(image, jpeg, k, m, i, j, raw \o add, pred)
  BY <1>3, <1>7, <1>10, <1>11, <1>13, AfterAC
<1>15. raw \o add \in Seq(Bit)
  BY <1>14, ConcatProperties
<1>17. NextCoefficient(w, CurrBlock) =
         [w EXCEPT !.bits = w.bits \o add, !.predicted = pred, !.coeff = s + 1]
  <2>1. s = Min({n \in w.coeff..LastCoeff : n = LastCoeff \/ n = w.coeff + RunLimit \/ c[n] # 0})
    BY <1>4, <1>11 DEF NextStop
  <2>2. NextCoefficient(w, c) = [w EXCEPT !.bits = w.bits \o EncodedAC(c[s], s - w.coeff), !.coeff = s + 1]
    BY <1>1, <2>1, Zenon DEF NextCoefficient
  <2>3. NextCoefficient(w, c) = [w EXCEPT !.bits = w.bits \o add, !.coeff = s + 1]
    BY <1>4, <1>13, <2>2, Zenon
  <2>4. [w EXCEPT !.bits = w.bits \o add, !.coeff = s + 1] =
        [w EXCEPT !.bits = w.bits \o add, !.predicted = pred, !.coeff = s + 1]
    BY <1>5, <1>6 DEF WriterStates
  <2> QED
    BY <1>1, <2>3, <2>4, Zenon
<1>18. s + 1 \in Nat \ {0} /\ (s + 1 <= LastCoeff <=> s < LastCoeff) /\ (s < LastCoeff \/ s = LastCoeff)
  BY <1>12, SizeAssumption
<1>20. CoefficientTo(k, raw, add, pred, s + 1)
  BY <1>2, <1>6, <1>14, <1>15, <1>17, <1>18, Zenon DEF CoefficientTo
<1> QED
  BY <1>20

\* A writer that finds its buffers empty is at a coefficient.
LEMMA CodingNow ==
    ASSUME ScanInv, op = "encode", Len(w.bits) < 8, ~w.writerestartmarker, ~RestartDue,
           w.mcusavailable
    PROVE  /\ Begun
           /\ \E k \in 0..(Intervals(jpeg) - 1) : Where(k) /\ Coding(k) /\ w.mcucounter < Each
<1>1. Begun
  BY DEF ScanInv, ScanAt
<1>2. PICK k : /\ k \in 0..(Intervals(jpeg) - 1) /\ Where(k)
               /\ Coding(k) \/ Due(k) \/ HalfMarked(k) \/ Closing(k)
  BY <1>1 DEF ScanInv, ScanSoFar
<1>3. Unfinished
  BY DEF Unfinished
<1>4. ~Due(k) /\ ~Closing(k)
  BY <1>3 DEF Due, Closing
<1>5. ASSUME HalfMarked(k)
      PROVE  FALSE
  <2>1. w.bits = Bits(208 + ((k - 1) % 8), 8) /\ k > 0
    BY <1>5 DEF HalfMarked
  <2>2. k \in Nat
    BY <1>1, <1>2, WhereIs DEF ScanInv
  <2>3. PICK i \in 0..7 : i = (k - 1) % 8
    BY <2>1, <2>2
  <2>4. Len(Bits(208 + i, 8)) = 8
    BY <2>3, MarkerBits
  <2>5. Len(w.bits) = 8
    BY <2>1, <2>3, <2>4
  <2> QED
    BY <2>5
<1>6. w.mcucounter < Each
  <2>1. PICK e \in Nat, m \in Nat : e = Each /\ m = w.mcucounter
    BY StateFacts DEF ScanInv
  <2>2. m <= e
    BY <1>2, <2>1 DEF Where
  <2>3. ASSUME m = e
        PROVE  FALSE
    <3>1. jpeg.interval # 0
      BY <1>1, <1>2, <1>3, <2>1, <2>3, WhereIs DEF ScanInv
    <3>2. jpeg.interval = e
      BY <2>1, <3>1 DEF Each, Interval
    <3> QED
      BY <2>1, <2>3, <3>1, <3>2 DEF RestartDue
  <2> QED
    BY <2>1, <2>2, <2>3
<1> QED
  BY <1>1, <1>2, <1>4, <1>5, <1>6

\* ... and is so behind it, if it goes on.
LEMMA CodingMore ==
    ASSUME ScanInv, DecodeInv', WhileEncoding, WriterAt', ScanAt', Unfinished', out' = out,
           w' \in WriterStates, ~w'.writerestartmarker, w'.needsstuffing = w.needsstuffing,
           NEW k, k \in 0..(Intervals(jpeg) - 1), Where(k),
           w'.restartmarkerindex = w.restartmarkerindex,
           Reached' = k * Each + w'.mcucounter, w'.mcucounter <= Each,
           w'.mcucounter = Each => w'.comp = 1 /\ w'.x = 0 /\ w'.y = 0 /\ w'.coeff = 0,
           NEW raw \in Seq(Bit), SoFar(HeadOf(image, jpeg, k), raw),
           NEW add \in Seq(Bit), raw \o add \in Seq(Bit), w'.bits = w.bits \o add,
           IF w'.coeff = 0
           THEN AtBlock(image, jpeg, k, w'.mcucounter, w'.comp, BlocksCoded', raw \o add, w'.predicted)
           ELSE InBlock(image, jpeg, k, w'.mcucounter, w'.comp, BlocksCoded', w'.coeff, raw \o add,
                        w'.predicted)
    PROVE  ScanInv'
<1>1. jpeg' = jpeg /\ image' = image /\ op = "encode" /\ reachedend' = reachedend
  BY DEF WhileEncoding
<1>2. Begun
  BY <1>1 DEF ScanInv, ScanAt
<1>3. Each' = Each /\ Components' = Components
  BY <1>1 DEF Each, Components
<1>4. /\ w.bits \in Seq(Bit) /\ w.needsstuffing \in BOOLEAN /\ out \in Seq(Int)
      /\ reachedend \in BOOLEAN
  BY StateFacts DEF ScanInv
<1>5. WriterTyped'
  BY <1>1, <1>3, <1>4 DEF WriterTyped, WriterStates
<1>6. PICK head \in Seq(Int) : head = HeadOf(image, jpeg, k)
  BY <1>2, HeadFacts
<1>7. PICK owing \in BOOLEAN : owing = w.needsstuffing
  BY <1>4
<1>8. PICK waiting \in Seq(Bit) : waiting = w.bits
  BY <1>4
<1>9. PICK n \in Nat : Written(head, raw, n, waiting, owing, out)
  BY <1>6, <1>7, <1>8, Zenon DEF SoFar
<1>10. Written(head, raw \o add, n, waiting \o add, owing, out)
  BY <1>4, <1>6, <1>7, <1>8, <1>9, WrittenMore, Zenon
<1>11. SoFar(HeadOf(image, jpeg, k), raw \o add)'
  <2>1. Written(HeadOf(image', jpeg', k), raw \o add, n, w'.bits, w'.needsstuffing, out')
    BY <1>1, <1>6, <1>7, <1>8, <1>10, Zenon
  <2> QED
    BY <1>9, <2>1, Zenon DEF SoFar
<1>12. Coding(k)'
  BY <1>1, <1>11, Zenon DEF Coding
<1>13. w.restartmarkerindex = k % 8
  BY DEF Where
<1>14. Where(k)'
  BY <1>3, <1>13, Zenon DEF Where
<1>15. k \in 0..(Intervals(jpeg') - 1)
  BY <1>1
<1> QED
  BY <1>5, <1>12, <1>14, <1>15, StageMakesInv

\* A block of the slice is left to code.
LEMMA BlocksLeft ==
    ASSUME ScanInv, WhileEncoding, w.mcusavailable, w'.mcusavailable,
           w'.row < slice.currheight, w'.col < jpeg.hmcus, w'.x < HBlocks(w'.comp),
           w'.y < VBlocks(w'.comp), w'.coeff <= LastCoeff
    PROVE  /\ WriterAt' /\ ScanAt' /\ Unfinished'
           /\ Reached' = (slice.finishedrows - slice.currheight + w'.row) * jpeg.hmcus + w'.col
<1>1. /\ jpeg' = jpeg /\ image' = image /\ scansleft' = scansleft /\ reachedend' = reachedend
      /\ slice' = slice /\ blocks' = blocks /\ op = "encode" /\ op' = "encode"
  BY DEF WhileEncoding
<1>2. /\ Components' = Components /\ (Begun' <=> Begun)
      /\ \A j : VBlocks(j)' = VBlocks(j) /\ HBlocks(j)' = HBlocks(j)
      /\ \A j : Cols(j)' = Cols(j) /\ RowsInSlice(j)' = RowsInSlice(j)
      /\ \A j, x, y : Place(j, x, y)' = Place(j, x, y)
  BY <1>1 DEF Components, VBlocks, HBlocks, BlocksPerRow, Cols, RowsInSlice, Place, Begun
<1>3. /\ (Started' <=> Started) /\ Unfinished /\ Unfinished'
      /\ Reached' = (slice.finishedrows - slice.currheight + w'.row) * jpeg.hmcus + w'.col
  BY <1>1 DEF Started, Unfinished, Reached
<1>4. Begun
  BY <1>1 DEF ScanInv, ScanAt
<1>5. HBlocks(w.comp)' = HBlocks(w'.comp) /\ VBlocks(w.comp)' = VBlocks(w'.comp)
  BY <1>1 DEF HBlocks, VBlocks
<1>6. WriterAt'
  BY <1>1, <1>2, <1>5 DEF ScanInv, WriterAt
<1>7. ScanAt'
  BY <1>1, <1>2, <1>3, <1>4 DEF ScanInv, ScanAt
<1> QED
  BY <1>3, <1>6, <1>7

\* The last block of the slice is coded.
LEMMA NoBlocksLeft ==
    ASSUME ScanInv, WhileEncoding, w.mcusavailable, ~w'.mcusavailable,
           w'.comp = 1, w'.x = 0, w'.y = 0, w'.coeff = 0
    PROVE  /\ WriterAt' /\ ScanAt' /\ (Unfinished' <=> slice.slicesavailable)
           /\ Reached' = slice.finishedrows * jpeg.hmcus
<1>1. /\ jpeg' = jpeg /\ image' = image /\ scansleft' = scansleft /\ reachedend' = reachedend
      /\ slice' = slice /\ blocks' = blocks /\ op = "encode" /\ op' = "encode"
  BY DEF WhileEncoding
<1>2. Begun' <=> Begun
  BY <1>1 DEF Begun
<1>3. /\ (Started' <=> Started) /\ (Started <=> slice.slicesavailable) /\ (Unfinished' <=> Started)
      /\ Unfinished /\ Reached' = slice.finishedrows * jpeg.hmcus
  BY <1>1 DEF Started, Unfinished, Reached
<1>4. Begun
  BY <1>1 DEF ScanInv, ScanAt
<1>5. WriterAt'
  BY DEF WriterAt
<1>6. ScanAt'
  BY <1>1, <1>2, <1>3, <1>4 DEF ScanInv, ScanAt
<1> QED
  BY <1>3, <1>5, <1>6

\* What is known when a block is coded: v is the writer before NextBlock.
BlockCoded(k, raw, add, pred, v) ==
    /\ Begun /\ w.mcusavailable /\ ~w.writerestartmarker /\ out' = out
    /\ k \in 0..(Intervals(jpeg) - 1) /\ Where(k) /\ w.mcucounter < Each
    /\ raw \in Seq(Bit) /\ SoFar(HeadOf(image, jpeg, k), raw)
    /\ add \in Seq(Bit) /\ raw \o add \in Seq(Bit) /\ pred \in [Components -> Int]
    /\ BehindBlock(image, jpeg, k, w.mcucounter, w.comp, BlocksCoded, raw \o add, pred)
    /\ v \in WriterStates /\ v.bits = w.bits \o add /\ v.predicted = pred
    /\ v.mcusavailable = TRUE /\ v.row = w.row /\ v.col = w.col
    /\ v.comp = w.comp /\ v.x = w.x /\ v.y = w.y
    /\ v.mcucounter = w.mcucounter /\ v.restartmarkerindex = w.restartmarkerindex
    /\ v.writerestartmarker = FALSE /\ v.needsstuffing = w.needsstuffing
    /\ w' = NextBlock(v)

\* Where the writer goes from there.
LEMMA AfterBlockCoded ==
    ASSUME ScanInv, NEW k, NEW raw, NEW add, NEW pred, NEW v, BlockCoded(k, raw, add, pred, v)
    PROVE  /\ w.x + 1 < HBlocks(w.comp) \/ w.y + 1 < VBlocks(w.comp) =>
                AtBlock(image, jpeg, k, w.mcucounter, w.comp, BlocksCoded + 1, raw \o add, pred)
           /\ ~(w.x + 1 < HBlocks(w.comp)) /\ ~(w.y + 1 < VBlocks(w.comp)) /\ w.comp < Len(jpeg.factors) =>
                AtBlock(image, jpeg, k, w.mcucounter, w.comp + 1, 0, raw \o add, pred)
           /\ ~(w.x + 1 < HBlocks(w.comp)) /\ ~(w.y + 1 < VBlocks(w.comp)) /\ ~(w.comp < Len(jpeg.factors)) =>
                AtBlock(image, jpeg, k, w.mcucounter + 1, 1, 0, raw \o add, pred)
           /\ w.x + 1 < HBlocks(w.comp) =>
                w.y * HBlocks(w.comp) + (w.x + 1) = BlocksCoded + 1
           /\ ~(w.x + 1 < HBlocks(w.comp)) /\ w.y + 1 < VBlocks(w.comp) =>
                (w.y + 1) * HBlocks(w.comp) + 0 = BlocksCoded + 1
<1>1. PICK i, m, j : i = w.comp /\ m = w.mcucounter /\ j = BlocksCoded
  OBVIOUS
<1>2. PICK full : full = raw \o add
  OBVIOUS
<1>3. /\ Begun /\ w.mcusavailable /\ k \in 0..(Intervals(jpeg) - 1) /\ Where(k)
      /\ BehindBlock(image, jpeg, k, m, i, j, full, pred)
  BY <1>1, <1>2, Zenon DEF BlockCoded
<1>4. ABlock(image, jpeg, k, m, i, j)
  BY <1>1, <1>3, CurrBlockIs DEF ScanInv
<1>5. PICK H \in Nat \ {0}, V \in Nat \ {0} : H = HBlocks(i) /\ V = VBlocks(i)
  BY <1>1, StateFacts DEF ScanInv
<1>6. H = jpeg.factors[i][1] /\ V = jpeg.factors[i][2]
  BY <1>5 DEF HBlocks, VBlocks
<1>7. PICK x \in Nat, y \in Nat : x = w.x /\ y = w.y
  BY StateFacts DEF ScanInv
<1>8. x < H /\ y < V
  BY <1>1, <1>3, <1>5, <1>7 DEF ScanInv, WriterAt
<1>9. j = y * H + x
  BY <1>1, <1>5, <1>7 DEF BlocksCoded
<1>10. /\ x + 1 < H => y * H + (x + 1) = j + 1 /\ j + 1 < H * V
       /\ ~(x + 1 < H) /\ y + 1 < V => (y + 1) * H + 0 = j + 1 /\ j + 1 < H * V
       /\ ~(x + 1 < H) /\ ~(y + 1 < V) => j + 1 = H * V
  BY <1>8, <1>9, BlockCount
<1>11. /\ ~(j + 1 = H * V) => AtBlock(image, jpeg, k, m, i, j + 1, full, pred)
       /\ (j + 1 = H * V /\ i < Len(jpeg.factors)) => AtBlock(image, jpeg, k, m, i + 1, 0, full, pred)
       /\ (j + 1 = H * V /\ ~(i < Len(jpeg.factors))) =>
            AtBlock(image, jpeg, k, m + 1, 1, 0, full, pred)
  BY <1>3, <1>4, <1>6, AfterBlock
<1>12. PICK n \in Nat : n = H * V
  OBVIOUS
<1>13. j \in Nat
  BY <1>9
<1>14. /\ x + 1 < H => AtBlock(image, jpeg, k, m, i, j + 1, full, pred)
       /\ ~(x + 1 < H) /\ y + 1 < V => AtBlock(image, jpeg, k, m, i, j + 1, full, pred)
       /\ ~(x + 1 < H) /\ ~(y + 1 < V) /\ i < Len(jpeg.factors) =>
            AtBlock(image, jpeg, k, m, i + 1, 0, full, pred)
       /\ ~(x + 1 < H) /\ ~(y + 1 < V) /\ ~(i < Len(jpeg.factors)) =>
            AtBlock(image, jpeg, k, m + 1, 1, 0, full, pred)
  BY <1>10, <1>11, <1>12, <1>13
<1> QED
  BY <1>1, <1>2, <1>5, <1>7, <1>10, <1>14, Zenon

\* The next block of the component.
LEMMA NextInComponent ==
    ASSUME ScanInv, DecodeInv', WhileEncoding, NEW k, NEW raw, NEW add, NEW pred, NEW v,
           BlockCoded(k, raw, add, pred, v),
           w.x + 1 < HBlocks(w.comp) \/ w.y + 1 < VBlocks(w.comp)
    PROVE  ScanInv'
<1>1. /\ Begun /\ w.mcusavailable /\ ~w.writerestartmarker /\ out' = out
      /\ k \in 0..(Intervals(jpeg) - 1) /\ Where(k) /\ w.mcucounter < Each
      /\ raw \in Seq(Bit) /\ SoFar(HeadOf(image, jpeg, k), raw)
      /\ add \in Seq(Bit) /\ raw \o add \in Seq(Bit) /\ pred \in [Components -> Int]
  BY DEF BlockCoded
<1>2. /\ v \in WriterStates /\ v.bits = w.bits \o add /\ v.predicted = pred
      /\ v.mcusavailable = TRUE /\ v.row = w.row /\ v.col = w.col
      /\ v.comp = w.comp /\ v.x = w.x /\ v.y = w.y
      /\ v.mcucounter = w.mcucounter /\ v.restartmarkerindex = w.restartmarkerindex
      /\ v.writerestartmarker = FALSE /\ v.needsstuffing = w.needsstuffing
      /\ w' = NextBlock(v)
  BY DEF BlockCoded
<1>0. w.x \in Nat /\ w.y \in Nat
  BY StateFacts DEF ScanInv
<1>x. PICK x \in Nat : x = IF w.x + 1 < HBlocks(w.comp) THEN w.x + 1 ELSE 0
  BY <1>0
<1>y. PICK y \in Nat : y = IF w.x + 1 < HBlocks(w.comp) THEN w.y ELSE w.y + 1
  BY <1>0
<1>v. v \in WriterStates
  BY <1>2
<1>4. w' = [v EXCEPT !.coeff = 0, !.x = x, !.y = y]
  <2>1. CASE w.x + 1 < HBlocks(w.comp)
    <3>1. w' = [v EXCEPT !.coeff = 0, !.x = v.x + 1]
      BY <1>2, <2>1 DEF NextBlock
    <3>2. x = v.x + 1 /\ y = v.y
      BY <1>2, <1>x, <1>y, <2>1
    <3> QED
      BY <1>v, <3>1, <3>2 DEF WriterStates
  <2>2. CASE ~(w.x + 1 < HBlocks(w.comp))
    <3>1. w' = [v EXCEPT !.coeff = 0, !.x = 0, !.y = v.y + 1]
      BY <1>2, <2>2 DEF NextBlock
    <3>2. x = 0 /\ y = v.y + 1
      BY <1>2, <1>x, <1>y, <2>2
    <3> QED
      BY <1>v, <3>1, <3>2 DEF WriterStates
  <2> QED
    BY <2>1, <2>2
<1>5. /\ w' \in WriterStates /\ w'.bits = w.bits \o add /\ w'.predicted = pred
      /\ w'.mcusavailable = TRUE /\ w'.row = w.row /\ w'.col = w.col
      /\ w'.comp = w.comp /\ w'.x = x /\ w'.y = y /\ w'.coeff = 0
      /\ w'.mcucounter = w.mcucounter /\ w'.restartmarkerindex = w.restartmarkerindex
      /\ w'.writerestartmarker = FALSE /\ w'.needsstuffing = w.needsstuffing
  <2>1. /\ w' \in WriterStates /\ w'.bits = v.bits /\ w'.predicted = v.predicted
        /\ w'.mcusavailable = v.mcusavailable /\ w'.row = v.row /\ w'.col = v.col
        /\ w'.comp = v.comp /\ w'.x = x /\ w'.y = y /\ w'.coeff = 0
        /\ w'.mcucounter = v.mcucounter /\ w'.restartmarkerindex = v.restartmarkerindex
        /\ w'.writerestartmarker = v.writerestartmarker /\ w'.needsstuffing = v.needsstuffing
    BY <1>x, <1>y, <1>v, <1>4 DEF WriterStates
  <2> QED
    BY <1>2, <2>1, Zenon
<1>3. /\ x = IF w.x + 1 < HBlocks(w.comp) THEN w.x + 1 ELSE 0
      /\ y = IF w.x + 1 < HBlocks(w.comp) THEN w.y ELSE w.y + 1
      /\ x \in Nat /\ y \in Nat /\ w.x \in Nat /\ w.y \in Nat
  BY <1>0, <1>x, <1>y
<1>6. /\ w.row < slice.currheight /\ w.col < jpeg.hmcus
      /\ x < HBlocks(w.comp) /\ y < VBlocks(w.comp) /\ 0 <= LastCoeff
  <2>1. /\ w.row < slice.currheight /\ w.col < jpeg.hmcus
        /\ w.x < HBlocks(w.comp) /\ w.y < VBlocks(w.comp)
    BY <1>1 DEF ScanInv, WriterAt
  <2>2. HBlocks(w.comp) \in Nat \ {0}
    BY StateFacts DEF ScanInv
  <2> QED
    BY <1>3, <2>1, <2>2, SizeAssumption
<1>7. /\ WriterAt' /\ ScanAt' /\ Unfinished'
      /\ Reached' = (slice.finishedrows - slice.currheight + w'.row) * jpeg.hmcus + w'.col
  <2>1. /\ w'.mcusavailable /\ w'.row < slice.currheight /\ w'.col < jpeg.hmcus
        /\ w'.x < HBlocks(w'.comp) /\ w'.y < VBlocks(w'.comp) /\ w'.coeff <= LastCoeff
    BY <1>5, <1>6
  <2> QED
    BY <1>1, <2>1, BlocksLeft
<1>8. Reached' = k * Each + w'.mcucounter /\ w'.mcucounter <= Each /\ w'.mcucounter # Each
  <2>1. Reached' = Reached
    BY <1>1, <1>5, <1>7 DEF Reached
  <2>2. Reached = k * Each + w.mcucounter
    BY <1>1 DEF Where
  <2>3. PICK e \in Nat, m \in Nat : e = Each /\ m = w.mcucounter
    BY StateFacts DEF ScanInv
  <2>4. m < e
    BY <1>1, <2>3
  <2> QED
    BY <1>5, <2>1, <2>2, <2>3, <2>4
<1>9. /\ AtBlock(image, jpeg, k, w.mcucounter, w.comp, BlocksCoded + 1, raw \o add, pred)
      /\ w.x + 1 < HBlocks(w.comp) => w.y * HBlocks(w.comp) + (w.x + 1) = BlocksCoded + 1
      /\ ~(w.x + 1 < HBlocks(w.comp)) => (w.y + 1) * HBlocks(w.comp) + 0 = BlocksCoded + 1
  BY AfterBlockCoded
<1>10. BlocksCoded' = BlocksCoded + 1
  <2>1. BlocksCoded' = y * HBlocks(w.comp) + x
    BY <1>5 DEF BlocksCoded, HBlocks, WhileEncoding
  <2> QED
    BY <1>3, <1>9, <2>1
<1>11. AtBlock(image, jpeg, k, w'.mcucounter, w'.comp, BlocksCoded', raw \o add, w'.predicted)
  BY <1>5, <1>9, <1>10, Zenon
<1> QED
  BY <1>1, <1>5, <1>7, <1>8, <1>11, CodingMore

\* The first block of the next component.
LEMMA NextComponent ==
    ASSUME ScanInv, DecodeInv', WhileEncoding, NEW k, NEW raw, NEW add, NEW pred, NEW v,
           BlockCoded(k, raw, add, pred, v),
           ~(w.x + 1 < HBlocks(w.comp)), ~(w.y + 1 < VBlocks(w.comp)), w.comp < Len(jpeg.factors)
    PROVE  ScanInv'
<1>1. /\ Begun /\ w.mcusavailable /\ ~w.writerestartmarker /\ out' = out
      /\ k \in 0..(Intervals(jpeg) - 1) /\ Where(k) /\ w.mcucounter < Each
      /\ raw \in Seq(Bit) /\ SoFar(HeadOf(image, jpeg, k), raw)
      /\ add \in Seq(Bit) /\ raw \o add \in Seq(Bit) /\ pred \in [Components -> Int]
  BY DEF BlockCoded
<1>2. /\ v \in WriterStates /\ v.bits = w.bits \o add /\ v.predicted = pred
      /\ v.mcusavailable = TRUE /\ v.row = w.row /\ v.col = w.col
      /\ v.comp = w.comp /\ v.x = w.x /\ v.y = w.y
      /\ v.mcucounter = w.mcucounter /\ v.restartmarkerindex = w.restartmarkerindex
      /\ v.writerestartmarker = FALSE /\ v.needsstuffing = w.needsstuffing
      /\ w' = NextBlock(v)
  BY DEF BlockCoded
<1>3. w.comp + 1 \in Components
  <2>1. PICK n \in Nat : n = Len(jpeg.factors) /\ Components = 1..n
    BY LayoutParts, StateFacts DEF ScanInv
  <2>2. w.comp \in 1..n
    BY <2>1, StateFacts DEF ScanInv
  <2> QED
    BY <2>1, <2>2
<1>4. w' = [v EXCEPT !.coeff = 0, !.x = 0, !.y = 0, !.comp = w.comp + 1]
  BY <1>2 DEF NextBlock
<1>5. /\ w' \in WriterStates /\ w'.bits = w.bits \o add /\ w'.predicted = pred
      /\ w'.mcusavailable = TRUE /\ w'.row = w.row /\ w'.col = w.col
      /\ w'.comp = w.comp + 1 /\ w'.x = 0 /\ w'.y = 0 /\ w'.coeff = 0
      /\ w'.mcucounter = w.mcucounter /\ w'.restartmarkerindex = w.restartmarkerindex
      /\ w'.writerestartmarker = FALSE /\ w'.needsstuffing = w.needsstuffing
  <2>0. v \in WriterStates
    BY <1>2
  <2>1. /\ w' \in WriterStates /\ w'.bits = v.bits /\ w'.predicted = v.predicted
        /\ w'.mcusavailable = v.mcusavailable /\ w'.row = v.row /\ w'.col = v.col
        /\ w'.comp = w.comp + 1 /\ w'.x = 0 /\ w'.y = 0 /\ w'.coeff = 0
        /\ w'.mcucounter = v.mcucounter /\ w'.restartmarkerindex = v.restartmarkerindex
        /\ w'.writerestartmarker = v.writerestartmarker /\ w'.needsstuffing = v.needsstuffing
    BY <1>3, <1>4, <2>0 DEF WriterStates
  <2> QED
    BY <1>2, <2>1, Zenon
<1>6. /\ WriterAt' /\ ScanAt' /\ Unfinished'
      /\ Reached' = (slice.finishedrows - slice.currheight + w'.row) * jpeg.hmcus + w'.col
  <2>1. w.row < slice.currheight /\ w.col < jpeg.hmcus
    BY <1>1 DEF ScanInv, WriterAt
  <2>2. /\ HBlocks(w.comp + 1) \in Nat \ {0} /\ VBlocks(w.comp + 1) \in Nat \ {0}
    BY <1>3, StateFacts, LayoutFacts DEF ScanInv
  <2>3. /\ w'.mcusavailable /\ w'.row < slice.currheight /\ w'.col < jpeg.hmcus
        /\ w'.x < HBlocks(w'.comp) /\ w'.y < VBlocks(w'.comp) /\ w'.coeff <= LastCoeff
    BY <1>5, <2>1, <2>2, SizeAssumption
  <2> QED
    BY <1>1, <2>3, BlocksLeft
<1>7. Reached' = k * Each + w'.mcucounter /\ w'.mcucounter <= Each /\ w'.mcucounter # Each
  <2>1. Reached' = Reached
    BY <1>1, <1>5, <1>6 DEF Reached
  <2>2. Reached = k * Each + w.mcucounter
    BY <1>1 DEF Where
  <2>3. PICK e \in Nat, m \in Nat : e = Each /\ m = w.mcucounter
    BY StateFacts DEF ScanInv
  <2>4. m < e
    BY <1>1, <2>3
  <2> QED
    BY <1>5, <2>1, <2>2, <2>3, <2>4
<1>8. AtBlock(image, jpeg, k, w.mcucounter, w.comp + 1, 0, raw \o add, pred)
  BY AfterBlockCoded
<1>9. BlocksCoded' = 0
  <2>1. HBlocks(w.comp + 1) \in Nat
    BY <1>3, StateFacts, LayoutFacts DEF ScanInv
  <2>2. BlocksCoded' = 0 * HBlocks(w.comp + 1) + 0
    BY <1>5 DEF BlocksCoded, HBlocks, WhileEncoding
  <2> QED
    BY <2>1, <2>2
<1>10. AtBlock(image, jpeg, k, w'.mcucounter, w'.comp, BlocksCoded', raw \o add, w'.predicted)
  BY <1>5, <1>8, <1>9, Zenon
<1> QED
  BY <1>1, <1>5, <1>6, <1>7, <1>10, CodingMore

\* Behind the last component is the next MCU, of this row of the slice, of
\* the next, or of the next slice.
LEMMA NextMCU ==
    ASSUME ScanInv, DecodeInv', WhileEncoding, NEW k, NEW raw, NEW add, NEW pred, NEW v,
           BlockCoded(k, raw, add, pred, v),
           ~(w.x + 1 < HBlocks(w.comp)), ~(w.y + 1 < VBlocks(w.comp)), ~(w.comp < Len(jpeg.factors)),
           w.col + 1 < jpeg.hmcus \/ w.row + 1 < slice.currheight \/ slice.slicesavailable
    PROVE  ScanInv'
<1>1. /\ Begun /\ w.mcusavailable /\ ~w.writerestartmarker /\ out' = out
      /\ k \in 0..(Intervals(jpeg) - 1) /\ Where(k) /\ w.mcucounter < Each
      /\ raw \in Seq(Bit) /\ SoFar(HeadOf(image, jpeg, k), raw)
      /\ add \in Seq(Bit) /\ raw \o add \in Seq(Bit) /\ pred \in [Components -> Int]
  BY DEF BlockCoded
<1>2. /\ v \in WriterStates /\ v.bits = w.bits \o add /\ v.predicted = pred
      /\ v.mcusavailable = TRUE /\ v.row = w.row /\ v.col = w.col
      /\ v.comp = w.comp /\ v.x = w.x /\ v.y = w.y
      /\ v.mcucounter = w.mcucounter /\ v.restartmarkerindex = w.restartmarkerindex
      /\ v.writerestartmarker = FALSE /\ v.needsstuffing = w.needsstuffing
      /\ w' = NextBlock(v)
  BY DEF BlockCoded
<1>3. PICK h \in Nat \ {0}, V \in Nat \ {0} : h = jpeg.hmcus /\ V = jpeg.vmcus
  BY StateFacts DEF ScanInv
<1>4. PICK f \in Nat, s \in Nat : f = slice.finishedrows /\ s = slice.currheight
  BY StateFacts DEF ScanInv
<1>5. PICK r \in Nat, c \in Nat : r = w.row /\ c = w.col
  BY StateFacts DEF ScanInv
<1>6. s \in 1..f /\ r < s /\ c < h /\ f <= V
  BY <1>1, <1>3, <1>4, <1>5 DEF ScanInv, WriterAt, ScanAt
<1>7. PICK e \in Nat \ {0}, m \in Nat : e = Each /\ m = w.mcucounter
  BY StateFacts DEF ScanInv
<1>8. m < e /\ (f - s + r) * h + c = k * e + m /\ k \in Nat
  <2>1. Reached = (f - s + r) * h + c
    BY <1>1, <1>3, <1>4, <1>5 DEF Reached
  <2>2. Reached = k * e + m
    BY <1>1, <1>7 DEF Where
  <2>3. k \in Nat
    BY <1>1, WhereIs DEF ScanInv
  <2> QED
    BY <1>1, <1>7, <2>1, <2>2, <2>3
<1>9. k * e + (m + 1) = (k * e + m) + 1 /\ m + 1 <= e
  <2>1. PICK p \in Nat : p = k * e
    BY <1>8
  <2> QED
    BY <1>8, <2>1
<1>10. 1 \in Components
  <2>1. PICK n \in 1..4 : Components = 1..n
    BY LayoutParts, StateFacts DEF ScanInv
  <2>2. \A a \in 1..4 : 1 \in 1..a
    OBVIOUS
  <2> QED
    BY <2>1, <2>2, Zenon
<1>11. HBlocks(1) \in Nat \ {0} /\ VBlocks(1) \in Nat \ {0}
  BY <1>10, StateFacts, LayoutFacts DEF ScanInv
<1>12. PICK row \in Nat : row = IF c + 1 < h THEN r ELSE r + 1
  OBVIOUS
<1>13. PICK col \in Nat : col = IF c + 1 < h THEN c + 1 ELSE 0
  OBVIOUS
<1>14. PICK more \in BOOLEAN : more = (c + 1 < h \/ r + 1 < s)
  OBVIOUS
<1>15. w' = [v EXCEPT !.coeff = 0, !.x = 0, !.y = 0, !.comp = 1, !.mcucounter = m + 1,
                      !.row = row, !.col = col, !.mcusavailable = more]
  <2>0. v \in WriterStates
    BY <1>2
  <2>1. CASE c + 1 < h
    <3>1. w' = [[v EXCEPT !.coeff = 0, !.x = 0, !.y = 0, !.comp = 1, !.mcucounter = v.mcucounter + 1]
                  EXCEPT !.col = @ + 1]
      BY <1>2, <1>3, <1>5, <2>1 DEF NextBlock
    <3>2. row = v.row /\ col = v.col + 1 /\ more = v.mcusavailable /\ v.mcucounter = m
      BY <1>2, <1>5, <1>7, <1>12, <1>13, <1>14, <2>1
    <3> QED
      BY <2>0, <3>1, <3>2 DEF WriterStates
  <2>2. CASE ~(c + 1 < h) /\ r + 1 < s
    <3>1. w' = [[v EXCEPT !.coeff = 0, !.x = 0, !.y = 0, !.comp = 1, !.mcucounter = v.mcucounter + 1]
                  EXCEPT !.col = 0, !.row = @ + 1]
      BY <1>2, <1>3, <1>4, <1>5, <2>2 DEF NextBlock
    <3>2. row = v.row + 1 /\ col = 0 /\ more = v.mcusavailable /\ v.mcucounter = m
      BY <1>2, <1>5, <1>7, <1>12, <1>13, <1>14, <2>2
    <3> QED
      BY <2>0, <3>1, <3>2 DEF WriterStates
  <2>3. CASE ~(c + 1 < h) /\ ~(r + 1 < s)
    <3>0. slice.slicesavailable
      BY <1>3, <1>4, <1>5, <2>3
    <3>1. w' = [[v EXCEPT !.coeff = 0, !.x = 0, !.y = 0, !.comp = 1, !.mcucounter = v.mcucounter + 1]
                  EXCEPT !.col = 0, !.row = @ + 1, !.mcusavailable = FALSE, !.bits = @]
      BY <1>2, <1>3, <1>4, <1>5, <2>3, <3>0 DEF NextBlock
    <3>2. row = v.row + 1 /\ col = 0 /\ more = FALSE /\ v.mcucounter = m
      BY <1>2, <1>5, <1>7, <1>12, <1>13, <1>14, <2>3
    <3> QED
      BY <2>0, <3>1, <3>2 DEF WriterStates
  <2> QED
    BY <2>1, <2>2, <2>3
<1>16. /\ w' \in WriterStates /\ w'.bits = w.bits \o add /\ w'.predicted = pred
       /\ w'.mcusavailable = more /\ w'.row = row /\ w'.col = col
       /\ w'.comp = 1 /\ w'.x = 0 /\ w'.y = 0 /\ w'.coeff = 0
       /\ w'.mcucounter = m + 1 /\ w'.restartmarkerindex = w.restartmarkerindex
       /\ w'.writerestartmarker = FALSE /\ w'.needsstuffing = w.needsstuffing
  <2>0. v \in WriterStates
    BY <1>2
  <2>1. /\ w' \in WriterStates /\ w'.bits = v.bits /\ w'.predicted = v.predicted
        /\ w'.mcusavailable = more /\ w'.row = row /\ w'.col = col
        /\ w'.comp = 1 /\ w'.x = 0 /\ w'.y = 0 /\ w'.coeff = 0
        /\ w'.mcucounter = m + 1 /\ w'.restartmarkerindex = v.restartmarkerindex
        /\ w'.writerestartmarker = v.writerestartmarker /\ w'.needsstuffing = v.needsstuffing
    <3>1. PICK n \in Nat : n = m + 1
      BY <1>7
    <3>2. w' = [v EXCEPT !.coeff = 0, !.x = 0, !.y = 0, !.comp = 1, !.mcucounter = n,
                         !.row = row, !.col = col, !.mcusavailable = more]
      BY <1>15, <3>1, Zenon
    <3>3. row \in Nat /\ col \in Nat /\ more \in BOOLEAN /\ n \in Nat /\ 1 \in Components
      BY <1>10, <1>12, <1>13, <1>14, <3>1
    <3>4. w' \in WriterStates
      BY <2>0, <3>2, <3>3 DEF WriterStates
    <3>5. /\ w'.bits = v.bits /\ w'.predicted = v.predicted
          /\ w'.mcusavailable = more /\ w'.row = row /\ w'.col = col
      BY <2>0, <3>2 DEF WriterStates
    <3>6. /\ w'.comp = 1 /\ w'.x = 0 /\ w'.y = 0 /\ w'.coeff = 0 /\ w'.mcucounter = n
      BY <2>0, <3>2 DEF WriterStates
    <3>7. /\ w'.restartmarkerindex = v.restartmarkerindex
          /\ w'.writerestartmarker = v.writerestartmarker /\ w'.needsstuffing = v.needsstuffing
      BY <2>0, <3>2 DEF WriterStates
    <3> QED
      BY <3>1, <3>4, <3>5, <3>6, <3>7, Zenon
  <2> QED
    BY <1>2, <2>1, Zenon
<1>17. /\ (f - s + r) * h + c \in Nat
       /\ c + 1 < h => (f - s + r) * h + (c + 1) = ((f - s + r) * h + c) + 1
       /\ ~(c + 1 < h) => (f - s + (r + 1)) * h + 0 = ((f - s + r) * h + c) + 1
       /\ (~(c + 1 < h) /\ ~(r + 1 < s)) => f * h = ((f - s + r) * h + c) + 1
  BY <1>6, MCUInImage
<1>18. WriterAt' /\ ScanAt' /\ Unfinished' /\ Reached' = k * e + (m + 1)
  <2>1. CASE more
    <3>1. /\ w'.mcusavailable /\ w'.row < slice.currheight /\ w'.col < jpeg.hmcus
          /\ w'.x < HBlocks(w'.comp) /\ w'.y < VBlocks(w'.comp) /\ w'.coeff <= LastCoeff
      <4>1. row < s /\ col < h
        <5>1. c + 1 < h \/ r + 1 < s
          BY <1>14, <2>1, Zenon
        <5> QED
          BY <1>3, <1>5, <1>6, <1>12, <1>13, <5>1
      <4>2. w'.mcusavailable
        BY <1>16, <2>1, Zenon
      <4> QED
        BY <1>3, <1>4, <1>11, <1>16, <4>1, <4>2, SizeAssumption
    <3>2. /\ WriterAt' /\ ScanAt' /\ Unfinished'
          /\ Reached' = (slice.finishedrows - slice.currheight + w'.row) * jpeg.hmcus + w'.col
      BY <1>1, <3>1, BlocksLeft
    <3>3. Reached' = (f - s + row) * h + col
      BY <1>3, <1>4, <1>16, <3>2
    <3>4. (f - s + row) * h + col = ((f - s + r) * h + c) + 1
      <4>1. CASE c + 1 < h
        BY <1>12, <1>13, <1>17, <4>1
      <4>2. CASE ~(c + 1 < h)
        BY <1>12, <1>13, <1>17, <4>2
      <4> QED
        BY <4>1, <4>2
    <3> QED
      BY <1>8, <1>9, <3>2, <3>3, <3>4
  <2>2. CASE ~more
    <3>1. ~w'.mcusavailable /\ w'.comp = 1 /\ w'.x = 0 /\ w'.y = 0 /\ w'.coeff = 0
      BY <1>16, <2>2
    <3>2. ~(c + 1 < h) /\ ~(r + 1 < s) /\ slice.slicesavailable
      BY <1>3, <1>4, <1>5, <1>14, <2>2
    <3>3. WriterAt' /\ ScanAt' /\ Unfinished' /\ Reached' = slice.finishedrows * jpeg.hmcus
      BY <1>1, <3>1, <3>2, NoBlocksLeft
    <3>4. Reached' = f * h
      BY <1>3, <1>4, <3>3
    <3> QED
      BY <1>8, <1>9, <1>17, <3>2, <3>3, <3>4
  <2> QED
    BY <2>1, <2>2
<1>19. /\ Reached' = k * Each + w'.mcucounter /\ w'.mcucounter <= Each
       /\ w'.comp = 1 /\ w'.x = 0 /\ w'.y = 0 /\ w'.coeff = 0
  BY <1>7, <1>9, <1>16, <1>18
<1>20. AtBlock(image, jpeg, k, m + 1, 1, 0, raw \o add, pred)
  BY <1>7, AfterBlockCoded
<1>21. BlocksCoded' = 0
  <2>1. BlocksCoded' = 0 * HBlocks(1) + 0
    BY <1>16 DEF BlocksCoded, HBlocks, WhileEncoding
  <2> QED
    BY <1>11, <2>1
<1>22. AtBlock(image, jpeg, k, w'.mcucounter, w'.comp, BlocksCoded', raw \o add, w'.predicted)
  BY <1>16, <1>20, <1>21, Zenon
<1> QED
  BY <1>1, <1>16, <1>18, <1>19, <1>22, CodingMore

\* Behind the last MCU of the scan the last interval is padded.
LEMMA LastMCU ==
    ASSUME ScanInv, DecodeInv', WhileEncoding, NEW k, NEW raw, NEW add, NEW pred, NEW v,
           BlockCoded(k, raw, add, pred, v),
           ~(w.x + 1 < HBlocks(w.comp)), ~(w.y + 1 < VBlocks(w.comp)), ~(w.comp < Len(jpeg.factors)),
           ~(w.col + 1 < jpeg.hmcus), ~(w.row + 1 < slice.currheight), ~slice.slicesavailable
    PROVE  ScanInv'
<1>1. /\ Begun /\ w.mcusavailable /\ ~w.writerestartmarker /\ out' = out
      /\ k \in 0..(Intervals(jpeg) - 1) /\ Where(k) /\ w.mcucounter < Each
      /\ raw \in Seq(Bit) /\ SoFar(HeadOf(image, jpeg, k), raw)
      /\ add \in Seq(Bit) /\ raw \o add \in Seq(Bit) /\ pred \in [Components -> Int]
  BY DEF BlockCoded
<1>2. /\ v \in WriterStates /\ v.bits = w.bits \o add /\ v.predicted = pred
      /\ v.mcusavailable = TRUE /\ v.row = w.row /\ v.col = w.col
      /\ v.comp = w.comp /\ v.x = w.x /\ v.y = w.y
      /\ v.mcucounter = w.mcucounter /\ v.restartmarkerindex = w.restartmarkerindex
      /\ v.writerestartmarker = FALSE /\ v.needsstuffing = w.needsstuffing
      /\ w' = NextBlock(v)
  BY DEF BlockCoded
<1>3. PICK h \in Nat \ {0}, V \in Nat \ {0} : h = jpeg.hmcus /\ V = jpeg.vmcus
  BY StateFacts DEF ScanInv
<1>4. PICK f \in Nat, s \in Nat : f = slice.finishedrows /\ s = slice.currheight
  BY StateFacts DEF ScanInv
<1>5. PICK r \in Nat, c \in Nat : r = w.row /\ c = w.col
  BY StateFacts DEF ScanInv
<1>6. jpeg' = jpeg /\ image' = image /\ op = "encode" /\ reachedend' = reachedend
  BY DEF WhileEncoding
<1>7. s \in 1..f /\ r < s /\ c < h /\ f = V /\ f <= V
  <2>1. f <= V /\ (Started <=> f < V)
    BY <1>1, <1>3, <1>4 DEF ScanInv, ScanAt
  <2>2. ~Started
    BY <1>6 DEF Started
  <2> QED
    BY <1>1, <1>3, <1>4, <1>5, <2>1, <2>2 DEF ScanInv, WriterAt
<1>8. PICK e \in Nat \ {0}, m \in Nat : e = Each /\ m = w.mcucounter
  BY StateFacts DEF ScanInv
<1>9. m < e /\ (f - s + r) * h + c = k * e + m /\ k \in Nat /\ k < Intervals(jpeg)
      /\ k + 1 <= Intervals(jpeg)
  <2>1. Reached = (f - s + r) * h + c
    BY <1>1, <1>3, <1>4, <1>5 DEF Reached
  <2>2. Reached = k * e + m
    BY <1>1, <1>8 DEF Where
  <2>3. k \in Nat /\ k < Intervals(jpeg) /\ k + 1 <= Intervals(jpeg)
    BY <1>1, WhereIs DEF ScanInv
  <2> QED
    BY <1>1, <1>8, <2>1, <2>2, <2>3
<1>10. f * h = k * e + (m + 1) /\ m + 1 <= e
  <2>1. f * h = ((f - s + r) * h + c) + 1
    <3>1. ~(c + 1 < h) /\ ~(r + 1 < s)
      BY <1>3, <1>4, <1>5
    <3> QED
      BY <1>7, <3>1, MCUInImage
  <2>2. PICK p \in Nat : p = k * e
    BY <1>9
  <2> QED
    BY <1>9, <2>1, <2>2
<1>11. k * e + (m + 1) = MCUs(jpeg)
  <2>1. MCUs(jpeg) = h * V /\ h * V = V * h
    BY <1>3 DEF MCUs
  <2> QED
    BY <1>7, <1>10, <2>1, Zenon
<1>12. jpeg \in Layouts /\ image \in Image(jpeg)
  BY <1>1, HeadFacts
<1>13. k + 1 = Intervals(jpeg)
  <2>1. ASSUME k + 1 < Intervals(jpeg)
        PROVE  FALSE
    <3>1. (k + 1) * e < MCUs(jpeg)
      BY <1>8, <1>9, <1>12, <2>1, IntervalFacts DEF Each
    <3>2. (k + 1) * e = k * e + e
      BY <1>9
    <3>3. PICK t \in Nat : t = MCUs(jpeg)
      BY StateFacts DEF ScanInv
    <3>4. PICK p \in Nat : p = k * e
      BY <1>8, <1>9
    <3> QED
      BY <1>10, <1>11, <3>1, <3>2, <3>3, <3>4
  <2>2. Intervals(jpeg) \in Nat
    BY <1>12, SomeInterval
  <2> QED
    BY <1>9, <2>1, <2>2
<1>14. PICK full \in Seq(Bit) : full = raw \o add
  BY <1>1
<1>15. full = IntervalOf(image, jpeg, k)
  <2>1. AtBlock(image, jpeg, k, m + 1, 1, 0, full, pred)
    BY <1>8, <1>14, AfterBlockCoded
  <2>2. e = Interval(jpeg)
    BY <1>8 DEF Each
  <2>3. k * Interval(jpeg) + (m + 1) <= MCUs(jpeg) /\ m + 1 <= Interval(jpeg)
        /\ k * Interval(jpeg) + (m + 1) = MCUs(jpeg) /\ m + 1 \in Nat
    <3>1. PICK t \in Nat : t = MCUs(jpeg)
      BY StateFacts DEF ScanInv
    <3> QED
      BY <1>10, <1>11, <2>2, <3>1
  <2> QED
    BY <1>9, <1>12, <2>1, <2>3, CodedIsInterval
<1>16. PICK head \in Seq(Int) : head = HeadOf(image, jpeg, k)
  BY <1>1, HeadFacts
<1>17. PICK owing \in BOOLEAN : owing = w.needsstuffing
  BY StateFacts DEF ScanInv
<1>18. PICK waiting \in Seq(Bit) : waiting = w.bits
  BY StateFacts DEF ScanInv
<1>19. PICK n \in Nat : Written(head, raw, n, waiting, owing, out)
  BY <1>1, <1>16, <1>17, <1>18, Zenon DEF SoFar
<1>20. out \in Seq(Int) /\ reachedend \in BOOLEAN
  BY StateFacts DEF ScanInv
<1>21. PICK more \in Seq(Bit) : more = waiting \o add
  BY <1>1, ConcatProperties
<1>22. Written(head, full, n, more, owing, out)
  <2>1. Written(head, raw \o add, n, waiting \o add, owing, out)
    <3>1. raw \in Seq(Bit) /\ add \in Seq(Bit) /\ out \in Seq(Int)
      BY <1>1, <1>20
    <3> QED
      <4>1. PICK part \in Seq(Bit), extra \in Seq(Bit) : part = raw /\ extra = add
        BY <3>1
      <4>2. PICK bytes \in Seq(Int) : bytes = out
        BY <3>1
      <4>3. Written(head, part, n, waiting, owing, bytes)
        BY <1>19, <4>1, <4>2, Zenon
      <4>4. Written(head, part \o extra, n, waiting \o extra, owing, bytes)
        BY <4>3, WrittenMore
      <4> QED
        BY <4>1, <4>2, <4>4, Zenon
  <2> QED
    BY <1>14, <1>21, <2>1, Zenon
<1>23. PICK padded \in Seq(Bit) : padded = more \o Fill(more)
  BY FillType, ConcatProperties
<1>24. Written(head, Padded(full), n, padded, owing, out)
  <2>1. Written(head, Padded(full), n, more \o Fill(more), owing, out)
    BY <1>14, <1>16, <1>17, <1>19, <1>20, <1>21, <1>22, PaddingWhatWaits, ZenonT(40)
  <2> QED
    BY <1>23, <2>1, Zenon
<1>25. PICK row \in Nat : row = r + 1
  OBVIOUS
<1>26. PICK count \in Nat : count = m + 1
  OBVIOUS
<1>27. 1 \in Components
  <2>1. PICK a \in 1..4 : Components = 1..a
    BY <1>12, LayoutParts, StateFacts DEF ScanInv
  <2>2. \A n0 \in 1..4 : 1 \in 1..n0
    OBVIOUS
  <2> QED
    BY <2>1, <2>2, Zenon
<1>28. w' = [v EXCEPT !.coeff = 0, !.x = 0, !.y = 0, !.comp = 1, !.mcucounter = count,
                      !.row = row, !.col = 0, !.mcusavailable = FALSE, !.bits = padded]
  <2>0. v \in WriterStates
    BY <1>2
  <2>1. v.bits = more
    BY <1>2, <1>18, <1>21
  <2>2. w' = [[v EXCEPT !.coeff = 0, !.x = 0, !.y = 0, !.comp = 1, !.mcucounter = v.mcucounter + 1]
                EXCEPT !.col = 0, !.row = @ + 1, !.mcusavailable = FALSE,
                       !.bits = @ \o Ones((-Len(@)) % 8)]
    BY <1>2 DEF NextBlock
  <2>3. w' = [[v EXCEPT !.coeff = 0, !.x = 0, !.y = 0, !.comp = 1, !.mcucounter = v.mcucounter + 1]
                EXCEPT !.col = 0, !.row = v.row + 1, !.mcusavailable = FALSE,
                       !.bits = v.bits \o Ones((-Len(v.bits)) % 8)]
    BY <2>0, <2>2 DEF WriterStates
  <2>4. v.bits \o Ones((-Len(v.bits)) % 8) = padded
    BY <1>23, <2>1 DEF Fill
  <2>5. v.row + 1 = row /\ v.mcucounter + 1 = count
    BY <1>2, <1>5, <1>8, <1>25, <1>26
  <2> QED
    BY <2>0, <2>3, <2>4, <2>5 DEF WriterStates
<1>29. /\ w' \in WriterStates /\ w'.bits = padded
       /\ w'.mcusavailable = FALSE
       /\ w'.comp = 1 /\ w'.x = 0 /\ w'.y = 0 /\ w'.coeff = 0
       /\ w'.mcucounter = m + 1 /\ w'.restartmarkerindex = w.restartmarkerindex
       /\ w'.writerestartmarker = FALSE /\ w'.needsstuffing = w.needsstuffing
  <2>0. v \in WriterStates
    BY <1>2
  <2>1. w' \in WriterStates
    BY <1>25, <1>26, <1>23, <1>27, <1>28, <2>0 DEF WriterStates
  <2>2. /\ w'.bits = padded /\ w'.mcusavailable = FALSE
        /\ w'.comp = 1 /\ w'.x = 0 /\ w'.y = 0 /\ w'.coeff = 0 /\ w'.mcucounter = count
    BY <1>28, <2>0 DEF WriterStates
  <2>3. /\ w'.restartmarkerindex = v.restartmarkerindex
        /\ w'.writerestartmarker = v.writerestartmarker /\ w'.needsstuffing = v.needsstuffing
    BY <1>28, <2>0 DEF WriterStates
  <2> QED
    BY <1>2, <1>26, <2>1, <2>2, <2>3, Zenon
<1>30. WriterAt' /\ ScanAt' /\ ~Unfinished' /\ Reached' = slice.finishedrows * jpeg.hmcus
  BY <1>1, <1>29, NoBlocksLeft
<1>31. Each' = Each /\ Components' = Components
  BY <1>6 DEF Each, Components
<1>32. WriterTyped'
  BY <1>1, <1>6, <1>20, <1>29, <1>31 DEF WriterTyped, WriterStates
<1>33. Where(k)'
  <2>1. Reached' = k * e + (m + 1)
    BY <1>3, <1>4, <1>10, <1>30
  <2>2. w.restartmarkerindex = k % 8
    BY <1>1 DEF Where
  <2> QED
    BY <1>8, <1>10, <1>29, <1>31, <2>1, <2>2, Zenon DEF Where
<1>34. SoFar(HeadOf(image, jpeg, k), Padded(IntervalOf(image, jpeg, k)))'
  <2>1. Written(HeadOf(image', jpeg', k), Padded(IntervalOf(image', jpeg', k)), n, w'.bits,
                w'.needsstuffing, out')
    BY <1>1, <1>6, <1>15, <1>16, <1>17, <1>24, <1>29, Zenon
  <2> QED
    BY <1>19, <2>1, Zenon DEF SoFar
<1>35. Closing(k)'
  BY <1>6, <1>13, <1>29, <1>30, <1>34, Zenon DEF Closing
<1>36. k \in 0..(Intervals(jpeg') - 1)
  BY <1>1, <1>6
<1> QED
  BY <1>30, <1>32, <1>33, <1>35, <1>36, StageMakesInv

\* One coefficient, and on to the next block if it was the last.
LEMMA CoefficientKeepsScanInv ==
    ASSUME ScanInv, DecodeInv', WhileEncoding, EncodeCoefficient
    PROVE  ScanInv'
<1>1. PICK v : v = NextCoefficient(w, CurrBlock)
  OBVIOUS
<1>2. /\ Len(w.bits) < 8 /\ ~w.needsstuffing /\ ~w.writerestartmarker /\ ~RestartDue
      /\ w.mcusavailable /\ out' = out
      /\ w' = IF v.coeff > LastCoeff THEN NextBlock(v) ELSE v
  BY <1>1 DEF EncodeCoefficient, Emptied
<1>3. op = "encode"
  BY DEF WhileEncoding
<1>4. PICK k : k \in 0..(Intervals(jpeg) - 1) /\ Where(k) /\ Coding(k) /\ w.mcucounter < Each
  BY <1>2, <1>3, CodingNow
<1>5. Begun
  BY <1>2, <1>3, CodingNow
<1>6. PICK raw \in Seq(Bit) :
        /\ SoFar(HeadOf(image, jpeg, k), raw)
        /\ IF w.coeff = 0
           THEN AtBlock(image, jpeg, k, w.mcucounter, w.comp, BlocksCoded, raw, w.predicted)
           ELSE InBlock(image, jpeg, k, w.mcucounter, w.comp, BlocksCoded, w.coeff, raw, w.predicted)
  BY <1>4 DEF Coding
<1>7. \E add, pred, pos : CoefficientTo(k, raw, add, pred, pos)
  <2>1. CASE w.coeff = 0
    BY <1>2, <1>4, <1>5, <1>6, <2>1, FirstCoefficient
  <2>2. CASE w.coeff # 0 /\ w.coeff > Eob(CurrBlock) /\ Eob(CurrBlock) # LastCoeff
    BY <1>2, <1>4, <1>5, <1>6, <2>2, EndCoefficient
  <2>3. CASE w.coeff # 0 /\ ~(w.coeff > Eob(CurrBlock) /\ Eob(CurrBlock) # LastCoeff)
    BY <1>2, <1>4, <1>5, <1>6, <2>3, RunOfCoefficients
  <2> QED
    BY <2>1, <2>2, <2>3
<1>8. PICK add, pred, pos : CoefficientTo(k, raw, add, pred, pos)
  BY <1>7
<1>9. /\ add \in Seq(Bit) /\ raw \o add \in Seq(Bit)
      /\ pred \in [Components -> Int] /\ pos \in Nat \ {0}
      /\ v = [w EXCEPT !.bits = w.bits \o add, !.predicted = pred, !.coeff = pos]
      /\ IF pos <= LastCoeff
         THEN InBlock(image, jpeg, k, w.mcucounter, w.comp, BlocksCoded, pos, raw \o add, pred)
         ELSE BehindBlock(image, jpeg, k, w.mcucounter, w.comp, BlocksCoded, raw \o add, pred)
  BY <1>1, <1>8 DEF CoefficientTo
<1>10. /\ v \in WriterStates /\ v.bits = w.bits \o add /\ v.predicted = pred /\ v.coeff = pos
       /\ v.mcusavailable = TRUE /\ v.row = w.row /\ v.col = w.col
       /\ v.comp = w.comp /\ v.x = w.x /\ v.y = w.y
       /\ v.mcucounter = w.mcucounter /\ v.restartmarkerindex = w.restartmarkerindex
       /\ v.writerestartmarker = FALSE /\ v.needsstuffing = w.needsstuffing
  <2>1. w \in WriterStates /\ w.bits \in Seq(Bit)
    BY StateFacts DEF ScanInv, WriterTyped
  <2>2. PICK bits \in Seq(Bit) : bits = w.bits \o add
    BY <1>9, <2>1, ConcatProperties
  <2>3. v = [w EXCEPT !.bits = bits, !.predicted = pred, !.coeff = pos]
    BY <1>9, <2>2, Zenon
  <2>4. /\ v \in WriterStates /\ v.bits = bits /\ v.predicted = pred /\ v.coeff = pos
        /\ v.mcusavailable = w.mcusavailable /\ v.row = w.row /\ v.col = w.col
        /\ v.comp = w.comp /\ v.x = w.x /\ v.y = w.y
        /\ v.mcucounter = w.mcucounter /\ v.restartmarkerindex = w.restartmarkerindex
        /\ v.writerestartmarker = w.writerestartmarker /\ v.needsstuffing = w.needsstuffing
    BY <1>9, <2>1, <2>2, <2>3 DEF WriterStates
  <2>5. w.mcusavailable = TRUE /\ w.writerestartmarker = FALSE
    BY <1>2, StateFacts DEF ScanInv
  <2> QED
    BY <2>2, <2>4, <2>5, Zenon
<1>11. CASE pos <= LastCoeff
  <2>1. w' = v
    BY <1>2, <1>9, <1>10, <1>11, SizeAssumption
  <2>2. /\ w'.mcusavailable /\ w'.row < slice.currheight /\ w'.col < jpeg.hmcus
        /\ w'.x < HBlocks(w'.comp) /\ w'.y < VBlocks(w'.comp) /\ w'.coeff <= LastCoeff
    <3>1. /\ w.row < slice.currheight /\ w.col < jpeg.hmcus
          /\ w.x < HBlocks(w.comp) /\ w.y < VBlocks(w.comp)
      BY <1>2 DEF ScanInv, WriterAt
    <3> QED
      BY <1>10, <1>11, <2>1, <3>1
  <2>3. /\ WriterAt' /\ ScanAt' /\ Unfinished'
        /\ Reached' = (slice.finishedrows - slice.currheight + w'.row) * jpeg.hmcus + w'.col
    BY <1>2, <2>2, BlocksLeft
  <2>4. Reached' = k * Each + w'.mcucounter /\ w'.mcucounter <= Each /\ w'.mcucounter # Each
    <3>1. Reached' = Reached
      BY <1>2, <1>10, <2>1, <2>3 DEF Reached
    <3>2. Reached = k * Each + w.mcucounter
      BY <1>4 DEF Where
    <3>3. PICK e \in Nat, m \in Nat : e = Each /\ m = w.mcucounter
      BY StateFacts DEF ScanInv
    <3>4. m < e
      BY <1>4, <3>3
    <3> QED
      BY <1>10, <2>1, <3>1, <3>2, <3>3, <3>4
  <2>5. BlocksCoded' = BlocksCoded
    BY <1>10, <2>1 DEF BlocksCoded, HBlocks, WhileEncoding
  <2>6. /\ w'.coeff # 0
        /\ InBlock(image, jpeg, k, w'.mcucounter, w'.comp, BlocksCoded', w'.coeff, raw \o add,
                   w'.predicted)
    BY <1>9, <1>10, <1>11, <2>1, <2>5
  <2> QED
    BY <1>2, <1>4, <1>6, <1>9, <1>10, <2>1, <2>3, <2>4, <2>6, CodingMore
<1>12. CASE ~(pos <= LastCoeff)
  <2>1. w' = NextBlock(v)
    BY <1>2, <1>9, <1>10, <1>12, SizeAssumption
  <2>2. BlockCoded(k, raw, add, pred, v)
    BY <1>2, <1>4, <1>5, <1>6, <1>9, <1>10, <1>12, <2>1 DEF BlockCoded
  <2> QED
    BY <2>2, NextInComponent, NextComponent, NextMCU, LastMCU
<1> QED
  BY <1>11, <1>12

\* Every step keeps the invariant.
LEMMA ScanInvInductive == ScanInv /\ [Next]_vars => ScanInv'
<1> SUFFICES ASSUME ScanInv, [Next]_vars PROVE ScanInv'
  OBVIOUS
<1>1. DecodeInv'
  BY DecodeInvInductive DEF ScanInv
<1>2. CASE ReadNextBundle
  BY <1>1, <1>2, BundleKeepsScanInv
<1>3. CASE ReadNextSlice \/ DecodeBlock
  BY <1>1, <1>3, DecodingKeepsScanInv
<1>4. CASE FinishSlice
  BY <1>1, <1>4, FinishKeepsScanInv
<1>5. CASE EncodeToBuffer
  <2>1. /\ UNCHANGED <<jpeg, image, scansleft, reachedend, slice, blocks, w, out>>
        /\ op = "none" /\ op' = "encode" /\ MoreBytes
    BY <1>5 DEF EncodeToBuffer
  <2> QED
    BY <1>1, <2>1, OthersKeepScanInv
<1>6. CASE ReturnBuffer
  <2>1. /\ UNCHANGED <<jpeg, image, scansleft, reachedend, slice, blocks, w, out>>
        /\ op = "encode" /\ op' = "none"
    BY <1>6 DEF ReturnBuffer
  <2> QED
    BY <1>1, <2>1, OthersKeepScanInv
<1>7. CASE EncodeStep
  <2>1. WhileEncoding
    BY <1>7 DEF EncodeStep, WhileEncoding, Emptied, Room, WriteStuffing, WriteByte, WriteMarker,
                PadForMarker, EncodeCoefficient
  <2> QED
    BY <1>1, <1>7, <2>1, StuffingKeepsScanInv, ByteKeepsScanInv, MarkerKeepsScanInv,
       PadKeepsScanInv, CoefficientKeepsScanInv DEF EncodeStep
<1>8. CASE UNCHANGED vars
  <2>1. /\ UNCHANGED <<jpeg, image, scansleft, reachedend, slice, blocks, w, out>>
        /\ op' = op
    BY <1>8 DEF vars
  <2> QED
    BY <1>1, <2>1, OthersKeepScanInv
<1> QED
  BY <1>2, <1>3, <1>4, <1>5, <1>6, <1>7, <1>8 DEF Next

\* What is coded of an interval begins it.
LEMMA CodingBegins ==
    ASSUME ScanInv, Begun, NEW k, k \in 0..(Intervals(jpeg) - 1), Where(k), Unfinished,
           NEW raw \in Seq(Bit),
           IF w.coeff = 0
           THEN AtBlock(image, jpeg, k, w.mcucounter, w.comp, BlocksCoded, raw, w.predicted)
           ELSE InBlock(image, jpeg, k, w.mcucounter, w.comp, BlocksCoded, w.coeff, raw, w.predicted)
    PROVE  Begins(Bit, raw, IntervalOf(image, jpeg, k))
<1>1. /\ k \in Nat /\ k < Intervals(jpeg) /\ w.mcucounter <= Each
      /\ k * Each + w.mcucounter < MCUs(jpeg)
  BY WhereIs DEF ScanInv
<1>2. /\ jpeg \in Layouts /\ image \in Image(jpeg) /\ IntervalOf(image, jpeg, k) \in Seq(Bit)
  BY HeadFacts
<1>3. PICK e \in Nat \ {0}, m \in Nat : e = Each /\ m = w.mcucounter
  BY StateFacts DEF ScanInv
<1>4. e = Interval(jpeg)
  BY <1>3 DEF Each
<1>5. PICK i, j : i = w.comp /\ j = BlocksCoded
  OBVIOUS
<1>6. \/ AtBlock(image, jpeg, k, m, i, j, raw, w.predicted)
      \/ InBlock(image, jpeg, k, m, i, j, w.coeff, raw, w.predicted)
  BY <1>3, <1>5
<1>7. ~w.mcusavailable \/ m = e => i = 1 /\ j = 0 /\ w.coeff = 0
  <2>1. ~w.mcusavailable \/ m = e => w.comp = 1 /\ w.x = 0 /\ w.y = 0 /\ w.coeff = 0
    BY <1>3 DEF ScanInv, WriterAt, Where
  <2>2. HBlocks(w.comp) \in Nat
    BY StateFacts DEF ScanInv
  <2> QED
    BY <1>5, <2>1, <2>2 DEF BlocksCoded
<1>8. CASE m = e
  <2>1. AtBlock(image, jpeg, k, m, 1, 0, raw, w.predicted)
    BY <1>3, <1>5, <1>7, <1>8
  <2>2. PICK t \in Nat, p \in Nat : t = MCUs(jpeg) /\ p = k * e
    <3>1. MCUs(jpeg) \in Nat
      BY StateFacts DEF ScanInv
    <3>2. k * e \in Nat
      BY <1>1, <1>3
    <3> QED
      BY <3>1, <3>2
  <2>3. k * Interval(jpeg) + m <= MCUs(jpeg) /\ m <= Interval(jpeg) /\ m = Interval(jpeg)
    BY <1>1, <1>3, <1>4, <1>8, <2>2
  <2>4. raw = IntervalOf(image, jpeg, k)
    BY <1>1, <1>2, <2>1, <2>3, CodedIsInterval
  <2> QED
    BY <2>4, BeginsItself
<1>9. CASE m # e
  <2>1. m < Interval(jpeg) /\ k * Interval(jpeg) + m < MCUs(jpeg)
    BY <1>1, <1>3, <1>4, <1>9
  <2>2. ABlock(image, jpeg, k, m, i, j)
    <3>1. CASE w.mcusavailable
      BY <1>3, <1>5, <3>1, CurrBlockIs DEF ScanInv
    <3>2. CASE ~w.mcusavailable
      <4>1. i = 1 /\ j = 0
        BY <1>7, <3>2
      <4>2. i \in DOMAIN jpeg.factors
        BY <1>5, StateFacts DEF ScanInv
      <4>3. PICK a \in Nat \ {0}, b \in Nat \ {0} : a = jpeg.factors[i][1] /\ b = jpeg.factors[i][2]
        BY <1>5, StateFacts DEF ScanInv
      <4>4. 0 < a * b
        BY <4>3, SMTT(20)
      <4> QED
        BY <1>1, <1>2, <2>1, <4>1, <4>2, <4>3, <4>4 DEF ABlock
    <3> QED
      BY <3>1, <3>2
  <2> QED
    BY <1>1, <1>6, <2>1, <2>2, CodedBegins
<1> QED
  BY <1>8, <1>9

\* A marker is two bytes.
LEMMA TwoBytes ==
    ASSUME NEW x \in Int, NEW y \in Int
    PROVE  <<x>> \o <<y>> = <<x, y>>
<1>1. <<x>> \in Seq(Int) /\ <<y>> \in Seq(Int) /\ <<x, y>> \in Seq(Int)
  OBVIOUS
<1>2. <<x>> \o <<y>> \in Seq(Int) /\ Len(<<x>> \o <<y>>) = 2
  BY <1>1
<1>3. (<<x>> \o <<y>>)[1] = x /\ (<<x>> \o <<y>>)[2] = y
  BY <1>1
<1>4. PICK s : s = <<x>> \o <<y>>
  OBVIOUS
<1>5. PICK t : t = <<x, y>>
  OBVIOUS
<1>6. Len(t) = 2 /\ t[1] = x /\ t[2] = y /\ t \in Seq(Int)
  BY <1>1, <1>5
<1>7. s \in Seq(Int) /\ Len(s) = Len(t) /\ \A i \in 1..Len(s) : s[i] = t[i]
  <2>1. s \in Seq(Int) /\ Len(s) = 2
    BY <1>2, <1>4, Zenon
  <2>2. s[1] = x /\ s[2] = y
    BY <1>3, <1>4, Zenon
  <2>3. \A i \in 1..2 : i = 1 \/ i = 2
    OBVIOUS
  <2>4. \A i \in 1..2 : s[i] = t[i]
    BY <1>6, <2>2, <2>3, Zenon
  <2> QED
    BY <1>6, <2>1, <2>4, Zenon
<1>8. s = t
  BY <1>6, <1>7, SeqEqual
<1> QED
  BY <1>4, <1>5, <1>8

\* What is delivered begins the scan.
LEMMA DeliveredBeginsScan ==
    ASSUME ScanInv
    PROVE  Begins(Int, out, TheScan(image, jpeg)) /\ TheScan(image, jpeg) \in Seq(Int)
<1>0. jpeg \in Layouts /\ image \in Image(jpeg) /\ out \in Seq(Int)
  BY StateFacts DEF ScanInv, ScanAt
<1>1. TheScan(image, jpeg) \in Seq(Int)
  <2>1. 0 \in Nat /\ 0 <= Intervals(jpeg)
    BY <1>0, SomeInterval
  <2> QED
    BY <1>0, <2>1, DoneBegins
<1>2. CASE ~Begun
  <2>1. out = <<>>
    BY <1>2 DEF ScanInv, ScanAt
  <2>2. PICK scan \in Seq(Int) : scan = TheScan(image, jpeg)
    BY <1>1
  <2>3. scan = <<>> \o scan
    BY ConcatEmptySeq
  <2>4. Begins(Int, <<>>, scan)
    BY <2>3 DEF Begins
  <2> QED
    BY <1>1, <2>1, <2>2, <2>4
<1>3. CASE Begun
  <2>1. PICK k : /\ k \in 0..(Intervals(jpeg) - 1) /\ Where(k)
                 /\ Coding(k) \/ Due(k) \/ HalfMarked(k) \/ Closing(k)
    BY <1>3 DEF ScanInv, ScanSoFar
  <2>2. /\ k \in Nat /\ k < Intervals(jpeg) /\ k + 1 <= Intervals(jpeg)
        /\ IntervalOf(image, jpeg, k) \in Seq(Bit)
        /\ Padded(IntervalOf(image, jpeg, k)) \in Seq(Bit)
        /\ DoneParts(image, jpeg, k) \in Seq(Int)
    BY <1>3, <2>1, HeadFacts
  <2>3. PICK owing \in BOOLEAN : owing = w.needsstuffing
    BY StateFacts DEF ScanInv
  <2>4. PICK waiting \in Seq(Bit) : waiting = w.bits
    BY StateFacts DEF ScanInv
  <2>5. PICK full \in Seq(Bit) : full = IntervalOf(image, jpeg, k)
    BY <2>2
  <2>6. PICK padded \in Seq(Bit) : padded = Padded(full)
    BY <2>2, <2>5
  <2>7. Begins(Bit, full, padded)
    BY <2>5, <2>6, PaddedType
  <2>8. ASSUME NEW raw \in Seq(Bit), Begins(Bit, raw, padded), SoFar(HeadOf(image, jpeg, k), raw)
        PROVE  Begins(Int, out, TheScan(image, jpeg))
    <3>1. PICK n \in Nat : Written(HeadOf(image, jpeg, k), raw, n, waiting, owing, out)
      BY <2>3, <2>4, <2>8, Zenon DEF SoFar
    <3>2. Begins(Bit, raw, Padded(IntervalOf(image, jpeg, k)))
      BY <2>5, <2>6, <2>8
    <3> QED
      BY <1>0, <2>2, <3>1, <3>2, WrittenBeginsScan
  <2>9. CASE Coding(k)
    <3>1. PICK raw \in Seq(Bit) :
            /\ SoFar(HeadOf(image, jpeg, k), raw)
            /\ IF w.coeff = 0
               THEN AtBlock(image, jpeg, k, w.mcucounter, w.comp, BlocksCoded, raw, w.predicted)
               ELSE InBlock(image, jpeg, k, w.mcucounter, w.comp, BlocksCoded, w.coeff, raw,
                            w.predicted)
      BY <2>9 DEF Coding
    <3>2. Unfinished
      BY <2>9 DEF Coding
    <3>3. Begins(Bit, raw, full)
      BY <1>3, <2>1, <2>5, <3>1, <3>2, CodingBegins
    <3>4. Begins(Bit, raw, padded)
      BY <2>5, <2>6, <2>7, <3>1, <3>3, BeginsThrough, Zenon
    <3> QED
      BY <1>1, <2>8, <3>1, <3>4, Zenon
  <2>10. CASE Due(k) \/ Closing(k)
    <3>1. SoFar(HeadOf(image, jpeg, k), Padded(IntervalOf(image, jpeg, k)))
      BY <2>10 DEF Due, Closing
    <3>2. SoFar(HeadOf(image, jpeg, k), padded) /\ Begins(Bit, padded, padded)
      BY <2>5, <2>6, <3>1, BeginsItself
    <3> QED
      BY <1>1, <2>6, <2>8, <3>2, Zenon
  <2>11. CASE HalfMarked(k)
    <3>1. out = DoneParts(image, jpeg, k) \o <<255>> /\ k > 0
      BY <2>11 DEF HalfMarked
    <3>0. PICK n \in Nat \ {0} : n = k + 1 /\ n # 1
      BY <2>2, <3>1
    <3>2. PICK x \in Int : x = 208 + ((n - 2) % 8)
      BY <3>0
    <3>3. MarkerBefore(k + 1) = <<255, x>>
      <4>1. MarkerBefore(n) = <<255, 208 + ((n - 2) % 8)>>
        BY <3>0, MarkerType
      <4> QED
        BY <3>0, <3>2, <4>1
    <3>a. <<255>> \in Seq(Int) /\ <<x>> \in Seq(Int)
      BY <3>2
    <3>4. PICK one \in Seq(Int) : one = <<255>>
      BY <3>a, Zenon
    <3>5. PICK two \in Seq(Int) : two = <<x>>
      BY <3>a, Zenon
    <3>b. 255 \in Int
      OBVIOUS
    <3>6. one \o two = <<255, x>>
      BY <3>2, <3>4, <3>5, <3>b, TwoBytes, ZenonT(40)
    <3>7. PICK d \in Seq(Int) : d = DoneParts(image, jpeg, k)
      BY <2>2
    <3>8. HeadOf(image, jpeg, k) = d \o (one \o two)
      BY <3>3, <3>6, <3>7 DEF HeadOf
    <3>9. (d \o one) \o two = d \o (one \o two)
      BY BytesAssociate
    <3>10. PICK bytes \in Seq(Int) : bytes = d \o one
      BY ConcatProperties
    <3>11. PICK head \in Seq(Int) : head = HeadOf(image, jpeg, k)
      BY <1>3, <2>1, HeadFacts
    <3>12. Begins(Int, bytes, head)
      BY <3>8, <3>9, <3>10, <3>11 DEF Begins
    <3>13. PICK z \in Seq(Int) : z = Stuffed(IntervalOf(image, jpeg, k))
      BY <2>2, StuffedType
    <3>14. PICK done \in Seq(Int) : done = DoneParts(image, jpeg, k + 1)
      BY <1>3, <2>1, HeadFacts
    <3>15. done = head \o z
      BY <1>0, <2>2, <3>11, <3>13, <3>14, DoneMore
    <3>16. Begins(Int, head, done)
      BY <3>15 DEF Begins
    <3>17. PICK scan \in Seq(Int) : scan = TheScan(image, jpeg)
      BY <1>1
    <3>18. Begins(Int, done, scan)
      <4>1. k + 1 \in Nat
        BY <2>2
      <4> QED
        BY <1>0, <2>2, <3>14, <3>17, <4>1, DoneBegins
    <3>19. Begins(Int, bytes, scan)
      BY <3>12, <3>16, <3>18, BeginsThrough, Zenon
    <3> QED
      BY <3>1, <3>4, <3>7, <3>10, <3>17, <3>19, Zenon
  <2> QED
    BY <2>1, <2>9, <2>10, <2>11
<1> QED
  BY <1>1, <1>2, <1>3
\* When the next bundle is asked for, all of the scan is delivered.
LEMMA AllDelivered ==
    ASSUME ScanInv, op = "none", ~MoreBytes, ~MoreSlices, scansleft < Scans
    PROVE  out = TheScan(image, jpeg)
<1>1. Begun
  BY SizeAssumption DEF Begun
<1>2. /\ ~w.mcusavailable /\ ~w.needsstuffing /\ ~w.writerestartmarker /\ ~(Len(w.bits) >= 8)
      /\ (~reachedend => ~slice.slicesavailable)
  BY DEF MoreBytes, MoreSlices
<1>3. ~Unfinished
  <2>1. reachedend => ~Unfinished
    BY DEF ScanInv, ScanAt
  <2> QED
    BY <1>2, <2>1 DEF Unfinished, Started
<1>4. PICK k : /\ k \in 0..(Intervals(jpeg) - 1) /\ Where(k)
               /\ Coding(k) \/ Due(k) \/ HalfMarked(k) \/ Closing(k)
  BY <1>1 DEF ScanInv, ScanSoFar
<1>5. Closing(k)
  BY <1>3, <1>4 DEF Coding, Due, HalfMarked
<1>6. /\ k \in Nat /\ k < Intervals(jpeg) /\ jpeg \in Layouts /\ image \in Image(jpeg)
      /\ IntervalOf(image, jpeg, k) \in Seq(Bit)
  BY <1>1, <1>4, HeadFacts
<1>7. k + 1 = Intervals(jpeg) /\ SoFar(HeadOf(image, jpeg, k), Padded(IntervalOf(image, jpeg, k)))
  BY <1>5 DEF Closing
<1>8. PICK n \in Nat :
        Written(HeadOf(image, jpeg, k), Padded(IntervalOf(image, jpeg, k)), n, w.bits,
                w.needsstuffing, out)
  BY <1>7 DEF SoFar
<1>9. w.bits \in Seq(Bit) /\ out \in Seq(Int) /\ w.needsstuffing = FALSE
  BY <1>2, StateFacts DEF ScanInv
<1>10. Len(w.bits) = 0
  <2>1. PICK full \in Seq(Bit) : full = Padded(IntervalOf(image, jpeg, k))
    BY <1>6, PaddedType
  <2>2. PICK len \in Nat : len = Len(w.bits)
    BY <1>9
  <2>3. 8 * n + len = Len(full)
    BY <1>8, <2>1, <2>2 DEF Written
  <2>4. 8 * (Len(full) \div 8) = Len(full)
    BY <1>6, <2>1, PaddedType
  <2>5. PICK q \in Int : q = Len(full) \div 8
    BY <2>1
  <2>6. len < 8
    BY <1>2, <2>2
  <2>7. len = 0
    BY <1>8, <2>3, <2>4, <2>5, <2>6
  <2> QED
    BY <2>2, <2>7
<1>11. PICK waiting \in Seq(Bit) : waiting = w.bits /\ Len(waiting) = 0
  BY <1>9, <1>10
<1>12. Written(HeadOf(image, jpeg, k), Padded(IntervalOf(image, jpeg, k)), n, waiting, FALSE, out)
  BY <1>8, <1>9, <1>11, Zenon
<1>13. out = DoneParts(image, jpeg, k + 1)
  BY <1>6, <1>9, <1>11, <1>12, IntervalWritten, Zenon
<1>14. Intervals(jpeg) \in Nat /\ Intervals(jpeg) <= Intervals(jpeg)
  BY <1>6, SomeInterval
<1> QED
  BY <1>6, <1>7, <1>13, <1>14, DoneBegins

\* The re-coded scan is the scan of the image, for every image, sampling,
\* restart interval, slice height, Huffman code and buffer, and however often
\* a buffer is full (EncodeWinZipJPEGBlocksToBuffer): what is delivered is a
\* beginning of it, and all of it when the next bundle is asked for.
THEOREM ScanReproduced == Spec => []ScanIsReproduced
<1>1. ScanInv => ScanIsReproduced
  <2> SUFFICES ASSUME ScanInv PROVE ScanIsReproduced
    OBVIOUS
  <2>1. IsPrefix(out, TheScan(image, jpeg))
    BY DeliveredBeginsScan, BeginsIsPrefix, StateFacts DEF ScanInv
  <2>2. (op = "none" /\ ~MoreBytes /\ ~MoreSlices /\ scansleft < Scans) =>
          out = TheScan(image, jpeg)
    BY AllDelivered
  <2> QED
    BY <2>1, <2>2 DEF ScanIsReproduced
<1> QED
  BY <1>1, ScanInvInit, ScanInvInductive, PTL DEF Spec

=============================================================================
