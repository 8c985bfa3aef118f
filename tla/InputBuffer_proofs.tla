------------------------ MODULE InputBuffer_proofs -------------------------
(***************************************************************************)
(* What decompressors read is the stream, on every handle.                 *)
(*                                                                         *)
(* First the six handles of MappedHandle: each is shown to keep the        *)
(* promise of a handle (Promise), which says where it stands, what a read  *)
(* hands out and when a seek fails, of its contents alone.  Their loops    *)
(* are iterated functions; a loop is followed state by state, and is over  *)
(* when what is left to do has shrunk to nothing (LoopEnds).               *)
(*                                                                         *)
(* Then the buffer.  A refill leaves the client where it is with more than *)
(* the bytes it may look ahead, or all there are (Fills).  The word is the *)
(* next bits of the stream, whole bytes of it behind currbyte (Word), so   *)
(* bits taken from it are the stream's.  IInv says so of a buffer no       *)
(* exception has left, and of one that was left, that the client needed    *)
(* more than there is.                                                     *)
(***************************************************************************)
EXTENDS InputBuffer, TLAPS, FiniteSetTheorems, SequenceTheorems, WellFoundedInduction

\* Every nonempty set of numbers has a least one.
LEMMA LeastNumber ==
    ASSUME NEW T \in SUBSET Nat, T # {}
    PROVE  \E n \in T : \A m \in T : n <= m
<1> DEFINE U == {1..n : n \in T}
<1>1. U \subseteq FiniteSubsetsOf(Nat) /\ U # {}
  <2>1. ASSUME NEW n \in T
        PROVE  1..n \in FiniteSubsetsOf(Nat)
    <3>1. IsFiniteSet(1..n)
      BY FS_Interval
    <3> QED
      BY <3>1 DEF FiniteSubsetsOf
  <2> QED
    BY <2>1
<1>2. PICK u \in U : \A v \in U : ~(<<v, u>> \in StrictSubsetOrdering(Nat))
  BY <1>1, WFMin, FS_StrictSubsetOrderingWellFounded
<1>3. PICK n \in T : u = 1..n
  BY <1>2
<1>4. ASSUME NEW m \in T, m < n
      PROVE  FALSE
  <2>1. n \in 1..n /\ n \notin 1..m
    BY <1>4
  <2>2. PICK v : v = 1..m
    OBVIOUS
  <2>3. v \in SUBSET Nat /\ u \in SUBSET Nat /\ v \subseteq u /\ v # u
    BY <1>3, <1>4, <2>1, <2>2
  <2>4. <<v, u>> \in StrictSubsetOrdering(Nat)
    BY <2>3 DEF StrictSubsetOrdering
  <2> QED
    BY <1>2, <2>2, <2>4
<1> QED
  BY <1>4

\* Induction over the numbers, for a set of them.
LEMMA NumberInduction ==
    ASSUME NEW T, 0 \in T, \A n \in Nat : n \in T => n + 1 \in T
    PROVE  \A n \in Nat : n \in T
<1> DEFINE U == {n \in Nat : n \notin T}
<1> SUFFICES ASSUME U # {} PROVE FALSE
  OBVIOUS
<1>1. PICK n \in U : \A m \in U : n <= m
  BY LeastNumber
<1>2. n # 0 /\ n \in Nat /\ n \notin T
  OBVIOUS
<1>3. n - 1 \in Nat /\ n - 1 \notin U
  BY <1>1, <1>2
<1>4. (n - 1) + 1 \in T
  BY <1>3
<1> QED
  BY <1>2, <1>4

\* ... and up to a number.
LEMMA UpTo ==
    ASSUME NEW n \in Nat, NEW T, 0 \in T, \A k \in 0..(n - 1) : k \in T => k + 1 \in T
    PROVE  \A k \in 0..n : k \in T
<1> DEFINE V == {k \in Nat : k <= n => k \in T}
<1>1. 0 \in V
  OBVIOUS
<1>2. \A k \in Nat : k \in V => k + 1 \in V
  OBVIOUS
<1>3. \A k \in Nat : k \in V
  <2> HIDE DEF V
  <2> QED
    BY <1>1, <1>2, NumberInduction
<1> QED
  BY <1>3

(***************************************************************************)
(* Loops.                                                                  *)
(***************************************************************************)
\* The states of a loop that goes n times round.
States(F, a, n, g) == g = [k \in 0..n |-> IF k = 0 THEN a ELSE F[g[k - 1]]]

\* There are such states.
LEMMA StatesExist ==
    ASSUME NEW S, NEW F \in [S -> S], NEW a \in S, NEW n \in Nat
    PROVE  \E g \in [0..n -> S] : States(F, a, n, g)
<1> DEFINE T == {k \in Nat : \E g \in [0..k -> S] : States(F, a, k, g)}
<1>1. 0 \in T
  <2>1. PICK g : g = [k \in 0..0 |-> a]
    OBVIOUS
  <2>2. g \in [0..0 -> S] /\ g = [k \in 0..0 |-> IF k = 0 THEN a ELSE F[g[k - 1]]]
    BY <2>1
  <2> QED
    BY <2>2 DEF States
<1>2. ASSUME NEW m \in Nat, m \in T
      PROVE  m + 1 \in T
  <2>1. PICK g \in [0..m -> S] : g = [k \in 0..m |-> IF k = 0 THEN a ELSE F[g[k - 1]]]
    BY <1>2 DEF States
  <2>2. PICK h : h = [k \in 0..(m + 1) |-> IF k <= m THEN g[k] ELSE F[g[m]]]
    OBVIOUS
  <2>3. \A k \in 0..(m + 1) : h[k] \in S
    BY <2>1, <2>2
  <2>4. h \in [0..(m + 1) -> S]
    BY <2>2, <2>3
  <2>5. \A k \in 0..(m + 1) : h[k] = IF k = 0 THEN a ELSE F[h[k - 1]]
    <3>1. \A k \in 0..m : h[k] = g[k]
      BY <2>2
    <3>2. \A k \in 0..m : g[k] = IF k = 0 THEN a ELSE F[g[k - 1]]
      BY <2>1
    <3>3. h[0] = a
      <4>1. 0 \in 0..m
        OBVIOUS
      <4> QED
        BY <3>1, <3>2, <4>1, Zenon
    <3>4. \A k \in 1..m : h[k] = F[h[k - 1]]
      <4>1. \A k \in 1..m : k \in 0..m /\ k - 1 \in 0..m /\ k # 0
        OBVIOUS
      <4> QED
        BY <3>1, <3>2, <4>1, Zenon
    <3>5. h[m + 1] = F[h[(m + 1) - 1]]
      <4>1. h[m + 1] = F[g[m]] /\ h[m] = g[m] /\ (m + 1) - 1 = m
        BY <2>2
      <4> QED
        BY <4>1, Zenon
    <3>6. \A k \in 0..(m + 1) : k = 0 \/ k \in 1..m \/ k = m + 1
      OBVIOUS
    <3>7. m + 1 # 0 /\ ~(0 \in 1..m)
      OBVIOUS
    <3> QED
      BY <3>3, <3>4, <3>5, <3>6, <3>7, Zenon
  <2>6. h = [k \in 0..(m + 1) |-> IF k = 0 THEN a ELSE F[h[k - 1]]]
    BY <2>4, <2>5
  <2>7. States(F, a, m + 1, h)
    BY <2>6 DEF States
  <2> QED
    BY <2>4, <2>7
<1>3. \A k \in Nat : k \in T
  <2> HIDE DEF T
  <2> QED
    BY <1>1, <1>2, NumberInduction
<1> QED
  BY <1>3

\* The states of a loop are the only ones.
TheStates(S, F, a, n, g) ==
    /\ g[0] = a /\ \A k \in 1..n : g[k] = F[g[k - 1]] /\ g[k - 1] \in S
    /\ \A st : /\ st[0] = a
               /\ \A k \in 1..n : st[k - 1] \in S => st[k] = F[st[k - 1]]
               => st[n] = g[n]

\* Every loop has them.
LEMMA LoopStates ==
    ASSUME NEW S, NEW F \in [S -> S], NEW a \in S, NEW n \in Nat
    PROVE  \E g \in [0..n -> S] : TheStates(S, F, a, n, g)
<1>1. PICK g \in [0..n -> S] : States(F, a, n, g)
  BY StatesExist
<1>2. \A k \in 1..n : k - 1 \in 0..n /\ k \in 0..n /\ k # 0
  OBVIOUS
<1>3. g[0] = a /\ \A k \in 1..n : g[k] = F[g[k - 1]] /\ g[k - 1] \in S
  <2>1. g = [k \in 0..n |-> IF k = 0 THEN a ELSE F[g[k - 1]]]
    BY <1>1 DEF States
  <2>2. \A k \in 0..n : g[k] = IF k = 0 THEN a ELSE F[g[k - 1]]
    BY <2>1
  <2>3. 0 \in 0..n
    OBVIOUS
  <2>4. \A k \in 0..n : g[k] \in S
    OBVIOUS
  <2> QED
    BY <1>2, <2>2, <2>3, <2>4, Zenon
<1>4. ASSUME NEW st, st[0] = a, \A k \in 1..n : st[k - 1] \in S => st[k] = F[st[k - 1]]
      PROVE  st[n] = g[n]
  <2> DEFINE T == {k \in 0..n : st[k] = g[k]}
  <2>1. 0 \in T
    BY <1>3, <1>4
  <2>2. ASSUME NEW k \in 0..(n - 1), k \in T PROVE k + 1 \in T
    <3>1. k + 1 \in 1..n /\ (k + 1) - 1 = k /\ k + 1 \in 0..n
      OBVIOUS
    <3>2. g[k] \in S /\ st[k] = g[k]
      BY <2>2
    <3>3. g[k + 1] = F[g[k]]
      BY <1>3, <3>1, Zenon
    <3>4. st[k + 1] = F[st[k]]
      BY <1>4, <3>1, <3>2, Zenon
    <3> QED
      BY <3>1, <3>2, <3>3, <3>4
  <2>3. \A k \in 0..n : k \in T
    <3> HIDE DEF T
    <3> QED
      BY <2>1, <2>2, UpTo
  <2>4. n \in 0..n
    OBVIOUS
  <2> QED
    BY <2>3, <2>4, Zenon
<1> QED
  BY <1>3, <1>4 DEF TheStates

\* setBlockChain.
FollowedFrom(first, n) == After(FollowChain, first, n)

FollowChainStates(a, n, g) ==
    /\ g[0] = a /\ \A k \in 1..n : g[k] = FollowChain(g[k - 1])
    /\ FollowedFrom(a, n) = g[n]

\* FollowChain may be iterated n times from any state of a set it stays in.
LEMMA FollowChainLoops ==
    ASSUME NEW S, NEW a \in S, NEW n \in Nat, \A s \in S : FollowChain(s) \in S
    PROVE  \E g \in [0..n -> S] : FollowChainStates(a, n, g)
<1>1. PICK F : F = [s \in S |-> FollowChain(s)]
  OBVIOUS
<1>2. F \in [S -> S]
  BY <1>1
<1>p. PICK g \in [0..n -> S] : TheStates(S, F, a, n, g)
  BY <1>2, LoopStates
<1>3. /\ g[0] = a /\ \A k \in 1..n : g[k] = F[g[k - 1]] /\ g[k - 1] \in S
      /\ \A st : /\ st[0] = a
                 /\ \A k \in 1..n : st[k - 1] \in S => st[k] = F[st[k - 1]]
                 => st[n] = g[n]
  BY <1>p DEF TheStates
<1>4. \A k \in 1..n : g[k] = FollowChain(g[k - 1])
  BY <1>1, <1>3
<1>5. g = [k \in 0..n |-> IF k = 0 THEN a ELSE FollowChain(g[k - 1])]
  BY <1>3, <1>4
<1>6. PICK st : /\ st = [k \in 0..n |-> IF k = 0 THEN a ELSE FollowChain(st[k - 1])]
                /\ FollowedFrom(a, n) = st[n]
  BY <1>5 DEF FollowedFrom, After
<1>7. st[0] = a /\ \A k \in 1..n : st[k] = FollowChain(st[k - 1])
  <2>1. \A k \in 0..n : st[k] = IF k = 0 THEN a ELSE FollowChain(st[k - 1])
    BY <1>6
  <2>2. 0 \in 0..n /\ \A k \in 1..n : k \in 0..n /\ k # 0
    OBVIOUS
  <2> QED
    BY <2>1, <2>2, Zenon
<1>8. st[n] = g[n]
  BY <1>1, <1>3, <1>7
<1> QED
  BY <1>3, <1>4, <1>6, <1>8 DEF FollowChainStates

\* readAtMost: of the block handle.
BlockRounds(first, n) == After(BlockRound, first, n)

BlockRoundStates(a, n, g) ==
    /\ g[0] = a /\ \A k \in 1..n : g[k] = BlockRound(g[k - 1])
    /\ BlockRounds(a, n) = g[n]

\* BlockRound may be iterated n times from any state of a set it stays in.
LEMMA BlockRoundLoops ==
    ASSUME NEW S, NEW a \in S, NEW n \in Nat, \A s \in S : BlockRound(s) \in S
    PROVE  \E g \in [0..n -> S] : BlockRoundStates(a, n, g)
<1>1. PICK F : F = [s \in S |-> BlockRound(s)]
  OBVIOUS
<1>2. F \in [S -> S]
  BY <1>1
<1>p. PICK g \in [0..n -> S] : TheStates(S, F, a, n, g)
  BY <1>2, LoopStates
<1>3. /\ g[0] = a /\ \A k \in 1..n : g[k] = F[g[k - 1]] /\ g[k - 1] \in S
      /\ \A st : /\ st[0] = a
                 /\ \A k \in 1..n : st[k - 1] \in S => st[k] = F[st[k - 1]]
                 => st[n] = g[n]
  BY <1>p DEF TheStates
<1>4. \A k \in 1..n : g[k] = BlockRound(g[k - 1])
  BY <1>1, <1>3
<1>5. g = [k \in 0..n |-> IF k = 0 THEN a ELSE BlockRound(g[k - 1])]
  BY <1>3, <1>4
<1>6. PICK st : /\ st = [k \in 0..n |-> IF k = 0 THEN a ELSE BlockRound(st[k - 1])]
                /\ BlockRounds(a, n) = st[n]
  BY <1>5 DEF BlockRounds, After
<1>7. st[0] = a /\ \A k \in 1..n : st[k] = BlockRound(st[k - 1])
  <2>1. \A k \in 0..n : st[k] = IF k = 0 THEN a ELSE BlockRound(st[k - 1])
    BY <1>6
  <2>2. 0 \in 0..n /\ \A k \in 1..n : k \in 0..n /\ k # 0
    OBVIOUS
  <2> QED
    BY <2>1, <2>2, Zenon
<1>8. st[n] = g[n]
  BY <1>1, <1>3, <1>7
<1> QED
  BY <1>3, <1>4, <1>6, <1>8 DEF BlockRoundStates

\* readAtMost: of the padded block handle.
PaddedRounds(first, n) == After(PaddedRound, first, n)

PaddedRoundStates(a, n, g) ==
    /\ g[0] = a /\ \A k \in 1..n : g[k] = PaddedRound(g[k - 1])
    /\ PaddedRounds(a, n) = g[n]

\* PaddedRound may be iterated n times from any state of a set it stays in.
LEMMA PaddedRoundLoops ==
    ASSUME NEW S, NEW a \in S, NEW n \in Nat, \A s \in S : PaddedRound(s) \in S
    PROVE  \E g \in [0..n -> S] : PaddedRoundStates(a, n, g)
<1>1. PICK F : F = [s \in S |-> PaddedRound(s)]
  OBVIOUS
<1>2. F \in [S -> S]
  BY <1>1
<1>p. PICK g \in [0..n -> S] : TheStates(S, F, a, n, g)
  BY <1>2, LoopStates
<1>3. /\ g[0] = a /\ \A k \in 1..n : g[k] = F[g[k - 1]] /\ g[k - 1] \in S
      /\ \A st : /\ st[0] = a
                 /\ \A k \in 1..n : st[k - 1] \in S => st[k] = F[st[k - 1]]
                 => st[n] = g[n]
  BY <1>p DEF TheStates
<1>4. \A k \in 1..n : g[k] = PaddedRound(g[k - 1])
  BY <1>1, <1>3
<1>5. g = [k \in 0..n |-> IF k = 0 THEN a ELSE PaddedRound(g[k - 1])]
  BY <1>3, <1>4
<1>6. PICK st : /\ st = [k \in 0..n |-> IF k = 0 THEN a ELSE PaddedRound(st[k - 1])]
                /\ PaddedRounds(a, n) = st[n]
  BY <1>5 DEF PaddedRounds, After
<1>7. st[0] = a /\ \A k \in 1..n : st[k] = PaddedRound(st[k - 1])
  <2>1. \A k \in 0..n : st[k] = IF k = 0 THEN a ELSE PaddedRound(st[k - 1])
    BY <1>6
  <2>2. 0 \in 0..n /\ \A k \in 1..n : k \in 0..n /\ k # 0
    OBVIOUS
  <2> QED
    BY <2>1, <2>2, Zenon
<1>8. st[n] = g[n]
  BY <1>1, <1>3, <1>7
<1> QED
  BY <1>3, <1>4, <1>6, <1>8 DEF PaddedRoundStates

\* addSkipFrom:to:, for all gaps.
AddSkips(first, n) == After(AddSkip, first, n)

AddSkipStates(D, a, n, g) ==
    /\ \A k \in 0..n : g[k] \in D[k]
    /\ g[0] = a /\ \A k \in 1..n : g[k] = AddSkip(g[k - 1])
    /\ AddSkips(a, n) = g[n]

\* The n gaps can be added one by one, each to a list with the ones before it.
LEMMA AddSkipLoops ==
    ASSUME NEW S, NEW n \in Nat, NEW D \in [0..n -> SUBSET S], NEW a \in D[0],
           \A k \in 1..n : \A s \in D[k - 1] : AddSkip(s) \in D[k]
    PROVE  \E g \in [0..n -> S] : AddSkipStates(D, a, n, g)
<1>1. PICK F : F = [s \in S |-> IF AddSkip(s) \in S THEN AddSkip(s) ELSE s]
  OBVIOUS
<1>2. F \in [S -> S] /\ a \in S
  BY <1>1
<1>p. PICK g \in [0..n -> S] : TheStates(S, F, a, n, g)
  BY <1>2, LoopStates
<1>3. g[0] = a /\ \A k \in 1..n : g[k] = F[g[k - 1]]
  BY <1>p DEF TheStates
<1>4. ASSUME NEW k \in 1..n, g[k - 1] \in D[k - 1]
      PROVE  g[k] = AddSkip(g[k - 1]) /\ g[k] \in D[k]
  <2>1. k - 1 \in 0..n /\ k \in 0..n
    OBVIOUS
  <2>2. AddSkip(g[k - 1]) \in D[k] /\ D[k] \in SUBSET S
    BY <1>4, <2>1
  <2> QED
    BY <1>1, <1>3, <2>1, <2>2
<1>5. \A k \in 0..n : g[k] \in D[k]
  <2> DEFINE V == {k \in 0..n : g[k] \in D[k]}
  <2>1. 0 \in V
    BY <1>3
  <2>2. \A k \in 0..(n - 1) : k \in V => k + 1 \in V
    <3> TAKE k \in 0..(n - 1)
    <3>1. k + 1 \in 1..n /\ (k + 1) - 1 = k /\ k + 1 \in 0..n
      OBVIOUS
    <3> QED
      BY <1>4, <3>1
  <2>3. \A k \in 0..n : k \in V
    <3> HIDE DEF V
    <3> QED
      BY <2>1, <2>2, UpTo
  <2> QED
    BY <2>3
<1>6. \A k \in 1..n : g[k] = AddSkip(g[k - 1])
  BY <1>4, <1>5
<1>7. g = [k \in 0..n |-> IF k = 0 THEN a ELSE AddSkip(g[k - 1])]
  BY <1>3, <1>6
<1>8. PICK st : /\ st = [k \in 0..n |-> IF k = 0 THEN a ELSE AddSkip(st[k - 1])]
                /\ AddSkips(a, n) = st[n]
  BY <1>7 DEF AddSkips, After
<1>9. st[0] = a /\ \A k \in 1..n : st[k] = AddSkip(st[k - 1])
  <2>1. \A k \in 0..n : st[k] = IF k = 0 THEN a ELSE AddSkip(st[k - 1])
    BY <1>8
  <2>2. 0 \in 0..n /\ \A k \in 1..n : k \in 0..n /\ k # 0
    OBVIOUS
  <2> QED
    BY <2>1, <2>2, Zenon
<1>10. st[n] = g[n]
  <2> DEFINE V == {k \in 0..n : st[k] = g[k]}
  <2>1. 0 \in V
    BY <1>3, <1>9
  <2>2. \A k \in 0..(n - 1) : k \in V => k + 1 \in V
    <3> TAKE k \in 0..(n - 1)
    <3>1. k + 1 \in 1..n /\ (k + 1) - 1 = k /\ k + 1 \in 0..n
      OBVIOUS
    <3> QED
      BY <1>6, <1>9, <3>1
  <2>3. \A k \in 0..n : k \in V
    <3> HIDE DEF V
    <3> QED
      BY <2>1, <2>2, UpTo
  <2>4. n \in 0..n
    OBVIOUS
  <2> QED
    BY <2>3, <2>4, Zenon
<1> QED
  BY <1>3, <1>5, <1>6, <1>8, <1>10 DEF AddSkipStates

\* The search for a region.
Halved(side, pos0, first, n) == After(LAMBDA s : Halve(side, pos0, s), first, n)

HalveStates(side, pos0, a, n, g) ==
    /\ g[0] = a /\ \A k \in 1..n : g[k] = Halve(side, pos0, g[k - 1])
    /\ Halved(side, pos0, a, n) = g[n]

\* Halve may be iterated n times from any state of a set it stays in.
LEMMA HalveLoops ==
    ASSUME NEW S, NEW a \in S, NEW n \in Nat, NEW side, NEW pos0,
           \A s \in S : Halve(side, pos0, s) \in S
    PROVE  \E g \in [0..n -> S] : HalveStates(side, pos0, a, n, g)
<1>1. PICK F : F = [s \in S |-> Halve(side, pos0, s)]
  OBVIOUS
<1>2. F \in [S -> S]
  BY <1>1
<1>p. PICK g \in [0..n -> S] : TheStates(S, F, a, n, g)
  BY <1>2, LoopStates
<1>3. /\ g[0] = a /\ \A k \in 1..n : g[k] = F[g[k - 1]] /\ g[k - 1] \in S
      /\ \A st : /\ st[0] = a
                 /\ \A k \in 1..n : st[k - 1] \in S => st[k] = F[st[k - 1]]
                 => st[n] = g[n]
  BY <1>p DEF TheStates
<1>4. \A k \in 1..n : g[k] = Halve(side, pos0, g[k - 1])
  BY <1>1, <1>3
<1>5. g = [k \in 0..n |-> IF k = 0 THEN a ELSE Halve(side, pos0, g[k - 1])]
  BY <1>3, <1>4
<1>6. PICK st : /\ st = [k \in 0..n |-> IF k = 0 THEN a ELSE Halve(side, pos0, st[k - 1])]
                /\ Halved(side, pos0, a, n) = st[n]
  BY <1>5 DEF Halved, After
<1>7. st[0] = a /\ \A k \in 1..n : st[k] = Halve(side, pos0, st[k - 1])
  <2>1. \A k \in 0..n : st[k] = IF k = 0 THEN a ELSE Halve(side, pos0, st[k - 1])
    BY <1>6
  <2>2. 0 \in 0..n /\ \A k \in 1..n : k \in 0..n /\ k # 0
    OBVIOUS
  <2> QED
    BY <2>1, <2>2, Zenon
<1>8. st[n] = g[n]
  BY <1>1, <1>3, <1>7
<1> QED
  BY <1>3, <1>4, <1>6, <1>8 DEF HalveStates

\* readAtMost: of the skip handle.
SkipRounds(first, n) == After(SkipRound, first, n)

SkipRoundStates(a, n, g) ==
    /\ g[0] = a /\ \A k \in 1..n : g[k] = SkipRound(g[k - 1])
    /\ SkipRounds(a, n) = g[n]

\* SkipRound may be iterated n times from any state of a set it stays in.
LEMMA SkipRoundLoops ==
    ASSUME NEW S, NEW a \in S, NEW n \in Nat, \A s \in S : SkipRound(s) \in S
    PROVE  \E g \in [0..n -> S] : SkipRoundStates(a, n, g)
<1>1. PICK F : F = [s \in S |-> SkipRound(s)]
  OBVIOUS
<1>2. F \in [S -> S]
  BY <1>1
<1>p. PICK g \in [0..n -> S] : TheStates(S, F, a, n, g)
  BY <1>2, LoopStates
<1>3. /\ g[0] = a /\ \A k \in 1..n : g[k] = F[g[k - 1]] /\ g[k - 1] \in S
      /\ \A st : /\ st[0] = a
                 /\ \A k \in 1..n : st[k - 1] \in S => st[k] = F[st[k - 1]]
                 => st[n] = g[n]
  BY <1>p DEF TheStates
<1>4. \A k \in 1..n : g[k] = SkipRound(g[k - 1])
  BY <1>1, <1>3
<1>5. g = [k \in 0..n |-> IF k = 0 THEN a ELSE SkipRound(g[k - 1])]
  BY <1>3, <1>4
<1>6. PICK st : /\ st = [k \in 0..n |-> IF k = 0 THEN a ELSE SkipRound(st[k - 1])]
                /\ SkipRounds(a, n) = st[n]
  BY <1>5 DEF SkipRounds, After
<1>7. st[0] = a /\ \A k \in 1..n : st[k] = SkipRound(st[k - 1])
  <2>1. \A k \in 0..n : st[k] = IF k = 0 THEN a ELSE SkipRound(st[k - 1])
    BY <1>6
  <2>2. 0 \in 0..n /\ \A k \in 1..n : k \in 0..n /\ k # 0
    OBVIOUS
  <2> QED
    BY <2>1, <2>2, Zenon
<1>8. st[n] = g[n]
  BY <1>1, <1>3, <1>7
<1> QED
  BY <1>3, <1>4, <1>6, <1>8 DEF SkipRoundStates

\* The sizes of segments, summed up.
AddSegments(first, n) == After(AddSegment, first, n)

AddSegmentStates(D, a, n, g) ==
    /\ \A k \in 0..n : g[k] \in D[k]
    /\ g[0] = a /\ \A k \in 1..n : g[k] = AddSegment(g[k - 1])
    /\ AddSegments(a, n) = g[n]

\* The n segments can be added one by one, each to the ones before it.
LEMMA AddSegmentLoops ==
    ASSUME NEW S, NEW n \in Nat, NEW D \in [0..n -> SUBSET S], NEW a \in D[0],
           \A k \in 1..n : \A s \in D[k - 1] : AddSegment(s) \in D[k]
    PROVE  \E g \in [0..n -> S] : AddSegmentStates(D, a, n, g)
<1>1. PICK F : F = [s \in S |-> IF AddSegment(s) \in S THEN AddSegment(s) ELSE s]
  OBVIOUS
<1>2. F \in [S -> S] /\ a \in S
  BY <1>1
<1>p. PICK g \in [0..n -> S] : TheStates(S, F, a, n, g)
  BY <1>2, LoopStates
<1>3. g[0] = a /\ \A k \in 1..n : g[k] = F[g[k - 1]]
  BY <1>p DEF TheStates
<1>4. ASSUME NEW k \in 1..n, g[k - 1] \in D[k - 1]
      PROVE  g[k] = AddSegment(g[k - 1]) /\ g[k] \in D[k]
  <2>1. k - 1 \in 0..n /\ k \in 0..n
    OBVIOUS
  <2>2. AddSegment(g[k - 1]) \in D[k] /\ D[k] \in SUBSET S
    BY <1>4, <2>1
  <2> QED
    BY <1>1, <1>3, <2>1, <2>2
<1>5. \A k \in 0..n : g[k] \in D[k]
  <2> DEFINE V == {k \in 0..n : g[k] \in D[k]}
  <2>1. 0 \in V
    BY <1>3
  <2>2. \A k \in 0..(n - 1) : k \in V => k + 1 \in V
    <3> TAKE k \in 0..(n - 1)
    <3>1. k + 1 \in 1..n /\ (k + 1) - 1 = k /\ k + 1 \in 0..n
      OBVIOUS
    <3> QED
      BY <1>4, <3>1
  <2>3. \A k \in 0..n : k \in V
    <3> HIDE DEF V
    <3> QED
      BY <2>1, <2>2, UpTo
  <2> QED
    BY <2>3
<1>6. \A k \in 1..n : g[k] = AddSegment(g[k - 1])
  BY <1>4, <1>5
<1>7. g = [k \in 0..n |-> IF k = 0 THEN a ELSE AddSegment(g[k - 1])]
  BY <1>3, <1>6
<1>8. PICK st : /\ st = [k \in 0..n |-> IF k = 0 THEN a ELSE AddSegment(st[k - 1])]
                /\ AddSegments(a, n) = st[n]
  BY <1>7 DEF AddSegments, After
<1>9. st[0] = a /\ \A k \in 1..n : st[k] = AddSegment(st[k - 1])
  <2>1. \A k \in 0..n : st[k] = IF k = 0 THEN a ELSE AddSegment(st[k - 1])
    BY <1>8
  <2>2. 0 \in 0..n /\ \A k \in 1..n : k \in 0..n /\ k # 0
    OBVIOUS
  <2> QED
    BY <2>1, <2>2, Zenon
<1>10. st[n] = g[n]
  <2> DEFINE V == {k \in 0..n : st[k] = g[k]}
  <2>1. 0 \in V
    BY <1>3, <1>9
  <2>2. \A k \in 0..(n - 1) : k \in V => k + 1 \in V
    <3> TAKE k \in 0..(n - 1)
    <3>1. k + 1 \in 1..n /\ (k + 1) - 1 = k /\ k + 1 \in 0..n
      OBVIOUS
    <3> QED
      BY <1>6, <1>9, <3>1
  <2>3. \A k \in 0..n : k \in V
    <3> HIDE DEF V
    <3> QED
      BY <2>1, <2>2, UpTo
  <2>4. n \in 0..n
    OBVIOUS
  <2> QED
    BY <2>3, <2>4, Zenon
<1> QED
  BY <1>3, <1>5, <1>6, <1>8, <1>10 DEF AddSegmentStates

\* readAtMost: of the segmented handle.
MultiRounds(first, n) == After(MultiRound, first, n)

MultiRoundStates(a, n, g) ==
    /\ g[0] = a /\ \A k \in 1..n : g[k] = MultiRound(g[k - 1])
    /\ MultiRounds(a, n) = g[n]

\* MultiRound may be iterated n times from any state of a set it stays in.
LEMMA MultiRoundLoops ==
    ASSUME NEW S, NEW a \in S, NEW n \in Nat, \A s \in S : MultiRound(s) \in S
    PROVE  \E g \in [0..n -> S] : MultiRoundStates(a, n, g)
<1>1. PICK F : F = [s \in S |-> MultiRound(s)]
  OBVIOUS
<1>2. F \in [S -> S]
  BY <1>1
<1>p. PICK g \in [0..n -> S] : TheStates(S, F, a, n, g)
  BY <1>2, LoopStates
<1>3. /\ g[0] = a /\ \A k \in 1..n : g[k] = F[g[k - 1]] /\ g[k - 1] \in S
      /\ \A st : /\ st[0] = a
                 /\ \A k \in 1..n : st[k - 1] \in S => st[k] = F[st[k - 1]]
                 => st[n] = g[n]
  BY <1>p DEF TheStates
<1>4. \A k \in 1..n : g[k] = MultiRound(g[k - 1])
  BY <1>1, <1>3
<1>5. g = [k \in 0..n |-> IF k = 0 THEN a ELSE MultiRound(g[k - 1])]
  BY <1>3, <1>4
<1>6. PICK st : /\ st = [k \in 0..n |-> IF k = 0 THEN a ELSE MultiRound(st[k - 1])]
                /\ MultiRounds(a, n) = st[n]
  BY <1>5 DEF MultiRounds, After
<1>7. st[0] = a /\ \A k \in 1..n : st[k] = MultiRound(st[k - 1])
  <2>1. \A k \in 0..n : st[k] = IF k = 0 THEN a ELSE MultiRound(st[k - 1])
    BY <1>6
  <2>2. 0 \in 0..n /\ \A k \in 1..n : k \in 0..n /\ k # 0
    OBVIOUS
  <2> QED
    BY <2>1, <2>2, Zenon
<1>8. st[n] = g[n]
  BY <1>1, <1>3, <1>7
<1> QED
  BY <1>3, <1>4, <1>6, <1>8 DEF MultiRoundStates

\* Division.
LEMMA DivMod ==
    ASSUME NEW a \in Int, NEW d \in Nat \ {0}
    PROVE  /\ a \div d \in Int
           /\ a % d \in 0..(d - 1)
           /\ a = d * (a \div d) + (a % d)
  OBVIOUS

\* Numbers in increasing order are as many as their places.
LEMMA AsManyAsPlaces ==
    ASSUME NEW T \in Nat, NEW f \in [1..T -> Nat],
           \A i, j \in 1..T : i < j => f[i] < f[j]
    PROVE  Cardinality({f[i] : i \in 1..T}) = T
<1>1. PICK R : R = {f[i] : i \in 1..T}
  OBVIOUS
<1>2. f \in [1..T -> R]
  BY <1>1
<1>3. \A i, j \in 1..T : f[i] = f[j] => i = j
  <2> TAKE i, j \in 1..T
  <2>1. f[i] \in Nat /\ f[j] \in Nat /\ i \in Int /\ j \in Int
    OBVIOUS
  <2>2. i < j => f[i] < f[j]
    OBVIOUS
  <2>3. j < i => f[j] < f[i]
    OBVIOUS
  <2> QED
    BY <2>1, <2>2, <2>3
<1>4. \A r \in R : \E i \in 1..T : f[i] = r
  BY <1>1
<1>5. f \in Bijection(1..T, R)
  BY <1>2, <1>3, <1>4 DEF Bijection, Injection, Surjection, IsInjective
<1>6. ExistsBijection(1..T, R)
  BY <1>5 DEF ExistsBijection
<1> QED
  BY <1>1, <1>6, FS_CountingElements

\* The places of increasing numbers that are less than a bound, and the
\* numbers in order.
LEMMA InOrderIs ==
    ASSUME NEW A \in [Nat -> Nat], NEW L \in Nat,
           \A p, q \in Nat : p < q => A[p] < A[q]
    PROVE  \E T \in Nat :
              /\ \A p \in Nat : p < T <=> A[p] < L
              /\ InOrder({b \in Nat : \E p \in Nat : b = A[p] + 1 /\ A[p] < L})
                    = [i \in 1..T |-> A[i - 1] + 1]
<1>1. \A p \in Nat : A[p] >= p
  <2> DEFINE V == {p \in Nat : A[p] >= p}
  <2>1. 0 \in V
    OBVIOUS
  <2>2. \A n \in Nat : n \in V => n + 1 \in V
    <3> TAKE n \in Nat
    <3>1. n + 1 \in Nat /\ A[n] \in Nat /\ A[n + 1] \in Nat /\ A[n] < A[n + 1]
      OBVIOUS
    <3> QED
      BY <3>1
  <2>3. \A n \in Nat : n \in V
    <3> HIDE DEF V
    <3> QED
      BY <2>1, <2>2, NumberInduction
  <2> QED
    BY <2>3
<1>2. PICK T \in {p \in Nat : A[p] >= L} : \A m \in {p \in Nat : A[p] >= L} : T <= m
  <2>1. L \in {p \in Nat : A[p] >= L}
    BY <1>1
  <2> QED
    BY <2>1, LeastNumber
<1>3. \A p \in Nat : p < T <=> A[p] < L
  <2> TAKE p \in Nat
  <2>1. A[p] \in Nat /\ T \in Nat /\ A[T] \in Nat /\ A[T] >= L
    BY <1>2
  <2>2. A[p] >= L => T <= p
    BY <1>2
  <2>3. T < p => A[T] < A[p]
    BY <2>1
  <2>4. T = p => A[T] = A[p]
    OBVIOUS
  <2> QED
    BY <2>1, <2>2, <2>3, <2>4
<1>4. PICK f : f = [i \in 1..T |-> A[i - 1] + 1]
  OBVIOUS
<1>5. \A i \in 1..T : f[i] = A[i - 1] + 1 /\ i - 1 \in Nat /\ f[i] \in Nat
  <2> TAKE i \in 1..T
  <2>1. i - 1 \in Nat
    BY <1>2
  <2>2. A[i - 1] \in Nat
    BY <2>1
  <2> QED
    <3>1. f[i] = A[i - 1] + 1
      BY <1>4
    <3>2. PICK a \in Nat : a = A[i - 1]
      BY <2>2
    <3> QED
      BY <2>1, <3>1, <3>2
<1>6. f \in [1..T -> Nat]
  BY <1>4, <1>5
<1>7. \A i, j \in 1..T : i < j => f[i] < f[j]
  <2> SUFFICES ASSUME NEW i \in 1..T, NEW j \in 1..T, i < j
               PROVE  f[i] < f[j]
    OBVIOUS
  <2>1. i - 1 \in Nat /\ j - 1 \in Nat /\ i - 1 < j - 1
    BY <1>2
  <2>2. A[i - 1] < A[j - 1] /\ A[i - 1] \in Nat /\ A[j - 1] \in Nat
    BY <2>1
  <2> QED
    BY <1>5, <2>2
<1>8. PICK S : S = {b \in Nat : \E p \in Nat : b = A[p] + 1 /\ A[p] < L}
  OBVIOUS
<1>9. S = {f[i] : i \in 1..T}
  <2>1. ASSUME NEW b \in S
        PROVE  \E i \in 1..T : b = f[i]
    <3>1. PICK p \in Nat : b = A[p] + 1 /\ A[p] < L
      BY <1>8
    <3>2. p + 1 \in 1..T /\ (p + 1) - 1 = p
      BY <1>2, <1>3, <3>1
    <3> QED
      BY <1>5, <3>1, <3>2
  <2>2. ASSUME NEW i \in 1..T
        PROVE  f[i] \in S
    <3>1. i - 1 \in Nat /\ i - 1 < T
      BY <1>2
    <3> QED
      BY <1>3, <1>5, <1>8, <3>1
  <2> QED
    BY <2>1, <2>2
<1>10. Cardinality(S) = T
  BY <1>2, <1>6, <1>7, <1>9, AsManyAsPlaces
<1>11. \A i \in 1..T : Cardinality({c \in S : c <= f[i]}) = i
  <2> TAKE i \in 1..T
  <2>1. PICK g : g = [k \in 1..i |-> f[k]]
    OBVIOUS
  <2>2. \A k \in 1..i : k \in 1..T
    BY <1>2
  <2>3. g \in [1..i -> Nat] /\ \A k, l \in 1..i : k < l => g[k] < g[l]
    BY <1>6, <1>7, <2>1, <2>2
  <2>4. Cardinality({g[k] : k \in 1..i}) = i
    <3>1. i \in Nat
      BY <1>2
    <3> QED
      BY <2>3, <3>1, AsManyAsPlaces
  <2>5. \A k \in 1..T : f[k] <= f[i] <=> k <= i
    <3> TAKE k \in 1..T
    <3>1. k < i => f[k] < f[i]
      BY <1>7
    <3>2. i < k => f[i] < f[k]
      BY <1>7
    <3>3. f[k] \in Nat /\ f[i] \in Nat /\ k \in Nat /\ i \in Nat
      BY <1>2, <1>5
    <3> QED
      BY <3>1, <3>2, <3>3
  <2>6. {c \in S : c <= f[i]} = {g[k] : k \in 1..i}
    <3>1. ASSUME NEW c \in S, c <= f[i]
          PROVE  \E k \in 1..i : c = g[k]
      <4>1. PICK k \in 1..T : c = f[k]
        BY <1>9
      <4>2. k \in 1..i
        BY <2>5, <3>1, <4>1
      <4> QED
        BY <2>1, <4>1, <4>2
    <3>2. ASSUME NEW k \in 1..i
          PROVE  g[k] \in S /\ g[k] <= f[i]
      <4>1. k \in 1..T /\ k <= i /\ g[k] = f[k]
        BY <2>1, <2>2
      <4> QED
        BY <1>9, <2>5, <4>1
    <3> QED
      BY <3>1, <3>2
  <2> QED
    BY <2>4, <2>6
<1>12. \A i \in 1..T : (CHOOSE b \in S : Cardinality({c \in S : c <= b}) = i) = f[i]
  <2> TAKE i \in 1..T
  <2>1. f[i] \in S /\ Cardinality({c \in S : c <= f[i]}) = i
    BY <1>9, <1>11
  <2>2. ASSUME NEW b \in S, Cardinality({c \in S : c <= b}) = i
        PROVE  b = f[i]
    <3>1. PICK k \in 1..T : b = f[k]
      BY <1>9
    <3>2. k = i
      BY <1>11, <2>2, <3>1
    <3> QED
      BY <3>1, <3>2
  <2> QED
    BY <2>1, <2>2
<1>13. InOrder(S) = [i \in 1..T |-> A[i - 1] + 1]
  BY <1>4, <1>5, <1>10, <1>12 DEF InOrder
<1> QED
  BY <1>2, <1>3, <1>8, <1>13

\* A function on 1..m is a sequence of length m.
LEMMA FunctionIsSeq ==
    ASSUME NEW S, NEW m \in Nat, NEW f \in [1..m -> S]
    PROVE  f \in Seq(S) /\ Len(f) = m
  OBVIOUS

\* Some of a stream: m elements behind P.
Part(Z, P, m) == [i \in 1..m |-> Z[P + i]]

Within(S, Z, P, m) == \A i \in 1..m : Z[P + i] \in S

IsPart(S, Z, P, m, s) ==
    /\ s \in Seq(S)
    /\ Len(s) = m
    /\ \A i \in 1..m : s[i] = Z[P + i]

\* A part is a sequence of the elements it is a part of.
LEMMA PartType ==
    ASSUME NEW S, NEW Z, NEW P \in Nat, NEW m \in Nat, Within(S, Z, P, m)
    PROVE  IsPart(S, Z, P, m, Part(Z, P, m))
<1>1. PICK f : f = Part(Z, P, m)
  OBVIOUS
<1>2. f = [i \in 1..m |-> Z[P + i]]
  BY <1>1 DEF Part
<1>3. f \in [1..m -> S] /\ \A i \in 1..m : f[i] = Z[P + i]
  BY <1>2 DEF Within
<1>4. f \in Seq(S) /\ Len(f) = m
  BY <1>3, FunctionIsSeq
<1> QED
  BY <1>1, <1>3, <1>4 DEF IsPart

\* Two parts, one behind the other.
PartsJoin(Z, P, a, b) == Part(Z, P, a) \o Part(Z, P + a, b) = Part(Z, P, a + b)

\* A part and the part behind it are one part.
LEMMA PartMore ==
    ASSUME NEW S, NEW Z, NEW P \in Nat, NEW a \in Nat, NEW b \in Nat,
           Within(S, Z, P, a + b)
    PROVE  PartsJoin(Z, P, a, b)
<1>1. PICK x : x = Part(Z, P, a)
  OBVIOUS
<1>2. PICK y : y = Part(Z, P + a, b)
  OBVIOUS
<1>3. PICK z : z = Part(Z, P, a + b)
  OBVIOUS
<1>4. x \in Seq(S) /\ Len(x) = a /\ \A i \in 1..a : x[i] = Z[P + i]
  <2>1. Within(S, Z, P, a)
    BY DEF Within
  <2>2. IsPart(S, Z, P, a, x)
    BY <1>1, <2>1, PartType
  <2> QED
    BY <2>2 DEF IsPart
<1>5. y \in Seq(S) /\ Len(y) = b /\ \A i \in 1..b : y[i] = Z[P + (a + i)]
  <2>1. \A i \in 1..b : a + i \in 1..(a + b) /\ P + (a + i) = (P + a) + i
    OBVIOUS
  <2>2. Within(S, Z, P + a, b)
    BY <2>1 DEF Within
  <2>3. P + a \in Nat
    OBVIOUS
  <2>4. IsPart(S, Z, P + a, b, y)
    BY <1>2, <2>2, <2>3, PartType
  <2>5. y \in Seq(S) /\ Len(y) = b /\ \A i \in 1..b : y[i] = Z[(P + a) + i]
    BY <2>4 DEF IsPart
  <2> QED
    BY <2>1, <2>5
<1>6. z \in Seq(S) /\ Len(z) = a + b /\ \A i \in 1..(a + b) : z[i] = Z[P + i]
  <2>1. a + b \in Nat
    OBVIOUS
  <2>2. IsPart(S, Z, P, a + b, z)
    BY <1>3, <2>1, PartType
  <2> QED
    BY <2>2 DEF IsPart
<1>7. PICK xy : xy = x \o y
  OBVIOUS
<1>8. xy \in Seq(S) /\ Len(xy) = a + b
  BY <1>4, <1>5, <1>7, ConcatProperties
<1>9. \A i \in 1..(a + b) : xy[i] = IF i <= a THEN x[i] ELSE y[i - a]
  <2>1. x \in Seq(S) /\ y \in Seq(S) /\ Len(x) = a /\ Len(y) = b
    BY <1>4, <1>5
  <2>2. \A i \in 1..(Len(x) + Len(y)) :
           (x \o y)[i] = IF i <= Len(x) THEN x[i] ELSE y[i - Len(x)]
    BY <2>1, ConcatProperties, Zenon
  <2> QED
    BY <1>7, <2>1, <2>2, Zenon
<1>10. \A i \in 1..(a + b) : xy[i] = z[i]
  <2> SUFFICES ASSUME NEW i \in 1..(a + b)
               PROVE  xy[i] = z[i]
    OBVIOUS
  <2>1. z[i] = Z[P + i] /\ xy[i] = IF i <= a THEN x[i] ELSE y[i - a]
    BY <1>6, <1>9
  <2>2. CASE i <= a
    <3>1. i \in 1..a
      BY <2>2
    <3>2. x[i] = Z[P + i]
      BY <1>4, <3>1
    <3> QED
      BY <2>1, <2>2, <3>2
  <2>3. CASE i > a
    <3>1. i - a \in 1..b /\ a + (i - a) = i
      BY <2>3
    <3>2. y[i - a] = Z[P + (a + (i - a))]
      BY <1>5, <3>1
    <3>3. y[i - a] = Z[P + i]
      BY <3>1, <3>2
    <3> QED
      BY <2>1, <2>3, <3>3
  <2> QED
    BY <2>2, <2>3
<1>11. xy = z
  BY <1>6, <1>8, <1>10, SeqEqual
<1> QED
  BY <1>1, <1>2, <1>3, <1>7, <1>11 DEF PartsJoin

(***************************************************************************)
(* What the handles promise: a place in their contents, reading from there *)
(* on, and seeking.                                                        *)
(***************************************************************************)
Good(k, h) ==
    /\ h \in [pp : Nat, curr : Nat]
    /\ k = "sub" => h.pp >= SubStart
    /\ k = "block" =>
          /\ h.curr <= BlockLength /\ h.curr <= NumBlocks * BlockSize
          /\ h.curr % BlockSize # 0 =>
                h.pp = BlockOffsets[1 + (h.curr \div BlockSize)] + (h.curr % BlockSize)
    /\ k = "padded" => h.pp >= PadStart /\ (h.pp - PadStart) % PhysicalSize <= LogicalSize
    /\ k = "multi" => h.curr <= LastSegment /\ h.pp <= SegmentSizes[h.curr + 1]

Readable(T, P, n) == IF P >= T THEN 0 ELSE Least(n, T - P)

Reads(k, h, n, r) ==
    /\ r.ok /\ Good(k, r.h)
    /\ r.data = Part(Contents(k), OffsetInFile(k, h),
                     Readable(Len(Contents(k)), OffsetInFile(k, h), n))
    /\ OffsetInFile(k, r.h) = OffsetInFile(k, h)
                               + Readable(Len(Contents(k)), OffsetInFile(k, h), n)

Seeks(k, offs, r) ==
    IF r.ok THEN Good(k, r.h) /\ OffsetInFile(k, r.h) = offs ELSE offs > Len(Contents(k))

Promise(k) ==
    /\ Contents(k) \in Seq(Nat \ {0})
    /\ Good(k, Opened(k))
    /\ \A h : Good(k, h) =>
          /\ OffsetInFile(k, h) \in Nat
          /\ \A n \in Nat \ {0} : Reads(k, h, n, ReadAtMost(k, h, n))
          /\ \A offs \in Nat : Seeks(k, offs, SeekToFileOffset(k, h, offs))

\* What can be read ends with the stream or with the request.
LEMMA ReadableIs ==
    ASSUME NEW T \in Nat, NEW P \in Nat, NEW n \in Nat
    PROVE  /\ Readable(T, P, n) \in 0..n
           /\ Readable(T, P, n) > 0 => P + Readable(T, P, n) <= T
           /\ Readable(T, P, n) < n => P + Readable(T, P, n) >= T
  BY DEF Readable, Least

\* CSFileHandle.
LEMMA FileBytesAre ==
    ASSUME NEW p \in Nat, NEW n \in Nat
    PROVE  \E m \in 0..n :
              /\ m = Readable(FileLen, p, n)
              /\ FileBytes(p, n) = [i \in 1..m |-> p + i]
              /\ Len(FileBytes(p, n)) = m
              /\ FileBytes(p, n) \in Seq(Nat)
              /\ m > 0 => p + m <= FileLen
              /\ m < n => p + m >= FileLen
<1>0. FileLen \in Nat
  BY FileAssumption
<1>1. PICK m \in 0..n : m = Readable(FileLen, p, n)
  BY <1>0, ReadableIs
<1>2. PICK d : d = FileBytes(p, n)
  OBVIOUS
<1>3. d = [i \in 1..m |-> p + i]
  BY <1>1, <1>2 DEF FileBytes, Readable
<1>4. d \in [1..m -> Nat] /\ m \in Nat
  BY <1>3
<1>5. d \in Seq(Nat) /\ Len(d) = m
  BY <1>4, FunctionIsSeq
<1>6. (m > 0 => p + m <= FileLen) /\ (m < n => p + m >= FileLen)
  BY <1>0, <1>1, ReadableIs
<1> QED
  BY <1>1, <1>2, <1>3, <1>5, <1>6

\* A plain file keeps the promise.
LEMMA FilePromise == Promise("file")
<1>0. FileLen \in Nat
  BY FileAssumption
<1>1. PICK Z : Z = Contents("file")
  OBVIOUS
<1>2. Z = [i \in 1..FileLen |-> i]
  BY <1>1 DEF Contents
<1>3. Z \in [1..FileLen -> Nat \ {0}]
  BY <1>2
<1>4. Z \in Seq(Nat \ {0}) /\ Len(Z) = FileLen
  BY <1>0, <1>3, FunctionIsSeq
<1>5. Good("file", Opened("file"))
  BY DEF Good, Opened
<1>6. ASSUME NEW h, Good("file", h)
      PROVE  /\ OffsetInFile("file", h) \in Nat
             /\ \A n \in Nat \ {0} : Reads("file", h, n, ReadAtMost("file", h, n))
             /\ \A offs \in Nat : Seeks("file", offs, SeekToFileOffset("file", h, offs))
  <2>1. h \in [pp : Nat, curr : Nat]
    BY <1>6 DEF Good
  <2>2. PICK P \in Nat : P = h.pp /\ OffsetInFile("file", h) = P
    BY <2>1 DEF OffsetInFile
  <2>3. ASSUME NEW n \in Nat \ {0}
        PROVE  Reads("file", h, n, ReadAtMost("file", h, n))
    <3>1. PICK m \in 0..n :
              /\ m = Readable(FileLen, P, n)
              /\ FileBytes(P, n) = [i \in 1..m |-> P + i]
              /\ Len(FileBytes(P, n)) = m
              /\ m > 0 => P + m <= FileLen
      BY FileBytesAre, ZenonT(30)
    <3>2. PICK r : r = ReadAtMost("file", h, n)
      OBVIOUS
    <3>3. r = [ok |-> TRUE, h |-> [h EXCEPT !.pp = P + m], data |-> [i \in 1..m |-> P + i]]
      BY <2>1, <2>2, <3>1, <3>2 DEF ReadAtMost, Returns
    <3>4. r.h \in [pp : Nat, curr : Nat] /\ r.h.pp = P + m
      BY <2>1, <3>3
    <3>5. Good("file", r.h) /\ OffsetInFile("file", r.h) = P + m
      BY <3>4 DEF Good, OffsetInFile
    <3>6. \A i \in 1..m : Z[P + i] = P + i
      BY <1>0, <1>2, <3>1
    <3>7. r.data = Part(Z, P, m)
      BY <3>3, <3>6 DEF Part
    <3> QED
      BY <1>1, <1>4, <2>2, <3>1, <3>2, <3>3, <3>5, <3>7 DEF Reads
  <2>4. ASSUME NEW offs \in Nat
        PROVE  Seeks("file", offs, SeekToFileOffset("file", h, offs))
    BY <2>1 DEF Seeks, SeekToFileOffset, Returns, Good, OffsetInFile
  <2> QED
    BY <2>2, <2>3, <2>4
<1> QED
  BY <1>1, <1>4, <1>5, <1>6 DEF Promise

\* A part of no elements is empty.
LEMMA PartNone ==
    ASSUME NEW Z, NEW P \in Nat
    PROVE  Part(Z, P, 0) = <<>>
<1>1. Within(Nat, Z, P, 0)
  BY DEF Within
<1>2. IsPart(Nat, Z, P, 0, Part(Z, P, 0))
  BY <1>1, PartType
<1>3. Part(Z, P, 0) \in Seq(Nat) /\ Len(Part(Z, P, 0)) = 0
  BY <1>2 DEF IsPart
<1> QED
  BY <1>3, EmptySeq

\* The sub-handle presents what of its range is in the file.
LEMMA SubContents ==
    \E T \in Nat :
       /\ Contents("sub") = [i \in 1..T |-> SubStart + i]
       /\ \A p \in Nat : p < T <=> SubStart + p < FileLen /\ p < SubLength
<1>0. FileLen \in Nat /\ SubStart \in Nat /\ SubLength \in Nat
  BY FileAssumption
<1>1. PICK A : A = [p \in Nat |-> SubStart + p]
  OBVIOUS
<1>2. A \in [Nat -> Nat] /\ \A p, q \in Nat : p < q => A[p] < A[q]
  BY <1>0, <1>1
<1>3. PICK L \in Nat : L = Least(FileLen, SubStart + SubLength)
  BY <1>0 DEF Least
<1>4. PICK S : S = {b \in Nat : \E p \in Nat : b = A[p] + 1 /\ A[p] < L}
  OBVIOUS
<1>5. PICK T \in Nat : /\ \A p \in Nat : p < T <=> A[p] < L
                       /\ InOrder(S) = [i \in 1..T |-> A[i - 1] + 1]
  <2>1. \A p, q \in Nat : p < q => A[p] < A[q]
    BY <1>2
  <2>2. A \in [Nat -> Nat]
    BY <1>2
  <2> QED
    BY <1>4, <2>1, <2>2, InOrderIs, Zenon
<1>6. S = {b \in 1..FileLen : Belongs("sub", b)}
  <2>1. ASSUME NEW b \in S
        PROVE  b \in 1..FileLen /\ Belongs("sub", b)
    <3>1. PICK p \in Nat : b = A[p] + 1 /\ A[p] < L
      BY <1>4
    <3>2. b = SubStart + p + 1 /\ SubStart + p < L
      BY <1>1, <3>1
    <3> QED
      BY <1>0, <1>3, <3>2 DEF Belongs, SubEnd, Least
  <2>2. ASSUME NEW b \in 1..FileLen, Belongs("sub", b)
        PROVE  b \in S
    <3>1. SubStart < b /\ b <= SubStart + SubLength
      BY <2>2 DEF Belongs, SubEnd
    <3>2. b - SubStart - 1 \in Nat /\ SubStart + (b - SubStart - 1) < L
      BY <1>0, <1>3, <3>1 DEF Least
    <3>3. A[b - SubStart - 1] = b - 1
      BY <1>0, <1>1, <3>2
    <3>4. b \in Nat /\ b = (b - 1) + 1 /\ b - 1 < L
      BY <1>0, <3>2
    <3> QED
      BY <1>4, <3>2, <3>3, <3>4
  <2> QED
    BY <2>1, <2>2
<1>7. Contents("sub") = InOrder({b \in 1..FileLen : Belongs("sub", b)})
  BY DEF Contents
<1>8. \A i \in 1..T : A[i - 1] + 1 = SubStart + i
  BY <1>0, <1>1
<1>9. [i \in 1..T |-> A[i - 1] + 1] = [i \in 1..T |-> SubStart + i]
  BY <1>8
<1>10. Contents("sub") = [i \in 1..T |-> SubStart + i]
  BY <1>5, <1>6, <1>7, <1>9
<1>11. \A p \in Nat : p < T <=> SubStart + p < FileLen /\ p < SubLength
  <2> TAKE p \in Nat
  <2>1. p < T <=> SubStart + p < L
    BY <1>1, <1>5
  <2> QED
    BY <1>0, <1>3, <2>1 DEF Least
<1> QED
  BY <1>10, <1>11

\* CSSubHandle keeps it: the range of the file it shows, cut off at the end
\* of the file.
LEMMA SubPromise == Promise("sub")
<1>0. FileLen \in Nat /\ SubStart \in Nat /\ SubLength \in Nat
  BY FileAssumption
<1>1. PICK Z : Z = Contents("sub")
  OBVIOUS
<1>2. PICK T \in Nat :
         /\ Z = [i \in 1..T |-> SubStart + i]
         /\ \A p \in Nat : p < T <=> SubStart + p < FileLen /\ p < SubLength
  BY <1>1, SubContents
<1>3. Z \in [1..T -> Nat \ {0}]
  BY <1>0, <1>2
<1>4. Z \in Seq(Nat \ {0}) /\ Len(Z) = T
  BY <1>3, FunctionIsSeq
<1>5. Good("sub", Opened("sub"))
  BY <1>0 DEF Good, Opened
<1>t. T <= SubLength
  <2>1. SubLength < T <=> SubStart + SubLength < FileLen /\ SubLength < SubLength
    BY <1>0, <1>2
  <2> QED
    BY <1>0, <2>1
<1>6. ASSUME NEW h, Good("sub", h)
      PROVE  /\ OffsetInFile("sub", h) \in Nat
             /\ \A n \in Nat \ {0} : Reads("sub", h, n, ReadAtMost("sub", h, n))
             /\ \A offs \in Nat : Seeks("sub", offs, SeekToFileOffset("sub", h, offs))
  <2>1. h \in [pp : Nat, curr : Nat] /\ h.pp >= SubStart
    BY <1>6 DEF Good
  <2>2. PICK P \in Nat : h.pp = SubStart + P /\ OffsetInFile("sub", h) = P
    <3>1. h.pp - SubStart \in Nat /\ h.pp = SubStart + (h.pp - SubStart)
      BY <1>0, <2>1
    <3>2. OffsetInFile("sub", h) = h.pp - SubStart
      BY DEF OffsetInFile
    <3> QED
      BY <3>1, <3>2
  <2>3. ASSUME NEW n \in Nat \ {0}
        PROVE  Reads("sub", h, n, ReadAtMost("sub", h, n))
    <3>1. PICK num \in Int : num = (IF SubStart + P + n > SubStart + SubLength
                                    THEN SubLength - P ELSE n)
      BY <1>0
    <3>2. PICK r : r = ReadAtMost("sub", h, n)
      OBVIOUS
    <3>3. PICK data : data = IF num <= 0 THEN <<>> ELSE FileBytes(SubStart + P, num)
      OBVIOUS
    <3>4. r = [ok |-> TRUE, h |-> [h EXCEPT !.pp = h.pp + Len(data)], data |-> data]
      <4>1. num = (IF h.pp + n > SubEnd THEN SubEnd - h.pp ELSE n)
        BY <1>0, <2>2, <3>1 DEF SubEnd
      <4> QED
        BY <2>1, <2>2, <3>2, <3>3, <4>1 DEF ReadAtMost, SubRead, Returns
    <3>5. PICK m \in Nat : /\ m = Readable(T, P, n)
                           /\ Len(data) = m
                           /\ data = [i \in 1..m |-> SubStart + P + i]
      <4>1. P < T <=> SubStart + P < FileLen /\ P < SubLength
        BY <1>2
      <4>2. CASE num <= 0
        <5>1. P >= SubLength
          BY <1>0, <3>1, <4>2
        <5>2. Readable(T, P, n) = 0
          BY <1>0, <4>1, <5>1 DEF Readable
        <5>3. data = <<>> /\ Len(data) = 0
          BY <3>3, <4>2, EmptySeq
        <5>4. [i \in 1..0 |-> SubStart + P + i] = <<>>
          <6>1. [i \in 1..0 |-> SubStart + P + i] \in [1..0 -> Nat]
            BY <1>0
          <6>2. /\ [i \in 1..0 |-> SubStart + P + i] \in Seq(Nat)
                /\ Len([i \in 1..0 |-> SubStart + P + i]) = 0
            BY <6>1, FunctionIsSeq
          <6> QED
            BY <6>2, EmptySeq
        <5> QED
          BY <5>2, <5>3, <5>4
      <4>3. CASE num > 0
        <5>1. num \in Nat /\ SubStart + P \in Nat
          BY <1>0, <4>3
        <5>2. PICK m \in 0..num :
                 /\ m = Readable(FileLen, SubStart + P, num)
                 /\ FileBytes(SubStart + P, num) = [i \in 1..m |-> SubStart + P + i]
                 /\ Len(FileBytes(SubStart + P, num)) = m
          <6>1. PICK q \in Nat : q = SubStart + P
            BY <5>1
          <6>2. PICK want \in Nat : want = num
            BY <5>1
          <6>3. PICK m \in 0..want :
                   /\ m = Readable(FileLen, q, want)
                   /\ FileBytes(q, want) = [i \in 1..m |-> q + i]
                   /\ Len(FileBytes(q, want)) = m
            BY FileBytesAre, ZenonT(30)
          <6>4. [i \in 1..m |-> q + i] = [i \in 1..m |-> SubStart + P + i]
            BY <6>1
          <6> QED
            BY <6>1, <6>2, <6>3, <6>4, Zenon
        <5>3. data = FileBytes(SubStart + P, num)
          BY <3>3, <4>3
        <5>4. Readable(T, P, n) = m
          <6>1. P < SubLength
            BY <1>0, <3>1, <4>3
          <6>2. T = SubLength \/ (T < SubLength /\ ~(SubStart + T < FileLen))
            <7>1. T < T <=> SubStart + T < FileLen /\ T < SubLength
              BY <1>2
            <7> QED
              BY <1>0, <1>t, <7>1
          <6>3. T > 0 => SubStart + T <= FileLen
            <7>1. T > 0 => (T - 1 < T <=> SubStart + (T - 1) < FileLen /\ T - 1 < SubLength)
              BY <1>2
            <7> QED
              BY <1>0, <7>1
          <6>4. PICK f \in Nat : f = FileLen
            BY <1>0
          <6> QED
            BY <1>0, <3>1, <4>1, <4>3, <5>2, <6>1, <6>2, <6>3, <6>4 DEF Readable, Least
        <5> QED
          BY <5>2, <5>3, <5>4
      <4> QED
        BY <4>2, <4>3
    <3>6. r.h \in [pp : Nat, curr : Nat] /\ r.h.pp = SubStart + P + m
      BY <1>0, <2>1, <2>2, <3>4, <3>5
    <3>7. Good("sub", r.h) /\ OffsetInFile("sub", r.h) = P + m
      BY <1>0, <3>6 DEF Good, OffsetInFile
    <3>8. m > 0 => P + m <= T
      BY <3>5, ReadableIs
    <3>9. \A i \in 1..m : Z[P + i] = SubStart + P + i
      <4>1. \A i \in 1..m : P + i \in 1..T /\ SubStart + (P + i) = SubStart + P + i
        BY <1>0, <3>8
      <4> QED
        BY <1>2, <4>1
    <3>10. r.data = Part(Z, P, m)
      BY <3>4, <3>5, <3>9 DEF Part
    <3> QED
      BY <1>1, <1>4, <2>2, <3>2, <3>4, <3>5, <3>7, <3>10 DEF Reads
  <2>4. ASSUME NEW offs \in Nat
        PROVE  Seeks("sub", offs, SeekToFileOffset("sub", h, offs))
    <3>1. CASE offs > SubEnd
      <4>1. SubEnd \in Nat /\ SubEnd >= SubLength
        BY <1>0 DEF SubEnd
      <4>2. ~SeekToFileOffset("sub", h, offs).ok
        BY <3>1 DEF SeekToFileOffset, SubSeek, Raises
      <4>3. offs > T
        BY <1>0, <1>t, <3>1, <4>1
      <4> QED
        BY <1>1, <1>4, <4>2, <4>3 DEF Seeks
    <3>2. CASE ~(offs > SubEnd)
      <4>1. PICK r : r = SeekToFileOffset("sub", h, offs)
        OBVIOUS
      <4>2. r = Returns([h EXCEPT !.pp = offs + SubStart], <<>>)
        BY <3>2, <4>1 DEF SeekToFileOffset, SubSeek
      <4>3. r.ok /\ r.h \in [pp : Nat, curr : Nat] /\ r.h.pp = offs + SubStart
        BY <1>0, <2>1, <4>2 DEF Returns
      <4>4. Good("sub", r.h) /\ OffsetInFile("sub", r.h) = offs
        BY <1>0, <4>3 DEF Good, OffsetInFile
      <4> QED
        BY <4>1, <4>3, <4>4 DEF Seeks
    <3> QED
      BY <3>1, <3>2
  <2> QED
    BY <2>2, <2>3, <2>4
<1> QED
  BY <1>1, <1>4, <1>5, <1>6 DEF Promise

\* One more is d more, d times.
LEMMA LessTimes ==
    ASSUME NEW m \in Int, NEW n \in Int, NEW d \in Nat, m + 1 <= n
    PROVE  m * d + d <= n * d
  OBVIOUS

\* A quotient and a remainder are the only ones.
LEMMA Division ==
    ASSUME NEW q \in Nat, NEW r \in Nat, NEW d \in Nat, r < d
    PROVE  /\ (q * d + r) \div d = q
           /\ (q * d + r) % d = r
<1>1. PICK n \in Nat : n = q * d + r
  OBVIOUS
<1>2. PICK p \in Int : p = n \div d
  OBVIOUS
<1>3. d * p <= n /\ n < d * p + d /\ n % d = n - d * p
  BY <1>2
<1>4. ~(p < q)
  <2> SUFFICES ASSUME p + 1 <= q PROVE FALSE
    OBVIOUS
  <2>1. p * d + d <= q * d
    BY LessTimes
  <2> QED
    BY <2>1, <1>1, <1>3
<1>5. ~(q < p)
  <2> SUFFICES ASSUME q + 1 <= p PROVE FALSE
    OBVIOUS
  <2>1. q * d + d <= p * d
    BY LessTimes
  <2> QED
    BY <2>1, <1>1, <1>3
<1>6. p = q
  BY <1>4, <1>5
<1>7. n % d = r
  BY <1>1, <1>3, <1>6
<1> QED
  BY <1>1, <1>2, <1>6, <1>7

\* Division of a natural number.
LEMMA DivNat ==
    ASSUME NEW a \in Nat, NEW d \in Nat \ {0}
    PROVE  a \div d \in Nat /\ a % d \in 0..(d - 1) /\ a = d * (a \div d) + (a % d)
<1>1. PICK q \in Int : q = a \div d
  OBVIOUS
<1>2. a % d \in 0..(d - 1) /\ a = d * q + (a % d)
  BY <1>1
<1>3. ~(q < 0)
  <2> SUFFICES ASSUME q + 1 <= 0 PROVE FALSE
    OBVIOUS
  <2>1. q * d + d <= 0 * d
    BY LessTimes
  <2> QED
    BY <2>1, <1>2
<1> QED
  BY <1>1, <1>2, <1>3

\* A number less than the divisor is its own remainder.
LEMMA SmallDiv ==
    ASSUME NEW r \in Nat, NEW d \in Nat, r < d
    PROVE  r \div d = 0 /\ r % d = r
<1>1. (0 * d + r) \div d = 0 /\ (0 * d + r) % d = r
  BY Division
<1>2. PICK n \in Nat : n = 0 * d + r
  OBVIOUS
<1>3. n = r
  BY <1>2
<1>4. n \div d = 0 /\ n % d = r
  BY <1>1, <1>2
<1> QED
  BY <1>3, <1>4

\* A place before the end of N blocks is in one of them.
LEMMA DivBelow ==
    ASSUME NEW a \in Nat, NEW d \in Nat \ {0}, NEW N \in Nat, a < N * d
    PROVE  a \div d < N
<1>1. PICK q \in Nat : q = a \div d
  BY DivNat
<1>2. d * q <= a /\ d * q = q * d
  BY <1>1, DivNat
<1>3. SUFFICES ASSUME N <= q PROVE FALSE
  BY <1>1
<1>4. CASE N = q
  BY <1>2, <1>4
<1>5. CASE N + 1 <= q
  <2>1. N * d + d <= q * d
    BY <1>5, LessTimes
  <2>2. PICK x \in Nat : x = N * d
    OBVIOUS
  <2>3. PICK y \in Nat : y = q * d
    OBVIOUS
  <2> QED
    BY <1>2, <2>1, <2>2, <2>3
<1> QED
  BY <1>3, <1>4, <1>5

\* Places of one block.
LEMMA InBlock ==
    ASSUME NEW a \in Nat, NEW d \in Nat \ {0}, NEW i \in Nat, (a % d) + i < d
    PROVE  (a + i) \div d = a \div d /\ (a + i) % d = (a % d) + i
<1>1. PICK q \in Nat : q = a \div d
  BY DivNat
<1>2. PICK r \in Nat : r = a % d
  BY DivNat
<1>3. a + i = q * d + (r + i)
  <2>1. a = d * q + r /\ d * q = q * d
    BY <1>1, <1>2, DivNat
  <2>2. PICK x \in Nat : x = q * d
    OBVIOUS
  <2> QED
    BY <2>1, <2>2
<1>4. r + i \in Nat /\ r + i < d
  BY <1>2
<1>5. (q * d + (r + i)) \div d = q /\ (q * d + (r + i)) % d = r + i
  BY <1>4, Division
<1> QED
  BY <1>1, <1>2, <1>3, <1>5, Zenon

\* The place behind a block.
LEMMA NextBlock ==
    ASSUME NEW a \in Nat, NEW d \in Nat \ {0}
    PROVE  /\ (a + (d - (a % d))) \div d = (a \div d) + 1
           /\ (a + (d - (a % d))) % d = 0
           /\ a + (d - (a % d)) = ((a \div d) + 1) * d
<1>1. PICK q \in Nat : q = a \div d
  BY DivNat
<1>2. PICK r \in Nat : r = a % d /\ r < d
  BY DivNat
<1>3. a + (d - r) = (q + 1) * d
  <2>1. a = d * q + r /\ d * q = q * d /\ (q + 1) * d = q * d + d
    BY <1>1, <1>2, DivNat
  <2>2. PICK x \in Nat : x = q * d
    OBVIOUS
  <2> QED
    BY <2>1, <2>2
<1>4. ((q + 1) * d + 0) \div d = q + 1 /\ ((q + 1) * d + 0) % d = 0
  <2>1. q + 1 \in Nat /\ 0 < d
    OBVIOUS
  <2> QED
    BY <2>1, Division
<1>5. (q + 1) * d + 0 = (q + 1) * d
  <2>1. (q + 1) * d \in Nat
    OBVIOUS
  <2> QED
    BY <2>1
<1>6. ((q + 1) * d) \div d = q + 1 /\ ((q + 1) * d) % d = 0
  BY <1>4, <1>5, Zenon
<1> QED
  BY <1>1, <1>2, <1>3, <1>6, Zenon

(***************************************************************************)
(* XADBlockHandle.                                                         *)
(***************************************************************************)
\* The chain has a block, and each block an offset.
LEMMA BlocksAre == NumBlocks \in Nat \ {0} /\ BlockOffsets \in [1..NumBlocks -> Nat]
<1>0. /\ BlockTable \in Seq(Nat) /\ FirstBlock \in 0..(Len(BlockTable) - 1)
      /\ HeaderSize \in Nat /\ BlockSize \in Nat
  BY FileAssumption
<1>1. PICK n \in Nat : n = Len(BlockTable) /\ n >= 1
  <2>1. Len(BlockTable) \in Nat
    BY <1>0, LenProperties
  <2> QED
    BY <1>0, <2>1
<1>2. PICK S : S = [block : Nat, chain : Seq(Nat)]
  OBVIOUS
<1>3. PICK a : a = [block |-> FirstBlock, chain |-> <<>>]
  OBVIOUS
<1>4. a \in S
  <2>1. <<>> \in Seq(Nat)
    BY EmptySeq
  <2> QED
    BY <1>0, <1>2, <1>3, <2>1
<1>5. ASSUME NEW c \in S
      PROVE  /\ FollowChain(c) \in S
             /\ Len(c.chain) \in Nat /\ Len(FollowChain(c).chain) >= Len(c.chain)
             /\ c.block < n => Len(FollowChain(c).chain) = Len(c.chain) + 1
  <2>1. c.block \in Nat /\ c.chain \in Seq(Nat)
    BY <1>2
  <2>2. Len(c.chain) \in Nat
    BY <2>1, LenProperties
  <2>3. CASE c.block >= n
    <3>1. FollowChain(c) = c
      BY <1>1, <2>3 DEF FollowChain
    <3> QED
      BY <2>1, <2>2, <2>3, <3>1, <1>1
  <2>4. CASE c.block < n
    <3>1. BlockTable[c.block + 1] \in Nat
      BY <1>0, <1>1, <2>1, <2>4
    <3>2. Append(c.chain, c.block) \in Seq(Nat) /\ Len(Append(c.chain, c.block)) = Len(c.chain) + 1
      BY <2>1
    <3>3. FollowChain(c) = [block |-> BlockTable[c.block + 1], chain |-> Append(c.chain, c.block)]
      BY <1>1, <2>1, <2>4 DEF FollowChain
    <3> QED
      BY <1>2, <2>2, <3>1, <3>2, <3>3
  <2> QED
    BY <1>1, <2>1, <2>3, <2>4
<1>p. PICK g \in [0..n -> S] : FollowChainStates(a, n, g)
  <2>1. \A s \in S : FollowChain(s) \in S
    BY <1>5
  <2> QED
    BY <1>1, <1>4, <2>1, FollowChainLoops
<1>6. /\ g[0] = a /\ \A k \in 1..n : g[k] = FollowChain(g[k - 1])
      /\ FollowedFrom(a, n) = g[n]
  BY <1>p DEF FollowChainStates
<1>7. Len(g[1].chain) >= 1
  <2>1. g[1] = FollowChain(a)
    BY <1>1, <1>6
  <2>2. a.block < n
    BY <1>0, <1>1, <1>3
  <2>3. Len(FollowChain(a).chain) = Len(a.chain) + 1 /\ Len(a.chain) \in Nat
    BY <1>4, <1>5, <2>2
  <2> QED
    BY <2>1, <2>3
<1>8. Len(g[n].chain) >= 1
  <2> DEFINE V == {k \in 0..n : k >= 1 => Len(g[k].chain) >= 1}
  <2>1. 0 \in V
    BY <1>1
  <2>2. \A k \in 0..(n - 1) : k \in V => k + 1 \in V
    <3> SUFFICES ASSUME NEW k \in 0..(n - 1), k \in V
                 PROVE  Len(g[k + 1].chain) >= 1
      OBVIOUS
    <3>1. CASE k = 0
      BY <1>7, <3>1
    <3>2. CASE k >= 1
      <4>1. Len(g[k].chain) >= 1
        BY <3>2
      <4>2. k + 1 \in 1..n /\ (k + 1) - 1 = k /\ k \in 0..n
        BY <1>1
      <4>3. g[k + 1] = FollowChain(g[k]) /\ g[k] \in S
        BY <1>6, <4>2
      <4>4. /\ Len(FollowChain(g[k]).chain) >= Len(g[k].chain)
            /\ Len(g[k].chain) \in Nat
        BY <1>5, <4>3
      <4>5. FollowChain(g[k]) \in S
        BY <1>5, <4>3
      <4>6. Len(FollowChain(g[k]).chain) \in Nat
        BY <1>5, <4>5
      <4> QED
        BY <4>1, <4>3, <4>4, <4>6
    <3> QED
      BY <3>1, <3>2
  <2>3. \A k \in 0..n : k \in V
    <3> HIDE DEF V
    <3> QED
      BY <2>1, <2>2, UpTo
  <2> QED
    BY <1>1, <2>3
<1>9. Followed = g[n] /\ g[n] \in S
  <2>1. Followed = FollowedFrom([block |-> FirstBlock, chain |-> <<>>], Len(BlockTable))
    BY DEF Followed, FollowedFrom
  <2>2. n \in 0..n
    OBVIOUS
  <2> QED
    BY <1>1, <1>3, <1>6, <2>1, <2>2
<1>10. PICK ch \in Seq(Nat) : ch = Followed.chain
  BY <1>2, <1>9
<1>11. PICK m \in Nat : m = Len(ch) /\ m >= 1
  <2>1. Len(ch) \in Nat
    BY LenProperties
  <2> QED
    BY <1>8, <1>9, <1>10, <2>1
<1>12. DOMAIN ch = 1..m /\ \A i \in 1..m : ch[i] \in Nat
  BY <1>11
<1>13. PICK o : o = BlockOffsets
  OBVIOUS
<1>14. o = [i \in 1..m |-> HeaderSize + ch[i] * BlockSize]
  BY <1>10, <1>12, <1>13 DEF BlockOffsets
<1>15. o \in [1..m -> Nat]
  <2>1. \A i \in 1..m : HeaderSize + ch[i] * BlockSize \in Nat
    <3> TAKE i \in 1..m
    <3>1. PICK c \in Nat : c = ch[i]
      BY <1>12
    <3>2. PICK b \in Nat : b = BlockSize
      BY <1>0
    <3>3. PICK e \in Nat : e = c * b
      OBVIOUS
    <3>4. e = ch[i] * BlockSize
      BY <3>1, <3>2, <3>3
    <3>5. HeaderSize + e \in Nat
      BY <1>0
    <3> QED
      BY <3>4, <3>5, Zenon
  <2> QED
    BY <1>14, <2>1
<1>16. Len(o) = m
  BY <1>15, FunctionIsSeq
<1> QED
  BY <1>11, <1>13, <1>15, <1>16 DEF NumBlocks

\* Where the byte behind p is in the file below.
BlockAt(p) == BlockOffsets[1 + (p \div BlockSize)] + (p % BlockSize)

BlockEnd == NumBlocks * BlockSize

\* The types of the block handle's constants.
LEMMA BlockConstants ==
    /\ BlockSize \in Nat \ {0, 1} /\ BlockLength \in Nat /\ FileLen \in Nat
    /\ NumBlocks \in Nat \ {0} /\ BlockEnd \in Nat
  BY FileAssumption, BlocksAre DEF BlockEnd

\* Within a block, the bytes lie one behind the other.
LEMMA BlockAtIs ==
    ASSUME NEW p \in Nat, p < BlockEnd
    PROVE  /\ BlockOffsets[1 + (p \div BlockSize)] \in Nat
           /\ BlockAt(p) \in Nat
           /\ \A i \in Nat : (p % BlockSize) + i < BlockSize => BlockAt(p + i) = BlockAt(p) + i
<1>0. BlockSize \in Nat \ {0} /\ NumBlocks \in Nat /\ BlockOffsets \in [1..NumBlocks -> Nat]
  BY BlockConstants, BlocksAre
<1>1. PICK q \in Nat : q = p \div BlockSize
  BY <1>0, DivNat
<1>2. PICK r \in Nat : r = p % BlockSize
  <2>1. p % BlockSize \in 0..(BlockSize - 1)
    BY BlockConstants, DivNat
  <2> QED
    BY <1>0, <2>1
<1>3. q < NumBlocks
  BY <1>0, <1>1, DivBelow DEF BlockEnd
<1>4. PICK o \in Nat : o = BlockOffsets[1 + q]
  BY <1>0, <1>3
<1>5. BlockAt(p) = o + r
  BY <1>1, <1>2, <1>4 DEF BlockAt
<1>6. ASSUME NEW i \in Nat, (p % BlockSize) + i < BlockSize
      PROVE  BlockAt(p + i) = BlockAt(p) + i
  <2>1. (p + i) \div BlockSize = q /\ (p + i) % BlockSize = r + i
    BY <1>0, <1>1, <1>2, <1>6, InBlock, ZenonT(40)
  <2>2. BlockAt(p + i) = o + (r + i)
    BY <1>4, <2>1 DEF BlockAt
  <2> QED
    BY <1>5, <2>2
<1> QED
  BY <1>1, <1>4, <1>5, <1>6

\* The contents of the block handle: the bytes of the chained blocks, in
\* order, as far as the file has them.
LEMMA BlockContents ==
    \E T \in Nat :
       /\ T <= BlockLength /\ T <= BlockEnd /\ (T = BlockLength \/ T = BlockEnd)
       /\ Contents("block") = [p \in 1..T |-> BlockAt(p - 1) + 1]
       /\ \A p \in 0..(T - 1) : BlockAt(p) \in Nat /\ BlockAt(p) < FileLen
<1>0. BlockEnd \in Nat /\ BlockLength \in Nat /\ FileLen \in Nat /\ BlockSize \in Nat \ {0}
  BY BlockConstants
<1>1. PICK T \in Nat : T = Least(BlockLength, BlockEnd)
  BY <1>0 DEF Least
<1>2. T <= BlockLength /\ T <= BlockEnd /\ (T = BlockLength \/ T = BlockEnd)
  BY <1>0, <1>1 DEF Least
<1>3. PICK Z : Z = Contents("block")
  OBVIOUS
<1>4. Z = [p \in 1..T |->
             BlockOffsets[1 + (p - 1) \div BlockSize] + 1 + ((p - 1) % BlockSize)]
  BY <1>1, <1>3 DEF Contents, BlockEnd
<1>5. ASSUME NEW p \in 1..T
      PROVE  /\ BlockAt(p - 1) \in Nat
             /\ Z[p] = BlockAt(p - 1) + 1
             /\ BlockAt(p - 1) < FileLen
  <2>1. p - 1 \in Nat /\ p - 1 < BlockEnd
    BY <1>0, <1>1, <1>2
  <2>2. PICK o \in Nat : o = BlockOffsets[1 + ((p - 1) \div BlockSize)]
    BY <2>1, BlockAtIs
  <2>3. PICK r \in Nat : r = (p - 1) % BlockSize
    BY <1>0, <2>1, DivNat
  <2>4. Z[p] = o + 1 + r
    BY <1>4, <2>2, <2>3
  <2>5. BlockAt(p - 1) = o + r
    BY <2>2, <2>3 DEF BlockAt
  <2>6. Z[p] <= FileLen
    BY <1>3, <1>4, BlocksAssumption
  <2> QED
    BY <1>0, <2>4, <2>5, <2>6
<1>6. Z = [p \in 1..T |-> BlockAt(p - 1) + 1]
  BY <1>4, <1>5
<1>7. \A p \in 0..(T - 1) : BlockAt(p) \in Nat /\ BlockAt(p) < FileLen
  <2> TAKE p \in 0..(T - 1)
  <2>1. p + 1 \in 1..T /\ (p + 1) - 1 = p
    OBVIOUS
  <2> QED
    BY <1>5, <2>1
<1> QED
  BY <1>2, <1>3, <1>6, <1>7

\* What the loop of readAtMost: keeps: want bytes are still to be read, and
\* those that have been are the ones behind P.
BlockReading(P, w) ==
    {r \in [pp : Nat, curr : Nat, want : Nat, data : Seq(Nat \ {0})] :
        /\ r.curr = P + Len(r.data) /\ Len(r.data) + r.want = w
        /\ r.data = Part(Contents("block"), P, Len(r.data))
        /\ r.curr <= BlockEnd
        /\ r.curr % BlockSize # 0 => r.pp = BlockAt(r.curr)}

BlockDone(r) == r.want = 0 \/ r.curr = BlockEnd

\* A round of the read loop reads bytes of the contents and wants fewer, or
\* is the last.
LEMMA BlockRoundKeeps ==
    ASSUME NEW P \in Nat, NEW w \in Nat, P + w <= BlockLength, NEW r \in BlockReading(P, w)
    PROVE  /\ BlockRound(r) \in BlockReading(P, w)
           /\ BlockDone(r) => BlockDone(BlockRound(r))
           /\ ~BlockDone(r) => BlockRound(r).want < r.want
<1>0. /\ BlockSize \in Nat \ {0} /\ BlockLength \in Nat /\ FileLen \in Nat /\ NumBlocks \in Nat
      /\ BlockEnd \in Nat
  BY BlockConstants
<1>1. PICK T \in Nat :
         /\ T <= BlockLength /\ T <= BlockEnd /\ (T = BlockLength \/ T = BlockEnd)
         /\ Contents("block") = [p \in 1..T |-> BlockAt(p - 1) + 1]
         /\ \A p \in 0..(T - 1) : BlockAt(p) \in Nat /\ BlockAt(p) < FileLen
  <2>1. \E T \in Nat :
         /\ T <= BlockLength /\ T <= BlockEnd /\ (T = BlockLength \/ T = BlockEnd)
         /\ Contents("block") = [p \in 1..T |-> BlockAt(p - 1) + 1]
         /\ \A p \in 0..(T - 1) : BlockAt(p) \in Nat /\ BlockAt(p) < FileLen
    BY BlockContents
  <2> QED
    BY <2>1
<1>2. PICK Z : Z = Contents("block")
  OBVIOUS
<1>3. /\ r \in [pp : Nat, curr : Nat, want : Nat, data : Seq(Nat \ {0})]
      /\ r.curr = P + Len(r.data) /\ Len(r.data) + r.want = w
      /\ r.data = Part(Z, P, Len(r.data))
      /\ r.curr <= BlockEnd
      /\ r.curr % BlockSize # 0 => r.pp = BlockAt(r.curr)
  BY <1>2 DEF BlockReading
<1>4. PICK pp \in Nat : pp = r.pp
  BY <1>3
<1>5. PICK curr \in Nat : curr = r.curr
  BY <1>3
<1>6. PICK want \in Nat : want = r.want
  BY <1>3
<1>7. PICK d \in Seq(Nat \ {0}) : d = r.data
  BY <1>3
<1>8. PICK a \in Nat : a = Len(d)
  BY LenProperties
<1>9. r = [pp |-> pp, curr |-> curr, want |-> want, data |-> d]
  BY <1>3, <1>4, <1>5, <1>6, <1>7
<1>10. PICK b \in 0..(BlockSize - 1) : b = curr % BlockSize
  BY <1>0, DivNat
<1>11. PICK q \in Nat : q = curr \div BlockSize
  BY <1>0, DivNat
<1>12. curr = q * BlockSize + b
  <2>1. curr = BlockSize * q + b
    BY <1>0, <1>10, <1>11, DivNat
  <2> QED
    BY <1>0, <2>1
<1>13. (want <= 0 \/ (b = 0 /\ q = NumBlocks)) <=> BlockDone(r)
  <2>1. b = 0 /\ q = NumBlocks => curr = BlockEnd
    BY <1>0, <1>12 DEF BlockEnd
  <2>2. curr = BlockEnd => b = 0 /\ q = NumBlocks
    <3> SUFFICES ASSUME curr = BlockEnd PROVE b = 0 /\ q = NumBlocks
      OBVIOUS
    <3>1. (NumBlocks * BlockSize + 0) \div BlockSize = NumBlocks
      BY <1>0, Division
    <3>2. (NumBlocks * BlockSize + 0) % BlockSize = 0
      BY <1>0, Division
    <3>3. curr = NumBlocks * BlockSize + 0
      BY <1>0 DEF BlockEnd
    <3> QED
      BY <1>10, <1>11, <3>1, <3>2, <3>3
  <2> QED
    BY <1>5, <1>6, <2>1, <2>2 DEF BlockDone
<1>14. CASE BlockDone(r)
  <2>1. BlockRound(r) = r
    BY <1>5, <1>6, <1>10, <1>11, <1>13, <1>14 DEF BlockRound
  <2> QED
    BY <1>14, <2>1
<1>15. CASE ~BlockDone(r)
  <2>1. want > 0 /\ curr < BlockEnd
    BY <1>0, <1>3, <1>5, <1>6, <1>15 DEF BlockDone
  <2>2. PICK at \in Nat : at = BlockAt(curr)
    BY <2>1, BlockAtIs
  <2>3. (IF b = 0 THEN BlockOffsets[q + 1] ELSE pp) = at
    <3>1. CASE b # 0
      BY <1>3, <1>4, <1>5, <1>10, <2>2, <3>1
    <3>2. CASE b = 0
      <4>1. PICK o \in Nat : o = BlockOffsets[1 + q]
        BY <1>11, <2>1, BlockAtIs
      <4>2. at = o + b
        BY <1>10, <1>11, <2>2, <4>1 DEF BlockAt
      <4>3. q + 1 = 1 + q
        OBVIOUS
      <4> QED
        BY <3>2, <4>1, <4>2, <4>3
    <3> QED
      BY <3>1, <3>2
  <2>4. PICK k \in Nat : k = Least(want, BlockSize - b)
    BY <1>0, <1>6, <1>10 DEF Least
  <2>5. k >= 1 /\ k <= want /\ b + k <= BlockSize
    BY <1>0, <2>1, <2>4 DEF Least
  <2>6. BlockEnd >= curr + k
    <3>1. curr + (BlockSize - b) = (q + 1) * BlockSize
      BY <1>0, <1>10, <1>11, NextBlock
    <3>2. q + 1 <= NumBlocks
      BY <1>0, <1>11, <2>1, DivBelow DEF BlockEnd
    <3>3. (q + 1) * BlockSize <= NumBlocks * BlockSize
      <4>1. CASE q + 1 = NumBlocks
        <5>1. (q + 1) * BlockSize \in Int
          BY <1>0
        <5> QED
          BY <4>1, <5>1
      <4>2. CASE (q + 1) + 1 <= NumBlocks
        <5>1. (q + 1) * BlockSize + BlockSize <= NumBlocks * BlockSize
          BY <1>0, <4>2, LessTimes
        <5>2. PICK x \in Nat : x = (q + 1) * BlockSize
          BY <1>0
        <5>3. PICK y \in Nat : y = NumBlocks * BlockSize
          BY <1>0
        <5> QED
          BY <1>0, <5>1, <5>2, <5>3
      <4> QED
        BY <1>0, <3>2, <4>1, <4>2
    <3>4. PICK x \in Nat : x = (q + 1) * BlockSize
      BY <1>0
    <3>5. PICK y \in Nat : y = NumBlocks * BlockSize
      BY <1>0
    <3> QED
      BY <1>0, <2>5, <3>1, <3>3, <3>4, <3>5 DEF BlockEnd
  <2>7. curr + k <= T
    BY <1>0, <1>1, <1>3, <1>5, <1>6, <1>7, <1>8, <2>5, <2>6
  <2>8. \A i \in 0..(k - 1) : BlockAt(curr + i) = at + i
    <3> TAKE i \in 0..(k - 1)
    <3>1. i \in Nat /\ (curr % BlockSize) + i < BlockSize
      BY <1>0, <1>10, <2>5
    <3> QED
      BY <2>1, <2>2, <3>1, BlockAtIs
  <2>9. \A i \in 1..k : Z[curr + i] = at + i
    <3> TAKE i \in 1..k
    <3>1. curr + i \in 1..T
      BY <2>7
    <3>2. Z[curr + i] = BlockAt((curr + i) - 1) + 1
      BY <1>1, <1>2, <3>1
    <3>3. i - 1 \in 0..(k - 1) /\ (curr + i) - 1 = curr + (i - 1)
      OBVIOUS
    <3>4. BlockAt(curr + (i - 1)) = at + (i - 1)
      BY <2>8, <3>3
    <3> QED
      BY <3>2, <3>3, <3>4
  <2>10. at + k <= FileLen
    <3>a. k - 1 \in 0..(k - 1)
      BY <2>5
    <3>1. BlockAt(curr + (k - 1)) = at + (k - 1)
      BY <2>8, <3>a
    <3>2. curr + (k - 1) \in 0..(T - 1)
      BY <2>5, <2>7
    <3> QED
      BY <1>0, <1>1, <3>1, <3>2
  <2>11. PICK e \in Seq(Nat) : e = FileBytes(at, k) /\ Len(e) = k /\ e = [i \in 1..k |-> at + i]
    <3>1. PICK m \in 0..k :
              /\ m = Readable(FileLen, at, k)
              /\ FileBytes(at, k) = [i \in 1..m |-> at + i]
              /\ Len(FileBytes(at, k)) = m
              /\ FileBytes(at, k) \in Seq(Nat)
              /\ m > 0 => at + m <= FileLen
              /\ m < k => at + m >= FileLen
      BY FileBytesAre, ZenonT(30)
    <3>2. m = k
      BY <1>0, <2>10, <3>1
    <3> QED
      BY <3>1, <3>2
  <2>12. e = Part(Z, curr, k)
    BY <2>9, <2>11 DEF Part
  <2>13. Within(Nat \ {0}, Z, P, a + k)
    <3>1. \A i \in 1..T : Z[i] \in Nat \ {0}
      <4> TAKE i \in 1..T
      <4>1. i - 1 \in 0..(T - 1)
        OBVIOUS
      <4>2. BlockAt(i - 1) \in Nat
        BY <1>1, <4>1
      <4> QED
        BY <1>1, <1>2, <4>2
    <3>2. \A i \in 1..(a + k) : P + i \in 1..T
      BY <1>3, <1>5, <1>7, <1>8, <2>7
    <3> QED
      BY <3>1, <3>2 DEF Within
  <2>14. curr = P + a /\ d = Part(Z, P, a)
    BY <1>3, <1>5, <1>7, <1>8
  <2>15. PICK x : x = d \o e
    OBVIOUS
  <2>16. x = Part(Z, P, a + k)
    <3>1. PartsJoin(Z, P, a, k)
      BY <1>8, <2>4, <2>13, PartMore
    <3>2. Part(Z, P, a) \o Part(Z, P + a, k) = Part(Z, P, a + k)
      BY <3>1 DEF PartsJoin
    <3> QED
      BY <2>12, <2>14, <2>15, <3>2, Zenon
  <2>17. x \in Seq(Nat \ {0}) /\ Len(x) = a + k
    <3>1. IsPart(Nat \ {0}, Z, P, a + k, x)
      BY <2>13, <2>16, PartType
    <3> QED
      BY <3>1 DEF IsPart
  <2>18. BlockRound(r) = [pp |-> at + k, curr |-> curr + k, want |-> want - k, data |-> x]
    BY <1>4, <1>5, <1>6, <1>7, <1>10, <1>11, <1>13, <1>15, <2>3, <2>4, <2>11, <2>15
       DEF BlockRound
  <2>19. PICK s : s = BlockRound(r)
    OBVIOUS
  <2>20. s \in [pp : Nat, curr : Nat, want : Nat, data : Seq(Nat \ {0})]
    BY <2>5, <2>17, <2>18, <2>19
  <2>21. s.curr = P + Len(s.data) /\ Len(s.data) + s.want = w /\ s.data = Part(Z, P, Len(s.data))
    <3>1. s.curr = curr + k /\ s.want = want - k /\ s.data = x
      BY <2>18, <2>19
    <3>2. curr = P + a /\ a + want = w
      BY <1>3, <1>5, <1>6, <1>7, <1>8
    <3>3. P + (a + k) = curr + k /\ (a + k) + (want - k) = w
      BY <3>2
    <3> QED
      BY <2>16, <2>17, <3>1, <3>3
  <2>22. s.curr <= BlockEnd
    BY <2>6, <2>18, <2>19
  <2>23. s.curr % BlockSize # 0 => s.pp = BlockAt(s.curr)
    <3>1. CASE b + k < BlockSize
      <4>1. BlockAt(curr + k) = at + k
        BY <1>10, <2>1, <2>2, <3>1, BlockAtIs
      <4> QED
        BY <2>18, <2>19, <4>1
    <3>2. CASE b + k = BlockSize
      <4>1. (curr + (BlockSize - (curr % BlockSize))) % BlockSize = 0
        BY <1>0, NextBlock
      <4>2. curr + (BlockSize - (curr % BlockSize)) = s.curr
        <5>1. BlockSize - (curr % BlockSize) = k
          BY <1>0, <1>10, <3>2
        <5>2. s.curr = curr + k
          BY <2>18, <2>19
        <5> QED
          BY <5>1, <5>2
      <4> QED
        BY <4>1, <4>2
    <3> QED
      BY <1>0, <2>5, <3>1, <3>2
  <2>24. s \in BlockReading(P, w)
    BY <1>2, <2>20, <2>21, <2>22, <2>23 DEF BlockReading
  <2>25. s.want < r.want
    BY <1>6, <2>5, <2>18, <2>19
  <2> QED
    BY <1>15, <2>19, <2>24, <2>25
<1> QED
  BY <1>14, <1>15

\* readAtMost: reads what there is.
LEMMA BlockReadReads ==
    ASSUME NEW h, Good("block", h), NEW n \in Nat \ {0}
    PROVE  Reads("block", h, n, ReadAtMost("block", h, n))
<1>0. /\ BlockSize \in Nat \ {0} /\ BlockLength \in Nat /\ NumBlocks \in Nat /\ BlockEnd \in Nat
  BY BlockConstants
<1>1. PICK T \in Nat :
         /\ T <= BlockLength /\ T <= BlockEnd /\ (T = BlockLength \/ T = BlockEnd)
         /\ Contents("block") = [p \in 1..T |-> BlockAt(p - 1) + 1]
         /\ \A p \in 0..(T - 1) : BlockAt(p) \in Nat /\ BlockAt(p) < FileLen
  <2>1. \E T \in Nat :
         /\ T <= BlockLength /\ T <= BlockEnd /\ (T = BlockLength \/ T = BlockEnd)
         /\ Contents("block") = [p \in 1..T |-> BlockAt(p - 1) + 1]
         /\ \A p \in 0..(T - 1) : BlockAt(p) \in Nat /\ BlockAt(p) < FileLen
    BY BlockContents
  <2> QED
    BY <2>1
<1>2. PICK Z : Z = Contents("block")
  OBVIOUS
<1>3. Len(Z) = T
  <2>1. \A p \in 1..T : BlockAt(p - 1) + 1 \in Nat
    <3> TAKE p \in 1..T
    <3>1. p - 1 \in 0..(T - 1)
      OBVIOUS
    <3>2. BlockAt(p - 1) \in Nat
      BY <1>1, <3>1
    <3> QED
      BY <3>2
  <2>2. Z \in [1..T -> Nat]
    BY <1>1, <1>2, <2>1
  <2> QED
    BY <1>1, <2>2, FunctionIsSeq
<1>4. /\ h \in [pp : Nat, curr : Nat]
      /\ h.curr <= BlockLength /\ h.curr <= BlockEnd
      /\ h.curr % BlockSize # 0 => h.pp = BlockAt(h.curr)
  BY DEF Good, BlockEnd, BlockAt
<1>5. PICK P \in Nat : P = h.curr
  BY <1>4
<1>6. PICK w \in Nat : w = Least(n, BlockLength - P)
  BY <1>0, <1>4, <1>5 DEF Least
<1>7. w <= n /\ P + w <= BlockLength /\ (w = n \/ P + w = BlockLength)
  BY <1>0, <1>4, <1>5, <1>6 DEF Least
<1>8. PICK a : a = Begun(h, w)
  OBVIOUS
<1>9. PICK S : S = BlockReading(P, w)
  OBVIOUS
<1>10. a \in S /\ a.want = w
  <2>1. a = [pp |-> h.pp, curr |-> P, want |-> w, data |-> <<>>]
    BY <1>5, <1>8 DEF Begun
  <2>2. <<>> \in Seq(Nat \ {0}) /\ Len(<<>>) = 0
    BY EmptySeq
  <2>3. a \in [pp : Nat, curr : Nat, want : Nat, data : Seq(Nat \ {0})]
    BY <1>4, <2>1, <2>2
  <2>4. a.data = <<>> /\ Len(a.data) = 0 /\ a.curr = P /\ a.want = w /\ a.pp = h.pp
    BY <2>1, <2>2
  <2>5. a.data = Part(Z, P, Len(a.data))
    BY <2>4, PartNone
  <2>6. a.curr = P + Len(a.data) /\ Len(a.data) + a.want = w
    BY <2>4
  <2>7. a.curr <= BlockEnd /\ (a.curr % BlockSize # 0 => a.pp = BlockAt(a.curr))
    BY <1>4, <1>5, <2>4
  <2> QED
    BY <1>2, <1>9, <2>3, <2>4, <2>5, <2>6, <2>7 DEF BlockReading
<1>11. \A s \in S : /\ BlockRound(s) \in S
                    /\ BlockDone(s) => BlockDone(BlockRound(s))
                    /\ ~BlockDone(s) => BlockRound(s).want < s.want
  BY <1>7, <1>9, BlockRoundKeeps
<1>p. PICK g \in [0..n -> S] : BlockRoundStates(a, n, g)
  <2>1. \A s \in S : BlockRound(s) \in S
    BY <1>11
  <2>2. n \in Nat
    OBVIOUS
  <2> QED
    BY <1>10, <2>1, <2>2, BlockRoundLoops
<1>12. /\ g[0] = a /\ \A k \in 1..n : g[k] = BlockRound(g[k - 1])
       /\ BlockRounds(a, n) = g[n]
  BY <1>p DEF BlockRoundStates
<1>13. \A k \in 0..n : BlockDone(g[k]) \/ g[k].want <= n - k
  <2> DEFINE V == {k \in 0..n : BlockDone(g[k]) \/ g[k].want <= n - k}
  <2>1. 0 \in V
    BY <1>7, <1>10, <1>12
  <2>2. \A k \in 0..(n - 1) : k \in V => k + 1 \in V
    <3> SUFFICES ASSUME NEW k \in 0..(n - 1), k \in V
                 PROVE  BlockDone(g[k + 1]) \/ g[k + 1].want <= n - (k + 1)
      OBVIOUS
    <3>1. k + 1 \in 1..n /\ (k + 1) - 1 = k /\ k \in 0..n /\ k + 1 \in 0..n
      OBVIOUS
    <3>2. g[k + 1] = BlockRound(g[k]) /\ g[k] \in S /\ g[k + 1] \in S
      BY <1>12, <3>1
    <3>3. BlockDone(g[k]) \/ g[k].want <= n - k
      OBVIOUS
    <3>4. CASE BlockDone(g[k])
      BY <1>11, <3>2, <3>4
    <3>5. CASE ~BlockDone(g[k])
      <4>1. PICK x \in Nat : x = g[k].want
        BY <1>9, <3>2 DEF BlockReading
      <4>2. PICK y \in Nat : y = g[k + 1].want
        BY <1>9, <3>2 DEF BlockReading
      <4>3. y < x
        BY <1>11, <3>2, <3>5, <4>1, <4>2
      <4>4. x <= n - k
        BY <3>3, <3>5, <4>1
      <4> QED
        BY <4>2, <4>3, <4>4
    <3> QED
      BY <3>4, <3>5
  <2>3. \A k \in 0..n : k \in V
    <3>1. n \in Nat
      OBVIOUS
    <3> HIDE DEF V
    <3> QED
      BY <2>1, <2>2, <3>1, UpTo
  <2> QED
    BY <2>3
<1>14. PICK e : e = g[n]
  OBVIOUS
<1>15. e \in S /\ BlockDone(e)
  <2>1. n \in 0..n
    OBVIOUS
  <2>2. e \in S /\ (BlockDone(e) \/ e.want <= n - n)
    BY <1>13, <1>14, <2>1
  <2>3. e.want \in Nat
    BY <1>9, <2>2 DEF BlockReading
  <2> QED
    BY <2>2, <2>3 DEF BlockDone
<1>16. /\ e \in [pp : Nat, curr : Nat, want : Nat, data : Seq(Nat \ {0})]
       /\ e.curr = P + Len(e.data) /\ Len(e.data) + e.want = w
       /\ e.data = Part(Z, P, Len(e.data))
       /\ e.curr <= BlockEnd
       /\ e.curr % BlockSize # 0 => e.pp = BlockAt(e.curr)
  BY <1>2, <1>9, <1>15 DEF BlockReading
<1>17. PICK m \in Nat : m = Len(e.data)
  BY <1>16, LenProperties
<1>18. m = Readable(T, P, n) /\ P + m <= BlockLength /\ P + m <= BlockEnd
  <2>1. P + m <= BlockEnd /\ (m = w \/ P + m = BlockEnd) /\ m <= w
    BY <1>0, <1>15, <1>16, <1>17 DEF BlockDone
  <2>2. P <= T
    BY <1>0, <1>1, <1>4, <1>5
  <2> QED
    BY <1>0, <1>1, <1>7, <2>1, <2>2 DEF Readable, Least
<1>19. PICK r : r = ReadAtMost("block", h, n)
  OBVIOUS
<1>20. r = [ok |-> TRUE, h |-> [pp |-> e.pp, curr |-> e.curr], data |-> e.data]
  <2>1. ReadAtMost("block", h, n) = BlockRead(h, n)
    BY DEF ReadAtMost
  <2>2. BlockRead(h, n) = Ended(BlockRounds(a, n))
    BY <1>5, <1>6, <1>8 DEF BlockRead, BlockRounds
  <2> QED
    BY <1>12, <1>14, <1>19, <2>1, <2>2 DEF Ended, Returns
<1>21. r.h \in [pp : Nat, curr : Nat] /\ r.h.curr = P + m /\ r.h.pp = e.pp /\ e.curr = P + m
  BY <1>16, <1>17, <1>20
<1>22. Good("block", r.h)
  BY <1>16, <1>18, <1>21 DEF Good, BlockEnd, BlockAt
<1>23. OffsetInFile("block", r.h) = P + m /\ OffsetInFile("block", h) = P
  BY <1>5, <1>21 DEF OffsetInFile
<1>24. r.ok /\ r.data = Part(Z, P, m)
  BY <1>16, <1>17, <1>20
<1> QED
  BY <1>2, <1>3, <1>18, <1>19, <1>22, <1>23, <1>24 DEF Reads

\* ... and seekToFileOffset: goes where it is told.
LEMMA BlockSeekSeeks ==
    ASSUME NEW h, Good("block", h), NEW offs \in Nat
    PROVE  Seeks("block", offs, SeekToFileOffset("block", h, offs))
<1>0. /\ BlockSize \in Nat \ {0, 1} /\ BlockLength \in Nat /\ NumBlocks \in Nat \ {0}
      /\ BlockEnd \in Nat /\ BlockOffsets \in [1..NumBlocks -> Nat]
  BY BlockConstants, BlocksAre
<1>1. PICK r : r = SeekToFileOffset("block", h, offs)
  OBVIOUS
<1>2. CASE offs > BlockEnd \/ offs > BlockLength
  <2>1. r = Raises(h)
    BY <1>1, <1>2 DEF SeekToFileOffset, BlockSeek, BlockEnd
  <2>2. \E T \in Nat : T <= BlockLength /\ T <= BlockEnd /\ T = Len(Contents("block"))
    <3>1. PICK T \in Nat :
             /\ T <= BlockLength /\ T <= BlockEnd
             /\ Contents("block") = [p \in 1..T |-> BlockAt(p - 1) + 1]
             /\ \A p \in 0..(T - 1) : BlockAt(p) \in Nat
      BY BlockContents
    <3>2. PICK Z : Z = Contents("block")
      OBVIOUS
    <3>3. \A p \in 1..T : BlockAt(p - 1) + 1 \in Nat
      <4> TAKE p \in 1..T
      <4>1. p - 1 \in 0..(T - 1)
        OBVIOUS
      <4>2. BlockAt(p - 1) \in Nat
        BY <3>1, <4>1
      <4> QED
        BY <4>2
    <3>4. Z \in [1..T -> Nat]
      BY <3>1, <3>2, <3>3
    <3>5. Len(Z) = T
      BY <3>4, FunctionIsSeq
    <3> QED
      BY <3>1, <3>2, <3>5
  <2>3. offs > Len(Contents("block"))
    BY <1>0, <1>2, <2>2
  <2> QED
    BY <1>1, <2>1, <2>3 DEF Seeks, Raises
<1>3. CASE ~(offs > BlockEnd \/ offs > BlockLength)
  <2>1. PICK block : block = TowardsZero(offs - 1, BlockSize)
    OBVIOUS
  <2>2. r = [ok |-> TRUE, h |-> [pp |-> BlockOffsets[block + 1] + offs - block * BlockSize,
                                 curr |-> offs], data |-> <<>>]
    BY <1>1, <1>3, <2>1 DEF SeekToFileOffset, BlockSeek, Returns, BlockEnd
  <2>3. /\ BlockOffsets[block + 1] + offs - block * BlockSize \in Nat
        /\ offs % BlockSize # 0 =>
              BlockOffsets[block + 1] + offs - block * BlockSize = BlockAt(offs)
    <3>1. CASE offs = 0
      <4>1. block = 0
        <5>1. PICK u \in Nat : u = 1
          OBVIOUS
        <5>2. BlockSize \in Nat /\ u < BlockSize
          BY <1>0, <5>1
        <5>3. u \div BlockSize = 0
          BY <5>1, <5>2, SmallDiv
        <5>4. offs - 1 < 0 /\ -(offs - 1) = u
          <6>1. -(offs - 1) = 1 - offs
            OBVIOUS
          <6>2. 1 - offs = u /\ offs - 1 < 0
            BY <3>1, <5>1
          <6> QED
            BY <6>1, <6>2, Zenon
        <5>5. block = -(u \div BlockSize)
          BY <2>1, <5>4 DEF TowardsZero
        <5> QED
          BY <5>3, <5>5
      <4>2. BlockOffsets[1] \in Nat
        BY <1>0
      <4>3. block * BlockSize = 0 /\ block + 1 = 1
        BY <1>0, <4>1
      <4>4. offs % BlockSize = 0
        <5>1. (0 * BlockSize + 0) % BlockSize = 0
          <6>1. BlockSize \in Nat /\ 0 < BlockSize
            BY <1>0
          <6> QED
            BY <6>1, Division
        <5>2. 0 * BlockSize + 0 = offs
          BY <1>0, <3>1
        <5> QED
          BY <5>1, <5>2
      <4> QED
        BY <3>1, <4>2, <4>3, <4>4
    <3>2. CASE offs # 0
      <4>1. PICK p \in Nat : p = offs - 1 /\ p < BlockEnd
        BY <1>0, <1>3, <3>2
      <4>2. PICK q \in Nat : q = p \div BlockSize
        BY <1>0, DivNat
      <4>3. block = q
        BY <2>1, <4>1, <4>2 DEF TowardsZero
      <4>4. q < NumBlocks
        BY <1>0, <4>1, <4>2, DivBelow DEF BlockEnd
      <4>5. PICK o \in Nat : o = BlockOffsets[block + 1]
        BY <1>0, <4>3, <4>4
      <4>6. PICK b \in 0..(BlockSize - 1) : b = p % BlockSize
        BY <1>0, DivNat
      <4>7. PICK x \in Nat : x = block * BlockSize
        BY <1>0, <4>3
      <4>8. p = x + b
        <5>1. p = BlockSize * q + b
          BY <1>0, <4>2, <4>6, DivNat
        <5>2. BlockSize * q = x
          BY <1>0, <4>3, <4>7
        <5> QED
          BY <5>1, <5>2
      <4>9. BlockOffsets[block + 1] + offs - block * BlockSize = o + (b + 1)
        <5>1. o + offs - x = o + (b + 1)
          BY <4>1, <4>5, <4>6, <4>7, <4>8
        <5> QED
          BY <4>5, <4>7, <5>1, Zenon
      <4>a. o + (b + 1) \in Nat
        BY <1>0, <4>5, <4>6
      <4>10. CASE b + 1 < BlockSize
        <5>1. (p + 1) \div BlockSize = q /\ (p + 1) % BlockSize = b + 1
          <6>1. (p % BlockSize) + 1 < BlockSize
            BY <4>6, <4>10
          <6>2. BlockSize \in Nat \ {0} /\ p \in Nat /\ 1 \in Nat
            BY <1>0, <4>1
          <6>3. (p + 1) \div BlockSize = p \div BlockSize /\ (p + 1) % BlockSize = (p % BlockSize) + 1
            BY <6>1, <6>2, InBlock
          <6> QED
            BY <4>2, <4>6, <6>3
        <5>2. p + 1 = offs
          BY <4>1
        <5>3. BlockOffsets[1 + q] = o
          BY <4>3, <4>5
        <5>4. BlockAt(offs) = o + (b + 1)
          BY <5>1, <5>2, <5>3 DEF BlockAt
        <5> QED
          BY <4>9, <4>a, <5>4, Zenon
      <4>11. CASE b + 1 = BlockSize
        <5>1. (p + (BlockSize - (p % BlockSize))) % BlockSize = 0
          BY <1>0, NextBlock
        <5>2. p + (BlockSize - (p % BlockSize)) = offs
          BY <1>0, <4>1, <4>6, <4>11
        <5>3. offs % BlockSize = 0
          BY <5>1, <5>2
        <5> QED
          BY <4>9, <4>a, <5>3, Zenon
      <4> QED
        BY <1>0, <4>6, <4>10, <4>11
    <3> QED
      BY <3>1, <3>2
  <2>4. r.ok /\ r.h \in [pp : Nat, curr : Nat] /\ r.h.curr = offs
    BY <2>2, <2>3
  <2>5. r.h.pp = BlockOffsets[block + 1] + offs - block * BlockSize
    BY <2>2
  <2>6. Good("block", r.h)
    BY <1>0, <1>3, <2>3, <2>4, <2>5 DEF Good, BlockEnd, BlockAt
  <2>7. OffsetInFile("block", r.h) = offs
    BY <2>4 DEF OffsetInFile
  <2> QED
    BY <1>1, <2>4, <2>6, <2>7 DEF Seeks
<1> QED
  BY <1>2, <1>3

\* XADBlockHandle keeps the promise.
THEOREM BlockPromise == Promise("block")
<1>0. /\ BlockSize \in Nat \ {0} /\ BlockLength \in Nat /\ BlockEnd \in Nat
  BY BlockConstants
<1>1. Contents("block") \in Seq(Nat \ {0})
  <2>1. PICK T \in Nat :
           /\ Contents("block") = [p \in 1..T |-> BlockAt(p - 1) + 1]
           /\ \A p \in 0..(T - 1) : BlockAt(p) \in Nat
    BY BlockContents
  <2>2. PICK Z : Z = Contents("block")
    OBVIOUS
  <2>3. \A p \in 1..T : BlockAt(p - 1) + 1 \in Nat \ {0}
    <3> TAKE p \in 1..T
    <3>1. p - 1 \in 0..(T - 1)
      OBVIOUS
    <3>2. BlockAt(p - 1) \in Nat
      BY <2>1, <3>1
    <3> QED
      BY <3>2
  <2>4. Z \in [1..T -> Nat \ {0}]
    BY <2>1, <2>2, <2>3
  <2> QED
    BY <2>2, <2>4, FunctionIsSeq
<1>2. Good("block", Opened("block"))
  <2>1. Opened("block") = [pp |-> 0, curr |-> 0]
    BY DEF Opened
  <2>2. 0 % BlockSize = 0
    <3>1. (0 * BlockSize + 0) % BlockSize = 0
      <4>1. BlockSize \in Nat /\ 0 < BlockSize
        BY <1>0
      <4> QED
        BY <4>1, Division
    <3>2. 0 * BlockSize + 0 = 0
      BY <1>0
    <3> QED
      BY <3>1, <3>2
  <2> QED
    BY <1>0, <2>1, <2>2 DEF Good, BlockEnd
<1>3. ASSUME NEW h, Good("block", h)
      PROVE  OffsetInFile("block", h) \in Nat
  BY <1>3 DEF Good, OffsetInFile
<1> QED
  BY <1>1, <1>2, <1>3, BlockReadReads, BlockSeekSeeks DEF Promise

\* A product with a difference.
LEMMA TimesDifference ==
    ASSUME NEW q \in Int, NEW a \in Int, NEW b \in Int
    PROVE  q * (a - b) = q * a - q * b
  OBVIOUS

\* The quotient grows with the dividend.
LEMMA DivMonotone ==
    ASSUME NEW a \in Nat, NEW b \in Nat, NEW d \in Nat \ {0}, a <= b
    PROVE  a \div d <= b \div d
<1>1. PICK p \in Nat : p = a \div d
  BY DivNat
<1>2. PICK q \in Nat : q = b \div d
  BY DivNat
<1>3. PICK r \in 0..(d - 1) : r = a % d
  BY DivNat
<1>4. PICK s \in 0..(d - 1) : s = b % d
  BY DivNat
<1>5. a = d * p + r /\ b = d * q + s
  BY <1>1, <1>2, <1>3, <1>4, DivNat
<1>6. SUFFICES ASSUME q + 1 <= p PROVE FALSE
  BY <1>1, <1>2
<1>7. q * d + d <= p * d
  BY <1>6, LessTimes
<1>8. PICK x \in Nat : x = d * p
  OBVIOUS
<1>9. PICK y \in Nat : y = d * q
  OBVIOUS
<1>10. p * d = x /\ q * d = y
  BY <1>8, <1>9
<1> QED
  BY <1>3, <1>4, <1>5, <1>7, <1>8, <1>9, <1>10

(***************************************************************************)
(* XADPaddedBlockHandle.                                                   *)
(***************************************************************************)
LEMMA PaddedConstants ==
    /\ PadStart \in Nat /\ FileLen \in Nat
    /\ LogicalSize \in Nat \ {0} /\ PhysicalSize \in Nat \ {0} /\ PhysicalSize >= LogicalSize
  BY FileAssumption

\* A place below is in a block, or at its end.
PaddedPlace(pp) == pp >= PadStart /\ (pp - PadStart) % PhysicalSize <= LogicalSize

\* Where byte o of logical block Q lies.
LEMMA LogicalIs ==
    ASSUME NEW Q \in Nat, NEW o \in 0..(LogicalSize - 1)
    PROVE  LogicalToPhysical(Q * LogicalSize + o) = PadStart + (Q * PhysicalSize + o)
<1>0. /\ PadStart \in Nat /\ LogicalSize \in Nat /\ PhysicalSize \in Nat
      /\ PhysicalSize >= LogicalSize
  BY PaddedConstants
<1>1. o \in Nat /\ o < LogicalSize
  BY <1>0
<1>2. PICK y \in Nat : y = Q * LogicalSize
  BY <1>0
<1>3. PICK x \in Nat : x = Q * PhysicalSize
  BY <1>0
<1>4. Q * (PhysicalSize - LogicalSize) = x - y
  BY <1>0, <1>2, <1>3, TimesDifference
<1>5. (y + o) \div LogicalSize = Q
  <2>1. (Q * LogicalSize + o) \div LogicalSize = Q
    BY <1>0, <1>1, Division
  <2> QED
    BY <1>2, <2>1, Zenon
<1>6. LogicalToPhysical(y + o) = (y + o) + PadStart + Q * (PhysicalSize - LogicalSize)
  BY <1>5 DEF LogicalToPhysical
<1>7. LogicalToPhysical(y + o) = (y + o) + PadStart + (x - y)
  BY <1>4, <1>6, Zenon
<1>8. LogicalToPhysical(y + o) = PadStart + (x + o)
  BY <1>0, <1>1, <1>2, <1>3, <1>7
<1> QED
  BY <1>2, <1>3, <1>8, Zenon

\* And which byte lies there; o may be just behind the block's bytes.
LEMMA PhysicalIs ==
    ASSUME NEW Q \in Nat, NEW o \in 0..LogicalSize, NEW pp \in Nat,
           pp = PadStart + (Q * PhysicalSize + o)
    PROVE  PaddedPlace(pp) /\ PhysicalToLogical(pp) = Q * LogicalSize + o
<1>0. /\ PadStart \in Nat /\ LogicalSize \in Nat \ {0} /\ PhysicalSize \in Nat \ {0}
      /\ PhysicalSize >= LogicalSize
  BY PaddedConstants
<1>1. PICK y \in Nat : y = Q * LogicalSize
  BY <1>0
<1>2. PICK x \in Nat : x = Q * PhysicalSize
  BY <1>0
<1>3. pp = PadStart + (x + o) /\ pp - PadStart = x + o /\ o \in Nat
  BY <1>0, <1>2
<1>4. CASE o < PhysicalSize
  <2>1. (x + o) \div PhysicalSize = Q /\ (x + o) % PhysicalSize = o
    <3>1. (Q * PhysicalSize + o) \div PhysicalSize = Q /\ (Q * PhysicalSize + o) % PhysicalSize = o
      BY <1>0, <1>3, <1>4, Division
    <3> QED
      BY <1>2, <3>1, Zenon
  <2>2. PaddedPlace(pp)
    BY <1>0, <1>3, <2>1 DEF PaddedPlace
  <2>3. ~(o > LogicalSize)
    BY <1>0
  <2>4. PhysicalToLogical(pp) = pp - PadStart - Q * (PhysicalSize - LogicalSize)
    BY <1>3, <2>1, <2>3 DEF PhysicalToLogical
  <2>5. Q * (PhysicalSize - LogicalSize) = x - y
    BY <1>0, <1>1, <1>2, TimesDifference
  <2>6. PhysicalToLogical(pp) = pp - PadStart - (x - y)
    BY <2>4, <2>5, Zenon
  <2>7. PhysicalToLogical(pp) = y + o
    BY <1>0, <1>1, <1>2, <1>3, <2>6
  <2> QED
    BY <1>1, <2>2, <2>7, Zenon
<1>5. CASE o = PhysicalSize
  <2>1. o = LogicalSize /\ PhysicalSize = LogicalSize
    BY <1>0, <1>5
  <2>2. x + o = (Q + 1) * PhysicalSize + 0
    <3>1. (Q + 1) * PhysicalSize = Q * PhysicalSize + PhysicalSize
      BY <1>0
    <3> QED
      BY <1>0, <1>2, <1>5, <3>1
  <2>3. (x + o) \div PhysicalSize = Q + 1 /\ (x + o) % PhysicalSize = 0
    <3>1. /\ ((Q + 1) * PhysicalSize + 0) \div PhysicalSize = Q + 1
          /\ ((Q + 1) * PhysicalSize + 0) % PhysicalSize = 0
      <4>1. Q + 1 \in Nat /\ 0 \in Nat /\ 0 < PhysicalSize
        BY <1>0
      <4> QED
        BY <1>0, <4>1, Division
    <3> QED
      BY <2>2, <3>1, Zenon
  <2>4. PaddedPlace(pp)
    BY <1>0, <1>3, <2>3 DEF PaddedPlace
  <2>5. PhysicalToLogical(pp) = pp - PadStart - (Q + 1) * (PhysicalSize - LogicalSize)
    <3>1. PICK u \in Nat : u = 0
      OBVIOUS
    <3>2. ~(u > LogicalSize) /\ (x + o) % PhysicalSize = u
      BY <1>0, <2>3, <3>1
    <3> QED
      BY <1>3, <2>3, <3>2 DEF PhysicalToLogical
  <2>6. (Q + 1) * (PhysicalSize - LogicalSize) = 0
    <3>1. PhysicalSize - LogicalSize = 0
      BY <1>0, <2>1
    <3>2. (Q + 1) * 0 = 0
      OBVIOUS
    <3> QED
      BY <3>1, <3>2, Zenon
  <2>7. PhysicalToLogical(pp) = x + o
    BY <1>0, <1>2, <1>3, <2>5, <2>6
  <2>8. x = y
    BY <1>1, <1>2, <2>1
  <2> QED
    BY <1>1, <2>4, <2>7, <2>8, Zenon
<1> QED
  BY <1>0, <1>4, <1>5

\* A place of the padded handle lies in some block, or just behind its bytes.
LEMMA PaddedPlaceIs ==
    ASSUME NEW pp \in Nat, PaddedPlace(pp)
    PROVE  \E Q \in Nat : \E o \in 0..LogicalSize :
              pp = PadStart + (Q * PhysicalSize + o) /\ o = (pp - PadStart) % PhysicalSize
<1>0. /\ PadStart \in Nat /\ LogicalSize \in Nat \ {0} /\ PhysicalSize \in Nat \ {0}
  BY PaddedConstants
<1>1. PICK z \in Nat : z = pp - PadStart /\ z % PhysicalSize <= LogicalSize
  BY <1>0 DEF PaddedPlace
<1>2. PICK Q \in Nat : Q = z \div PhysicalSize
  BY <1>0, DivNat
<1>3. PICK o \in 0..(PhysicalSize - 1) : o = z % PhysicalSize
  BY <1>0, DivNat
<1>4. z = PhysicalSize * Q + o
  BY <1>0, <1>2, <1>3, DivNat
<1>5. PICK x \in Nat : x = Q * PhysicalSize
  BY <1>0
<1>6. pp = PadStart + (x + o) /\ o \in 0..LogicalSize
  <2>1. PhysicalSize * Q = x
    BY <1>0, <1>5
  <2> QED
    BY <1>0, <1>1, <1>3, <1>4, <2>1
<1>7. o = (pp - PadStart) % PhysicalSize
  BY <1>1, <1>3
<1> QED
  BY <1>5, <1>6, <1>7

\* The offset below of each byte.
LEMMA LogicalPlace ==
    ASSUME NEW p \in Nat
    PROVE  \E Q \in Nat : \E o \in 0..(LogicalSize - 1) :
              /\ p = Q * LogicalSize + o
              /\ LogicalToPhysical(p) = PadStart + (Q * PhysicalSize + o)
              /\ o = p % LogicalSize
<1>0. LogicalSize \in Nat \ {0}
  BY PaddedConstants
<1>1. PICK Q \in Nat : Q = p \div LogicalSize
  BY <1>0, DivNat
<1>2. PICK o \in 0..(LogicalSize - 1) : o = p % LogicalSize
  BY <1>0, DivNat
<1>3. p = Q * LogicalSize + o
  <2>1. p = LogicalSize * Q + o
    BY <1>0, <1>1, <1>2, DivNat
  <2> QED
    BY <1>0, <2>1
<1>4. LogicalToPhysical(Q * LogicalSize + o) = PadStart + (Q * PhysicalSize + o)
  BY LogicalIs
<1> QED
  BY <1>2, <1>3, <1>4

\* The two conversions fit together, and keep the order.
LEMMA LogicalToPhysicalIs ==
    /\ \A p \in Nat : /\ LogicalToPhysical(p) \in Nat
                      /\ PaddedPlace(LogicalToPhysical(p))
                      /\ PhysicalToLogical(LogicalToPhysical(p)) = p
    /\ \A p, q \in Nat : p < q => LogicalToPhysical(p) < LogicalToPhysical(q)
<1>0. /\ PadStart \in Nat /\ LogicalSize \in Nat \ {0} /\ PhysicalSize \in Nat \ {0}
      /\ PhysicalSize >= LogicalSize
  BY PaddedConstants
<1>1. ASSUME NEW p \in Nat
      PROVE  /\ LogicalToPhysical(p) \in Nat
             /\ PaddedPlace(LogicalToPhysical(p))
             /\ PhysicalToLogical(LogicalToPhysical(p)) = p
  <2>1. \E Q \in Nat : \E o \in 0..(LogicalSize - 1) :
              /\ p = Q * LogicalSize + o
              /\ LogicalToPhysical(p) = PadStart + (Q * PhysicalSize + o)
              /\ o = p % LogicalSize
    BY LogicalPlace
  <2>2. PICK Q \in Nat, o \in 0..(LogicalSize - 1) :
              /\ p = Q * LogicalSize + o
              /\ LogicalToPhysical(p) = PadStart + (Q * PhysicalSize + o)
    BY <2>1
  <2>3. PICK x \in Nat : x = Q * PhysicalSize
    BY <1>0
  <2>4. PICK pp \in Nat : pp = LogicalToPhysical(p)
    BY <1>0, <2>2, <2>3
  <2>5. o \in 0..LogicalSize
    BY <1>0
  <2>6. PaddedPlace(pp) /\ PhysicalToLogical(pp) = Q * LogicalSize + o
    BY <2>2, <2>4, <2>5, PhysicalIs
  <2> QED
    BY <2>2, <2>4, <2>6
<1>2. ASSUME NEW p \in Nat, NEW q \in Nat, p < q
      PROVE  LogicalToPhysical(p) < LogicalToPhysical(q)
  <2>1. PICK a \in Nat : a = p \div LogicalSize
    BY <1>0, DivNat
  <2>2. PICK b \in Nat : b = q \div LogicalSize
    BY <1>0, DivNat
  <2>3. a <= b
    BY <1>0, <1>2, <2>1, <2>2, DivMonotone
  <2>4. PICK d \in Nat : d = PhysicalSize - LogicalSize
    BY <1>0
  <2>5. PICK x \in Nat : x = a * d
    OBVIOUS
  <2>6. PICK y \in Nat : y = b * d
    OBVIOUS
  <2>7. x <= y
    <3>1. CASE a = b
      BY <2>5, <2>6, <3>1
    <3>2. CASE a + 1 <= b
      <4>1. a * d + d <= b * d
        BY <3>2, LessTimes
      <4> QED
        BY <2>5, <2>6, <4>1
    <3> QED
      BY <2>3, <3>1, <3>2
  <2>8. LogicalToPhysical(p) = p + PadStart + x
    BY <2>1, <2>4, <2>5 DEF LogicalToPhysical
  <2>9. LogicalToPhysical(q) = q + PadStart + y
    BY <2>2, <2>4, <2>6 DEF LogicalToPhysical
  <2> QED
    BY <1>0, <1>2, <2>7, <2>8, <2>9
<1> QED
  BY <1>1, <1>2

\* Places of one block.
LEMMA LogicalInBlock ==
    ASSUME NEW p \in Nat, NEW i \in Nat, (p % LogicalSize) + i < LogicalSize
    PROVE  LogicalToPhysical(p + i) = LogicalToPhysical(p) + i
<1>0. /\ PadStart \in Nat /\ LogicalSize \in Nat \ {0} /\ PhysicalSize \in Nat
      /\ PhysicalSize >= LogicalSize
  BY PaddedConstants
<1>1. (p + i) \div LogicalSize = p \div LogicalSize
  BY <1>0, InBlock
<1>2. PICK a \in Nat : a = p \div LogicalSize
  BY <1>0, DivNat
<1>3. PICK d \in Nat : d = PhysicalSize - LogicalSize
  BY <1>0
<1>4. PICK x \in Nat : x = a * d
  OBVIOUS
<1>5. LogicalToPhysical(p) = p + PadStart + x
  BY <1>2, <1>3, <1>4 DEF LogicalToPhysical
<1>6. LogicalToPhysical(p + i) = (p + i) + PadStart + x
  BY <1>1, <1>2, <1>3, <1>4 DEF LogicalToPhysical
<1> QED
  BY <1>0, <1>4, <1>5, <1>6

\* The contents of the padded handle: the bytes of the blocks without the
\* padding, as far as the file has them.
LEMMA PaddedContents ==
    \E T \in Nat :
       /\ Contents("padded") = [i \in 1..T |-> LogicalToPhysical(i - 1) + 1]
       /\ \A p \in Nat : p < T <=> LogicalToPhysical(p) < FileLen
<1>0. /\ PadStart \in Nat /\ FileLen \in Nat
      /\ LogicalSize \in Nat \ {0} /\ PhysicalSize \in Nat \ {0} /\ PhysicalSize >= LogicalSize
  BY PaddedConstants
<1>1. PICK A : A = [p \in Nat |-> LogicalToPhysical(p)]
  OBVIOUS
<1>2. A \in [Nat -> Nat] /\ \A p \in Nat : A[p] = LogicalToPhysical(p)
  BY <1>1, LogicalToPhysicalIs
<1>3. \A p, q \in Nat : p < q => A[p] < A[q]
  BY <1>2, LogicalToPhysicalIs
<1>4. PICK S : S = {b \in Nat : \E p \in Nat : b = A[p] + 1 /\ A[p] < FileLen}
  OBVIOUS
<1>5. PICK T \in Nat : /\ \A p \in Nat : p < T <=> A[p] < FileLen
                       /\ InOrder(S) = [i \in 1..T |-> A[i - 1] + 1]
  <2>1. A \in [Nat -> Nat]
    BY <1>2
  <2> QED
    BY <1>0, <1>3, <1>4, <2>1, InOrderIs, Zenon
<1>6. ASSUME NEW b \in S
      PROVE  b \in 1..FileLen /\ Belongs("padded", b)
  <2>1. PICK p \in Nat : b = A[p] + 1 /\ A[p] < FileLen
    BY <1>4
  <2>2. \E Q \in Nat : \E o \in 0..(LogicalSize - 1) :
              /\ p = Q * LogicalSize + o
              /\ LogicalToPhysical(p) = PadStart + (Q * PhysicalSize + o)
              /\ o = p % LogicalSize
    BY LogicalPlace
  <2>3. PICK Q \in Nat, o \in 0..(LogicalSize - 1) :
              LogicalToPhysical(p) = PadStart + (Q * PhysicalSize + o)
    BY <2>2
  <2>4. PICK x \in Nat : x = Q * PhysicalSize
    BY <1>0
  <2>5. b = PadStart + x + o + 1 /\ b \in 1..FileLen
    <3>1. A[p] = PadStart + (x + o)
      BY <1>2, <2>3, <2>4
    <3> QED
      BY <1>0, <2>1, <3>1
  <2>6. (x + o) % PhysicalSize = o
    <3>1. o \in Nat /\ o < PhysicalSize
      BY <1>0
    <3>2. (Q * PhysicalSize + o) % PhysicalSize = o
      BY <1>0, <3>1, Division
    <3> QED
      BY <2>4, <3>2, Zenon
  <2>7. b - 1 - PadStart = x + o
    BY <1>0, <2>5
  <2>8. b > PadStart
    BY <1>0, <2>5
  <2>9. (b - 1 - PadStart) % PhysicalSize < LogicalSize
    BY <1>0, <2>6, <2>7
  <2> QED
    BY <2>5, <2>8, <2>9 DEF Belongs
<1>7. ASSUME NEW b \in 1..FileLen, Belongs("padded", b)
      PROVE  b \in S
  <2>1. b > PadStart /\ (b - 1 - PadStart) % PhysicalSize < LogicalSize
    BY <1>7 DEF Belongs
  <2>2. PICK pp \in Nat : pp = b - 1
    BY <1>0
  <2>3. PaddedPlace(pp)
    <3>1. pp >= PadStart /\ pp - PadStart = b - 1 - PadStart /\ pp - PadStart \in Nat
      BY <1>0, <2>1, <2>2
    <3>2. (pp - PadStart) % PhysicalSize \in Int
      BY <1>0, <3>1, DivNat
    <3> QED
      BY <1>0, <2>1, <3>1, <3>2 DEF PaddedPlace
  <2>4. \E Q \in Nat : \E o \in 0..LogicalSize :
              pp = PadStart + (Q * PhysicalSize + o) /\ o = (pp - PadStart) % PhysicalSize
    BY <2>3, PaddedPlaceIs
  <2>5. PICK Q \in Nat, o \in 0..LogicalSize :
              pp = PadStart + (Q * PhysicalSize + o) /\ o = (pp - PadStart) % PhysicalSize
    BY <2>4
  <2>6. o < LogicalSize
    <3>1. pp - PadStart = b - 1 - PadStart
      BY <2>2
    <3> QED
      BY <2>1, <2>5, <3>1
  <2>7. o \in 0..(LogicalSize - 1)
    BY <1>0, <2>6
  <2>8. LogicalToPhysical(Q * LogicalSize + o) = pp
    BY <2>5, <2>7, LogicalIs
  <2>9. PICK p \in Nat : p = Q * LogicalSize + o
    BY <1>0, <2>7
  <2>10. A[p] = pp
    BY <1>2, <2>8, <2>9
  <2>11. b = A[p] + 1 /\ A[p] < FileLen /\ b \in Nat
    BY <1>0, <2>2, <2>10
  <2> QED
    BY <1>4, <2>11
<1>8. S = {b \in 1..FileLen : Belongs("padded", b)}
  BY <1>6, <1>7
<1>9. Contents("padded") = InOrder({b \in 1..FileLen : Belongs("padded", b)})
  BY DEF Contents
<1>10. [i \in 1..T |-> A[i - 1] + 1] = [i \in 1..T |-> LogicalToPhysical(i - 1) + 1]
  <2>1. \A i \in 1..T : A[i - 1] = LogicalToPhysical(i - 1)
    BY <1>2
  <2> QED
    BY <2>1
<1>11. Contents("padded") = [i \in 1..T |-> LogicalToPhysical(i - 1) + 1]
  BY <1>5, <1>8, <1>9, <1>10
<1>12. \A p \in Nat : p < T <=> LogicalToPhysical(p) < FileLen
  BY <1>2, <1>5
<1> QED
  BY <1>11, <1>12

\* The contents of a handle that gives the bytes before FileLen, of which At
\* tells the place.
IsAt(Z, T, At) ==
    /\ Z \in Seq(Nat \ {0}) /\ Len(Z) = T
    /\ At \in [Nat -> Nat]
    /\ \A i \in 1..T : Z[i] = At[i - 1] + 1
    /\ \A p \in Nat : p < T <=> At[p] < FileLen

\* What FileBytes gives there is a part of them, as far as the places lie
\* together.
Together(At, c, k) == \A i \in 0..(k - 1) : At[c + i] = At[c] + i

BytesArePart(Z, T, at, c, k, m) ==
    /\ FileBytes(at, k) = Part(Z, c, m) /\ Len(FileBytes(at, k)) = m
    /\ m > 0 => c + m <= T
    /\ c < T => m > 0
    /\ m < k => at + m >= FileLen

\* Bytes that lie together in the file are a part of the contents.
LEMMA FileBytesArePart ==
    ASSUME NEW Z, NEW T \in Nat, NEW At, IsAt(Z, T, At),
           NEW c \in Nat, NEW k \in Nat \ {0}, Together(At, c, k)
    PROVE  \E m \in 0..k : BytesArePart(Z, T, At[c], c, k, m)
<1>0. FileLen \in Nat /\ k \in Nat
  BY FileAssumption
<1>1. /\ Len(Z) = T /\ \A p \in Nat : At[p] \in Nat
      /\ \A i \in 1..T : Z[i] = At[i - 1] + 1
      /\ \A p \in Nat : p < T <=> At[p] < FileLen
  BY DEF IsAt
<1>2. PICK a \in Nat : a = At[c]
  BY <1>1
<1>3. PICK m \in 0..k :
         /\ m = Readable(FileLen, a, k)
         /\ FileBytes(a, k) = [i \in 1..m |-> a + i]
         /\ Len(FileBytes(a, k)) = m
         /\ m > 0 => a + m <= FileLen
         /\ m < k => a + m >= FileLen
  <2>1. \E m \in 0..k :
         /\ m = Readable(FileLen, a, k)
         /\ FileBytes(a, k) = [i \in 1..m |-> a + i]
         /\ Len(FileBytes(a, k)) = m
         /\ FileBytes(a, k) \in Seq(Nat)
         /\ m > 0 => a + m <= FileLen
         /\ m < k => a + m >= FileLen
    BY <1>0, FileBytesAre, ZenonT(30)
  <2> QED
    BY <2>1
<1>4. m > 0 => c + m <= T
  <2> SUFFICES ASSUME m > 0 PROVE c + m <= T
    OBVIOUS
  <2>1. m - 1 \in 0..(k - 1)
    BY <1>0
  <2>2. At[c + (m - 1)] = a + (m - 1)
    BY <1>2, <2>1 DEF Together
  <2>3. c + (m - 1) \in Nat /\ a + (m - 1) < FileLen
    BY <1>0, <1>3
  <2>4. c + (m - 1) < T
    BY <1>1, <2>2, <2>3
  <2> QED
    BY <2>4
<1>5. \A i \in 1..m : Z[c + i] = a + i
  <2> TAKE i \in 1..m
  <2>1. c + i \in 1..T /\ (c + i) - 1 = c + (i - 1) /\ i - 1 \in 0..(k - 1)
    BY <1>0, <1>4
  <2>2. Z[c + i] = At[(c + i) - 1] + 1
    BY <1>1, <2>1
  <2>3. At[c + (i - 1)] = a + (i - 1)
    BY <1>2, <2>1 DEF Together
  <2> QED
    BY <2>1, <2>2, <2>3
<1>6. FileBytes(a, k) = Part(Z, c, m)
  BY <1>3, <1>5 DEF Part
<1>7. c < T => m > 0
  <2> SUFFICES ASSUME c < T PROVE m > 0
    OBVIOUS
  <2>1. a < FileLen
    BY <1>1, <1>2
  <2> QED
    BY <1>0, <1>3, <2>1 DEF Readable, Least
<1> QED
  BY <1>2, <1>3, <1>4, <1>6, <1>7 DEF BytesArePart

PaddedAt == [p \in Nat |-> LogicalToPhysical(p)]

\* The padded handle's bytes lie where PaddedAt says.
LEMMA PaddedIsAt == IsAt(Contents("padded"), Len(Contents("padded")), PaddedAt)
<1>1. PICK T \in Nat :
         /\ Contents("padded") = [i \in 1..T |-> LogicalToPhysical(i - 1) + 1]
         /\ \A p \in Nat : p < T <=> LogicalToPhysical(p) < FileLen
  BY PaddedContents
<1>2. PICK Z : Z = Contents("padded")
  OBVIOUS
<1>3. \A p \in Nat : PaddedAt[p] = LogicalToPhysical(p) /\ PaddedAt[p] \in Nat
  BY LogicalToPhysicalIs DEF PaddedAt
<1>4. PaddedAt \in [Nat -> Nat]
  BY <1>3 DEF PaddedAt
<1>5. \A i \in 1..T : i - 1 \in Nat /\ LogicalToPhysical(i - 1) + 1 \in Nat \ {0}
  <2> TAKE i \in 1..T
  <2>1. i - 1 \in Nat
    OBVIOUS
  <2>2. LogicalToPhysical(i - 1) \in Nat
    BY <2>1, LogicalToPhysicalIs
  <2> QED
    BY <2>1, <2>2
<1>6. Z \in [1..T -> Nat \ {0}] /\ \A i \in 1..T : Z[i] = LogicalToPhysical(i - 1) + 1
  BY <1>1, <1>2, <1>5
<1>7. Z \in Seq(Nat \ {0}) /\ Len(Z) = T
  BY <1>6, FunctionIsSeq
<1>8. \A i \in 1..T : Z[i] = PaddedAt[i - 1] + 1
  BY <1>3, <1>5, <1>6
<1>9. \A p \in Nat : p < T <=> PaddedAt[p] < FileLen
  BY <1>1, <1>3
<1> QED
  BY <1>2, <1>4, <1>7, <1>8, <1>9 DEF IsAt

\* A read on its way, from P on, of w bytes.
PaddedReading(P, w) ==
    {r \in [pp : Nat, curr : Nat, want : Nat, data : Seq(Nat \ {0})] :
        /\ PaddedPlace(r.pp) /\ PhysicalToLogical(r.pp) = P + Len(r.data)
        /\ Len(r.data) + r.want = w
        /\ r.data = Part(Contents("padded"), P, Len(r.data))
        /\ Len(r.data) > 0 => P + Len(r.data) <= Len(Contents("padded"))}

PaddedDone(P, r) == r.want = 0 \/ P + Len(r.data) >= Len(Contents("padded"))

\* Where the next byte is read: at the start of the next block behind one.
LEMMA PaddedNext ==
    ASSUME NEW pp \in Nat, PaddedPlace(pp), NEW c \in Nat, PhysicalToLogical(pp) = c,
           NEW offset, offset = (pp - PadStart) % PhysicalSize
    PROVE  \E Q \in Nat : \E o \in 0..(LogicalSize - 1) :
              /\ c = Q * LogicalSize + o
              /\ (IF offset >= LogicalSize THEN pp + PhysicalSize - offset ELSE pp)
                    = PadStart + (Q * PhysicalSize + o)
              /\ (IF offset >= LogicalSize THEN LogicalSize ELSE LogicalSize - offset)
                    = LogicalSize - o
<1>0. /\ PadStart \in Nat /\ LogicalSize \in Nat \ {0} /\ PhysicalSize \in Nat \ {0}
      /\ PhysicalSize >= LogicalSize
  BY PaddedConstants
<1>1. \E Q \in Nat : \E o \in 0..LogicalSize :
              pp = PadStart + (Q * PhysicalSize + o) /\ o = (pp - PadStart) % PhysicalSize
  BY PaddedPlaceIs
<1>2. PICK Q \in Nat, o \in 0..LogicalSize :
              pp = PadStart + (Q * PhysicalSize + o) /\ o = (pp - PadStart) % PhysicalSize
  BY <1>1
<1>3. c = Q * LogicalSize + o
  BY <1>2, PhysicalIs
<1>4. offset = o /\ o \in Nat
  BY <1>0, <1>2
<1>5. CASE o < LogicalSize
  <2>1. o \in 0..(LogicalSize - 1) /\ ~(offset >= LogicalSize)
    BY <1>0, <1>4, <1>5
  <2> QED
    BY <1>2, <1>3, <1>4, <2>1
<1>6. CASE o = LogicalSize
  <2>1. offset >= LogicalSize
    BY <1>0, <1>4, <1>6
  <2>2. PICK x \in Nat : x = Q * PhysicalSize
    BY <1>0
  <2>3. PICK y \in Nat : y = Q * LogicalSize
    BY <1>0
  <2>4. (Q + 1) * PhysicalSize = x + PhysicalSize /\ (Q + 1) * LogicalSize = y + LogicalSize
    BY <1>0, <2>2, <2>3
  <2>5. c = (Q + 1) * LogicalSize + 0
    BY <1>0, <1>3, <1>6, <2>3, <2>4
  <2>6. pp + PhysicalSize - offset = PadStart + ((Q + 1) * PhysicalSize + 0)
    BY <1>0, <1>2, <1>4, <2>2, <2>4
  <2>7. 0 \in 0..(LogicalSize - 1) /\ LogicalSize = LogicalSize - 0 /\ Q + 1 \in Nat
    BY <1>0
  <2> QED
    BY <2>1, <2>5, <2>6, <2>7
<1> QED
  BY <1>0, <1>5, <1>6

\* A round of the read loop reads bytes of the contents and wants fewer, or
\* is the last.
LEMMA PaddedRoundKeeps ==
    ASSUME NEW P \in Nat, NEW w \in Nat, NEW r \in PaddedReading(P, w)
    PROVE  /\ PaddedRound(r) \in PaddedReading(P, w)
           /\ PaddedDone(P, r) => PaddedDone(P, PaddedRound(r))
           /\ ~PaddedDone(P, r) => PaddedRound(r).want < r.want
<1>0. /\ PadStart \in Nat /\ LogicalSize \in Nat \ {0} /\ PhysicalSize \in Nat \ {0}
      /\ PhysicalSize >= LogicalSize
  BY PaddedConstants
<1>1. PICK Z : Z = Contents("padded")
  OBVIOUS
<1>2. Z \in Seq(Nat \ {0}) /\ IsAt(Z, Len(Z), PaddedAt)
  BY <1>1, PaddedIsAt DEF IsAt
<1>3. PICK T \in Nat : T = Len(Z)
  BY <1>2, LenProperties
<1>4. /\ r \in [pp : Nat, curr : Nat, want : Nat, data : Seq(Nat \ {0})]
      /\ PaddedPlace(r.pp) /\ PhysicalToLogical(r.pp) = P + Len(r.data)
      /\ Len(r.data) + r.want = w
      /\ r.data = Part(Z, P, Len(r.data))
      /\ Len(r.data) > 0 => P + Len(r.data) <= T
  BY <1>1, <1>3 DEF PaddedReading
<1>5. PICK pp \in Nat : pp = r.pp
  BY <1>4
<1>6. PICK curr \in Nat : curr = r.curr
  BY <1>4
<1>7. PICK want \in Nat : want = r.want
  BY <1>4
<1>8. PICK d \in Seq(Nat \ {0}) : d = r.data
  BY <1>4
<1>9. PICK a \in Nat : a = Len(d)
  BY LenProperties
<1>10. r = [pp |-> pp, curr |-> curr, want |-> want, data |-> d]
  BY <1>4, <1>5, <1>6, <1>7, <1>8
<1>11. CASE want = 0
  <2>1. PaddedRound(r) = r
    BY <1>7, <1>11 DEF PaddedRound
  <2>2. PaddedDone(P, r)
    BY <1>7, <1>11 DEF PaddedDone
  <2> QED
    BY <2>1, <2>2
<1>12. CASE want # 0
  <2>1. PICK c \in Nat : c = P + a
    OBVIOUS
  <2>2. PICK offset : offset = (pp - PadStart) % PhysicalSize
    OBVIOUS
  <2>3. PaddedPlace(pp) /\ PhysicalToLogical(pp) = c
    BY <1>4, <1>5, <1>8, <1>9, <2>1
  <2>4. PICK Q \in Nat, o \in 0..(LogicalSize - 1) :
              /\ c = Q * LogicalSize + o
              /\ (IF offset >= LogicalSize THEN pp + PhysicalSize - offset ELSE pp)
                    = PadStart + (Q * PhysicalSize + o)
              /\ (IF offset >= LogicalSize THEN LogicalSize ELSE LogicalSize - offset)
                    = LogicalSize - o
    <3>1. \E Q \in Nat : \E o \in 0..(LogicalSize - 1) :
              /\ c = Q * LogicalSize + o
              /\ (IF offset >= LogicalSize THEN pp + PhysicalSize - offset ELSE pp)
                    = PadStart + (Q * PhysicalSize + o)
              /\ (IF offset >= LogicalSize THEN LogicalSize ELSE LogicalSize - offset)
                    = LogicalSize - o
      BY <2>2, <2>3, PaddedNext
    <3> QED
      BY <3>1
  <2>5. o \in Nat /\ o < LogicalSize
    BY <1>0, <2>4
  <2>6. PICK at \in Nat : at = PadStart + (Q * PhysicalSize + o)
    BY <1>0, <2>4, <2>5
  <2>7. PaddedAt[c] = at
    <3>1. LogicalToPhysical(Q * LogicalSize + o) = PadStart + (Q * PhysicalSize + o)
      BY <2>4, LogicalIs
    <3>2. PaddedAt[c] = LogicalToPhysical(c)
      BY <2>1 DEF PaddedAt
    <3> QED
      BY <2>4, <2>6, <3>1, <3>2, Zenon
  <2>8. PICK k \in Nat : k = Least(LogicalSize - o, want)
    BY <1>0, <1>7, <2>4, <2>5 DEF Least
  <2>9. k \in Nat \ {0} /\ k <= want /\ k <= LogicalSize - o
    BY <1>0, <1>12, <2>5, <2>8 DEF Least
  <2>10. Together(PaddedAt, c, k)
    <3> SUFFICES \A i \in 0..(k - 1) : PaddedAt[c + i] = PaddedAt[c] + i
      BY DEF Together
    <3> TAKE i \in 0..(k - 1)
    <3>1. c % LogicalSize = o
      <4>1. (Q * LogicalSize + o) % LogicalSize = o
        BY <1>0, <2>4, <2>5, Division
      <4> QED
        BY <2>4, <4>1
    <3>2. i \in Nat /\ (c % LogicalSize) + i < LogicalSize
      BY <1>0, <2>5, <2>9, <3>1
    <3>3. LogicalToPhysical(c + i) = LogicalToPhysical(c) + i
      BY <3>2, LogicalInBlock
    <3>4. c + i \in Nat
      BY <3>2
    <3> QED
      BY <3>3, <3>4 DEF PaddedAt
  <2>11. PICK m \in 0..k :
              /\ FileBytes(at, k) = Part(Z, c, m) /\ Len(FileBytes(at, k)) = m
              /\ m > 0 => c + m <= T
              /\ c < T => m > 0
    <3>1. IsAt(Z, T, PaddedAt) /\ k \in Nat \ {0}
      BY <1>2, <1>3, <2>9
    <3>2. \E m \in 0..k : BytesArePart(Z, T, PaddedAt[c], c, k, m)
      BY <1>3, <2>1, <2>10, <3>1, FileBytesArePart, ZenonT(30)
    <3> QED
      BY <2>7, <3>2 DEF BytesArePart
  <2>12. m \in Nat /\ m <= want /\ m <= LogicalSize - o
    BY <1>0, <1>7, <2>5, <2>9, <2>11
  <2>13. PICK e : e = FileBytes(at, k)
    OBVIOUS
  <2>14. e = Part(Z, P + a, m) /\ Len(e) = m
    BY <2>1, <2>11, <2>13
  <2>15. PICK x : x = d \o e
    OBVIOUS
  <2>16. Within(Nat \ {0}, Z, P, a + m)
    <3>1. a + m > 0 => P + (a + m) <= T
      BY <1>4, <1>8, <1>9, <2>1, <2>11, <2>12, SMTT(30)
    <3>2. \A i \in 1..(a + m) : P + i \in 1..T
      BY <2>12, <3>1
    <3>3. \A i \in 1..T : Z[i] \in Nat \ {0}
      BY <1>2, <1>3, ElementOfSeq
    <3> QED
      BY <3>2, <3>3 DEF Within
  <2>17. x = Part(Z, P, a + m)
    <3>1. PartsJoin(Z, P, a, m)
      BY <2>12, <2>16, PartMore
    <3>2. Part(Z, P, a) \o Part(Z, P + a, m) = Part(Z, P, a + m)
      BY <3>1 DEF PartsJoin
    <3>3. d = Part(Z, P, a)
      BY <1>4, <1>8, <1>9
    <3> QED
      BY <2>14, <2>15, <3>2, <3>3, Zenon
  <2>18. x \in Seq(Nat \ {0}) /\ Len(x) = a + m
    <3>1. IsPart(Nat \ {0}, Z, P, a + m, x)
      BY <2>12, <2>16, <2>17, PartType
    <3> QED
      BY <3>1 DEF IsPart
  <2>19. PaddedRound(r) = [pp |-> at + m, curr |-> curr, want |-> want - m, data |-> x]
    <3>1. r.pp = pp /\ r.curr = curr /\ r.want = want /\ r.data = d
      BY <1>10
    <3>2. PICK pos0 : pos0 = IF offset >= LogicalSize THEN pp + PhysicalSize - offset ELSE pp
      OBVIOUS
    <3>3. PICK room : room = IF offset >= LogicalSize THEN LogicalSize ELSE LogicalSize - offset
      OBVIOUS
    <3>4. pos0 = at /\ room = LogicalSize - o
      BY <2>4, <2>6, <3>2, <3>3, Zenon
    <3>5. FileBytes(pos0, Least(room, want)) = e
      BY <2>8, <2>13, <3>4, Zenon
    <3>6. PaddedRound(r) = [r EXCEPT !.pp = pos0 + Len(e), !.want = want - Len(e), !.data = d \o e]
      BY <1>12, <2>2, <3>1, <3>2, <3>3, <3>5 DEF PaddedRound
    <3>7. PaddedRound(r) = [r EXCEPT !.pp = at + m, !.want = want - m, !.data = x]
      BY <2>14, <2>15, <3>4, <3>6, Zenon
    <3> QED
      BY <1>10, <3>7
  <2>20. PICK s : s = PaddedRound(r)
    OBVIOUS
  <2>21. s.pp = at + m /\ s.curr = curr /\ s.want = want - m /\ s.data = x
    BY <2>19, <2>20
  <2>22. s \in [pp : Nat, curr : Nat, want : Nat, data : Seq(Nat \ {0})]
    <3>1. at + m \in Nat /\ want - m \in Nat
      BY <2>12
    <3> QED
      BY <2>18, <2>19, <2>20, <3>1
  <2>23. PaddedPlace(s.pp) /\ PhysicalToLogical(s.pp) = P + (a + m)
    <3>1. PICK o2 \in 0..LogicalSize : o2 = o + m
      BY <1>0, <2>5, <2>12
    <3>2. PICK u \in Nat : u = Q * PhysicalSize
      BY <1>0
    <3>3. at + m = PadStart + (Q * PhysicalSize + o2) /\ at + m \in Nat
      BY <1>0, <2>5, <2>6, <2>12, <3>1, <3>2
    <3>4. PaddedPlace(at + m) /\ PhysicalToLogical(at + m) = Q * LogicalSize + o2
      BY <3>3, PhysicalIs
    <3>5. PICK v \in Nat : v = Q * LogicalSize
      BY <1>0
    <3>6. Q * LogicalSize + o2 = P + (a + m)
      <4>1. c = v + o
        BY <2>4, <3>5, Zenon
      <4>2. v + o2 = P + (a + m)
        BY <1>9, <2>1, <2>5, <2>12, <3>1, <3>5, <4>1, SMTT(30)
      <4> QED
        BY <3>5, <4>2, Zenon
    <3> QED
      BY <2>21, <3>4, <3>6
  <2>24. Len(s.data) + s.want = w /\ s.data = Part(Z, P, Len(s.data))
    <3>1. a + want = w
      BY <1>4, <1>7, <1>8, <1>9
    <3>2. (a + m) + (want - m) = w
      BY <2>12, <3>1
    <3> QED
      BY <2>17, <2>18, <2>21, <3>2
  <2>25. a + m > 0 => P + (a + m) <= T
    BY <1>4, <1>8, <1>9, <2>1, <2>11, <2>12, SMTT(30)
  <2>26. s \in PaddedReading(P, w)
    BY <1>1, <1>3, <2>18, <2>21, <2>22, <2>23, <2>24, <2>25 DEF PaddedReading
  <2>27. PaddedDone(P, r) => PaddedDone(P, s)
    <3>1. PaddedDone(P, r) => P + a >= T
      BY <1>1, <1>3, <1>7, <1>8, <1>9, <1>12 DEF PaddedDone
    <3>2. P + a >= T => P + (a + m) >= T
      BY <2>12
    <3> QED
      BY <1>1, <1>3, <2>18, <2>21, <3>1, <3>2 DEF PaddedDone
  <2>28. ~PaddedDone(P, r) => s.want < want
    <3>1. ~PaddedDone(P, r) => P + a < T
      BY <1>1, <1>3, <1>8, <1>9 DEF PaddedDone
    <3> QED
      BY <2>1, <2>11, <2>12, <2>21, <3>1
  <2> QED
    BY <1>7, <2>20, <2>26, <2>27, <2>28
<1> QED
  BY <1>11, <1>12

\* A loop whose every round does what is left of the work or some of it has
\* done it after as many rounds as there was work.
Works(g, n, Over, W) ==
    \A k \in 1..n : IF g[k - 1] \in Over THEN g[k] \in Over ELSE W[g[k]] < W[g[k - 1]]

\* A loop whose work shrinks with every round is over after as many rounds.
LEMMA LoopEnds ==
    ASSUME NEW S, NEW n \in Nat, NEW g \in [0..n -> S], NEW Over, NEW W \in [S -> Nat],
           Works(g, n, Over, W), W[g[0]] <= n, \A s \in S : W[s] = 0 => s \in Over
    PROVE  g[n] \in Over
<1> DEFINE V == {k \in 0..n : g[k] \in Over \/ W[g[k]] <= n - k}
<1>1. 0 \in V
  OBVIOUS
<1>2. \A k \in 0..(n - 1) : k \in V => k + 1 \in V
  <2> SUFFICES ASSUME NEW k \in 0..(n - 1), k \in V
               PROVE  g[k + 1] \in Over \/ W[g[k + 1]] <= n - (k + 1)
    OBVIOUS
  <2>1. k + 1 \in 1..n /\ (k + 1) - 1 = k /\ k \in 0..n /\ k + 1 \in 0..n
    OBVIOUS
  <2>2. IF g[k] \in Over THEN g[k + 1] \in Over ELSE W[g[k + 1]] < W[g[k]]
    <3>1. IF g[(k + 1) - 1] \in Over THEN g[k + 1] \in Over ELSE W[g[k + 1]] < W[g[(k + 1) - 1]]
      BY <2>1 DEF Works
    <3> QED
      BY <2>1, <3>1, Zenon
  <2>3. PICK x \in Nat : x = W[g[k]]
    BY <2>1
  <2>4. PICK y \in Nat : y = W[g[k + 1]]
    BY <2>1
  <2> QED
    BY <2>2, <2>3, <2>4
<1>3. \A k \in 0..n : k \in V
  <2> HIDE DEF V
  <2> QED
    BY <1>1, <1>2, UpTo
<1>4. n \in 0..n /\ g[n] \in S /\ W[g[n]] \in Nat
  OBVIOUS
<1>5. g[n] \in Over \/ W[g[n]] <= n - n
  BY <1>3, <1>4
<1>6. W[g[n]] <= n - n => W[g[n]] = 0
  BY <1>4
<1> QED
  BY <1>4, <1>5, <1>6

\* readAtMost: reads what there is.
LEMMA PaddedReadReads ==
    ASSUME NEW h, Good("padded", h), NEW n \in Nat \ {0}
    PROVE  Reads("padded", h, n, ReadAtMost("padded", h, n))
<1>1. PICK Z : Z = Contents("padded")
  OBVIOUS
<1>2. Z \in Seq(Nat \ {0}) /\ IsAt(Z, Len(Z), PaddedAt)
  BY <1>1, PaddedIsAt DEF IsAt
<1>3. PICK T \in Nat : T = Len(Z)
  BY <1>2, LenProperties
<1>4. h \in [pp : Nat, curr : Nat] /\ PaddedPlace(h.pp)
  BY DEF Good, PaddedPlace
<1>5. PICK P \in Nat : P = PhysicalToLogical(h.pp)
  <2>1. PICK pp \in Nat : pp = h.pp
    BY <1>4
  <2>2. \E Q \in Nat : \E o \in 0..LogicalSize :
              pp = PadStart + (Q * PhysicalSize + o) /\ o = (pp - PadStart) % PhysicalSize
    BY <1>4, <2>1, PaddedPlaceIs
  <2>3. PICK Q \in Nat, o \in 0..LogicalSize : pp = PadStart + (Q * PhysicalSize + o)
    BY <2>2
  <2>4. PhysicalToLogical(pp) = Q * LogicalSize + o
    BY <2>1, <2>3, PhysicalIs
  <2>5. LogicalSize \in Nat
    BY PaddedConstants
  <2>6. Q * LogicalSize + o \in Nat
    BY <2>3, <2>5
  <2> QED
    BY <2>1, <2>4, <2>6
<1>6. PICK S : S = PaddedReading(P, n)
  OBVIOUS
<1>7. PICK a : a = Begun(h, n)
  OBVIOUS
<1>8. a \in S /\ a.want = n
  <2>1. a = [pp |-> h.pp, curr |-> h.curr, want |-> n, data |-> <<>>]
    BY <1>7 DEF Begun
  <2>2. <<>> \in Seq(Nat \ {0}) /\ Len(<<>>) = 0
    BY EmptySeq
  <2>3. a \in [pp : Nat, curr : Nat, want : Nat, data : Seq(Nat \ {0})]
    BY <1>4, <2>1, <2>2
  <2>4. a.data = <<>> /\ Len(a.data) = 0 /\ a.want = n /\ a.pp = h.pp
    BY <2>1, <2>2
  <2>5. a.data = Part(Z, P, Len(a.data))
    BY <2>4, PartNone
  <2>6. PhysicalToLogical(a.pp) = P + Len(a.data) /\ Len(a.data) + a.want = n
    BY <1>5, <2>4
  <2> QED
    BY <1>1, <1>4, <1>6, <2>3, <2>4, <2>5, <2>6 DEF PaddedReading
<1>9. \A s \in S : /\ PaddedRound(s) \in S
                   /\ PaddedDone(P, s) => PaddedDone(P, PaddedRound(s))
                   /\ ~PaddedDone(P, s) => PaddedRound(s).want < s.want
  BY <1>6, PaddedRoundKeeps
<1>10. PICK g \in [0..n -> S] : PaddedRoundStates(a, n, g)
  <2>1. \A s \in S : PaddedRound(s) \in S
    BY <1>9
  <2>2. n \in Nat
    OBVIOUS
  <2> QED
    BY <1>8, <2>1, <2>2, PaddedRoundLoops
<1>11. /\ g[0] = a /\ \A k \in 1..n : g[k] = PaddedRound(g[k - 1])
       /\ PaddedRounds(a, n) = g[n]
  BY <1>10 DEF PaddedRoundStates
<1>12. PICK Over : Over = {s \in S : PaddedDone(P, s)}
  OBVIOUS
<1>13. PICK W : W = [s \in S |-> s.want]
  OBVIOUS
<1>14. W \in [S -> Nat] /\ \A s \in S : W[s] = s.want /\ s.want \in Nat
  BY <1>6, <1>13 DEF PaddedReading
<1>15. Works(g, n, Over, W)
  <2>1. ASSUME NEW k \in 1..n
        PROVE  IF g[k - 1] \in Over THEN g[k] \in Over ELSE W[g[k]] < W[g[k - 1]]
    <3>1. k - 1 \in 0..n /\ k \in 0..n
      OBVIOUS
    <3>2. g[k] = PaddedRound(g[k - 1]) /\ g[k - 1] \in S /\ g[k] \in S
      BY <1>11, <3>1
    <3> QED
      BY <1>9, <1>12, <1>14, <3>2
  <2> QED
    BY <2>1 DEF Works
<1>16. PICK e : e = g[n]
  OBVIOUS
<1>17. e \in S /\ PaddedDone(P, e)
  <2>1. W[g[0]] <= n
    BY <1>8, <1>11, <1>14
  <2>2. \A s \in S : W[s] = 0 => s \in Over
    BY <1>12, <1>14 DEF PaddedDone
  <2>3. n \in Nat
    OBVIOUS
  <2>4. W \in [S -> Nat]
    BY <1>14
  <2>5. g[n] \in Over
    BY <1>10, <1>15, <2>1, <2>2, <2>3, <2>4, LoopEnds
  <2> QED
    BY <1>12, <1>16, <2>5
<1>18. /\ e \in [pp : Nat, curr : Nat, want : Nat, data : Seq(Nat \ {0})]
       /\ PaddedPlace(e.pp) /\ PhysicalToLogical(e.pp) = P + Len(e.data)
       /\ Len(e.data) + e.want = n
       /\ e.data = Part(Z, P, Len(e.data))
       /\ Len(e.data) > 0 => P + Len(e.data) <= T
  BY <1>1, <1>3, <1>6, <1>17 DEF PaddedReading
<1>19. PICK m \in Nat : m = Len(e.data)
  BY <1>18, LenProperties
<1>20. m = Readable(T, P, n)
  <2>1. m = n \/ P + m >= T
    BY <1>1, <1>3, <1>17, <1>18, <1>19 DEF PaddedDone
  <2>2. m <= n /\ (m > 0 => P + m <= T)
    BY <1>18, <1>19
  <2> QED
    BY <2>1, <2>2 DEF Readable, Least
<1>21. PICK r : r = ReadAtMost("padded", h, n)
  OBVIOUS
<1>22. r = [ok |-> TRUE, h |-> [pp |-> e.pp, curr |-> e.curr], data |-> e.data]
  <2>1. ReadAtMost("padded", h, n) = PaddedRead(h, n)
    BY DEF ReadAtMost
  <2>2. PaddedRead(h, n) = Ended(PaddedRounds(a, n))
    BY <1>7 DEF PaddedRead, PaddedRounds
  <2> QED
    BY <1>11, <1>16, <1>21, <2>1, <2>2 DEF Ended, Returns
<1>23. r.h \in [pp : Nat, curr : Nat] /\ r.h.pp = e.pp
  BY <1>18, <1>22
<1>24. Good("padded", r.h)
  BY <1>18, <1>23 DEF Good, PaddedPlace
<1>25. OffsetInFile("padded", r.h) = P + m /\ OffsetInFile("padded", h) = P
  BY <1>5, <1>18, <1>19, <1>23 DEF OffsetInFile
<1>26. r.ok /\ r.data = Part(Z, P, m)
  BY <1>18, <1>19, <1>22
<1> QED
  BY <1>1, <1>3, <1>20, <1>21, <1>24, <1>25, <1>26 DEF Reads

\* XADPaddedBlockHandle keeps the promise.
THEOREM PaddedPromise == Promise("padded")
<1>0. /\ PadStart \in Nat /\ LogicalSize \in Nat \ {0} /\ PhysicalSize \in Nat \ {0}
  BY PaddedConstants
<1>1. Contents("padded") \in Seq(Nat \ {0})
  BY PaddedIsAt DEF IsAt
<1>2. Good("padded", Opened("padded"))
  <2>1. Opened("padded") = [pp |-> PadStart, curr |-> 0]
    BY DEF Opened
  <2>2. PICK u \in Nat : u = 0
    OBVIOUS
  <2>3. u < PhysicalSize
    BY <1>0, <2>2
  <2>4. u % PhysicalSize = u
    BY <1>0, <2>3, SmallDiv
  <2>5. PadStart - PadStart = u
    BY <1>0, <2>2
  <2>6. (PadStart - PadStart) % PhysicalSize <= LogicalSize
    BY <1>0, <2>2, <2>4, <2>5
  <2> QED
    BY <1>0, <2>1, <2>6 DEF Good
<1>3. ASSUME NEW h, Good("padded", h)
      PROVE  /\ OffsetInFile("padded", h) \in Nat
             /\ \A offs \in Nat : Seeks("padded", offs, SeekToFileOffset("padded", h, offs))
  <2>1. h \in [pp : Nat, curr : Nat] /\ PaddedPlace(h.pp)
    BY <1>3 DEF Good, PaddedPlace
  <2>2. OffsetInFile("padded", h) \in Nat
    <3>1. PICK pp \in Nat : pp = h.pp
      BY <2>1
    <3>2. \E Q \in Nat : \E o \in 0..LogicalSize :
              pp = PadStart + (Q * PhysicalSize + o) /\ o = (pp - PadStart) % PhysicalSize
      BY <2>1, <3>1, PaddedPlaceIs
    <3>3. PICK Q \in Nat, o \in 0..LogicalSize : pp = PadStart + (Q * PhysicalSize + o)
      BY <3>2
    <3>4. PhysicalToLogical(pp) = Q * LogicalSize + o
      BY <3>1, <3>3, PhysicalIs
    <3>5. Q * LogicalSize + o \in Nat
      BY <1>0, <3>3
    <3> QED
      BY <3>1, <3>4, <3>5 DEF OffsetInFile
  <2>3. ASSUME NEW offs \in Nat
        PROVE  Seeks("padded", offs, SeekToFileOffset("padded", h, offs))
    <3>1. PICK r : r = SeekToFileOffset("padded", h, offs)
      OBVIOUS
    <3>2. r = Returns([h EXCEPT !.pp = LogicalToPhysical(offs)], <<>>)
      BY <3>1 DEF SeekToFileOffset, PaddedSeek
    <3>3. PICK at \in Nat : at = LogicalToPhysical(offs)
      BY LogicalToPhysicalIs
    <3>4. PaddedPlace(at) /\ PhysicalToLogical(at) = offs
      BY <3>3, LogicalToPhysicalIs
    <3>5. r.ok /\ r.h \in [pp : Nat, curr : Nat] /\ r.h.pp = at
      BY <2>1, <3>2, <3>3 DEF Returns
    <3>6. Good("padded", r.h) /\ OffsetInFile("padded", r.h) = offs
      BY <3>4, <3>5 DEF Good, PaddedPlace, OffsetInFile
    <3> QED
      BY <3>1, <3>5, <3>6 DEF Seeks
  <2> QED
    BY <2>2, <2>3
<1> QED
  BY <1>1, <1>2, <1>3, PaddedReadReads DEF Promise

(***************************************************************************)
(* CSSegmentedHandle.                                                      *)
(***************************************************************************)
Segments == Len(SegmentSizes)

\* The types of the segments.
LEMMA SegmentConstants ==
    /\ SegmentSizes \in Seq(Nat) /\ Segments \in Nat /\ Segments > 1
    /\ LastSegment = Segments - 1
    /\ \A i \in 0..LastSegment : SegmentSizes[i + 1] \in Nat
<1>1. SegmentSizes \in Seq(Nat) /\ Segments \in Nat /\ Segments > 1
  BY FileAssumption, LenProperties DEF Segments
<1>2. LastSegment = Segments - 1
  BY DEF LastSegment, Segments
<1>3. \A i \in 0..LastSegment : SegmentSizes[i + 1] \in Nat
  <2> TAKE i \in 0..LastSegment
  <2>1. i + 1 \in 1..Segments
    BY <1>1, <1>2
  <2> QED
    BY <1>1, <2>1, ElementOfSeq DEF Segments
<1> QED
  BY <1>1, <1>2, <1>3

\* The places the segments start at.
StartsAt(G) ==
    /\ \A i \in 0..Segments : SegmentStart(i) = G[i]
    /\ G[0] = 0
    /\ \A i \in 0..(Segments - 1) : G[i + 1] = G[i] + SegmentSizes[i + 1]

\* Where each segment begins: behind those before it.
LEMMA SegmentStarts == \E G \in [0..Segments -> Nat] : StartsAt(G)
<1>0. Segments \in Nat /\ Segments > 1 /\ \A i \in 1..Segments : SegmentSizes[i] \in Nat
  <2>1. \A i \in 1..Segments : SegmentSizes[i] \in Nat
    BY SegmentConstants, ElementOfSeq DEF Segments
  <2> QED
    BY <2>1, SegmentConstants
<1>1. PICK S : S = [segments : Nat, total : Nat]
  OBVIOUS
<1>2. PICK a : a = [segments |-> 0, total |-> 0]
  OBVIOUS
<1>3. ASSUME NEW n \in 0..Segments
      PROVE  \E g \in [0..n -> S] :
                /\ g[0] = a /\ \A k \in 1..n : g[k] = AddSegment(g[k - 1])
                /\ \A k \in 0..n : g[k].segments = k
                /\ AddSegments(a, n) = g[n]
  <2>1. PICK D : D = [k \in 0..n |-> {s \in S : s.segments = k}]
    OBVIOUS
  <2>2. D \in [0..n -> SUBSET S] /\ n \in Nat
    BY <1>0, <2>1
  <2>3. a \in D[0]
    BY <1>1, <1>2, <2>1, <2>2
  <2>4. \A k \in 1..n : \A s \in D[k - 1] : AddSegment(s) \in D[k]
    <3> SUFFICES ASSUME NEW k \in 1..n, NEW s \in D[k - 1]
                 PROVE  AddSegment(s) \in D[k]
      OBVIOUS
    <3>1. k - 1 \in 0..n /\ k \in 0..n /\ k \in 1..Segments /\ (k - 1) + 1 = k
      BY <1>0
    <3>2. s \in S /\ s.segments = k - 1
      BY <2>1, <3>1
    <3>3. s.total \in Nat /\ SegmentSizes[k] \in Nat
      BY <1>0, <1>1, <3>1, <3>2
    <3>4. AddSegment(s) = [segments |-> k, total |-> s.total + SegmentSizes[k]]
      BY <3>1, <3>2 DEF AddSegment
    <3>5. AddSegment(s) \in S /\ AddSegment(s).segments = k
      BY <1>1, <3>1, <3>3, <3>4
    <3> QED
      BY <2>1, <3>1, <3>5
  <2>5. PICK g \in [0..n -> S] : AddSegmentStates(D, a, n, g)
    BY <2>2, <2>3, <2>4, AddSegmentLoops
  <2>6. /\ \A k \in 0..n : g[k] \in D[k]
        /\ g[0] = a /\ \A k \in 1..n : g[k] = AddSegment(g[k - 1])
        /\ AddSegments(a, n) = g[n]
    BY <2>5 DEF AddSegmentStates
  <2>7. \A k \in 0..n : g[k].segments = k
    BY <2>1, <2>6
  <2> QED
    BY <2>6, <2>7
<1>4. PICK g \in [0..Segments -> S] :
         /\ g[0] = a /\ \A k \in 1..Segments : g[k] = AddSegment(g[k - 1])
         /\ \A k \in 0..Segments : g[k].segments = k
  <2>1. Segments \in 0..Segments
    BY <1>0
  <2> QED
    BY <1>3, <2>1
<1>5. ASSUME NEW n \in 0..Segments
      PROVE  AddSegments(a, n) = g[n]
  <2>1. PICK f \in [0..n -> S] :
           /\ f[0] = a /\ \A k \in 1..n : f[k] = AddSegment(f[k - 1])
           /\ AddSegments(a, n) = f[n]
    BY <1>3
  <2> DEFINE V == {k \in 0..n : f[k] = g[k]}
  <2>2. 0 \in V
    BY <1>0, <1>4, <2>1
  <2>3. \A k \in 0..(n - 1) : k \in V => k + 1 \in V
    <3> TAKE k \in 0..(n - 1)
    <3>1. /\ k + 1 \in 1..n /\ (k + 1) - 1 = k /\ k + 1 \in 0..n
          /\ k + 1 \in 1..Segments
      BY <1>0
    <3>2. f[k + 1] = AddSegment(f[k])
      BY <2>1, <3>1
    <3>3. g[k + 1] = AddSegment(g[k])
      BY <1>4, <3>1
    <3> QED
      BY <3>1, <3>2, <3>3
  <2>4. \A k \in 0..n : k \in V
    <3>1. n \in Nat
      BY <1>0
    <3> HIDE DEF V
    <3> QED
      BY <2>2, <2>3, <3>1, UpTo
  <2>5. n \in 0..n
    BY <1>0
  <2> QED
    BY <2>1, <2>4, <2>5
<1>6. PICK G : G = [k \in 0..Segments |-> g[k].total]
  OBVIOUS
<1>7. \A k \in 0..Segments : G[k] = g[k].total /\ g[k].total \in Nat
  BY <1>1, <1>4, <1>6
<1>8. G \in [0..Segments -> Nat]
  BY <1>6, <1>7
<1>9. \A i \in 0..Segments : SegmentStart(i) = G[i]
  <2> TAKE i \in 0..Segments
  <2>1. SegmentStart(i) = AddSegments(a, i).total
    BY <1>2 DEF SegmentStart, AddSegments
  <2> QED
    BY <1>5, <1>7, <2>1
<1>10. G[0] = 0
  BY <1>0, <1>2, <1>4, <1>7
<1>11. \A i \in 0..(Segments - 1) : G[i + 1] = G[i] + SegmentSizes[i + 1]
  <2> TAKE i \in 0..(Segments - 1)
  <2>1. i + 1 \in 1..Segments /\ (i + 1) - 1 = i /\ i \in 0..Segments /\ i + 1 \in 0..Segments
    BY <1>0
  <2>2. g[i + 1] = AddSegment(g[i]) /\ g[i].segments = i
    BY <1>4, <2>1
  <2>3. g[i + 1].total = g[i].total + SegmentSizes[i + 1]
    BY <2>2 DEF AddSegment
  <2> QED
    BY <1>7, <2>1, <2>3
<1> QED
  BY <1>8, <1>9, <1>10, <1>11 DEF StartsAt

\* A later segment begins no earlier.
LEMMA StartsGrow ==
    ASSUME NEW G \in [0..Segments -> Nat], StartsAt(G), NEW i \in 0..Segments, NEW j \in 0..i
    PROVE  G[j] <= G[i]
<1>0. Segments \in Nat /\ \A k \in 0..(Segments - 1) : SegmentSizes[k + 1] \in Nat
  BY SegmentConstants
<1> DEFINE V == {k \in 0..i : j <= k => G[j] <= G[k]}
<1>1. 0 \in V
  BY <1>0
<1>2. \A k \in 0..(i - 1) : k \in V => k + 1 \in V
  <2> SUFFICES ASSUME NEW k \in 0..(i - 1), k \in V, j <= k + 1
               PROVE  G[j] <= G[k + 1]
    BY <1>0
  <2>1. G[k + 1] = G[k] + SegmentSizes[k + 1] /\ SegmentSizes[k + 1] \in Nat
    <3>1. k \in 0..(Segments - 1)
      BY <1>0
    <3> QED
      BY <1>0, <3>1 DEF StartsAt
  <2>2. G[k] \in Nat /\ G[j] \in Nat /\ j \in Nat /\ k \in Nat
    BY <1>0
  <2>3. j = k + 1 \/ G[j] <= G[k]
    BY <2>2
  <2> QED
    BY <2>1, <2>2, <2>3
<1>3. \A k \in 0..i : k \in V
  <2>1. i \in Nat
    BY <1>0
  <2> HIDE DEF V
  <2> QED
    BY <1>1, <1>2, <2>1, UpTo
<1>4. i \in 0..i /\ j <= i
  BY <1>0
<1> QED
  BY <1>3, <1>4

\* The contents of the segmented handle: the segments, one behind the other.
LEMMA MultiContents ==
    ASSUME NEW G \in [0..Segments -> Nat], StartsAt(G)
    PROVE  /\ Contents("multi") \in Seq(Nat \ {0}) /\ Len(Contents("multi")) = G[Segments]
           /\ \A i \in 1..G[Segments] : Contents("multi")[i] = i
<1>0. Segments \in Nat /\ LastSegment + 1 = Segments
  BY SegmentConstants
<1>1. PICK T \in Nat : T = G[Segments]
  BY <1>0
<1>2. PICK Z : Z = Contents("multi")
  OBVIOUS
<1>3. SegmentEnd(LastSegment) = T
  BY <1>0, <1>1 DEF SegmentEnd, StartsAt
<1>4. Z = [i \in 1..T |-> i]
  BY <1>2, <1>3 DEF Contents
<1>5. Z \in [1..T -> Nat \ {0}]
  BY <1>4
<1>6. Z \in Seq(Nat \ {0}) /\ Len(Z) = T
  BY <1>5, FunctionIsSeq
<1>7. \A i \in 1..T : Z[i] = i
  BY <1>4
<1> QED
  BY <1>1, <1>2, <1>6, <1>7

\* A read on its way, from P on, of w bytes.
MultiPlace(G, r, p) ==
    /\ r.curr <= LastSegment /\ r.pp <= SegmentSizes[r.curr + 1] /\ G[r.curr] + r.pp = p

MultiReading(G, P, w) ==
    {r \in [pp : Nat, curr : Nat, want : Nat, data : Seq(Nat \ {0})] :
        /\ MultiPlace(G, r, P + Len(r.data))
        /\ Len(r.data) + r.want = w
        /\ r.data = Part(Contents("multi"), P, Len(r.data))}

MultiOver(r) ==
    r.want = 0 \/ (r.curr = LastSegment /\ r.pp = SegmentSizes[r.curr + 1])

\* A round of the read loop reads bytes of the contents, and the loop is over
\* or in the next segment.
LEMMA MultiRoundKeeps ==
    ASSUME NEW G \in [0..Segments -> Nat], StartsAt(G),
           NEW P \in Nat, NEW w \in Nat, NEW r \in MultiReading(G, P, w)
    PROVE  /\ MultiRound(r) \in MultiReading(G, P, w)
           /\ IF MultiOver(r) \/ r.curr = LastSegment THEN MultiOver(MultiRound(r))
              ELSE MultiOver(MultiRound(r)) \/ MultiRound(r).curr = r.curr + 1
<1>0. /\ Segments \in Nat /\ Segments > 1 /\ LastSegment = Segments - 1
      /\ \A i \in 0..LastSegment : SegmentSizes[i + 1] \in Nat
  BY SegmentConstants
<1>1. PICK Z : Z = Contents("multi")
  OBVIOUS
<1>2. PICK T \in Nat : T = G[Segments]
  BY <1>0
<1>3. Z \in Seq(Nat \ {0}) /\ Len(Z) = T /\ \A i \in 1..T : Z[i] = i
  BY <1>1, <1>2, MultiContents
<1>4. /\ r \in [pp : Nat, curr : Nat, want : Nat, data : Seq(Nat \ {0})]
      /\ r.curr <= LastSegment /\ r.pp <= SegmentSizes[r.curr + 1]
      /\ G[r.curr] + r.pp = P + Len(r.data)
      /\ Len(r.data) + r.want = w
      /\ r.data = Part(Z, P, Len(r.data))
  BY <1>1 DEF MultiReading, MultiPlace
<1>5. PICK pp \in Nat : pp = r.pp
  BY <1>4
<1>6. PICK curr \in 0..LastSegment : curr = r.curr
  BY <1>0, <1>4
<1>7. PICK want \in Nat : want = r.want
  BY <1>4
<1>8. PICK d \in Seq(Nat \ {0}) : d = r.data
  BY <1>4
<1>9. PICK a \in Nat : a = Len(d)
  BY LenProperties
<1>10. r = [pp |-> pp, curr |-> curr, want |-> want, data |-> d]
  BY <1>4, <1>5, <1>6, <1>7, <1>8
<1>11. PICK size \in Nat : size = SegmentSizes[curr + 1]
  BY <1>0, <1>6
<1>12. curr \in 0..Segments /\ curr + 1 \in 0..Segments /\ curr \in 0..(Segments - 1) /\ curr \in Nat
  BY <1>0, <1>6, SMTT(30)
<1>13. PICK start \in Nat : start = G[curr]
  BY <1>12
<1>14. G[curr + 1] = start + size
  BY <1>11, <1>12, <1>13 DEF StartsAt
<1>15. start + size <= T
  <2>1. Segments \in 0..Segments /\ curr + 1 \in 0..Segments
    BY <1>0, <1>12
  <2>2. G[curr + 1] <= G[Segments]
    BY <2>1, StartsGrow
  <2> QED
    BY <1>2, <1>14, <2>2
<1>t. pp \in Nat /\ want \in Nat /\ a \in Nat /\ size \in Nat /\ start \in Nat /\ T \in Nat
  BY <1>2, <1>5, <1>7, <1>9, <1>11, <1>13
<1>16. pp <= size /\ start + pp = P + a /\ a + want = w
  BY <1>4, <1>5, <1>6, <1>7, <1>8, <1>9, <1>11, <1>13
<1>d. d = Part(Z, P, a)
  BY <1>4, <1>8, <1>9
<1>17. PICK m \in Nat : m = Least(want, size - pp)
  <2>1. size - pp \in Nat
    BY <1>t, <1>16
  <2>2. Least(want, size - pp) \in Nat
    BY <1>t, <2>1 DEF Least
  <2> QED
    BY <2>2
<1>m. m \in Nat
  BY <1>17
<1>18. m <= want /\ pp + m <= size /\ (m = want \/ pp + m = size)
  BY <1>t, <1>16, <1>17 DEF Least
<1>19. PICK e : e = SegmentBytes(curr, pp, want)
  OBVIOUS
<1>20. e = Part(Z, P + a, m) /\ Len(e) = m
  <2>1. SegmentStart(curr) = start
    BY <1>12, <1>13 DEF StartsAt
  <2>2. e = [k \in 1..m |-> start + pp + k]
    BY <1>11, <1>17, <1>19, <2>1 DEF SegmentBytes
  <2>3. \A k \in 1..m : Z[(P + a) + k] = start + pp + k
    <3> TAKE k \in 1..m
    <3>1. start + pp + k = (P + a) + k /\ (P + a) + k \in 1..T
      BY <1>t, <1>m, <1>15, <1>16, <1>18
    <3>2. Z[(P + a) + k] = (P + a) + k
      BY <1>3, <3>1
    <3> QED
      BY <3>1, <3>2
  <2>4. e = Part(Z, P + a, m)
    BY <2>2, <2>3 DEF Part
  <2>5. e \in [1..m -> Nat]
    BY <1>t, <1>m, <2>2
  <2>6. Len(e) = m
    BY <1>17, <2>5, FunctionIsSeq
  <2> QED
    BY <2>4, <2>6
<1>21. PICK x : x = d \o e
  OBVIOUS
<1>22. Within(Nat \ {0}, Z, P, a + m)
  <2>1. \A i \in 1..(a + m) : P + i \in 1..T
    BY <1>t, <1>m, <1>15, <1>16, <1>18
  <2>2. \A i \in 1..T : Z[i] \in Nat \ {0}
    BY <1>3, ElementOfSeq
  <2> QED
    BY <2>1, <2>2 DEF Within
<1>23. x = Part(Z, P, a + m)
  <2>1. PartsJoin(Z, P, a, m)
    BY <1>9, <1>17, <1>22, PartMore
  <2>2. Part(Z, P, a) \o Part(Z, P + a, m) = Part(Z, P, a + m)
    BY <2>1 DEF PartsJoin
  <2> QED
    BY <1>d, <1>20, <1>21, <2>2, Zenon
<1>24. x \in Seq(Nat \ {0}) /\ Len(x) = a + m
  <2>1. a + m \in Nat
    BY <1>9, <1>17
  <2>2. IsPart(Nat \ {0}, Z, P, a + m, x)
    BY <1>22, <1>23, <2>1, PartType
  <2> QED
    BY <2>2 DEF IsPart
<1>25. PICK next : next = [pp |-> pp + m, curr |-> curr, want |-> want - m, data |-> x]
  OBVIOUS
<1>26. MultiRound(r) = IF want - m = 0 \/ curr = LastSegment THEN next
                       ELSE [pp |-> 0, curr |-> curr + 1, want |-> want - m, data |-> x]
  <2>1. r.pp = pp /\ r.curr = curr /\ r.want = want /\ r.data = d
    BY <1>10
  <2>2. next = [r EXCEPT !.pp = pp + Len(e), !.want = want - Len(e), !.data = d \o e]
    <3>1. next = [r EXCEPT !.pp = pp + m, !.want = want - m, !.data = x]
      <4>1. [r EXCEPT !.pp = pp + m, !.want = want - m, !.data = x]
               = [pp |-> pp + m, curr |-> curr, want |-> want - m, data |-> x]
        <5>1. PICK q : q = [r EXCEPT !.pp = pp + m, !.want = want - m, !.data = x]
          OBVIOUS
        <5>2. q = [pp |-> pp + m, curr |-> curr, want |-> want - m, data |-> x]
          BY <1>10, <5>1
        <5> QED
          BY <5>1, <5>2, Zenon
      <4> QED
        BY <1>25, <4>1, Zenon
    <3>2. [r EXCEPT !.pp = pp + m, !.want = want - m, !.data = x]
             = [r EXCEPT !.pp = pp + Len(e), !.want = want - Len(e), !.data = d \o e]
      BY <1>20, <1>21, Zenon
    <3> QED
      BY <3>1, <3>2, Zenon
  <2>3. MultiRound(r) = IF next.want = 0 \/ curr = LastSegment THEN next
                        ELSE [next EXCEPT !.pp = 0, !.curr = @ + 1]
    <3>1. SegmentBytes(r.curr, r.pp, r.want) = e
      BY <1>19, <2>1
    <3>2. next = [r EXCEPT !.pp = r.pp + Len(e), !.want = r.want - Len(e), !.data = r.data \o e]
      BY <2>1, <2>2, Zenon
    <3> QED
      BY <2>1, <3>1, <3>2 DEF MultiRound
  <2>4. next.want = want - m /\ [next EXCEPT !.pp = 0, !.curr = @ + 1]
            = [pp |-> 0, curr |-> curr + 1, want |-> want - m, data |-> x]
    <3>1. PICK q : q = [next EXCEPT !.pp = 0, !.curr = @ + 1]
      OBVIOUS
    <3>2. q = [pp |-> 0, curr |-> curr + 1, want |-> want - m, data |-> x]
      BY <1>25, <3>1
    <3>3. next.want = want - m
      BY <1>25
    <3> QED
      BY <3>1, <3>2, <3>3, Zenon
  <2>5. (IF next.want = 0 \/ curr = LastSegment THEN next
         ELSE [next EXCEPT !.pp = 0, !.curr = @ + 1])
        = IF want - m = 0 \/ curr = LastSegment THEN next
          ELSE [pp |-> 0, curr |-> curr + 1, want |-> want - m, data |-> x]
    BY <2>4, Zenon
  <2> QED
    BY <2>3, <2>5, Zenon
<1>27. PICK s : s = MultiRound(r)
  OBVIOUS
<1>28. (a + m) + (want - m) = w /\ start + (pp + m) = P + (a + m) /\ want - m \in Nat
  BY <1>t, <1>m, <1>16, <1>18
<1>29. CASE want - m = 0 \/ curr = LastSegment
  <2>1. s = next
    BY <1>26, <1>27, <1>29
  <2>2. s.pp = pp + m /\ s.curr = curr /\ s.want = want - m /\ s.data = x
    BY <1>25, <2>1
  <2>3. s \in [pp : Nat, curr : Nat, want : Nat, data : Seq(Nat \ {0})]
    <3>1. pp + m \in Nat
      BY <1>5, <1>17
    <3> QED
      BY <1>12, <1>24, <1>25, <1>28, <2>1, <3>1
  <2>4. MultiPlace(G, s, P + Len(s.data))
    <3>1. s.curr <= LastSegment
      BY <1>4, <1>6, <2>2
    <3> QED
      BY <1>11, <1>13, <1>18, <1>24, <1>28, <2>2, <3>1 DEF MultiPlace
  <2>5. Len(s.data) + s.want = w /\ s.data = Part(Z, P, Len(s.data))
    BY <1>23, <1>24, <1>28, <2>2
  <2>6. s \in MultiReading(G, P, w)
    BY <1>1, <2>3, <2>4, <2>5 DEF MultiReading
  <2>7. MultiOver(s)
    <3>1. CASE m = want
      <4>1. want - m = 0
        BY <1>7, <3>1
      <4> QED
        BY <2>2, <4>1 DEF MultiOver
    <3>2. CASE m # want
      <4>1. pp + m = size /\ ~(want - m = 0)
        BY <1>7, <1>17, <1>18, <3>2
      <4>2. curr = LastSegment
        BY <1>29, <4>1
      <4> QED
        BY <1>11, <2>2, <4>1, <4>2 DEF MultiOver
    <3> QED
      BY <3>1, <3>2
  <2> QED
    BY <1>27, <2>6, <2>7
<1>30. CASE ~(want - m = 0 \/ curr = LastSegment)
  <2>1. s = [pp |-> 0, curr |-> curr + 1, want |-> want - m, data |-> x]
    BY <1>26, <1>27, <1>30
  <2>2. s.pp = 0 /\ s.curr = curr + 1 /\ s.want = want - m /\ s.data = x
    BY <2>1
  <2>3. s \in [pp : Nat, curr : Nat, want : Nat, data : Seq(Nat \ {0})]
    <3>1. curr + 1 \in Nat
      BY <1>12
    <3> QED
      BY <1>24, <1>28, <2>1, <3>1
  <2>4. pp + m = size
    <3>1. m # want
      BY <1>t, <1>30
    <3> QED
      BY <1>18, <3>1
  <2>5. curr + 1 \in 0..LastSegment
    BY <1>0, <1>6, <1>30
  <2>6. MultiPlace(G, s, P + Len(s.data))
    <3>1. SegmentSizes[s.curr + 1] \in Nat /\ s.curr <= LastSegment
      <4>1. PICK i \in 0..LastSegment : i = curr + 1
        BY <2>5
      <4>2. SegmentSizes[i + 1] \in Nat /\ i <= LastSegment
        BY <1>0, <4>1, SMTT(30)
      <4> QED
        BY <2>2, <4>1, <4>2
    <3>2. 0 <= SegmentSizes[s.curr + 1]
      BY <3>1
    <3>3. G[s.curr] + s.pp = P + (a + m)
      <4>1. G[s.curr] = start + size
        BY <1>14, <2>2
      <4> QED
        BY <1>11, <1>13, <1>28, <2>2, <2>4, <4>1
    <3> QED
      BY <1>24, <2>2, <3>1, <3>2, <3>3 DEF MultiPlace
  <2>7. Len(s.data) + s.want = w /\ s.data = Part(Z, P, Len(s.data))
    BY <1>23, <1>24, <1>28, <2>2
  <2>8. s \in MultiReading(G, P, w)
    BY <1>1, <2>3, <2>6, <2>7 DEF MultiReading
  <2>9. ~(MultiOver(r) \/ r.curr = LastSegment)
    <3>1. want # 0
      BY <1>7, <1>17, <1>18, <1>30
    <3> QED
      BY <1>6, <1>7, <1>30, <3>1 DEF MultiOver
  <2> QED
    BY <1>6, <1>27, <2>2, <2>8, <2>9
<1> QED
  BY <1>29, <1>30

\* readAtMost: reads what there is.
LEMMA MultiReadReads ==
    ASSUME NEW G \in [0..Segments -> Nat], StartsAt(G),
           NEW h, Good("multi", h), NEW n \in Nat \ {0}
    PROVE  Reads("multi", h, n, ReadAtMost("multi", h, n))
<1>0. /\ Segments \in Nat /\ Segments > 1 /\ LastSegment = Segments - 1
      /\ \A i \in 0..LastSegment : SegmentSizes[i + 1] \in Nat
  BY SegmentConstants
<1>1. PICK Z : Z = Contents("multi")
  OBVIOUS
<1>2. PICK T \in Nat : T = G[Segments]
  BY <1>0
<1>3. Len(Z) = T
  BY <1>1, <1>2, MultiContents
<1>4. h \in [pp : Nat, curr : Nat] /\ h.curr <= LastSegment /\ h.pp <= SegmentSizes[h.curr + 1]
  BY DEF Good
<1>5. h.curr \in 0..LastSegment /\ h.curr \in 0..Segments
  BY <1>0, <1>4
<1>6. PICK P \in Nat : P = G[h.curr] + h.pp /\ OffsetInFile("multi", h) = P
  <2>1. SegmentStart(h.curr) = G[h.curr] /\ G[h.curr] \in Nat
    BY <1>5 DEF StartsAt
  <2>2. G[h.curr] + h.pp \in Nat
    BY <1>4, <2>1
  <2>3. OffsetInFile("multi", h) = G[h.curr] + h.pp
    BY <2>1 DEF OffsetInFile
  <2> QED
    BY <2>2, <2>3
<1>7. PICK S : S = MultiReading(G, P, n)
  OBVIOUS
<1>8. PICK a : a = Begun(h, n)
  OBVIOUS
<1>9. a \in S
  <2>1. a = [pp |-> h.pp, curr |-> h.curr, want |-> n, data |-> <<>>]
    BY <1>8 DEF Begun
  <2>2. <<>> \in Seq(Nat \ {0}) /\ Len(<<>>) = 0
    BY EmptySeq
  <2>3. a \in [pp : Nat, curr : Nat, want : Nat, data : Seq(Nat \ {0})]
    BY <1>4, <2>1, <2>2
  <2>4. a.data = <<>> /\ Len(a.data) = 0 /\ a.want = n /\ a.pp = h.pp /\ a.curr = h.curr
    BY <2>1, <2>2
  <2>5. a.data = Part(Z, P, Len(a.data))
    BY <2>4, PartNone
  <2>6. MultiPlace(G, a, P + Len(a.data))
    BY <1>4, <1>6, <2>4 DEF MultiPlace
  <2>7. Len(a.data) + a.want = n
    BY <2>4
  <2> QED
    BY <1>1, <1>7, <2>3, <2>5, <2>6, <2>7 DEF MultiReading
<1>10. \A s \in S : /\ MultiRound(s) \in S
                    /\ IF MultiOver(s) \/ s.curr = LastSegment THEN MultiOver(MultiRound(s))
                       ELSE MultiOver(MultiRound(s)) \/ MultiRound(s).curr = s.curr + 1
  BY <1>7, MultiRoundKeeps
<1>11. PICK g \in [0..Segments -> S] : MultiRoundStates(a, Segments, g)
  <2>1. \A s \in S : MultiRound(s) \in S
    BY <1>10
  <2> QED
    BY <1>0, <1>9, <2>1, MultiRoundLoops
<1>12. /\ g[0] = a /\ \A k \in 1..Segments : g[k] = MultiRound(g[k - 1])
       /\ MultiRounds(a, Segments) = g[Segments]
  BY <1>11 DEF MultiRoundStates
<1>13. PICK Over : Over = {s \in S : MultiOver(s)}
  OBVIOUS
<1>14. PICK W : W = [s \in S |-> IF MultiOver(s) THEN 0 ELSE Segments - s.curr]
  OBVIOUS
<1>15. \A s \in S : /\ s.curr \in 0..LastSegment
                    /\ W[s] = IF MultiOver(s) THEN 0 ELSE Segments - s.curr
  BY <1>0, <1>7, <1>14 DEF MultiReading, MultiPlace
<1>16. W \in [S -> Nat] /\ \A s \in S : W[s] <= Segments /\ (W[s] = 0 => s \in Over)
  <2>1. ASSUME NEW s \in S
        PROVE  W[s] \in Nat /\ W[s] <= Segments /\ (W[s] = 0 => s \in Over)
    <3>1. PICK c \in 0..LastSegment : c = s.curr
      BY <1>15
    <3>2. Segments - c \in Nat /\ Segments - c <= Segments /\ Segments - c # 0
      BY <1>0, <3>1
    <3>3. W[s] = IF MultiOver(s) THEN 0 ELSE Segments - c
      BY <1>15, <3>1
    <3>4. CASE MultiOver(s)
      BY <1>0, <1>13, <3>3, <3>4
    <3>5. CASE ~MultiOver(s)
      BY <3>2, <3>3, <3>5
    <3> QED
      BY <3>4, <3>5
  <2> QED
    BY <1>14, <2>1
<1>17. Works(g, Segments, Over, W)
  <2>1. ASSUME NEW k \in 1..Segments
        PROVE  IF g[k - 1] \in Over THEN g[k] \in Over ELSE W[g[k]] < W[g[k - 1]]
    <3>1. k - 1 \in 0..Segments /\ k \in 0..Segments
      BY <1>0
    <3>2. PICK s \in S : s = g[k - 1]
      BY <3>1
    <3>3. PICK t \in S : t = g[k]
      BY <3>1
    <3>4. t = MultiRound(s)
      BY <1>12, <3>1, <3>2, <3>3
    <3>5. IF MultiOver(s) \/ s.curr = LastSegment THEN MultiOver(t)
          ELSE MultiOver(t) \/ t.curr = s.curr + 1
      BY <1>10, <3>4
    <3>6. ASSUME ~MultiOver(s) PROVE W[t] < W[s]
      <4>1. PICK c \in 0..LastSegment : c = s.curr
        BY <1>15
      <4>2. W[s] = Segments - c
        BY <1>15, <3>6, <4>1
      <4>3. CASE MultiOver(t)
        <5>1. W[t] = 0
          BY <1>15, <4>3
        <5> QED
          BY <1>0, <4>1, <4>2, <5>1
      <4>4. CASE ~MultiOver(t)
        <5>1. W[t] = Segments - (c + 1)
          BY <1>15, <3>5, <3>6, <4>1, <4>4
        <5> QED
          BY <1>0, <4>1, <4>2, <5>1
      <4> QED
        BY <4>3, <4>4
    <3> QED
      BY <1>13, <3>2, <3>3, <3>5, <3>6
  <2> QED
    BY <2>1 DEF Works
<1>18. PICK e : e = g[Segments]
  OBVIOUS
<1>19. e \in S /\ MultiOver(e)
  <2>1. W[g[0]] <= Segments
    BY <1>9, <1>12, <1>16
  <2>2. \A s \in S : W[s] = 0 => s \in Over
    BY <1>16
  <2>3. W \in [S -> Nat]
    BY <1>16
  <2>4. g[Segments] \in Over
    BY <1>0, <1>11, <1>17, <2>1, <2>2, <2>3, LoopEnds
  <2> QED
    BY <1>13, <1>18, <2>4
<1>20. /\ e \in [pp : Nat, curr : Nat, want : Nat, data : Seq(Nat \ {0})]
       /\ e.curr <= LastSegment /\ e.pp <= SegmentSizes[e.curr + 1]
       /\ G[e.curr] + e.pp = P + Len(e.data)
       /\ Len(e.data) + e.want = n
       /\ e.data = Part(Z, P, Len(e.data))
  BY <1>1, <1>7, <1>19 DEF MultiReading, MultiPlace
<1>21. PICK m \in Nat : m = Len(e.data)
  BY <1>20, LenProperties
<1>22. m = Readable(T, P, n)
  <2>1. PICK c \in 0..LastSegment : c = e.curr
    BY <1>0, <1>20
  <2>2. PICK size \in Nat : size = SegmentSizes[c + 1]
    BY <1>0, <2>1
  <2>3. c \in 0..(Segments - 1) /\ c \in 0..Segments /\ c + 1 \in 0..Segments
    BY <1>0, <2>1
  <2>4. PICK start \in Nat : start = G[c]
    BY <2>3
  <2>5. G[c + 1] = start + size
    BY <2>2, <2>3, <2>4 DEF StartsAt
  <2>6. PICK x \in Nat : x = G[c + 1]
    BY <2>3
  <2>7. x <= T
    <3>1. Segments \in 0..Segments
      BY <1>0
    <3> QED
      BY <1>2, <2>3, <2>6, <3>1, StartsGrow
  <2>8. PICK pp \in Nat : pp = e.pp
    BY <1>20
  <2>9. pp <= size /\ start + pp = P + m
    BY <1>20, <1>21, <2>1, <2>2, <2>4, <2>8
  <2>10. m <= n /\ P + m <= T
    <3>1. P + m <= T
      BY <2>2, <2>4, <2>5, <2>6, <2>7, <2>8, <2>9
    <3> QED
      BY <1>20, <1>21, <3>1
  <2>11. m = n \/ P + m = T
    <3>1. CASE e.want = 0
      BY <1>20, <1>21, <3>1
    <3>2. CASE e.curr = LastSegment /\ e.pp = SegmentSizes[e.curr + 1]
      <4>1. c + 1 = Segments /\ pp = size
        BY <1>0, <2>1, <2>2, <2>8, <3>2
      <4>2. x = T
        BY <1>2, <2>6, <4>1
      <4> QED
        BY <2>4, <2>5, <2>6, <2>9, <4>1, <4>2
    <3> QED
      BY <1>19, <3>1, <3>2 DEF MultiOver
  <2> QED
    BY <2>10, <2>11 DEF Readable, Least
<1>23. PICK r : r = ReadAtMost("multi", h, n)
  OBVIOUS
<1>24. r = [ok |-> TRUE, h |-> [pp |-> e.pp, curr |-> e.curr], data |-> e.data]
  <2>1. ReadAtMost("multi", h, n) = MultiRead(h, n)
    BY DEF ReadAtMost
  <2>2. MultiRead(h, n) = Ended(MultiRounds(a, Segments))
    BY <1>8 DEF MultiRead, MultiRounds, Segments
  <2> QED
    BY <1>12, <1>18, <1>23, <2>1, <2>2 DEF Ended, Returns
<1>25. r.h \in [pp : Nat, curr : Nat] /\ r.h.pp = e.pp /\ r.h.curr = e.curr
  BY <1>20, <1>24
<1>26. Good("multi", r.h)
  BY <1>20, <1>25 DEF Good
<1>27. OffsetInFile("multi", r.h) = P + m
  <2>1. e.curr \in 0..Segments
    BY <1>0, <1>20
  <2>2. SegmentStart(e.curr) = G[e.curr]
    BY <2>1 DEF StartsAt
  <2> QED
    BY <1>20, <1>21, <1>25, <2>2 DEF OffsetInFile
<1>28. r.ok /\ r.data = Part(Z, P, m)
  BY <1>20, <1>21, <1>24
<1> QED
  BY <1>1, <1>3, <1>6, <1>22, <1>23, <1>26, <1>27, <1>28 DEF Reads

\* ... and seekToFileOffset: goes where it is told.
LEMMA MultiSeekSeeks ==
    ASSUME NEW G \in [0..Segments -> Nat], StartsAt(G),
           NEW h, Good("multi", h), NEW offs \in Nat
    PROVE  Seeks("multi", offs, SeekToFileOffset("multi", h, offs))
<1>0. /\ Segments \in Nat /\ Segments > 1 /\ LastSegment = Segments - 1
      /\ \A i \in 0..LastSegment : SegmentSizes[i + 1] \in Nat
  BY SegmentConstants
<1>1. PICK T \in Nat : T = G[Segments]
  BY <1>0
<1>2. Len(Contents("multi")) = T
  BY <1>1, MultiContents
<1>3. PICK fit : fit = {i \in 0..LastSegment : \/ offs < SegmentEnd(i)
                                               \/ i = LastSegment /\ offs = SegmentEnd(i)}
  OBVIOUS
<1>4. \A i \in 0..LastSegment : SegmentEnd(i) = G[i + 1] /\ G[i + 1] \in Nat
  <2> TAKE i \in 0..LastSegment
  <2>1. i + 1 \in 0..Segments
    BY <1>0
  <2> QED
    BY <2>1 DEF SegmentEnd, StartsAt
<1>5. PICK r : r = SeekToFileOffset("multi", h, offs)
  OBVIOUS
<1>6. CASE fit = {}
  <2>1. r = Raises(h)
    BY <1>3, <1>5, <1>6 DEF SeekToFileOffset, MultiSeek
  <2>2. LastSegment \in 0..LastSegment /\ LastSegment + 1 = Segments
    BY <1>0
  <2>3. SegmentEnd(LastSegment) = T
    BY <1>1, <1>4, <2>2
  <2>4. ~(offs < T) /\ offs # T
    BY <1>3, <1>6, <2>2, <2>3
  <2>5. offs > T
    BY <1>1, <2>4
  <2> QED
    BY <1>2, <1>5, <2>1, <2>5 DEF Seeks, Raises
<1>7. CASE fit # {}
  <2>1. PICK first : first = CHOOSE i \in fit : \A j \in fit : i <= j
    OBVIOUS
  <2>2. first \in fit /\ \A j \in fit : first <= j
    <3>1. fit \in SUBSET Nat
      BY <1>0, <1>3
    <3>2. \E i \in fit : \A j \in fit : i <= j
      BY <1>7, <3>1, LeastNumber
    <3> QED
      BY <2>1, <3>2
  <2>3. r = [ok |-> TRUE, h |-> [pp |-> offs - SegmentStart(first), curr |-> first], data |-> <<>>]
    <3>1. r = MultiSeek(h, offs)
      BY <1>5 DEF SeekToFileOffset
    <3> QED
      BY <1>3, <1>7, <2>1, <3>1 DEF MultiSeek, Returns
  <2>4. first \in 0..LastSegment /\ first \in 0..Segments /\ first \in 0..(Segments - 1)
    BY <1>0, <1>3, <2>2
  <2>5. PICK start \in Nat : start = G[first] /\ SegmentStart(first) = start
    BY <2>4 DEF StartsAt
  <2>6. PICK size \in Nat : size = SegmentSizes[first + 1]
    BY <1>0, <2>4
  <2>7. G[first + 1] = start + size
    BY <2>4, <2>5, <2>6 DEF StartsAt
  <2>8. offs <= start + size
    <3>1. SegmentEnd(first) = start + size
      BY <1>4, <2>4, <2>7
    <3>2. offs < start + size \/ offs = start + size
      BY <1>3, <2>2, <3>1
    <3> QED
      BY <2>5, <2>6, <3>2
  <2>9. start <= offs
    <3>1. CASE first = 0
      BY <2>5, <3>1 DEF StartsAt
    <3>2. CASE first # 0
      <4>1. PICK i \in 0..LastSegment : i = first - 1 /\ i + 1 = first
        BY <1>0, <2>4, <3>2
      <4>2. i \notin fit
        <5>1. ~(first <= i)
          BY <1>0, <2>4, <4>1
        <5> QED
          BY <2>2, <5>1
      <4>3. SegmentEnd(i) = start
        BY <1>4, <2>5, <4>1
      <4>4. ~(offs < start)
        BY <1>3, <4>2, <4>3
      <4> QED
        BY <2>5, <4>4
    <3> QED
      BY <3>1, <3>2
  <2>10. PICK at \in Nat : at = offs - start
    BY <2>5, <2>9
  <2>11. r.ok /\ r.h \in [pp : Nat, curr : Nat] /\ r.h.pp = at /\ r.h.curr = first
    BY <1>0, <2>3, <2>4, <2>5, <2>10
  <2>12. Good("multi", r.h)
    <3>1. first <= LastSegment /\ at <= size
      BY <1>0, <2>4, <2>5, <2>6, <2>8, <2>10
    <3> QED
      BY <2>6, <2>11, <3>1 DEF Good
  <2>13. OffsetInFile("multi", r.h) = offs
    <3>1. start + at = offs
      BY <2>5, <2>10
    <3> QED
      BY <2>5, <2>11, <3>1 DEF OffsetInFile
  <2> QED
    BY <1>5, <2>11, <2>12, <2>13 DEF Seeks
<1> QED
  BY <1>6, <1>7

\* CSSegmentedHandle, as a CSMultiHandle, keeps the promise.
THEOREM MultiPromise == Promise("multi")
<1>0. /\ Segments \in Nat /\ Segments > 1 /\ LastSegment = Segments - 1
      /\ \A i \in 0..LastSegment : SegmentSizes[i + 1] \in Nat
  BY SegmentConstants
<1>1. PICK G \in [0..Segments -> Nat] : StartsAt(G)
  BY SegmentStarts
<1>2. Contents("multi") \in Seq(Nat \ {0})
  BY <1>1, MultiContents
<1>3. Good("multi", Opened("multi"))
  <2>1. Opened("multi") = [pp |-> 0, curr |-> 0]
    BY DEF Opened
  <2>2. 0 <= LastSegment /\ SegmentSizes[0 + 1] \in Nat
    <3>1. PICK i \in 0..LastSegment : i = 0
      BY <1>0
    <3>2. SegmentSizes[i + 1] \in Nat
      BY <1>0
    <3> QED
      BY <1>0, <3>1, <3>2
  <2>3. PICK size \in Nat : size = SegmentSizes[0 + 1]
    BY <2>2
  <2>4. 0 <= size
    OBVIOUS
  <2> QED
    BY <2>1, <2>2, <2>3, <2>4 DEF Good
<1>4. ASSUME NEW h, Good("multi", h)
      PROVE  OffsetInFile("multi", h) \in Nat
  <2>1. h \in [pp : Nat, curr : Nat] /\ h.curr <= LastSegment
    BY <1>4 DEF Good
  <2>2. h.curr \in 0..Segments
    BY <1>0, <2>1
  <2>3. SegmentStart(h.curr) \in Nat
    BY <1>1, <2>2 DEF StartsAt
  <2> QED
    BY <2>1, <2>3 DEF OffsetInFile
<1>5. ASSUME NEW h, Good("multi", h), NEW n \in Nat \ {0}
      PROVE  Reads("multi", h, n, ReadAtMost("multi", h, n))
  BY <1>1, <1>5, MultiReadReads
<1>6. ASSUME NEW h, Good("multi", h), NEW offs \in Nat
      PROVE  Seeks("multi", offs, SeekToFileOffset("multi", h, offs))
  BY <1>1, <1>6, MultiSeekSeeks
<1> QED
  BY <1>2, <1>3, <1>4, <1>5, <1>6 DEF Promise

(***************************************************************************)
(* XADSkipHandle.                                                          *)
(***************************************************************************)
Gaps == Len(Skips)

\* Where each region starts and ends in the file, and where it starts
\* without the gaps.
RegionStart == [i \in 0..Gaps |-> Start("actual", i)]
RegionSkip  == [i \in 0..Gaps |-> Start("skip", i)]
RegionEnd   == [i \in 0..(Gaps - 1) |-> Skips[i + 1][1]]

\* The gaps lie in order, with bytes between them.
LEMMA GapConstants ==
    /\ Gaps \in Nat
    /\ \A i \in 1..Gaps : Skips[i][1] \in Nat /\ Skips[i][2] \in Nat /\ Skips[i][1] < Skips[i][2]
    /\ \A i \in 1..(Gaps - 1) : Skips[i][2] < Skips[i + 1][1]
<1>1. Skips \in Seq(Nat \X Nat) /\ Gaps \in Nat /\ DOMAIN Skips = 1..Gaps
  BY FileAssumption, LenProperties DEF Gaps
<1>2. \A i \in 1..Gaps : Skips[i] \in Nat \X Nat
  BY <1>1, ElementOfSeq DEF Gaps
<1>3. \A i \in 1..Gaps : Skips[i][1] \in Nat /\ Skips[i][2] \in Nat
  BY <1>2
<1>4. \A i \in 1..Gaps : Skips[i][1] < Skips[i][2]
  BY <1>1, FileAssumption
<1>5. \A i \in 1..(Gaps - 1) : Skips[i][2] < Skips[i + 1][1]
  BY FileAssumption DEF Gaps
<1> QED
  BY <1>1, <1>3, <1>4, <1>5

\* What a region is.
RegionPairs == [actual : Int, skip : Int]

RegionSeqs(k) == {s \in Seq(RegionPairs) : Len(s) = k + 1}

\* Adding a gap adds one region and leaves the others alone.
LEMMA AddSkipAdds ==
    ASSUME NEW k \in 1..Gaps, NEW s \in RegionSeqs(k - 1)
    PROVE  /\ AddSkip(s) \in RegionSeqs(k)
           /\ AddSkip(s)[k + 1] = [actual |-> Skips[k][2],
                                   skip |-> s[k].skip + Skips[k][1] - s[k].actual]
           /\ \A j \in 1..k : AddSkip(s)[j] = s[j]
<1>0. Gaps \in Nat /\ k \in Nat /\ Skips[k][1] \in Nat /\ Skips[k][2] \in Nat
  BY GapConstants
<1>1. s \in Seq(RegionPairs) /\ Len(s) = k
  BY <1>0 DEF RegionSeqs
<1>2. s[k] \in RegionPairs
  <2>1. k \in 1..Len(s)
    BY <1>0, <1>1
  <2> QED
    BY <1>1, <2>1, ElementOfSeq
<1>3. PICK e : e = [actual |-> Skips[k][2], skip |-> s[k].skip + Skips[k][1] - s[k].actual]
  OBVIOUS
<1>4. e \in RegionPairs
  <2>1. s[k].skip \in Int /\ s[k].actual \in Int
    BY <1>2 DEF RegionPairs
  <2>2. s[k].skip + Skips[k][1] - s[k].actual \in Int
    BY <1>0, <2>1
  <2> QED
    BY <1>0, <1>3, <2>2 DEF RegionPairs
<1>5. AddSkip(s) = Append(s, e)
  BY <1>1, <1>3 DEF AddSkip
<1>6. /\ Append(s, e) \in Seq(RegionPairs) /\ Len(Append(s, e)) = k + 1
      /\ Append(s, e)[k + 1] = e
      /\ \A j \in 1..k : Append(s, e)[j] = s[j]
  BY <1>1, <1>4, AppendProperties
<1> QED
  BY <1>3, <1>5, <1>6 DEF RegionSeqs

RegionStates(g) ==
    /\ g[0] = <<[actual |-> 0, skip |-> 0]>>
    /\ \A k \in 0..Gaps : g[k] \in RegionSeqs(k)
    /\ \A k \in 1..Gaps : g[k] = AddSkip(g[k - 1])
    /\ Regions = g[Gaps]

\* The regions can be built, gap by gap.
LEMMA RegionStatesExist == \E g : RegionStates(g)
<1>0. Gaps \in Nat
  BY GapConstants
<1>1. PICK S : S = Seq(RegionPairs)
  OBVIOUS
<1>2. PICK D : D = [k \in 0..Gaps |-> RegionSeqs(k)]
  OBVIOUS
<1>3. PICK a : a = <<[actual |-> 0, skip |-> 0]>>
  OBVIOUS
<1>4. D \in [0..Gaps -> SUBSET S] /\ \A k \in 0..Gaps : D[k] = RegionSeqs(k)
  BY <1>1, <1>2 DEF RegionSeqs
<1>5. a \in D[0]
  <2>0. [actual |-> 0, skip |-> 0] \in RegionPairs
    BY DEF RegionPairs
  <2>1. PICK e \in RegionPairs : e = [actual |-> 0, skip |-> 0]
    BY <2>0
  <2>2. <<e>> \in Seq(RegionPairs) /\ Len(<<e>>) = 0 + 1
    OBVIOUS
  <2>3. a = <<e>>
    BY <1>3, <2>1
  <2> QED
    BY <1>0, <1>4, <2>2, <2>3 DEF RegionSeqs
<1>6. \A k \in 1..Gaps : \A s \in D[k - 1] : AddSkip(s) \in D[k]
  <2> SUFFICES ASSUME NEW k \in 1..Gaps, NEW s \in D[k - 1]
               PROVE  AddSkip(s) \in D[k]
    OBVIOUS
  <2>1. k - 1 \in 0..Gaps /\ k \in 0..Gaps
    BY <1>0
  <2>2. s \in RegionSeqs(k - 1)
    BY <1>4, <2>1
  <2>3. AddSkip(s) \in RegionSeqs(k)
    BY <2>2, AddSkipAdds
  <2> QED
    BY <1>4, <2>1, <2>3
<1>7. PICK g \in [0..Gaps -> S] : AddSkipStates(D, a, Gaps, g)
  BY <1>0, <1>4, <1>5, <1>6, AddSkipLoops
<1>8. /\ \A k \in 0..Gaps : g[k] \in D[k]
      /\ g[0] = a /\ \A k \in 1..Gaps : g[k] = AddSkip(g[k - 1])
      /\ AddSkips(a, Gaps) = g[Gaps]
  BY <1>7 DEF AddSkipStates
<1>9. Regions = AddSkips(a, Gaps)
  BY <1>3 DEF Regions, AddSkips, Gaps
<1> QED
  BY <1>3, <1>4, <1>8, <1>9 DEF RegionStates

\* The regions, told from the gaps.
LEMMA RegionsAre ==
    /\ LastRegion = Gaps
    /\ RegionStart \in [0..Gaps -> Nat] /\ RegionSkip \in [0..Gaps -> Nat]
    /\ RegionEnd \in [0..(Gaps - 1) -> Nat]
    /\ \A i \in 0..Gaps : Start("actual", i) = RegionStart[i] /\ Start("skip", i) = RegionSkip[i]
    /\ RegionStart[0] = 0 /\ RegionSkip[0] = 0
    /\ \A i \in 0..(Gaps - 1) :
          /\ RegionStart[i] <= RegionEnd[i] /\ (i > 0 => RegionStart[i] < RegionEnd[i])
          /\ RegionEnd[i] < RegionStart[i + 1]
          /\ RegionSkip[i + 1] = RegionSkip[i] + (RegionEnd[i] - RegionStart[i])
          /\ Skips[i + 1][1] = RegionEnd[i] /\ Skips[i + 1][2] = RegionStart[i + 1]
          /\ GapStart(i) = RegionEnd[i]
<1>0. /\ Gaps \in Nat
      /\ \A i \in 1..Gaps : Skips[i][1] \in Nat /\ Skips[i][2] \in Nat /\ Skips[i][1] < Skips[i][2]
      /\ \A i \in 1..(Gaps - 1) : Skips[i][2] < Skips[i + 1][1]
  BY GapConstants
<1>1. PICK g : RegionStates(g)
  BY RegionStatesExist
<1>2. /\ g[0] = <<[actual |-> 0, skip |-> 0]>>
      /\ \A k \in 0..Gaps : g[k] \in RegionSeqs(k)
      /\ \A k \in 1..Gaps : g[k] = AddSkip(g[k - 1])
      /\ Regions = g[Gaps]
  BY <1>1 DEF RegionStates
<1>3. \A k \in 0..Gaps : \A j \in 1..(k + 1) : g[k][j] = g[j - 1][j]
  <2> DEFINE V == {k \in 0..Gaps : \A j \in 1..(k + 1) : g[k][j] = g[j - 1][j]}
  <2>1. 0 \in V
    <3>1. \A j \in 1..(0 + 1) : j = 1 /\ j - 1 = 0
      OBVIOUS
    <3> QED
      BY <1>0, <3>1
  <2>2. \A k \in 0..(Gaps - 1) : k \in V => k + 1 \in V
    <3> SUFFICES ASSUME NEW k \in 0..(Gaps - 1), k \in V, NEW j \in 1..((k + 1) + 1)
                 PROVE  g[k + 1][j] = g[j - 1][j]
      BY <1>0
    <3>1. k + 1 \in 1..Gaps /\ (k + 1) - 1 = k /\ k \in 0..Gaps
      BY <1>0
    <3>2. CASE j = (k + 1) + 1
      <4>1. j - 1 = k + 1
        BY <1>0, <3>2
      <4> QED
        BY <4>1
    <3>3. CASE j # (k + 1) + 1
      <4>1. j \in 1..(k + 1)
        BY <1>0, <3>3
      <4>2. g[k] \in RegionSeqs((k + 1) - 1)
        BY <1>2, <3>1
      <4>3. g[k + 1] = AddSkip(g[k])
        BY <1>2, <3>1
      <4>4. AddSkip(g[k])[j] = g[k][j]
        BY <3>1, <4>1, <4>2, AddSkipAdds
      <4> QED
        BY <4>1, <4>3, <4>4
    <3> QED
      BY <3>2, <3>3
  <2>3. \A k \in 0..Gaps : k \in V
    <3> HIDE DEF V
    <3> QED
      BY <1>0, <2>1, <2>2, UpTo
  <2> QED
    BY <2>3
<1>4. \A i \in 0..Gaps : Regions[i + 1] = g[i][i + 1] /\ g[i][i + 1] \in RegionPairs
  <2> TAKE i \in 0..Gaps
  <2>1. Gaps \in 0..Gaps /\ i + 1 \in 1..(Gaps + 1) /\ (i + 1) - 1 = i
    BY <1>0
  <2>2. g[Gaps][i + 1] = g[(i + 1) - 1][i + 1]
    BY <1>3, <2>1
  <2>3. g[i] \in Seq(RegionPairs) /\ Len(g[i]) = i + 1
    BY <1>2 DEF RegionSeqs
  <2>4. i + 1 \in 1..Len(g[i])
    BY <1>0, <2>3
  <2>5. g[i][i + 1] \in RegionPairs
    BY <2>3, <2>4, ElementOfSeq
  <2> QED
    BY <1>2, <2>1, <2>2, <2>5
<1>5. \A i \in 0..Gaps : /\ Start("actual", i) = RegionStart[i] /\ RegionStart[i] = g[i][i + 1].actual
                         /\ Start("skip", i) = RegionSkip[i] /\ RegionSkip[i] = g[i][i + 1].skip
  BY <1>4 DEF Start, RegionStart, RegionSkip
<1>6. RegionStart[0] = 0 /\ RegionSkip[0] = 0
  <2>1. PICK z : z = 0
    OBVIOUS
  <2>2. z \in 0..Gaps /\ z + 1 = 1
    BY <1>0, <2>1
  <2>3. g[z][1] = [actual |-> 0, skip |-> 0]
    BY <1>2, <2>1
  <2>4. RegionStart[z] = g[z][z + 1].actual /\ RegionSkip[z] = g[z][z + 1].skip
    BY <1>5, <2>2
  <2>5. RegionStart[z] = 0 /\ RegionSkip[z] = 0
    BY <2>2, <2>3, <2>4
  <2> QED
    BY <2>1, <2>5, Zenon
<1>7. ASSUME NEW i \in 0..(Gaps - 1)
      PROVE  /\ RegionStart[i + 1] = Skips[i + 1][2]
             /\ RegionSkip[i + 1] = RegionSkip[i] + Skips[i + 1][1] - RegionStart[i]
  <2>1. i + 1 \in 1..Gaps /\ (i + 1) - 1 = i /\ i \in 0..Gaps /\ i + 1 \in 0..Gaps
    BY <1>0
  <2>2. g[i] \in RegionSeqs((i + 1) - 1) /\ g[i + 1] = AddSkip(g[i])
    BY <1>2, <2>1
  <2>3. g[i + 1][(i + 1) + 1] = [actual |-> Skips[i + 1][2],
                                 skip |-> g[i][i + 1].skip + Skips[i + 1][1] - g[i][i + 1].actual]
    BY <2>1, <2>2, AddSkipAdds
  <2>4. RegionStart[i + 1] = g[i + 1][(i + 1) + 1].actual /\ RegionSkip[i + 1] = g[i + 1][(i + 1) + 1].skip
    BY <1>5, <2>1
  <2>5. RegionStart[i] = g[i][i + 1].actual /\ RegionSkip[i] = g[i][i + 1].skip
    BY <1>5, <2>1
  <2> QED
    BY <2>3, <2>4, <2>5
<1>8. \A i \in 0..Gaps : RegionStart[i] \in Nat
  <2> TAKE i \in 0..Gaps
  <2>1. CASE i = 0
    BY <1>6, <2>1
  <2>2. CASE i # 0
    <3>1. i - 1 \in 0..(Gaps - 1) /\ (i - 1) + 1 = i /\ i \in 1..Gaps
      BY <1>0, <2>2
    <3>2. RegionStart[(i - 1) + 1] = Skips[(i - 1) + 1][2]
      BY <1>7, <3>1
    <3> QED
      BY <1>0, <3>1, <3>2
  <2> QED
    BY <2>1, <2>2
<1>9. ASSUME NEW i \in 0..(Gaps - 1)
      PROVE  /\ RegionEnd[i] \in Nat /\ RegionEnd[i] = Skips[i + 1][1]
             /\ RegionStart[i] <= RegionEnd[i] /\ (i > 0 => RegionStart[i] < RegionEnd[i])
             /\ RegionEnd[i] < RegionStart[i + 1]
  <2>1. i + 1 \in 1..Gaps /\ i \in 0..Gaps
    BY <1>0
  <2>2. PICK e \in Nat : e = Skips[i + 1][1] /\ RegionEnd[i] = e
    BY <1>0, <2>1 DEF RegionEnd
  <2>3. e < RegionStart[i + 1]
    BY <1>0, <1>7, <2>1, <2>2
  <2>4. PICK s \in Nat : s = RegionStart[i]
    BY <1>8, <2>1
  <2>5. CASE i = 0
    BY <1>6, <2>2, <2>3, <2>4, <2>5
  <2>6. CASE i # 0
    <3>1. i - 1 \in 0..(Gaps - 1) /\ (i - 1) + 1 = i /\ i \in 1..(Gaps - 1)
      BY <1>0, <2>6
    <3>2. RegionStart[(i - 1) + 1] = Skips[(i - 1) + 1][2]
      BY <1>7, <3>1
    <3>3. s = Skips[i][2]
      BY <2>4, <3>1, <3>2
    <3>4. s < e
      BY <1>0, <2>2, <3>1, <3>3
    <3> QED
      BY <2>2, <2>3, <2>4, <3>4
  <2> QED
    BY <2>5, <2>6
<1>10. ASSUME NEW i \in 0..(Gaps - 1), RegionSkip[i] \in Nat
       PROVE  /\ RegionSkip[i + 1] = RegionSkip[i] + (RegionEnd[i] - RegionStart[i])
              /\ RegionSkip[i + 1] \in Nat
  <2>1. i \in 0..Gaps
    BY <1>0
  <2>2. PICK e \in Nat : e = RegionEnd[i]
    BY <1>9
  <2>3. PICK s \in Nat : s = RegionStart[i]
    BY <1>8, <2>1
  <2>4. PICK k \in Nat : k = RegionSkip[i]
    BY <1>10
  <2>5. RegionSkip[i + 1] = k + e - s
    BY <1>7, <1>9, <2>2, <2>3, <2>4
  <2>6. s <= e
    BY <1>9, <2>2, <2>3
  <2>7. k + e - s = k + (e - s) /\ k + (e - s) \in Nat
    BY <2>2, <2>3, <2>4, <2>6
  <2> QED
    BY <2>2, <2>3, <2>4, <2>5, <2>7
<1>11. \A i \in 0..Gaps : RegionSkip[i] \in Nat
  <2> DEFINE V == {k \in 0..Gaps : RegionSkip[k] \in Nat}
  <2>1. 0 \in V
    BY <1>0, <1>6
  <2>2. \A k \in 0..(Gaps - 1) : k \in V => k + 1 \in V
    BY <1>0, <1>10
  <2>3. \A k \in 0..Gaps : k \in V
    <3> HIDE DEF V
    <3> QED
      BY <1>0, <2>1, <2>2, UpTo
  <2> QED
    BY <2>3
<1>12. LastRegion = Gaps
  <2>1. Gaps \in 0..Gaps
    BY <1>0
  <2>2. Len(Regions) = Gaps + 1
    BY <1>2, <2>1 DEF RegionSeqs
  <2> QED
    BY <1>0, <2>2 DEF LastRegion
<1>13. \A i \in 0..(Gaps - 1) : GapStart(i) = RegionEnd[i]
  <2> TAKE i \in 0..(Gaps - 1)
  <2>1. i \in 0..Gaps /\ i + 1 \in 0..Gaps
    BY <1>0
  <2>2. PICK e \in Nat : e = RegionEnd[i]
    BY <1>9
  <2>3. PICK s \in Nat : s = RegionStart[i]
    BY <1>8, <2>1
  <2>4. PICK k \in Nat : k = RegionSkip[i]
    BY <1>11, <2>1
  <2>5. RegionSkip[i + 1] = k + (e - s)
    BY <1>10, <2>2, <2>3, <2>4
  <2>6. GapStart(i) = s + RegionSkip[i + 1] - k
    BY <1>5, <2>1, <2>3, <2>4 DEF GapStart
  <2> QED
    BY <2>2, <2>3, <2>4, <2>5, <2>6
<1>14. RegionStart \in [0..Gaps -> Nat] /\ RegionSkip \in [0..Gaps -> Nat]
  BY <1>8, <1>11 DEF RegionStart, RegionSkip
<1>15. RegionEnd \in [0..(Gaps - 1) -> Nat]
  BY <1>9 DEF RegionEnd
<1>16. \A i \in 0..(Gaps - 1) :
          /\ RegionStart[i] <= RegionEnd[i] /\ (i > 0 => RegionStart[i] < RegionEnd[i])
          /\ RegionEnd[i] < RegionStart[i + 1]
          /\ RegionSkip[i + 1] = RegionSkip[i] + (RegionEnd[i] - RegionStart[i])
          /\ Skips[i + 1][1] = RegionEnd[i] /\ Skips[i + 1][2] = RegionStart[i + 1]
          /\ GapStart(i) = RegionEnd[i]
  <2> TAKE i \in 0..(Gaps - 1)
  <2>1. RegionSkip[i] \in Nat
    <3>1. i \in 0..Gaps
      BY <1>0
    <3> QED
      BY <1>11, <3>1
  <2> QED
    BY <1>7, <1>9, <1>10, <1>13, <2>1
<1> QED
  BY <1>5, <1>6, <1>12, <1>14, <1>15, <1>16

\* A region's two starts are places.
LEMMA RegionFacts ==
    ASSUME NEW i \in 0..Gaps
    PROVE  RegionStart[i] \in Nat /\ RegionSkip[i] \in Nat
  BY RegionsAre

\* A region ends before the next one starts, and is as long in the contents
\* as it is in the file.
LEMMA RegionGap ==
    ASSUME NEW i \in 0..(Gaps - 1)
    PROVE  /\ RegionEnd[i] \in Nat /\ RegionStart[i] \in Nat /\ RegionStart[i + 1] \in Nat
           /\ RegionSkip[i] \in Nat /\ RegionSkip[i + 1] \in Nat
           /\ RegionStart[i] <= RegionEnd[i] /\ (i > 0 => RegionStart[i] < RegionEnd[i])
           /\ RegionEnd[i] < RegionStart[i + 1]
           /\ RegionSkip[i + 1] = RegionSkip[i] + (RegionEnd[i] - RegionStart[i])
           /\ Skips[i + 1][1] = RegionEnd[i] /\ Skips[i + 1][2] = RegionStart[i + 1]
           /\ GapStart(i) = RegionEnd[i]
<1>1. Gaps \in Nat
  BY GapConstants
<1>2. i \in 0..Gaps /\ i + 1 \in 0..Gaps
  BY <1>1
<1>3. RegionStart[i] \in Nat /\ RegionStart[i + 1] \in Nat
  BY <1>2, RegionFacts
<1>4. RegionSkip[i] \in Nat /\ RegionSkip[i + 1] \in Nat
  BY <1>2, RegionFacts
<1>5. RegionEnd[i] \in Nat
  BY RegionsAre
<1>6. /\ RegionStart[i] <= RegionEnd[i] /\ (i > 0 => RegionStart[i] < RegionEnd[i])
      /\ RegionEnd[i] < RegionStart[i + 1]
      /\ RegionSkip[i + 1] = RegionSkip[i] + (RegionEnd[i] - RegionStart[i])
      /\ Skips[i + 1][1] = RegionEnd[i] /\ Skips[i + 1][2] = RegionStart[i + 1]
      /\ GapStart(i) = RegionEnd[i]
  BY RegionsAre
<1> QED
  BY <1>3, <1>4, <1>5, <1>6

\* Regions lie one behind the other, and ever more has been left out.
LEMMA RegionsGrow ==
    ASSUME NEW j \in 0..Gaps, NEW i \in 0..j
    PROVE  /\ RegionStart[i] <= RegionStart[j] /\ RegionSkip[i] <= RegionSkip[j]
           /\ RegionStart[i] - RegionSkip[i] <= RegionStart[j] - RegionSkip[j]
<1>0. Gaps \in Nat
  BY GapConstants
<1> DEFINE V == {k \in 0..j : i <= k =>
                    /\ RegionStart[i] <= RegionStart[k] /\ RegionSkip[i] <= RegionSkip[k]
                    /\ RegionStart[i] - RegionSkip[i] <= RegionStart[k] - RegionSkip[k]}
<1>1. 0 \in V
  <2> SUFFICES ASSUME i <= 0
               PROVE  /\ RegionStart[i] <= RegionStart[0] /\ RegionSkip[i] <= RegionSkip[0]
                      /\ RegionStart[i] - RegionSkip[i] <= RegionStart[0] - RegionSkip[0]
    BY <1>0
  <2>1. i = 0
    BY <1>0
  <2>2. PICK a \in Nat : a = RegionStart[i]
    BY <1>0, RegionFacts
  <2>3. PICK b \in Nat : b = RegionSkip[i]
    BY <1>0, RegionFacts
  <2> QED
    BY <2>1, <2>2, <2>3
<1>2. \A k \in 0..(j - 1) : k \in V => k + 1 \in V
  <2> SUFFICES ASSUME NEW k \in 0..(j - 1), k \in V, i <= k + 1
               PROVE  /\ RegionStart[i] <= RegionStart[k + 1] /\ RegionSkip[i] <= RegionSkip[k + 1]
                      /\ RegionStart[i] - RegionSkip[i] <= RegionStart[k + 1] - RegionSkip[k + 1]
    BY <1>0
  <2>1. i \in 0..Gaps /\ k \in 0..(Gaps - 1)
    BY <1>0
  <2>2. PICK a \in Nat : a = RegionStart[i]
    BY <2>1, RegionFacts
  <2>3. PICK b \in Nat : b = RegionSkip[i]
    BY <2>1, RegionFacts
  <2>4. PICK c \in Nat : c = RegionStart[k]
    BY <2>1, RegionGap
  <2>5. PICK d \in Nat : d = RegionSkip[k]
    BY <2>1, RegionGap
  <2>6. PICK e \in Nat : e = RegionEnd[k]
    BY <2>1, RegionGap
  <2>7. PICK f \in Nat : f = RegionStart[k + 1]
    BY <2>1, RegionGap
  <2>8. RegionSkip[k + 1] = d + (e - c) /\ c <= e /\ e < f
    BY <2>1, <2>4, <2>5, <2>6, <2>7, RegionGap
  <2>9. CASE i = k + 1
    <3>1. RegionStart[k + 1] = a /\ RegionSkip[k + 1] = b
      BY <2>2, <2>3, <2>9
    <3> QED
      BY <2>2, <2>3, <3>1
  <2>10. CASE i <= k
    <3>1. a <= c /\ b <= d /\ a - b <= c - d
      BY <2>2, <2>3, <2>4, <2>5, <2>10
    <3>2. a <= f /\ b <= d + (e - c) /\ a - b <= f - (d + (e - c))
      BY <2>2, <2>3, <2>4, <2>5, <2>6, <2>7, <2>8, <3>1
    <3> QED
      BY <2>2, <2>3, <2>7, <2>8, <3>2
  <2> QED
    BY <1>0, <2>9, <2>10
<1>3. \A k \in 0..j : k \in V
  <2>1. j \in Nat
    BY <1>0
  <2> HIDE DEF V
  <2> QED
    BY <1>1, <1>2, <2>1, UpTo
<1>4. j \in 0..j /\ i <= j
  BY <1>0
<1> QED
  BY <1>3, <1>4

InRegion(F, i, p) == i \in 0..Gaps /\ F[i] <= p /\ (i < Gaps => p < F[i + 1])

StartsOf(side) == IF side = "actual" THEN RegionStart ELSE RegionSkip

\* The starts of the regions grow, on either side.
LEMMA StartsOfFacts ==
    ASSUME NEW side \in {"actual", "skip"}
    PROVE  /\ StartsOf(side) \in [0..Gaps -> Nat] /\ StartsOf(side)[0] = 0
           /\ \A i \in 0..Gaps : Start(side, i) = StartsOf(side)[i]
           /\ \A j \in 0..Gaps : \A i \in 0..j : StartsOf(side)[i] <= StartsOf(side)[j]
<1>1. CASE side = "actual"
  <2>1. StartsOf(side) = RegionStart
    BY <1>1 DEF StartsOf
  <2>2. \A j \in 0..Gaps : \A i \in 0..j : RegionStart[i] <= RegionStart[j]
    BY RegionsGrow
  <2>3. RegionStart \in [0..Gaps -> Nat] /\ RegionStart[0] = 0
    BY RegionsAre
  <2>4. \A i \in 0..Gaps : Start(side, i) = RegionStart[i]
    BY <1>1, RegionsAre
  <2> QED
    BY <2>1, <2>2, <2>3, <2>4, Zenon
<1>2. CASE side = "skip"
  <2>1. StartsOf(side) = RegionSkip
    BY <1>2 DEF StartsOf
  <2>2. \A j \in 0..Gaps : \A i \in 0..j : RegionSkip[i] <= RegionSkip[j]
    BY RegionsGrow
  <2>3. RegionSkip \in [0..Gaps -> Nat] /\ RegionSkip[0] = 0
    BY RegionsAre
  <2>4. \A i \in 0..Gaps : Start(side, i) = RegionSkip[i]
    BY <1>2, RegionsAre
  <2> QED
    BY <2>1, <2>2, <2>3, <2>4, Zenon
<1> QED
  BY <1>1, <1>2

\* A place is in one region.
LEMMA OneRegion ==
    ASSUME NEW side \in {"actual", "skip"}, NEW p \in Nat,
           NEW i, NEW j, InRegion(StartsOf(side), i, p), InRegion(StartsOf(side), j, p)
    PROVE  i = j
<1>0. Gaps \in Nat
  BY GapConstants
<1>1. PICK F \in [0..Gaps -> Nat] : F = StartsOf(side)
  BY StartsOfFacts
<1>2. ASSUME NEW a, NEW b, InRegion(F, a, p), InRegion(F, b, p), a < b
      PROVE  FALSE
  <2>1. /\ a \in 0..Gaps /\ F[a] <= p /\ (a < Gaps => p < F[a + 1])
        /\ b \in 0..Gaps /\ F[b] <= p
    BY <1>2 DEF InRegion
  <2>2. a < Gaps /\ a + 1 \in 0..b
    BY <1>0, <1>2, <2>1
  <2>3. F[a + 1] <= F[b]
    BY <1>1, <2>1, <2>2, StartsOfFacts
  <2>4. a + 1 \in 0..Gaps
    BY <1>0, <2>1, <2>2
  <2>5. F[a + 1] \in Nat /\ F[b] \in Nat
    BY <1>1, <2>1, <2>4
  <2> QED
    BY <2>1, <2>2, <2>3, <2>5
<1>3. i \in Int /\ j \in Int
  BY <1>0, <1>1 DEF InRegion
<1>4. ~(i < j) /\ ~(j < i)
  BY <1>1, <1>2
<1> QED
  BY <1>3, <1>4

\* findIndexOfRegionContaining...: finds it.
LEMMA RegionFound ==
    ASSUME NEW side \in {"actual", "skip"}, NEW p \in Nat
    PROVE  InRegion(StartsOf(side), FindIndexOfRegion(side, p), p)
<1>0. Gaps \in Nat /\ LastRegion = Gaps
  BY GapConstants, RegionsAre
<1>1. PICK F \in [0..Gaps -> Nat] : F = StartsOf(side)
  BY StartsOfFacts
<1>2. F[0] = 0 /\ \A i \in 0..Gaps : Start(side, i) = F[i]
  BY <1>1, StartsOfFacts
<1>3. \A i \in 0..Gaps : Ends(side, i, p) <=> i < Gaps /\ p >= F[i + 1]
  <2> TAKE i \in 0..Gaps
  <2>1. i < Gaps => i + 1 \in 0..Gaps
    BY <1>0
  <2> QED
    BY <1>0, <1>2, <2>1 DEF Ends
<1>4. PICK found : found = FindIndexOfRegion(side, p)
  OBVIOUS
<1>5. Gaps \in 0..Gaps /\ 0 \in 0..Gaps
  BY <1>0
<1>6. CASE Start(side, LastRegion) <= p
  <2>1. found = Gaps
    BY <1>0, <1>4, <1>6 DEF FindIndexOfRegion
  <2>2. F[Gaps] <= p
    BY <1>0, <1>2, <1>5, <1>6
  <2> QED
    BY <1>0, <1>1, <1>4, <1>5, <2>1, <2>2 DEF InRegion
<1>7. CASE ~(Start(side, LastRegion) <= p) /\ ~Ends(side, 0, p)
  <2>1. found = 0
    BY <1>4, <1>7 DEF FindIndexOfRegion
  <2>2. PICK z : z = 0
    OBVIOUS
  <2>3. z \in 0..Gaps /\ found = z /\ F[z] = 0
    BY <1>2, <1>5, <2>1, <2>2
  <2>4. z < Gaps => p < F[z + 1]
    <3>1. ~(z < Gaps /\ p >= F[z + 1])
      BY <1>3, <1>7, <2>2, <2>3
    <3>2. z < Gaps => z + 1 \in 0..Gaps
      BY <1>0, <2>3
    <3>3. z < Gaps => F[z + 1] \in Nat
      BY <1>1, <3>2
    <3> QED
      BY <1>1, <3>1, <3>3
  <2> QED
    BY <1>1, <1>4, <2>3, <2>4 DEF InRegion
<1>8. CASE ~(Start(side, LastRegion) <= p) /\ Ends(side, 0, p)
  <2>1. p < F[Gaps] /\ Gaps # 0
    <3>1. ~(F[Gaps] <= p) /\ F[Gaps] \in Nat
      BY <1>0, <1>1, <1>2, <1>5, <1>8
    <3> QED
      BY <1>2, <3>1
  <2>2. PICK S : S = {s \in [first : 0..Gaps, last : 0..Gaps] :
                        s.first < s.last /\ F[s.first] <= p /\ p < F[s.last]}
    OBVIOUS
  <2>3. PICK a : a = [first |-> 0, last |-> LastRegion]
    OBVIOUS
  <2>4. a \in S /\ a.first = 0 /\ a.last = Gaps
    <3>1. a = [first |-> 0, last |-> Gaps]
      BY <1>0, <2>3
    <3>2. a \in [first : 0..Gaps, last : 0..Gaps] /\ a.first = 0 /\ a.last = Gaps
      BY <1>5, <3>1
    <3>3. a.first < a.last /\ F[a.first] <= p /\ p < F[a.last]
      BY <1>0, <1>2, <2>1, <3>2
    <3> QED
      BY <2>2, <3>2, <3>3
  <2>5. ASSUME NEW s \in S
        PROVE  /\ Halve(side, p, s) \in S
               /\ s.last - s.first <= 1 => Halve(side, p, s) = s
               /\ s.last - s.first > 1 =>
                     Halve(side, p, s).last - Halve(side, p, s).first < s.last - s.first
    <3>1. PICK f \in 0..Gaps : f = s.first
      BY <2>2
    <3>2. PICK l \in 0..Gaps : l = s.last
      BY <2>2
    <3>3. s = [first |-> f, last |-> l] /\ f < l /\ F[f] <= p /\ p < F[l]
      BY <2>2, <3>1, <3>2
    <3>4. CASE l - f <= 1
      <4>1. Halve(side, p, s) = s
        BY <3>1, <3>2, <3>4 DEF Halve
      <4>2. ~(s.last - s.first > 1)
        <5>1. ~(l - f > 1)
          BY <1>0, <3>1, <3>2, <3>4
        <5> QED
          BY <3>1, <3>2, <5>1
      <4>3. Halve(side, p, s) \in S
        BY <4>1, Zenon
      <4>4. s.last - s.first <= 1 => Halve(side, p, s) = s
        BY <4>1, Zenon
      <4>5. s.last - s.first > 1 =>
               Halve(side, p, s).last - Halve(side, p, s).first < s.last - s.first
        BY <4>2
      <4> QED
        BY <4>3, <4>4, <4>5, Zenon
    <3>5. CASE l - f > 1
      <4>1. PICK mid \in 0..Gaps : mid = (l + f) \div 2 /\ f < mid /\ mid < l
        <5>1. (l + f) \div 2 \in 0..Gaps /\ f < (l + f) \div 2 /\ (l + f) \div 2 < l
          <6>1. f \in 0..Gaps /\ l \in 0..Gaps
            BY <3>1, <3>2, Zenon
          <6>2. f + 1 < l
            BY <1>0, <3>5, <6>1
          <6> QED
            BY <1>0, <6>1, <6>2
        <5> QED
          BY <5>1
      <4>2. mid < Gaps /\ mid + 1 \in 0..Gaps
        BY <1>0, <3>2, <4>1, SMTT(30)
      <4>3. Halve(side, p, s) =
               IF Start(side, mid) > p THEN [first |-> f, last |-> mid]
               ELSE IF Ends(side, mid, p) THEN [first |-> mid, last |-> l]
               ELSE [first |-> mid, last |-> mid + 1]
        <5>1. s.first = f /\ s.last = l /\ ~(l - f <= 1)
          BY <1>0, <3>1, <3>2, <3>5
        <5>2. Halve(side, p, s) = IF Start(side, mid) > p THEN [s EXCEPT !.last = mid]
                                  ELSE IF Ends(side, mid, p) THEN [s EXCEPT !.first = mid]
                                  ELSE [first |-> mid, last |-> mid + 1]
          BY <4>1, <5>1 DEF Halve
        <5>3. PICK q : q = [s EXCEPT !.last = mid]
          OBVIOUS
        <5>4. q = [first |-> f, last |-> mid]
          BY <3>3, <5>3
        <5>5. PICK t : t = [s EXCEPT !.first = mid]
          OBVIOUS
        <5>6. t = [first |-> mid, last |-> l]
          BY <3>3, <5>5
        <5> QED
          BY <5>2, <5>3, <5>4, <5>5, <5>6, Zenon
      <4>4. PICK h : h = Halve(side, p, s)
        OBVIOUS
      <4>9. ~(s.last - s.first <= 1) /\ s.last - s.first = l - f
        <5>1. ~(l - f <= 1)
          BY <1>0, <3>1, <3>2, <3>5
        <5> QED
          BY <3>1, <3>2, <5>1
      <4>5. Start(side, mid) = F[mid] /\ F[mid] \in Nat /\ F[mid + 1] \in Nat
        BY <1>1, <1>2, <4>1, <4>2
      <4>6. CASE F[mid] > p
        <5>1. h = [first |-> f, last |-> mid]
          BY <4>3, <4>4, <4>5, <4>6
        <5>2. h \in [first : 0..Gaps, last : 0..Gaps] /\ h.first = f /\ h.last = mid
          BY <3>1, <4>1, <5>1
        <5>3. h \in S
          BY <1>1, <2>2, <3>3, <4>1, <4>5, <4>6, <5>2
        <5>4. mid - f < l - f
          BY <1>0, <3>1, <3>2, <4>1
        <5> QED
          BY <4>4, <4>9, <5>2, <5>3, <5>4
      <4>7. CASE ~(F[mid] > p) /\ p >= F[mid + 1]
        <5>1. h = [first |-> mid, last |-> l]
          BY <1>3, <4>1, <4>2, <4>3, <4>4, <4>5, <4>7
        <5>2. h \in [first : 0..Gaps, last : 0..Gaps] /\ h.first = mid /\ h.last = l
          BY <3>2, <4>1, <5>1
        <5>3. h \in S
          BY <1>1, <2>2, <3>3, <4>1, <4>5, <4>7, <5>2
        <5>4. l - mid < l - f
          BY <1>0, <3>1, <3>2, <4>1
        <5> QED
          BY <4>4, <4>9, <5>2, <5>3, <5>4
      <4>8. CASE ~(F[mid] > p) /\ ~(p >= F[mid + 1])
        <5>1. h = [first |-> mid, last |-> mid + 1]
          BY <1>3, <4>1, <4>2, <4>3, <4>4, <4>5, <4>8
        <5>2. h \in [first : 0..Gaps, last : 0..Gaps] /\ h.first = mid /\ h.last = mid + 1
          BY <4>1, <4>2, <5>1
        <5>3. h \in S
          BY <1>1, <2>2, <4>1, <4>5, <4>8, <5>2
        <5>4. (mid + 1) - mid < l - f
          BY <1>0, <3>1, <3>2, <3>5, <4>1
        <5> QED
          BY <4>4, <4>9, <5>2, <5>3, <5>4
      <4> QED
        BY <4>6, <4>7, <4>8
    <3> QED
      BY <1>0, <3>1, <3>2, <3>4, <3>5
  <2>6. PICK g \in [0..Gaps -> S] : HalveStates(side, p, a, Gaps, g)
    <3>1. \A s \in S : Halve(side, p, s) \in S
      BY <2>5
    <3> QED
      BY <1>0, <2>4, <3>1, HalveLoops
  <2>7. /\ g[0] = a /\ \A k \in 1..Gaps : g[k] = Halve(side, p, g[k - 1])
        /\ Halved(side, p, a, Gaps) = g[Gaps]
    BY <2>6 DEF HalveStates
  <2>8. PICK Over : Over = {s \in S : s.last - s.first <= 1}
    OBVIOUS
  <2>9. PICK W : W = [s \in S |-> s.last - s.first - 1]
    OBVIOUS
  <2>10. \A s \in S : /\ s.first \in 0..Gaps /\ s.last \in 0..Gaps /\ s.first < s.last
                      /\ W[s] = s.last - s.first - 1
    BY <2>2, <2>9
  <2>11. W \in [S -> Nat] /\ \A s \in S : W[s] = 0 => s \in Over
    <3>1. ASSUME NEW s \in S
          PROVE  W[s] \in Nat /\ (W[s] = 0 => s \in Over)
      <4>1. PICK f \in 0..Gaps : f = s.first
        BY <2>10
      <4>2. PICK l \in 0..Gaps : l = s.last
        BY <2>10
      <4>3. W[s] = l - f - 1 /\ f < l
        BY <2>10, <4>1, <4>2
      <4>4. l - f - 1 \in Nat
        BY <1>0, <4>1, <4>2, <4>3, SMTT(30)
      <4>5. l - f - 1 = 0 => l - f <= 1
        BY <1>0, <4>1, <4>2
      <4> QED
        BY <2>8, <4>1, <4>2, <4>3, <4>4, <4>5
    <3> QED
      BY <2>9, <3>1
  <2>12. Works(g, Gaps, Over, W)
    <3>1. ASSUME NEW k \in 1..Gaps
          PROVE  IF g[k - 1] \in Over THEN g[k] \in Over ELSE W[g[k]] < W[g[k - 1]]
      <4>1. k - 1 \in 0..Gaps /\ k \in 0..Gaps
        BY <1>0
      <4>2. PICK s \in S : s = g[k - 1]
        BY <2>6, <4>1
      <4>3. PICK t \in S : t = g[k] /\ t = Halve(side, p, s)
        BY <2>6, <2>7, <4>1, <4>2
      <4>4. PICK f \in 0..Gaps : f = s.first
        BY <2>10
      <4>5. PICK l \in 0..Gaps : l = s.last
        BY <2>10
      <4>6. PICK f2 \in 0..Gaps : f2 = t.first
        BY <2>10
      <4>7. PICK l2 \in 0..Gaps : l2 = t.last
        BY <2>10
      <4>8. W[s] = l - f - 1 /\ W[t] = l2 - f2 - 1
        BY <2>10, <4>4, <4>5, <4>6, <4>7
      <4>9. CASE s \in Over
        <5>1. t = s
          BY <2>5, <2>8, <4>3, <4>9
        <5> QED
          BY <4>2, <4>3, <4>9, <5>1
      <4>10. CASE s \notin Over
        <5>1. l - f > 1
          BY <1>0, <2>8, <4>4, <4>5, <4>10
        <5>2. l2 - f2 < l - f
          <6>1. s.last - s.first > 1
            BY <4>4, <4>5, <5>1
          <6>2. t.last - t.first < s.last - s.first
            BY <2>5, <4>3, <6>1
          <6> QED
            BY <4>4, <4>5, <4>6, <4>7, <6>2, Zenon
        <5>3. W[t] < W[s]
          <6>1. f \in 0..Gaps /\ l \in 0..Gaps /\ f2 \in 0..Gaps /\ l2 \in 0..Gaps
            BY <4>4, <4>5, <4>6, <4>7, Zenon
          <6>2. l2 - f2 - 1 < l - f - 1
            BY <1>0, <5>2, <6>1
          <6> QED
            BY <4>8, <6>2, Zenon
        <5> QED
          BY <4>2, <4>3, <4>10, <5>3
      <4> QED
        BY <4>9, <4>10
    <3> QED
      BY <3>1 DEF Works
  <2>13. PICK e : e = g[Gaps]
    OBVIOUS
  <2>14. e \in S /\ e \in Over
    <3>1. W[g[0]] <= Gaps
      <4>1. W[a] = Gaps - 0 - 1
        BY <2>4, <2>10
      <4> QED
        BY <1>0, <2>7, <4>1
    <3>2. g[Gaps] \in Over
      BY <1>0, <2>6, <2>11, <2>12, <3>1, LoopEnds
    <3> QED
      BY <2>8, <2>13, <3>2
  <2>15. found = e.first
    <3>1. found = After(LAMBDA s : Halve(side, p, s), [first |-> 0, last |-> LastRegion],
                        LastRegion).first
      BY <1>4, <1>8 DEF FindIndexOfRegion
    <3>2. found = Halved(side, p, a, Gaps).first
      BY <1>0, <2>3, <3>1 DEF Halved
    <3> QED
      BY <2>7, <2>13, <3>2
  <2>16. PICK f \in 0..Gaps : f = e.first
    BY <2>10, <2>14
  <2>17. PICK l \in 0..Gaps : l = e.last
    BY <2>10, <2>14
  <2>18. f < l /\ l - f <= 1 /\ F[f] <= p /\ p < F[l]
    BY <2>2, <2>8, <2>14, <2>16, <2>17
  <2>19. l = f + 1
    BY <1>0, <2>16, <2>17, <2>18
  <2>20. InRegion(F, f, p)
    BY <2>16, <2>18, <2>19 DEF InRegion
  <2> QED
    BY <1>1, <1>4, <2>15, <2>16, <2>20
<1> QED
  BY <1>6, <1>7, <1>8

\* A place in a region, before the gap behind it.
InPart(i, a) ==
    /\ i \in 0..Gaps /\ a \in Nat /\ RegionStart[i] <= a
    /\ i < Gaps => a < RegionEnd[i]

SkipAt == [p \in Nat |-> SkipOffsetToActual(p)]

\* Every region but the last has one behind it.
LEMMA NextRegion ==
    ASSUME NEW i \in 0..Gaps, i < Gaps
    PROVE  i \in 0..(Gaps - 1) /\ i + 1 \in 0..Gaps
<1>1. Gaps \in Nat
  BY GapConstants
<1> QED
  BY <1>1

\* The place of an offset in the file and the offset of a place are inverse.
LEMMA PlaceOfOffset ==
    ASSUME NEW p \in Nat, NEW i, InRegion(RegionSkip, i, p)
    PROVE  /\ SkipAt[p] = p + RegionStart[i] - RegionSkip[i]
           /\ InPart(i, SkipAt[p])
           /\ p = SkipAt[p] - RegionStart[i] + RegionSkip[i]
<1>0. Gaps \in Nat
  BY GapConstants
<1>1. PICK j : j = FindIndexOfRegion("skip", p)
  OBVIOUS
<1>2. StartsOf("skip") = RegionSkip
  BY DEF StartsOf
<1>3. InRegion(StartsOf("skip"), j, p)
  BY <1>1, RegionFound
<1>4. InRegion(StartsOf("skip"), i, p)
  BY <1>2
<1>5. i = j
  BY <1>3, <1>4, OneRegion
<1>6. i \in 0..Gaps /\ RegionSkip[i] <= p /\ (i < Gaps => p < RegionSkip[i + 1])
  BY DEF InRegion
<1>7. PICK x \in Nat : x = RegionStart[i]
  BY <1>6, RegionFacts
<1>8. PICK y \in Nat : y = RegionSkip[i]
  BY <1>6, RegionFacts
<1>9. Start("actual", i) = x /\ Start("skip", i) = y
  BY <1>6, <1>7, <1>8, RegionsAre
<1>10. SkipAt[p] = p + x - y
  <2>1. SkipAt[p] = SkipOffsetToActual(p)
    BY DEF SkipAt
  <2> QED
    BY <1>1, <1>5, <1>9, <2>1 DEF SkipOffsetToActual
<1>11. p + x - y \in Nat /\ x <= p + x - y /\ p = (p + x - y) - x + y
  BY <1>6, <1>7, <1>8
<1>12. ASSUME i < Gaps PROVE p + x - y < RegionEnd[i]
  <2>1. i \in 0..(Gaps - 1)
    BY <1>0, <1>6, <1>12
  <2>2. PICK z \in Nat : z = RegionEnd[i] /\ RegionSkip[i + 1] = y + (z - x)
    BY <1>7, <1>8, <2>1, RegionGap
  <2>3. p < y + (z - x)
    BY <1>6, <1>12, <2>2
  <2>4. p + x - y < z
    BY <1>7, <1>8, <2>2, <2>3
  <2> QED
    BY <2>2, <2>4
<1>13. InPart(i, SkipAt[p])
  BY <1>6, <1>7, <1>10, <1>11, <1>12 DEF InPart
<1> QED
  BY <1>7, <1>8, <1>10, <1>11, <1>13

\* A place within a region is that of a byte of the contents.
LEMMA OffsetOfPlace ==
    ASSUME NEW i, NEW a, InPart(i, a)
    PROVE  \E p \in Nat :
              /\ p = a - RegionStart[i] + RegionSkip[i]
              /\ InRegion(RegionSkip, i, p) /\ SkipAt[p] = a
              /\ ActualOffsetToSkip(a) = p
<1>0. Gaps \in Nat
  BY GapConstants
<1>1. i \in 0..Gaps /\ a \in Nat /\ RegionStart[i] <= a /\ (i < Gaps => a < RegionEnd[i])
  BY DEF InPart
<1>2. PICK x \in Nat : x = RegionStart[i]
  BY <1>1, RegionFacts
<1>3. PICK y \in Nat : y = RegionSkip[i]
  BY <1>1, RegionFacts
<1>4. PICK p \in Nat : p = a - x + y
  BY <1>1, <1>2, <1>3
<1>5. ASSUME i < Gaps
      PROVE  p < RegionSkip[i + 1] /\ a < RegionStart[i + 1] /\ ~(a >= GapStart(i))
  <2>1. i \in 0..(Gaps - 1)
    BY <1>0, <1>1, <1>5
  <2>2. PICK z \in Nat : /\ z = RegionEnd[i] /\ RegionSkip[i + 1] = y + (z - x)
                         /\ GapStart(i) = z
    BY <1>2, <1>3, <2>1, RegionGap
  <2>3. PICK u \in Nat : u = RegionStart[i + 1] /\ z < u
    BY <2>1, <2>2, RegionGap
  <2>4. a < z
    BY <1>1, <1>5, <2>2
  <2>5. p < y + (z - x) /\ a < u /\ ~(a >= z)
    BY <1>1, <1>2, <1>3, <1>4, <2>2, <2>3, <2>4
  <2> QED
    BY <2>2, <2>3, <2>5
<1>6. y <= p
  BY <1>1, <1>2, <1>3, <1>4
<1>7. InRegion(RegionSkip, i, p)
  BY <1>1, <1>3, <1>5, <1>6 DEF InRegion
<1>8. SkipAt[p] = a
  <2>1. SkipAt[p] = p + x - y
    BY <1>2, <1>3, <1>7, PlaceOfOffset
  <2> QED
    BY <1>1, <1>2, <1>3, <1>4, <2>1
<1>9. ActualOffsetToSkip(a) = p
  <2>1. PICK j : j = FindIndexOfRegion("actual", a)
    OBVIOUS
  <2>2. StartsOf("actual") = RegionStart
    BY DEF StartsOf
  <2>3. InRegion(StartsOf("actual"), j, a)
    BY <1>1, <2>1, RegionFound
  <2>4. InRegion(StartsOf("actual"), i, a)
    BY <1>1, <1>5, <2>2 DEF InRegion
  <2>5. i = j
    BY <1>1, <2>3, <2>4, OneRegion
  <2>6. Start("actual", i) = x /\ Start("skip", i) = y /\ LastRegion = Gaps
    BY <1>1, <1>2, <1>3, RegionsAre
  <2>7. ~InGap(i, a)
    BY <1>5, <2>6 DEF InGap
  <2> QED
    BY <1>4, <2>1, <2>5, <2>6, <2>7 DEF ActualOffsetToSkip
<1> QED
  BY <1>2, <1>3, <1>4, <1>7, <1>8, <1>9

\* A place in a gap counts as the start of the region behind it.
LEMMA OffsetOfGap ==
    ASSUME NEW a \in Nat, NEW i, InRegion(RegionStart, i, a), InGap(i, a)
    PROVE  /\ i + 1 \in 0..Gaps /\ InPart(i + 1, RegionStart[i + 1])
           /\ Start("actual", i + 1) = RegionStart[i + 1]
           /\ RegionSkip[i + 1] \in Nat
           /\ ActualOffsetToSkip(a) = RegionSkip[i + 1]
<1>0. Gaps \in Nat
  BY GapConstants
<1>1. i \in 0..Gaps
  BY DEF InRegion
<1>2. i < Gaps /\ i + 1 \in 0..Gaps
  <2>1. i < Gaps
    BY RegionsAre DEF InGap
  <2> QED
    BY <1>1, <2>1, NextRegion
<1>3. /\ RegionStart[i + 1] \in Nat /\ RegionSkip[i + 1] \in Nat
      /\ Start("actual", i + 1) = RegionStart[i + 1] /\ Start("skip", i + 1) = RegionSkip[i + 1]
  BY <1>2, RegionFacts, RegionsAre
<1>4. InPart(i + 1, RegionStart[i + 1])
  <2>1. ASSUME i + 1 < Gaps PROVE RegionStart[i + 1] < RegionEnd[i + 1]
    <3>1. PICK j \in 0..(Gaps - 1) : j = i + 1
      BY <1>0, <1>2, <2>1
    <3>2. j > 0
      BY <1>1, <3>1
    <3>3. RegionStart[j] < RegionEnd[j]
      BY <3>2, RegionGap
    <3> QED
      BY <3>1, <3>3
  <2>2. RegionStart[i + 1] <= RegionStart[i + 1]
    BY <1>3
  <2> QED
    BY <1>2, <1>3, <2>1, <2>2 DEF InPart
<1>5. ActualOffsetToSkip(a) = RegionSkip[i + 1]
  <2>1. PICK j : j = FindIndexOfRegion("actual", a)
    OBVIOUS
  <2>2. StartsOf("actual") = RegionStart
    BY DEF StartsOf
  <2>3. InRegion(StartsOf("actual"), j, a)
    BY <2>1, RegionFound
  <2>4. InRegion(StartsOf("actual"), i, a)
    BY <2>2
  <2>5. i = j
    BY <2>3, <2>4, OneRegion
  <2> QED
    BY <1>3, <2>1, <2>5 DEF ActualOffsetToSkip
<1> QED
  BY <1>2, <1>3, <1>4, <1>5

\* Every offset is in a region.
LEMMA SkipRegion ==
    ASSUME NEW p \in Nat
    PROVE  \E i \in 0..Gaps : InRegion(RegionSkip, i, p)
<1>1. InRegion(StartsOf("skip"), FindIndexOfRegion("skip", p), p)
  BY RegionFound
<1>2. StartsOf("skip") = RegionSkip
  BY DEF StartsOf
<1>3. FindIndexOfRegion("skip", p) \in 0..Gaps
  BY <1>1 DEF InRegion
<1> QED
  BY <1>1, <1>2, <1>3

\* The binary search finds the region of any place of the file.
LEMMA ActualRegion ==
    ASSUME NEW a \in Nat
    PROVE  /\ FindIndexOfRegion("actual", a) \in 0..Gaps
           /\ InRegion(RegionStart, FindIndexOfRegion("actual", a), a)
<1>1. InRegion(StartsOf("actual"), FindIndexOfRegion("actual", a), a)
  BY RegionFound
<1>2. StartsOf("actual") = RegionStart
  BY DEF StartsOf
<1> QED
  BY <1>1, <1>2 DEF InRegion

\* The contents' bytes lie in the file in their order.
LEMMA PlacesGrow ==
    ASSUME NEW p \in Nat, NEW q \in Nat, p < q
    PROVE  SkipAt[p] < SkipAt[q]
<1>0. Gaps \in Nat
  BY GapConstants
<1>1. PICK i \in 0..Gaps : InRegion(RegionSkip, i, p)
  BY SkipRegion
<1>2. PICK j \in 0..Gaps : InRegion(RegionSkip, j, q)
  BY SkipRegion
<1>3. /\ RegionSkip[i] <= p /\ RegionSkip[i] \in Nat
      /\ j < Gaps => q < RegionSkip[j + 1]
  BY <1>1, <1>2, RegionFacts DEF InRegion
<1>t. i \in Nat /\ j \in Nat /\ i <= Gaps /\ j <= Gaps
  BY <1>0, <1>1, <1>2
<1>4. i <= j
  <2> SUFFICES ASSUME j < i PROVE FALSE
    BY <1>t
  <2>1. j < Gaps /\ j + 1 \in 0..i
    BY <1>0, <1>t
  <2>2. RegionSkip[j + 1] <= RegionSkip[i]
    BY <1>1, <2>1, RegionsGrow
  <2>3. RegionSkip[j + 1] \in Nat
    <3>1. j + 1 \in 0..Gaps
      BY <1>0, <1>t, <2>1
    <3> QED
      BY <3>1, RegionFacts
  <2>4. q < RegionSkip[j + 1]
    BY <1>3, <2>1
  <2> QED
    BY <1>3, <2>2, <2>3, <2>4
<1>5. i \in 0..j
  BY <1>t, <1>4
<1>6. RegionStart[i] - RegionSkip[i] <= RegionStart[j] - RegionSkip[j]
  BY <1>2, <1>5, RegionsGrow
<1>7. SkipAt[p] = p + RegionStart[i] - RegionSkip[i] /\ SkipAt[q] = q + RegionStart[j] - RegionSkip[j]
  BY <1>1, <1>2, PlaceOfOffset
<1>8. PICK x \in Nat : x = RegionStart[i]
  BY <1>1, RegionFacts
<1>9. PICK y \in Nat : y = RegionSkip[i]
  BY <1>1, RegionFacts
<1>10. PICK u \in Nat : u = RegionStart[j]
  BY <1>2, RegionFacts
<1>11. PICK v \in Nat : v = RegionSkip[j]
  BY <1>2, RegionFacts
<1>12. p + x - y < q + u - v
  <2>1. x - y <= u - v
    BY <1>6, <1>8, <1>9, <1>10, <1>11, Zenon
  <2>2. x \in Nat /\ y \in Nat /\ u \in Nat /\ v \in Nat
    BY <1>8, <1>9, <1>10, <1>11, Zenon
  <2> QED
    BY <2>1, <2>2
<1> QED
  BY <1>7, <1>8, <1>9, <1>10, <1>11, <1>12, Zenon

\* A place in a region is in no gap.
LEMMA NotInGap ==
    ASSUME NEW i, NEW a, InPart(i, a), NEW k \in DOMAIN Skips
    PROVE  ~(Skips[k][1] < a + 1 /\ a + 1 <= Skips[k][2])
<1>0. Gaps \in Nat
  BY GapConstants
<1>1. i \in 0..Gaps /\ a \in Nat /\ RegionStart[i] <= a /\ (i < Gaps => a < RegionEnd[i])
  BY DEF InPart
<1>2. DOMAIN Skips = 1..Gaps
  BY FileAssumption, LenProperties DEF Gaps
<1>3. PICK j \in 0..(Gaps - 1) : k = j + 1
  <2>1. k \in 1..Gaps
    BY <1>2
  <2>2. k - 1 \in 0..(Gaps - 1) /\ k = (k - 1) + 1
    BY <1>0, <2>1
  <2> QED
    BY <2>2
<1>4. PICK e \in Nat : e = RegionEnd[j] /\ e = Skips[k][1]
  BY <1>3, RegionGap
<1>5. PICK u \in Nat : u = RegionStart[j + 1] /\ u = Skips[k][2]
  BY <1>3, RegionGap
<1>t. i \in Nat /\ i <= Gaps /\ j \in Nat /\ j < Gaps
  BY <1>0, <1>1, <1>3
<1>6. CASE i <= j
  <2>1. i < Gaps
    BY <1>0, <1>t, <1>6
  <2>2. i \in 0..(Gaps - 1)
    BY <1>0, <1>t, <2>1
  <2>3. PICK f \in Nat : f = RegionEnd[i]
    BY <2>2, RegionGap
  <2>4. a < f
    BY <1>1, <2>1, <2>3
  <2>5. f <= e
    <3>1. CASE i = j
      <4>1. f = e
        BY <1>4, <2>3, <3>1, Zenon
      <4> QED
        BY <1>4, <4>1
    <3>2. CASE i < j
      <4>1. PICK v \in Nat : v = RegionStart[i + 1] /\ f < v
        BY <2>2, <2>3, RegionGap
      <4>2. i + 1 \in 0..j /\ j \in 0..Gaps
        BY <1>0, <1>t, <3>2
      <4>3. PICK w \in Nat : w = RegionStart[j] /\ w <= e
        BY <1>3, <1>4, RegionGap
      <4>4. RegionStart[i + 1] <= RegionStart[j]
        BY <4>2, RegionsGrow
      <4>5. v <= w
        BY <4>1, <4>3, <4>4, Zenon
      <4> QED
        BY <1>4, <2>3, <4>1, <4>3, <4>5
    <3> QED
      BY <1>t, <1>6, <3>1, <3>2
  <2>6. ~(e < a + 1)
    BY <1>1, <1>4, <2>3, <2>4, <2>5
  <2> QED
    BY <1>4, <2>6
<1>7. CASE j < i
  <2>1. j + 1 \in 0..i
    BY <1>t, <1>7
  <2>2. RegionStart[j + 1] <= RegionStart[i]
    BY <1>1, <2>1, RegionsGrow
  <2>3. PICK v \in Nat : v = RegionStart[i]
    BY <1>1, RegionFacts
  <2>4. u <= v /\ v <= a
    BY <1>1, <1>5, <2>2, <2>3
  <2>5. ~(a + 1 <= u)
    BY <1>1, <1>5, <2>3, <2>4
  <2> QED
    BY <1>5, <2>5
<1> QED
  BY <1>t, <1>6, <1>7

\* The skip handle presents what of the file is in no gap.
LEMMA SkipContents ==
    \E T \in Nat :
       /\ Contents("skip") = [i \in 1..T |-> SkipAt[i - 1] + 1]
       /\ \A p \in Nat : p < T <=> SkipAt[p] < FileLen
<1>0. FileLen \in Nat /\ Gaps \in Nat
  BY FileAssumption, GapConstants
<1>1. PICK A : A = SkipAt
  OBVIOUS
<1>2. A \in [Nat -> Nat]
  <2>1. ASSUME NEW p \in Nat PROVE SkipAt[p] \in Nat
    <3>1. PICK i \in 0..Gaps : InRegion(RegionSkip, i, p)
      BY SkipRegion
    <3>2. InPart(i, SkipAt[p])
      BY <3>1, PlaceOfOffset
    <3> QED
      BY <3>2 DEF InPart
  <2>2. A = [p \in Nat |-> SkipOffsetToActual(p)]
    BY <1>1 DEF SkipAt
  <2> QED
    BY <1>1, <2>1, <2>2
<1>3. \A p, q \in Nat : p < q => A[p] < A[q]
  BY <1>1, PlacesGrow
<1>4. PICK S : S = {b \in Nat : \E p \in Nat : b = A[p] + 1 /\ A[p] < FileLen}
  OBVIOUS
<1>5. PICK T \in Nat : /\ \A p \in Nat : p < T <=> A[p] < FileLen
                       /\ InOrder(S) = [i \in 1..T |-> A[i - 1] + 1]
  BY <1>0, <1>2, <1>3, <1>4, InOrderIs, Zenon
<1>6. ASSUME NEW b \in S
      PROVE  b \in 1..FileLen /\ Belongs("skip", b)
  <2>1. PICK p \in Nat : b = A[p] + 1 /\ A[p] < FileLen
    BY <1>4
  <2>2. PICK i \in 0..Gaps : InRegion(RegionSkip, i, p)
    BY SkipRegion
  <2>3. InPart(i, A[p])
    BY <1>1, <2>2, PlaceOfOffset
  <2>4. \A k \in DOMAIN Skips : ~(Skips[k][1] < b /\ b <= Skips[k][2])
    BY <2>1, <2>3, NotInGap
  <2>5. A[p] \in Nat
    BY <1>2
  <2>6. b \in 1..FileLen
    BY <1>0, <2>1, <2>5
  <2> QED
    BY <2>4, <2>6 DEF Belongs
<1>7. ASSUME NEW b \in 1..FileLen, Belongs("skip", b)
      PROVE  b \in S
  <2>1. \A k \in DOMAIN Skips : ~(Skips[k][1] < b /\ b <= Skips[k][2])
    BY <1>7 DEF Belongs
  <2>2. PICK a \in Nat : b = a + 1 /\ a < FileLen
    <3>1. b - 1 \in Nat /\ b = (b - 1) + 1 /\ b - 1 < FileLen
      BY <1>0
    <3> QED
      BY <3>1
  <2>3. PICK i \in 0..Gaps : InRegion(RegionStart, i, a)
    BY ActualRegion
  <2>4. RegionStart[i] <= a /\ (i < Gaps => a < RegionStart[i + 1])
    BY <2>3 DEF InRegion
  <2>5. ASSUME i < Gaps PROVE a < RegionEnd[i]
    <3>1. i \in 0..(Gaps - 1)
      BY <2>3, <2>5, NextRegion
    <3>2. PICK e \in Nat : e = RegionEnd[i] /\ e = Skips[i + 1][1]
      BY <3>1, RegionGap
    <3>3. PICK u \in Nat : u = RegionStart[i + 1] /\ u = Skips[i + 1][2]
      BY <3>1, RegionGap
    <3>4. i + 1 \in DOMAIN Skips
      <4>1. DOMAIN Skips = 1..Gaps
        BY FileAssumption, LenProperties DEF Gaps
      <4>2. i + 1 \in 1..Gaps
        BY <1>0, <3>1
      <4> QED
        BY <4>1, <4>2
    <3>5. ~(e < b /\ b <= u)
      BY <2>1, <3>2, <3>3, <3>4
    <3>6. a < u
      BY <2>4, <2>5, <3>3
    <3>7. a < e
      BY <2>2, <3>2, <3>3, <3>5, <3>6
    <3> QED
      BY <3>2, <3>7
  <2>6. InPart(i, a)
    BY <2>3, <2>4, <2>5 DEF InPart
  <2>7. PICK p \in Nat : SkipAt[p] = a
    BY <2>6, OffsetOfPlace
  <2>8. b \in Nat /\ b = A[p] + 1 /\ A[p] < FileLen
    BY <1>1, <2>2, <2>7
  <2> QED
    BY <1>4, <2>8
<1>8. S = {b \in 1..FileLen : Belongs("skip", b)}
  BY <1>6, <1>7
<1>9. Contents("skip") = InOrder({b \in 1..FileLen : Belongs("skip", b)})
  BY DEF Contents
<1>10. Contents("skip") = [i \in 1..T |-> SkipAt[i - 1] + 1]
  BY <1>1, <1>5, <1>8, <1>9
<1> QED
  BY <1>1, <1>5, <1>10

\* The skipping handle's bytes lie where SkipAt says.
LEMMA SkipIsAt == IsAt(Contents("skip"), Len(Contents("skip")), SkipAt)
<1>1. PICK T \in Nat :
         /\ Contents("skip") = [i \in 1..T |-> SkipAt[i - 1] + 1]
         /\ \A p \in Nat : p < T <=> SkipAt[p] < FileLen
  BY SkipContents
<1>2. PICK Z : Z = Contents("skip")
  OBVIOUS
<1>3. \A p \in Nat : SkipAt[p] \in Nat
  <2> TAKE p \in Nat
  <2>1. PICK i \in 0..Gaps : InRegion(RegionSkip, i, p)
    BY SkipRegion
  <2>2. InPart(i, SkipAt[p])
    BY <2>1, PlaceOfOffset
  <2> QED
    BY <2>2 DEF InPart
<1>4. SkipAt \in [Nat -> Nat]
  <2>1. SkipAt = [p \in Nat |-> SkipOffsetToActual(p)]
    BY DEF SkipAt
  <2> QED
    BY <1>3, <2>1
<1>5. \A i \in 1..T : i - 1 \in Nat /\ SkipAt[i - 1] + 1 \in Nat \ {0}
  <2> TAKE i \in 1..T
  <2>1. i - 1 \in Nat
    BY <1>1
  <2>2. SkipAt[i - 1] \in Nat
    BY <1>3, <2>1
  <2> QED
    BY <2>1, <2>2
<1>6. Z \in [1..T -> Nat \ {0}] /\ \A i \in 1..T : Z[i] = SkipAt[i - 1] + 1
  BY <1>1, <1>2, <1>5
<1>7. Z \in Seq(Nat \ {0}) /\ Len(Z) = T
  BY <1>6, FunctionIsSeq
<1> QED
  BY <1>1, <1>2, <1>4, <1>6, <1>7 DEF IsAt

\* What is read in a region is a part of the contents.
RegionBytes(Z, T, at, c, k, m) ==
    /\ FileBytes(at, k) = Part(Z, c, m) /\ Len(FileBytes(at, k)) = m
    /\ m > 0 => c + m <= T
    /\ m < k => c + m >= T

\* Bytes read within a region are a part of the contents.
LEMMA RegionBytesArePart ==
    ASSUME NEW i, NEW a, InPart(i, a), NEW c \in Nat, c = a - RegionStart[i] + RegionSkip[i],
           NEW k \in Nat, i < Gaps => a + k <= RegionEnd[i]
    PROVE  \E m \in 0..k : RegionBytes(Contents("skip"), Len(Contents("skip")), a, c, k, m)
<1>0. FileLen \in Nat /\ Gaps \in Nat
  BY FileAssumption, GapConstants
<1>1. PICK Z : Z = Contents("skip")
  OBVIOUS
<1>2. IsAt(Z, Len(Z), SkipAt) /\ Z \in Seq(Nat \ {0})
  BY <1>1, SkipIsAt DEF IsAt
<1>3. PICK T \in Nat : T = Len(Z)
  BY <1>2, LenProperties
<1>4. i \in 0..Gaps /\ a \in Nat /\ RegionStart[i] <= a
  BY DEF InPart
<1>5. SkipAt[c] = a
  BY OffsetOfPlace
<1>6. \A n \in 0..(k - 1) : SkipAt[c + n] = a + n
  <2> SUFFICES ASSUME NEW n \in 0..(k - 1) PROVE SkipAt[c + n] = a + n
    OBVIOUS
  <2>1. n \in Nat /\ n < k /\ a + n \in Nat
    BY <1>4
  <2>2. PICK x \in Nat : x = RegionStart[i]
    BY <1>4, RegionFacts
  <2>3. PICK y \in Nat : y = RegionSkip[i]
    BY <1>4, RegionFacts
  <2>4. ASSUME i < Gaps PROVE a + n < RegionEnd[i]
    <3>1. PICK e \in Nat : e = RegionEnd[i]
      BY <1>4, <2>4, NextRegion, RegionGap
    <3>2. a + k <= e
      BY <2>4, <3>1
    <3> QED
      BY <1>4, <2>1, <3>1, <3>2
  <2>5. RegionStart[i] <= a + n
    BY <1>4, <2>1, <2>2
  <2>6. PICK b \in Nat : b = a + n
    BY <2>1
  <2>7. InPart(i, b)
    <3>1. i \in 0..Gaps /\ RegionStart[i] <= b /\ (i < Gaps => b < RegionEnd[i])
      BY <1>4, <2>4, <2>5, <2>6, Zenon
    <3> QED
      BY <2>6, <3>1 DEF InPart
  <2>8. PICK q \in Nat : q = b - RegionStart[i] + RegionSkip[i] /\ SkipAt[q] = b
    BY <2>7, OffsetOfPlace
  <2>9. q = c + n
    <3>1. q = b - x + y /\ c = a - x + y
      BY <2>2, <2>3, <2>8
    <3> QED
      BY <1>4, <2>1, <2>2, <2>3, <2>6, <3>1
  <2> QED
    BY <2>6, <2>8, <2>9, Zenon
<1>7. CASE k = 0
  <2>1. PICK d : d = FileBytes(a, 0)
    OBVIOUS
  <2>2. Len(d) = 0 /\ d \in Seq(Nat)
    <3>1. \E m \in 0..0 :
              /\ m = Readable(FileLen, a, 0)
              /\ FileBytes(a, 0) = [j \in 1..m |-> a + j]
              /\ Len(FileBytes(a, 0)) = m
              /\ FileBytes(a, 0) \in Seq(Nat)
              /\ m > 0 => a + m <= FileLen
              /\ m < 0 => a + m >= FileLen
      BY <1>4, FileBytesAre, ZenonT(30)
    <3> QED
      BY <2>1, <3>1
  <2>3. d = Part(Z, c, 0)
    BY <2>2, EmptySeq, PartNone
  <2>4. RegionBytes(Z, T, a, c, k, 0)
    BY <1>7, <2>1, <2>2, <2>3 DEF RegionBytes
  <2> QED
    BY <1>1, <1>3, <1>7, <2>4
<1>8. CASE k # 0
  <2>1. Together(SkipAt, c, k) /\ k \in Nat \ {0}
    BY <1>5, <1>6, <1>8 DEF Together
  <2>2. IsAt(Z, T, SkipAt)
    BY <1>2, <1>3
  <2>3. \E m \in 0..k : BytesArePart(Z, T, SkipAt[c], c, k, m)
    BY <2>1, <2>2, FileBytesArePart, ZenonT(30)
  <2>4. PICK m \in 0..k : /\ FileBytes(a, k) = Part(Z, c, m) /\ Len(FileBytes(a, k)) = m
                          /\ m > 0 => c + m <= T
                          /\ m < k => a + m >= FileLen
    BY <1>5, <2>3 DEF BytesArePart
  <2>5. m < k => c + m >= T
    <3> SUFFICES ASSUME m < k PROVE c + m >= T
      OBVIOUS
    <3>1. m \in 0..(k - 1) /\ c + m \in Nat
      BY <2>4
    <3>2. SkipAt[c + m] = a + m
      BY <1>6, <3>1
    <3>3. ~(a + m < FileLen)
      BY <1>0, <1>4, <2>4, <3>1
    <3>4. c + m < T <=> SkipAt[c + m] < FileLen
      BY <2>2, <3>1 DEF IsAt
    <3> QED
      BY <1>3, <3>1, <3>2, <3>3, <3>4
  <2>6. RegionBytes(Z, T, a, c, k, m)
    BY <2>4, <2>5 DEF RegionBytes
  <2> QED
    BY <1>1, <1>3, <2>6
<1> QED
  BY <1>7, <1>8

\* Which offset a place in a region is.
SkipPlace(r, c) ==
    InPart(r.curr, r.pp) /\ c = r.pp - RegionStart[r.curr] + RegionSkip[r.curr]

\* A read on its way, from P on, of w bytes.
SkipReading(P, w) ==
    {r \in [pp : Nat, curr : Nat, want : Nat, data : Seq(Nat \ {0})] :
        /\ SkipPlace(r, P + Len(r.data))
        /\ Len(r.data) + r.want = w
        /\ r.data = Part(Contents("skip"), P, Len(r.data))
        /\ Len(r.data) > 0 => P + Len(r.data) <= Len(Contents("skip"))}

SkipDone(P, r) == r.want = 0 \/ P + Len(r.data) >= Len(Contents("skip"))

\* A round of the read loop reads bytes of the contents, and the loop is over
\* or in the next region.
LEMMA SkipRoundKeeps ==
    ASSUME NEW P \in Nat, NEW w \in Nat, NEW r \in SkipReading(P, w)
    PROVE  /\ SkipRound(r) \in SkipReading(P, w)
           /\ SkipDone(P, r) => SkipDone(P, SkipRound(r))
           /\ ~SkipDone(P, r) => SkipDone(P, SkipRound(r)) \/ SkipRound(r).curr = r.curr + 1
<1>0. Gaps \in Nat
  BY GapConstants
<1>1. PICK Z : Z = Contents("skip")
  OBVIOUS
<1>2. Z \in Seq(Nat \ {0})
  BY <1>1, SkipIsAt DEF IsAt
<1>3. PICK T \in Nat : T = Len(Z)
  BY <1>2, LenProperties
<1>4. /\ r \in [pp : Nat, curr : Nat, want : Nat, data : Seq(Nat \ {0})]
      /\ SkipPlace(r, P + Len(r.data))
      /\ Len(r.data) + r.want = w
      /\ r.data = Part(Z, P, Len(r.data))
      /\ Len(r.data) > 0 => P + Len(r.data) <= T
  BY <1>1, <1>3 DEF SkipReading
<1>5. PICK pp \in Nat : pp = r.pp
  BY <1>4
<1>6. PICK curr \in Nat : curr = r.curr
  BY <1>4
<1>7. PICK want \in Nat : want = r.want
  BY <1>4
<1>8. PICK d \in Seq(Nat \ {0}) : d = r.data
  BY <1>4
<1>9. PICK a \in Nat : a = Len(d)
  BY LenProperties
<1>10. r = [pp |-> pp, curr |-> curr, want |-> want, data |-> d]
  BY <1>4, <1>5, <1>6, <1>7, <1>8
<1>11. PICK c \in Nat : c = P + a
  OBVIOUS
<1>12. InPart(curr, pp) /\ c = pp - RegionStart[curr] + RegionSkip[curr]
  BY <1>4, <1>5, <1>6, <1>8, <1>9, <1>11 DEF SkipPlace
<1>13. curr \in 0..Gaps /\ RegionStart[curr] <= pp /\ (curr < Gaps => pp < RegionEnd[curr])
  BY <1>12 DEF InPart
<1>14. PICK x0 \in Nat : x0 = RegionStart[curr]
  BY <1>13, RegionFacts
<1>15. PICK y0 \in Nat : y0 = RegionSkip[curr]
  BY <1>13, RegionFacts
<1>16. c = pp - x0 + y0 /\ x0 <= pp
  BY <1>12, <1>13, <1>14, <1>15, Zenon
\* How far the region lets it read.
<1>17. PICK ends : ends = (curr < Gaps /\ want >= GapStart(curr) - pp)
  OBVIOUS
<1>18. ASSUME curr < Gaps
       PROVE  \E e \in Nat : /\ e = RegionEnd[curr] /\ e = GapStart(curr) /\ pp < e
                             /\ curr + 1 \in 0..Gaps
                             /\ RegionSkip[curr + 1] = y0 + (e - x0)
  <2>1. curr \in 0..(Gaps - 1) /\ curr + 1 \in 0..Gaps
    BY <1>13, <1>18, NextRegion
  <2>2. PICK e \in Nat : e = RegionEnd[curr] /\ e = GapStart(curr)
    BY <2>1, RegionGap
  <2>3. RegionSkip[curr + 1] = y0 + (e - x0)
    BY <1>14, <1>15, <2>1, <2>2, RegionGap
  <2>4. pp < e
    BY <1>13, <1>18, <2>2
  <2> QED
    BY <2>1, <2>2, <2>3, <2>4
<1>19. PICK k : k = IF ends THEN GapStart(curr) - pp ELSE want
  OBVIOUS
<1>20. /\ k \in Nat /\ k <= want
       /\ curr < Gaps => pp + k <= RegionEnd[curr]
       /\ ~ends => k = want
  <2>1. CASE ~(curr < Gaps)
    <3>1. k = want
      BY <1>17, <1>19, <2>1
    <3> QED
      BY <2>1, <3>1
  <2>2. CASE curr < Gaps
    <3>1. PICK e \in Nat : e = RegionEnd[curr] /\ e = GapStart(curr) /\ pp < e
      BY <1>18, <2>2
    <3>2. CASE want >= e - pp
      <4>1. k = e - pp
        BY <1>17, <1>19, <2>2, <3>1, <3>2
      <4>2. ends
        BY <1>17, <2>2, <3>1, <3>2
      <4>3. e - pp \in Nat /\ e - pp <= want /\ pp + (e - pp) <= e
        BY <3>1, <3>2
      <4> QED
        BY <3>1, <4>1, <4>2, <4>3
    <3>3. CASE ~(want >= e - pp)
      <4>1. k = want
        BY <1>17, <1>19, <3>1, <3>3
      <4>2. pp + want <= e /\ want <= want
        BY <3>1, <3>3
      <4> QED
        BY <3>1, <4>1, <4>2
    <3> QED
      BY <3>2, <3>3
  <2> QED
    BY <2>1, <2>2
<1>21. PICK e : e = FileBytes(pp, k)
  OBVIOUS
<1>22. PICK m \in Nat :
          /\ m <= k /\ e = Part(Z, c, m) /\ Len(e) = m
          /\ m > 0 => c + m <= T
          /\ m < k => c + m >= T
  <2>1. \E m \in 0..k : RegionBytes(Contents("skip"), Len(Contents("skip")), pp, c, k, m)
    BY <1>12, <1>20, RegionBytesArePart
  <2>2. PICK m \in 0..k : RegionBytes(Z, T, pp, c, k, m)
    BY <1>1, <1>3, <2>1
  <2>3. m \in Nat /\ m <= k
    BY <1>20, <2>2
  <2> QED
    BY <1>21, <2>2, <2>3 DEF RegionBytes
<1>t. /\ pp \in Nat /\ want \in Nat /\ a \in Nat /\ c \in Nat /\ T \in Nat /\ m \in Nat
      /\ k \in Nat /\ curr \in Nat /\ x0 \in Nat /\ y0 \in Nat
  BY <1>3, <1>5, <1>6, <1>7, <1>9, <1>11, <1>14, <1>15, <1>20, <1>22, Zenon
<1>23. PICK x : x = d \o e
  OBVIOUS
<1>24. a + m > 0 => c + m <= T
  <2>1. a > 0 => c <= T
    BY <1>4, <1>8, <1>9, <1>11
  <2> QED
    BY <1>t, <1>22, <2>1
<1>25. Within(Nat \ {0}, Z, P, a + m)
  <2>1. \A i \in 1..(a + m) : P + i \in 1..T
    BY <1>t, <1>11, <1>24
  <2>2. \A i \in 1..T : Z[i] \in Nat \ {0}
    BY <1>2, <1>3, ElementOfSeq
  <2> QED
    BY <2>1, <2>2 DEF Within
<1>26. x = Part(Z, P, a + m)
  <2>1. PartsJoin(Z, P, a, m)
    BY <1>t, <1>25, PartMore
  <2>2. Part(Z, P, a) \o Part(Z, P + a, m) = Part(Z, P, a + m)
    BY <2>1 DEF PartsJoin
  <2>3. d = Part(Z, P, a)
    BY <1>4, <1>8, <1>9
  <2> QED
    BY <1>11, <1>22, <1>23, <2>2, <2>3, Zenon
<1>27. x \in Seq(Nat \ {0}) /\ Len(x) = a + m
  <2>1. a + m \in Nat
    BY <1>t
  <2>2. IsPart(Nat \ {0}, Z, P, a + m, x)
    BY <1>25, <1>26, <2>1, PartType
  <2> QED
    BY <2>2 DEF IsPart
<1>28. PICK next : next = [pp |-> pp + m, curr |-> curr, want |-> want - m, data |-> x]
  OBVIOUS
<1>29. SkipRound(r) = IF ends /\ pp + m = GapStart(curr)
                      THEN [pp |-> Start("actual", curr + 1), curr |-> curr + 1,
                            want |-> want - m, data |-> x]
                      ELSE next
  <2>1. r.pp = pp /\ r.curr = curr /\ r.want = want /\ r.data = d
    BY <1>10
  <2>2. next = [r EXCEPT !.pp = pp + Len(e), !.want = want - Len(e), !.data = d \o e]
    <3>1. PICK q : q = [r EXCEPT !.pp = pp + m, !.want = want - m, !.data = x]
      OBVIOUS
    <3>2. q = [pp |-> pp + m, curr |-> curr, want |-> want - m, data |-> x]
      BY <1>10, <3>1
    <3>3. [r EXCEPT !.pp = pp + m, !.want = want - m, !.data = x]
             = [r EXCEPT !.pp = pp + Len(e), !.want = want - Len(e), !.data = d \o e]
      BY <1>22, <1>23, Zenon
    <3> QED
      BY <1>28, <3>1, <3>2, <3>3, Zenon
  <2>3. LastRegion = Gaps
    BY RegionsAre
  <2>4. (r.curr < LastRegion /\ r.want >= GapStart(r.curr) - r.pp) = ends
    BY <1>17, <2>1, <2>3, Zenon
  <2>5. FileBytes(r.pp, IF r.curr < LastRegion /\ r.want >= GapStart(r.curr) - r.pp
                        THEN GapStart(r.curr) - r.pp ELSE r.want) = e
    BY <1>19, <1>21, <2>1, <2>4, Zenon
  <2>6. SkipRound(r) =
          IF ends /\ r.pp + Len(e) = GapStart(r.curr)
          THEN [next EXCEPT !.pp = Start("actual", r.curr + 1), !.curr = @ + 1]
          ELSE next
    <3>1. next = [r EXCEPT !.pp = r.pp + Len(e), !.want = r.want - Len(e), !.data = r.data \o e]
      BY <2>1, <2>2, Zenon
    <3> QED
      BY <2>4, <2>5, <3>1 DEF SkipRound
  <2>7. [next EXCEPT !.pp = Start("actual", curr + 1), !.curr = @ + 1]
          = [pp |-> Start("actual", curr + 1), curr |-> curr + 1,
             want |-> want - m, data |-> x]
    <3>1. PICK q : q = [next EXCEPT !.pp = Start("actual", curr + 1), !.curr = @ + 1]
      OBVIOUS
    <3>2. q = [pp |-> Start("actual", curr + 1), curr |-> curr + 1,
               want |-> want - m, data |-> x]
      BY <1>28, <3>1
    <3> QED
      BY <3>1, <3>2, Zenon
  <2> QED
    BY <1>22, <2>1, <2>6, <2>7, Zenon
<1>30. PICK s : s = SkipRound(r)
  OBVIOUS
<1>31. (a + m) + (want - m) = w /\ want - m \in Nat
  <2>1. a + want = w
    BY <1>4, <1>7, <1>8, <1>9
  <2> QED
    BY <1>t, <1>20, <1>22, <2>1
<1>32. P + (a + m) = (pp + m) - x0 + y0
  BY <1>t, <1>11, <1>16
<1>33. CASE ends /\ pp + m = GapStart(curr)
  <2>1. s = [pp |-> Start("actual", curr + 1), curr |-> curr + 1, want |-> want - m, data |-> x]
    BY <1>29, <1>30, <1>33
  <2>2. curr < Gaps
    BY <1>17, <1>33
  <2>3. PICK g \in Nat : /\ g = RegionEnd[curr] /\ g = GapStart(curr) /\ pp < g
                         /\ curr + 1 \in 0..Gaps
                         /\ RegionSkip[curr + 1] = y0 + (g - x0)
    BY <1>18, <2>2
  <2>4. PICK i \in 0..Gaps : i = curr + 1
    BY <2>3
  <2>5. PICK u \in Nat : u = RegionStart[i] /\ u = Start("actual", i)
    BY <2>4, RegionFacts, RegionsAre
  <2>6. s.pp = u /\ s.curr = i /\ s.want = want - m /\ s.data = x
    BY <2>1, <2>4, <2>5
  <2>7. s \in [pp : Nat, curr : Nat, want : Nat, data : Seq(Nat \ {0})]
    <3>1. i \in Nat
      BY <1>0, <2>4
    <3>2. s = [pp |-> u, curr |-> i, want |-> want - m, data |-> x]
      BY <2>1, <2>4, <2>5, Zenon
    <3> QED
      BY <1>27, <1>31, <2>5, <3>1, <3>2
  <2>8. InPart(i, u)
    <3>1. ASSUME i < Gaps PROVE u < RegionEnd[i]
      <4>1. i \in 0..(Gaps - 1) /\ i > 0
        BY <1>0, <1>t, <2>4, <3>1
      <4>2. RegionStart[i] < RegionEnd[i]
        BY <4>1, RegionGap
      <4> QED
        BY <2>5, <4>2, Zenon
    <3>2. RegionStart[i] <= u
      BY <2>5
    <3> QED
      BY <2>4, <2>5, <3>1, <3>2 DEF InPart
  <2>9. P + (a + m) = u - RegionStart[i] + RegionSkip[i]
    <3>1. RegionSkip[i] = y0 + (g - x0)
      BY <2>3, <2>4, Zenon
    <3>2. pp + m = g
      BY <1>33, <2>3, Zenon
    <3>3. P + (a + m) = u - u + (y0 + (g - x0))
      <4>1. g \in Nat /\ u \in Nat
        BY <2>3, <2>5, Zenon
      <4> QED
        BY <1>t, <1>32, <3>2, <4>1
    <3> QED
      BY <2>5, <3>1, <3>3, Zenon
  <2>10. Len(s.data) = a + m
    BY <1>27, <2>6
  <2>11. SkipPlace(s, P + Len(s.data))
    BY <2>6, <2>8, <2>9, <2>10, Zenon DEF SkipPlace
  <2>12. Len(s.data) + s.want = w /\ s.data = Part(Z, P, Len(s.data))
    BY <1>26, <1>31, <2>6, <2>10
  <2>13. Len(s.data) > 0 => P + Len(s.data) <= T
    <3>1. c + m = P + (a + m)
      BY <1>t, <1>11
    <3> QED
      BY <1>24, <2>10, <3>1
  <2>14. s \in SkipReading(P, w)
    BY <1>1, <1>3, <2>7, <2>11, <2>12, <2>13 DEF SkipReading
  <2>15. SkipDone(P, r) => SkipDone(P, s)
    <3> SUFFICES ASSUME SkipDone(P, r) PROVE SkipDone(P, s)
      OBVIOUS
    <3>1. want = 0 \/ P + a >= T
      BY <1>1, <1>3, <1>7, <1>8, <1>9 DEF SkipDone
    <3>2. want = 0 => want - m = 0
      BY <1>t, <1>20, <1>22
    <3>3. P + a >= T => P + (a + m) >= T
      BY <1>t
    <3> QED
      BY <1>1, <1>3, <2>6, <2>10, <3>1, <3>2, <3>3 DEF SkipDone
  <2> QED
    BY <1>6, <1>30, <2>4, <2>6, <2>14, <2>15
<1>34. CASE ~(ends /\ pp + m = GapStart(curr))
  <2>1. s = next
    BY <1>29, <1>30, <1>34
  <2>2. s.pp = pp + m /\ s.curr = curr /\ s.want = want - m /\ s.data = x
    BY <1>28, <2>1
  <2>3. s \in [pp : Nat, curr : Nat, want : Nat, data : Seq(Nat \ {0})]
    <3>1. pp + m \in Nat
      BY <1>t
    <3> QED
      BY <1>27, <1>28, <1>31, <1>t, <2>1, <3>1
  <2>4. m = k => ~ends
    <3> SUFFICES ASSUME m = k, ends PROVE FALSE
      OBVIOUS
    <3>1. curr < Gaps /\ k = GapStart(curr) - pp
      BY <1>17, <1>19
    <3>2. PICK g \in Nat : g = GapStart(curr)
      BY <1>18, <3>1
    <3>3. pp + m = g
      BY <1>t, <3>1, <3>2
    <3> QED
      BY <1>34, <3>2, <3>3
  <2>5. InPart(curr, pp + m)
    <3>1. PICK b \in Nat : b = pp + m
      BY <1>t
    <3>2. ASSUME curr < Gaps PROVE b < RegionEnd[curr]
      <4>1. PICK g \in Nat : g = RegionEnd[curr] /\ g = GapStart(curr) /\ pp < g
        BY <1>18, <3>2
      <4>2. pp + k <= g
        BY <1>20, <3>2, <4>1
      <4>3. CASE m < k
        <5>1. b < g
          BY <1>t, <3>1, <4>1, <4>2, <4>3
        <5> QED
          BY <4>1, <5>1
      <4>4. CASE m = k
        <5>1. ~(want >= g - pp) /\ k = want
          BY <1>17, <1>20, <2>4, <3>2, <4>1, <4>4
        <5>2. b < g
          BY <1>t, <3>1, <4>1, <4>4, <5>1
        <5> QED
          BY <4>1, <5>2
      <4> QED
        BY <1>t, <1>22, <4>3, <4>4
    <3>3. RegionStart[curr] <= b
      <4>1. x0 <= b
        BY <1>t, <1>14, <1>16, <3>1
      <4> QED
        BY <1>14, <4>1, Zenon
    <3>4. InPart(curr, b)
      BY <1>13, <3>1, <3>2, <3>3 DEF InPart
    <3> QED
      BY <3>1, <3>4, Zenon
  <2>6. Len(s.data) = a + m
    BY <1>27, <2>2
  <2>7. SkipPlace(s, P + Len(s.data))
    BY <1>14, <1>15, <1>32, <2>2, <2>5, <2>6, Zenon DEF SkipPlace
  <2>8. Len(s.data) + s.want = w /\ s.data = Part(Z, P, Len(s.data))
    BY <1>26, <1>31, <2>2, <2>6
  <2>9. Len(s.data) > 0 => P + Len(s.data) <= T
    <3>1. c + m = P + (a + m)
      BY <1>t, <1>11
    <3> QED
      BY <1>24, <2>6, <3>1
  <2>10. s \in SkipReading(P, w)
    BY <1>1, <1>3, <2>3, <2>7, <2>8, <2>9 DEF SkipReading
  <2>11. SkipDone(P, s)
    <3>1. CASE m = k
      <4>1. want - m = 0
        BY <1>t, <1>20, <2>4, <3>1
      <4> QED
        BY <2>2, <4>1 DEF SkipDone
    <3>2. CASE m < k
      <4>1. P + (a + m) >= T
        BY <1>t, <1>11, <1>22, <3>2
      <4> QED
        BY <1>1, <1>3, <2>6, <4>1 DEF SkipDone
    <3> QED
      BY <1>t, <1>22, <3>1, <3>2
  <2> QED
    BY <1>30, <2>10, <2>11
<1> QED
  BY <1>33, <1>34

\* Where a read begins: behind the gap it stands in.
SkipBegins(h, from) ==
    /\ from \in [pp : Nat, curr : Nat]
    /\ SkipPlace(from, ActualOffsetToSkip(h.pp))
    /\ ActualOffsetToSkip(h.pp) \in Nat
    /\ from = IF InGap(FindIndexOfRegion("actual", h.pp), h.pp)
              THEN [pp |-> Start("actual", FindIndexOfRegion("actual", h.pp) + 1),
                    curr |-> FindIndexOfRegion("actual", h.pp) + 1]
              ELSE [pp |-> h.pp, curr |-> FindIndexOfRegion("actual", h.pp)]

\* Where a read of the skipping handle begins: in a gap, behind it.
LEMMA SkipReadBegins ==
    ASSUME NEW h \in [pp : Nat, curr : Nat]
    PROVE  \E from : SkipBegins(h, from)
<1>0. Gaps \in Nat
  BY GapConstants
<1>1. PICK a \in Nat : a = h.pp
  OBVIOUS
<1>2. PICK i \in 0..Gaps : i = FindIndexOfRegion("actual", a) /\ InRegion(RegionStart, i, a)
  BY ActualRegion
<1>3. CASE InGap(i, a)
  <2>1. PICK j \in 0..Gaps : /\ j = i + 1 /\ InPart(j, RegionStart[j])
                             /\ Start("actual", j) = RegionStart[j]
                             /\ RegionSkip[j] \in Nat
                             /\ ActualOffsetToSkip(a) = RegionSkip[j]
    BY <1>2, <1>3, OffsetOfGap
  <2>2. PICK u \in Nat : u = RegionStart[j]
    BY <2>1, RegionFacts
  <2>3. PICK from : from = [pp |-> u, curr |-> j]
    OBVIOUS
  <2>4. j \in Nat
    BY <1>0, <2>1
  <2>5. from \in [pp : Nat, curr : Nat] /\ from.pp = u /\ from.curr = j
    BY <2>3, <2>4
  <2>6. ActualOffsetToSkip(a) = u - RegionStart[j] + RegionSkip[j]
    <3>1. PICK y \in Nat : y = RegionSkip[j]
      BY <2>1
    <3>2. y = u - u + y
      BY <2>2, <3>1
    <3> QED
      BY <2>1, <2>2, <3>1, <3>2, Zenon
  <2>7. SkipPlace(from, ActualOffsetToSkip(a))
    BY <2>1, <2>2, <2>5, <2>6, Zenon DEF SkipPlace
  <2>8. from = [pp |-> Start("actual", i + 1), curr |-> i + 1]
    BY <2>1, <2>2, <2>3, Zenon
  <2>9. SkipBegins(h, from)
    BY <1>1, <1>2, <1>3, <2>1, <2>5, <2>7, <2>8, Zenon DEF SkipBegins
  <2> QED
    BY <2>9
<1>4. CASE ~InGap(i, a)
  <2>1. InPart(i, a)
    <3>1. RegionStart[i] <= a
      BY <1>2 DEF InRegion
    <3>2. ASSUME i < Gaps PROVE a < RegionEnd[i]
      <4>1. PICK e \in Nat : e = RegionEnd[i] /\ GapStart(i) = e
        BY <1>2, <3>2, NextRegion, RegionGap
      <4>2. LastRegion = Gaps
        BY RegionsAre
      <4>3. ~(a >= e)
        BY <1>4, <3>2, <4>1, <4>2 DEF InGap
      <4> QED
        BY <1>1, <4>1, <4>3
    <3> QED
      BY <1>1, <1>2, <3>1, <3>2 DEF InPart
  <2>2. PICK p \in Nat : p = a - RegionStart[i] + RegionSkip[i] /\ ActualOffsetToSkip(a) = p
    BY <2>1, OffsetOfPlace
  <2>3. PICK from : from = [pp |-> a, curr |-> i]
    OBVIOUS
  <2>4. i \in Nat
    BY <1>0, <1>2
  <2>5. from \in [pp : Nat, curr : Nat] /\ from.pp = a /\ from.curr = i
    BY <1>1, <2>3, <2>4
  <2>6. SkipPlace(from, ActualOffsetToSkip(a))
    BY <2>1, <2>2, <2>5, Zenon DEF SkipPlace
  <2>7. SkipBegins(h, from)
    BY <1>1, <1>2, <1>4, <2>2, <2>3, <2>5, <2>6, Zenon DEF SkipBegins
  <2> QED
    BY <2>7
<1> QED
  BY <1>3, <1>4

\* readAtMost: reads what there is.
LEMMA SkipReadReads ==
    ASSUME NEW h, Good("skip", h), NEW n \in Nat \ {0}
    PROVE  Reads("skip", h, n, ReadAtMost("skip", h, n))
<1>0. Gaps \in Nat
  BY GapConstants
<1>1. PICK Z : Z = Contents("skip")
  OBVIOUS
<1>2. Z \in Seq(Nat \ {0})
  BY <1>1, SkipIsAt DEF IsAt
<1>3. PICK T \in Nat : T = Len(Z)
  BY <1>2, LenProperties
<1>4. h \in [pp : Nat, curr : Nat]
  BY DEF Good
<1>5. PICK from : SkipBegins(h, from)
  BY <1>4, SkipReadBegins
<1>6. PICK P \in Nat : P = ActualOffsetToSkip(h.pp)
  BY <1>5 DEF SkipBegins
<1>7. PICK S : S = SkipReading(P, n)
  OBVIOUS
<1>8. PICK a : a = Begun(from, n)
  OBVIOUS
<1>9. a \in S
  <2>1. a = [pp |-> from.pp, curr |-> from.curr, want |-> n, data |-> <<>>]
    BY <1>8 DEF Begun
  <2>2. <<>> \in Seq(Nat \ {0}) /\ Len(<<>>) = 0
    BY EmptySeq
  <2>3. a \in [pp : Nat, curr : Nat, want : Nat, data : Seq(Nat \ {0})]
    <3>1. from \in [pp : Nat, curr : Nat]
      BY <1>5 DEF SkipBegins
    <3> QED
      BY <2>1, <2>2, <3>1
  <2>4. /\ a.data = <<>> /\ Len(a.data) = 0 /\ a.want = n
        /\ a.pp = from.pp /\ a.curr = from.curr
    BY <2>1, <2>2
  <2>5. a.data = Part(Z, P, Len(a.data))
    BY <2>4, PartNone
  <2>6. SkipPlace(a, P + Len(a.data))
    <3>1. P + Len(a.data) = P
      BY <2>4
    <3>2. SkipPlace(from, P)
      BY <1>5, <1>6 DEF SkipBegins
    <3> QED
      BY <2>4, <3>1, <3>2, Zenon DEF SkipPlace
  <2>7. Len(a.data) + a.want = n
    BY <2>4
  <2> QED
    BY <1>1, <1>7, <2>3, <2>4, <2>5, <2>6, <2>7 DEF SkipReading
<1>10. \A s \in S : /\ SkipRound(s) \in S
                    /\ SkipDone(P, s) => SkipDone(P, SkipRound(s))
                    /\ ~SkipDone(P, s) =>
                          SkipDone(P, SkipRound(s)) \/ SkipRound(s).curr = s.curr + 1
  BY <1>7, SkipRoundKeeps
<1>11. PICK N \in Nat : N = Gaps + 1
  BY <1>0
<1>12. PICK g \in [0..N -> S] : SkipRoundStates(a, N, g)
  <2>1. \A s \in S : SkipRound(s) \in S
    BY <1>10
  <2> QED
    BY <1>9, <1>11, <2>1, SkipRoundLoops
<1>13. /\ g[0] = a /\ \A k \in 1..N : g[k] = SkipRound(g[k - 1])
       /\ SkipRounds(a, N) = g[N]
  BY <1>12 DEF SkipRoundStates
<1>14. PICK Over : Over = {s \in S : SkipDone(P, s)}
  OBVIOUS
<1>15. PICK W : W = [s \in S |-> IF SkipDone(P, s) THEN 0 ELSE N - s.curr]
  OBVIOUS
<1>16. \A s \in S : /\ s.curr \in 0..Gaps
                    /\ W[s] = IF SkipDone(P, s) THEN 0 ELSE N - s.curr
  BY <1>7, <1>15 DEF SkipReading, SkipPlace, InPart
<1>17. W \in [S -> Nat] /\ \A s \in S : W[s] <= N /\ (W[s] = 0 => s \in Over)
  <2>1. ASSUME NEW s \in S
        PROVE  W[s] \in Nat /\ W[s] <= N /\ (W[s] = 0 => s \in Over)
    <3>1. PICK c \in 0..Gaps : c = s.curr
      BY <1>16
    <3>2. N - c \in Nat /\ N - c <= N /\ N - c # 0
      BY <1>0, <1>11, <3>1
    <3>3. W[s] = IF SkipDone(P, s) THEN 0 ELSE N - c
      BY <1>16, <3>1
    <3>4. CASE SkipDone(P, s)
      BY <1>11, <1>14, <3>3, <3>4
    <3>5. CASE ~SkipDone(P, s)
      BY <3>2, <3>3, <3>5
    <3> QED
      BY <3>4, <3>5
  <2> QED
    BY <1>15, <2>1
<1>18. Works(g, N, Over, W)
  <2>1. ASSUME NEW k \in 1..N
        PROVE  IF g[k - 1] \in Over THEN g[k] \in Over ELSE W[g[k]] < W[g[k - 1]]
    <3>1. k - 1 \in 0..N /\ k \in 0..N
      BY <1>11
    <3>2. PICK s \in S : s = g[k - 1]
      BY <1>12, <3>1
    <3>3. PICK t \in S : t = g[k]
      BY <1>12, <3>1
    <3>4. t = SkipRound(s)
      BY <1>13, <3>1, <3>2, <3>3
    <3>5. /\ SkipDone(P, s) => SkipDone(P, t)
          /\ ~SkipDone(P, s) => SkipDone(P, t) \/ t.curr = s.curr + 1
      BY <1>10, <3>4
    <3>6. ASSUME ~SkipDone(P, s) PROVE W[t] < W[s]
      <4>1. PICK c \in 0..Gaps : c = s.curr
        BY <1>16
      <4>2. W[s] = N - c
        BY <1>16, <3>6, <4>1
      <4>3. CASE SkipDone(P, t)
        <5>1. W[t] = 0
          BY <1>16, <4>3
        <5> QED
          BY <1>0, <1>11, <4>1, <4>2, <5>1
      <4>4. CASE ~SkipDone(P, t)
        <5>1. W[t] = N - (c + 1)
          BY <1>16, <3>5, <3>6, <4>1, <4>4
        <5> QED
          BY <1>0, <1>11, <4>1, <4>2, <5>1
      <4> QED
        BY <4>3, <4>4
    <3> QED
      BY <1>14, <3>2, <3>3, <3>5, <3>6
  <2> QED
    BY <2>1 DEF Works
<1>19. PICK e : e = g[N]
  OBVIOUS
<1>20. e \in S /\ SkipDone(P, e)
  <2>1. g[0] \in S
    BY <1>9, <1>13
  <2>2. W[g[0]] <= N
    BY <1>17, <2>1
  <2>3. \A s \in S : W[s] = 0 => s \in Over
    BY <1>17
  <2>4. W \in [S -> Nat] /\ N \in Nat /\ g \in [0..N -> S]
    BY <1>11, <1>12, <1>17
  <2>5. g[N] \in Over
    BY <1>18, <2>2, <2>3, <2>4, LoopEnds
  <2> QED
    BY <1>14, <1>19, <2>5
<1>21. /\ e \in [pp : Nat, curr : Nat, want : Nat, data : Seq(Nat \ {0})]
       /\ SkipPlace(e, P + Len(e.data))
       /\ Len(e.data) + e.want = n
       /\ e.data = Part(Z, P, Len(e.data))
       /\ Len(e.data) > 0 => P + Len(e.data) <= T
  BY <1>1, <1>3, <1>7, <1>20 DEF SkipReading
<1>22. PICK m \in Nat : m = Len(e.data)
  BY <1>21, LenProperties
<1>23. m = Readable(T, P, n)
  <2>1. m = n \/ P + m >= T
    BY <1>1, <1>3, <1>20, <1>21, <1>22 DEF SkipDone
  <2>2. m <= n /\ (m > 0 => P + m <= T)
    BY <1>21, <1>22
  <2> QED
    BY <2>1, <2>2 DEF Readable, Least
<1>24. PICK r : r = ReadAtMost("skip", h, n)
  OBVIOUS
<1>25. r = [ok |-> TRUE, h |-> [h EXCEPT !.pp = e.pp], data |-> e.data]
  <2>1. ReadAtMost("skip", h, n) = SkipRead(h, n)
    BY DEF ReadAtMost
  <2>2. Len(Regions) = N
    <3>1. PICK gs : RegionStates(gs)
      BY RegionStatesExist
    <3>2. Regions \in RegionSeqs(Gaps)
      <4>1. gs[Gaps] \in RegionSeqs(Gaps) /\ Regions = gs[Gaps]
        BY <1>0, <3>1 DEF RegionStates
      <4> QED
        BY <4>1
    <3> QED
      BY <1>11, <3>2 DEF RegionSeqs
  <2>3. from = IF InGap(FindIndexOfRegion("actual", h.pp), h.pp)
               THEN [pp |-> Start("actual", FindIndexOfRegion("actual", h.pp) + 1),
                     curr |-> FindIndexOfRegion("actual", h.pp) + 1]
               ELSE [pp |-> h.pp, curr |-> FindIndexOfRegion("actual", h.pp)]
    BY <1>5 DEF SkipBegins
  <2>4. After(SkipRound, Begun(from, n), Len(Regions)) = e
    <3>1. SkipRounds(a, N) = After(SkipRound, a, N)
      BY DEF SkipRounds
    <3> QED
      BY <1>8, <1>13, <1>19, <2>2, <3>1, Zenon
  <2>5. SkipRead(h, n) = Returns([h EXCEPT !.pp = e.pp], e.data)
    BY <2>3, <2>4 DEF SkipRead
  <2> QED
    BY <1>24, <2>1, <2>5 DEF Returns
<1>26. r.h \in [pp : Nat, curr : Nat] /\ r.h.pp = e.pp
  BY <1>4, <1>21, <1>25
<1>27. Good("skip", r.h)
  BY <1>26 DEF Good
<1>28. OffsetInFile("skip", r.h) = P + m /\ OffsetInFile("skip", h) = P
  <2>1. PICK i : i = e.curr
    OBVIOUS
  <2>2. PICK b : b = e.pp
    OBVIOUS
  <2>3. InPart(i, b) /\ P + m = b - RegionStart[i] + RegionSkip[i]
    BY <1>21, <1>22, <2>1, <2>2 DEF SkipPlace
  <2>4. ActualOffsetToSkip(b) = P + m
    <3>1. PICK p \in Nat : p = b - RegionStart[i] + RegionSkip[i] /\ ActualOffsetToSkip(b) = p
      BY <2>3, OffsetOfPlace
    <3> QED
      BY <2>3, <3>1, Zenon
  <2> QED
    BY <1>6, <1>26, <2>2, <2>4 DEF OffsetInFile
<1>29. r.ok /\ r.data = Part(Z, P, m)
  BY <1>21, <1>22, <1>25
<1> QED
  BY <1>1, <1>3, <1>23, <1>24, <1>27, <1>28, <1>29 DEF Reads

\* XADSkipHandle keeps the promise.
THEOREM SkipPromise == Promise("skip")
<1>1. Contents("skip") \in Seq(Nat \ {0})
  BY SkipIsAt DEF IsAt
<1>2. Good("skip", Opened("skip"))
  <2>1. Opened("skip") = [pp |-> 0, curr |-> 0]
    BY DEF Opened
  <2> QED
    BY <2>1 DEF Good
<1>3. ASSUME NEW h, Good("skip", h)
      PROVE  /\ OffsetInFile("skip", h) \in Nat
             /\ \A offs \in Nat : Seeks("skip", offs, SeekToFileOffset("skip", h, offs))
  <2>1. h \in [pp : Nat, curr : Nat]
    BY <1>3 DEF Good
  <2>2. OffsetInFile("skip", h) \in Nat
    <3>1. PICK from : SkipBegins(h, from)
      BY <2>1, SkipReadBegins
    <3>2. ActualOffsetToSkip(h.pp) \in Nat
      BY <3>1 DEF SkipBegins
    <3> QED
      BY <3>2 DEF OffsetInFile
  <2>3. ASSUME NEW offs \in Nat
        PROVE  Seeks("skip", offs, SeekToFileOffset("skip", h, offs))
    <3>1. PICK r : r = SeekToFileOffset("skip", h, offs)
      OBVIOUS
    <3>2. PICK i \in 0..Gaps : InRegion(RegionSkip, i, offs)
      BY SkipRegion
    <3>3. PICK at : at = SkipAt[offs]
      OBVIOUS
    <3>4. InPart(i, at) /\ offs = at - RegionStart[i] + RegionSkip[i]
      BY <3>2, <3>3, PlaceOfOffset
    <3>5. at \in Nat
      BY <3>4 DEF InPart
    <3>6. at = SkipOffsetToActual(offs)
      BY <3>3 DEF SkipAt
    <3>7. ActualOffsetToSkip(at) = offs
      <4>1. PICK p \in Nat : p = at - RegionStart[i] + RegionSkip[i] /\ ActualOffsetToSkip(at) = p
        BY <3>4, OffsetOfPlace
      <4> QED
        BY <3>4, <4>1, Zenon
    <3>8. r = Returns([h EXCEPT !.pp = at], <<>>)
      BY <3>1, <3>6 DEF SeekToFileOffset
    <3>9. r.ok /\ r.h \in [pp : Nat, curr : Nat] /\ r.h.pp = at
      BY <2>1, <3>5, <3>8 DEF Returns
    <3>10. Good("skip", r.h) /\ OffsetInFile("skip", r.h) = offs
      BY <3>7, <3>9 DEF Good, OffsetInFile
    <3> QED
      BY <3>1, <3>9, <3>10 DEF Seeks
  <2> QED
    BY <2>2, <2>3
<1> QED
  BY <1>1, <1>2, <1>3, SkipReadReads DEF Promise

\* Every handle keeps the promise: a read hands out what stands at the
\* handle's place and moves it by as much, a seek moves it to the offset
\* asked for or fails because the contents end before it (readAtMost,
\* seekToFileOffset and offsetInFile of the six handles).
THEOREM Promises ==
    ASSUME NEW k \in Kinds
    PROVE  Promise(k)
<1>1. k \in {"file", "sub", "block", "padded", "skip", "multi"}
  BY DEF Kinds
<1> QED
  BY <1>1, FilePromise, SubPromise, BlockPromise, PaddedPromise, SkipPromise, MultiPromise

(***************************************************************************)
(* The buffer: what its bytes are.                                         *)
(***************************************************************************)
AllKinds == Kinds \cup {"memory"}

Size(k) == Len(Contents(k))

\* The stream under the buffer.
LEMMA StreamsAre ==
    ASSUME NEW k \in AllKinds
    PROVE  /\ Streams[k] = Contents(k)
           /\ Contents(k) \in Seq(Nat \ {0}) /\ Size(k) \in Nat
           /\ \A i \in 1..Size(k) : Contents(k)[i] \in Nat \ {0}
<1>1. Streams[k] = Contents(k)
  BY DEF Streams, AllKinds
<1>2. Contents(k) \in Seq(Nat \ {0})
  <2>1. CASE k \in Kinds
    BY <2>1, Promises DEF Promise
  <2>2. CASE k = "memory"
    <3>1. Contents("memory") = Contents("file")
      BY DEF Contents
    <3>2. Contents("file") \in Seq(Nat \ {0})
      BY FilePromise DEF Promise
    <3> QED
      BY <2>2, <3>1, <3>2
  <2> QED
    BY <2>1, <2>2 DEF AllKinds
<1>3. PICK Z \in Seq(Nat \ {0}) : Z = Contents(k)
  BY <1>2
<1>4. Len(Z) \in Nat /\ \A i \in 1..Len(Z) : Z[i] \in Nat \ {0}
  BY LenProperties, ElementOfSeq
<1> QED
  BY <1>1, <1>2, <1>3, <1>4 DEF Size

\* The handle below, and where in its contents the bytes of the buffer begin.
Below(k, h) == IF k = "memory" THEN h = Opened("file") ELSE Good(k, h)

BaseOf(k, s) == IF k = "memory" THEN 0 ELSE OffsetInFile(k, s.parent) - Len(s.buffer)

AtEnd(k, s) == BaseOf(k, s) + Len(s.buffer) >= Size(k)

Words == [0..31 -> Nat \cup {Junk}]

Selves == [parent : [pp : Nat, curr : Nat], eof : BOOLEAN, buffer : Seq(Nat \ {0}),
           currbyte : Nat, bits : Words, numbits : Int]

Typed(k, s) == s \in Selves /\ Below(k, s.parent)

\* The bytes of the buffer are those of the stream before where the handle
\* stands.
Bytes(k, s) ==
    /\ BaseOf(k, s) \in Nat
    /\ s.buffer = Part(Contents(k), BaseOf(k, s), Len(s.buffer))
    /\ Len(s.buffer) > 0 => BaseOf(k, s) + Len(s.buffer) <= Size(k)
    /\ s.eof => AtEnd(k, s)
    /\ k = "memory" => s.eof

\* CheckAndFillBuffer: the client stays where it is, and has more than the
\* bytes it may look ahead, or all there are.
Fills(k, s, r) ==
    IF r.ok THEN /\ Typed(k, r.s) /\ Bytes(k, r.s)
                 /\ r.s.bits = s.bits /\ r.s.numbits = s.numbits
                 /\ BaseOf(k, r.s) + r.s.currbyte = BaseOf(k, s) + s.currbyte
                 /\ AtEnd(k, r.s) \/ BytesLeftInBuffer(r.s) > LookAhead
                 /\ s.currbyte <= Len(s.buffer) =>
                       /\ BytesLeftInBuffer(r.s) >= BytesLeftInBuffer(s)
                       /\ AtEnd(k, s) => AtEnd(k, r.s)
                       /\ BaseOf(k, s) + Len(s.buffer) <= Size(k) =>
                             BaseOf(k, r.s) + Len(r.s.buffer) <= Size(k)
    ELSE r.s = s /\ s.currbyte > Len(s.buffer) /\ BaseOf(k, s) + s.currbyte > Size(k)

\* How many bytes are left is a number.
LEMMA BytesLeftIs ==
    ASSUME NEW s \in Selves
    PROVE  /\ Len(s.buffer) \in Nat /\ s.currbyte \in Nat
           /\ BytesLeftInBuffer(s) = Len(s.buffer) - s.currbyte
           /\ BytesLeftInBuffer(s) \in Int
<1>1. PICK b \in Seq(Nat \ {0}) : b = s.buffer
  BY DEF Selves
<1>2. Len(b) \in Nat
  BY LenProperties
<1>3. PICK c \in Nat : c = s.currbyte
  BY DEF Selves
<1>4. Len(b) - c \in Int
  BY <1>2
<1> QED
  BY <1>1, <1>2, <1>3, <1>4 DEF BytesLeftInBuffer

\* What is left of the buffer.
LEMMA BytesKept ==
    ASSUME NEW k \in AllKinds, NEW s, Typed(k, s), Bytes(k, s),
           s.currbyte <= Len(s.buffer),
           NEW kept, kept = SubSeq(s.buffer, s.currbyte + 1, Len(s.buffer))
    PROVE  /\ kept = Part(Contents(k), BaseOf(k, s) + s.currbyte, Len(s.buffer) - s.currbyte)
           /\ kept \in Seq(Nat \ {0}) /\ Len(kept) = Len(s.buffer) - s.currbyte
<1>1. s \in Selves
  BY DEF Typed
<1>2. PICK b \in Seq(Nat \ {0}) : b = s.buffer
  BY <1>1 DEF Selves
<1>3. PICK c \in Nat : c = s.currbyte
  BY <1>1 DEF Selves
<1>4. PICK L \in Nat : L = Len(b)
  BY LenProperties
<1>5. PICK B \in Nat : B = BaseOf(k, s)
  BY DEF Bytes
<1>6. b = Part(Contents(k), B, L) /\ c <= L
  BY <1>2, <1>3, <1>4, <1>5 DEF Bytes
<1>7. PICK m \in Nat : m = L - c
  BY <1>6
<1>8. kept = [i \in 1..m |-> b[(c + 1) + i - 1]]
  <2>1. kept = SubSeq(b, c + 1, L)
    BY <1>2, <1>3, <1>4
  <2>2. SubSeq(b, c + 1, L) = [i \in 1..(L - (c + 1) + 1) |-> b[(c + 1) + i - 1]]
    OBVIOUS
  <2>3. L - (c + 1) + 1 = m
    BY <1>7
  <2> QED
    BY <2>1, <2>2, <2>3, Zenon
<1>9. \A i \in 1..m : b[(c + 1) + i - 1] = Contents(k)[(B + c) + i]
  <2> TAKE i \in 1..m
  <2>1. PICK j \in 1..L : j = c + i
    BY <1>6, <1>7
  <2>2. (c + 1) + i - 1 = j /\ (B + c) + i = B + j
    BY <2>1
  <2>3. b[j] = Contents(k)[B + j]
    BY <1>6 DEF Part
  <2> QED
    BY <2>2, <2>3, Zenon
<1>10. kept = [i \in 1..m |-> Contents(k)[(B + c) + i]]
  BY <1>8, <1>9
<1>11. kept \in [1..m -> Nat \ {0}]
  <2>1. \A i \in 1..m : b[(c + 1) + i - 1] \in Nat \ {0}
    <3> TAKE i \in 1..m
    <3>1. (c + 1) + i - 1 \in 1..L
      BY <1>6, <1>7
    <3> QED
      BY <1>4, <3>1, ElementOfSeq
  <2> QED
    BY <1>8, <2>1
<1>12. kept \in Seq(Nat \ {0}) /\ Len(kept) = m
  BY <1>11, FunctionIsSeq
<1> QED
  BY <1>2, <1>3, <1>4, <1>5, <1>7, <1>10, <1>12 DEF Part

\* FillBuffer, when it has the bytes got.
Refill(s, kept, got) ==
    [s EXCEPT !.parent = got.h, !.buffer = kept \o got.data, !.currbyte = 0,
              !.eof = @ \/ got.data = <<>>]

\* The buffer t, now beginning at D, was filled behind K bytes from P on.
Refilled(k, s, t, D, K, P) ==
    /\ Typed(k, t) /\ Bytes(k, t) /\ t.bits = s.bits /\ t.numbits = s.numbits
    /\ BaseOf(k, t) = D /\ t.currbyte = 0
    /\ AtEnd(k, t) \/ BytesLeftInBuffer(t) > LookAhead
    /\ Len(t.buffer) \in Nat /\ Len(t.buffer) >= K
    /\ P <= Size(k) => D + Len(t.buffer) <= Size(k)

\* Reading more bytes behind those kept.
LEMMA RefillFills ==
    ASSUME NEW k \in Kinds, NEW s \in Selves, ~s.eof, NEW h, Good(k, h),
           NEW D \in Nat, NEW K \in Nat, K <= LookAhead, D + K = OffsetInFile(k, h),
           NEW kept, kept \in Seq(Nat \ {0}), Len(kept) = K, kept = Part(Contents(k), D, K),
           K > 0 => D + K <= Size(k),
           NEW got, got = ReadAtMost(k, h, BufSize - Len(kept))
    PROVE  Refilled(k, s, Refill(s, kept, got), D, K, D + K)
<1>0. BufSize \in Nat /\ BufSize > LookAhead /\ LookAhead = 4
  BY BufferAssumption DEF LookAhead
<1>1. PICK Z : Z = Contents(k)
  OBVIOUS
<1>2. PICK T \in Nat : T = Len(Z) /\ T = Size(k)
  BY <1>1, StreamsAre DEF AllKinds, Size
<1>3. PICK P \in Nat : P = D + K
  OBVIOUS
<1>4. PICK n \in Nat \ {0} : n = BufSize - K /\ n + K = BufSize
  <2>1. BufSize - K \in Nat \ {0} /\ (BufSize - K) + K = BufSize
    BY <1>0
  <2> QED
    BY <2>1
<1>5. Reads(k, h, n, ReadAtMost(k, h, n))
  BY Promises DEF Promise
<1>6. got = ReadAtMost(k, h, n)
  BY <1>4
<1>n. n \in Nat /\ T \in Nat /\ P \in Nat /\ K \in Nat /\ D \in Nat
  BY <1>2, <1>3, <1>4
<1>m. PICK m \in 0..n : m = Readable(T, P, n)
  <2>1. /\ Readable(T, P, n) \in 0..n
        /\ Readable(T, P, n) > 0 => P + Readable(T, P, n) <= T
        /\ Readable(T, P, n) < n => P + Readable(T, P, n) >= T
    BY <1>n, ReadableIs, Zenon
  <2> QED
    BY <2>1, Zenon
<1>7. m \in Nat /\ m = Readable(T, P, n)
  BY <1>n, <1>m
<1>8. m <= n /\ (m > 0 => P + m <= T) /\ (m < n => P + m >= T)
  <2>1. /\ Readable(T, P, n) > 0 => P + Readable(T, P, n) <= T
        /\ Readable(T, P, n) < n => P + Readable(T, P, n) >= T
    BY <1>n, ReadableIs, Zenon
  <2>2. m <= n
    BY <1>n, <1>m
  <2> QED
    BY <1>7, <2>1, <2>2, Zenon
<1>9. /\ Good(k, got.h) /\ got.data = Part(Z, P, m)
      /\ OffsetInFile(k, got.h) = P + m
  BY <1>1, <1>2, <1>3, <1>5, <1>6, <1>7 DEF Reads
<1>10. PICK x : x = kept \o got.data
  OBVIOUS
<1>11. K + m > 0 => P + m <= T
  <2>1. K > 0 => P <= T
    BY <1>2, <1>3
  <2> QED
    BY <1>2, <1>3, <1>7, <1>8, <2>1
<1>12. Within(Nat \ {0}, Z, D, K + m)
  <2>1. \A i \in 1..(K + m) : D + i \in 1..T
    BY <1>2, <1>3, <1>7, <1>11
  <2>2. \A i \in 1..T : Z[i] \in Nat \ {0}
    BY <1>1, <1>2, StreamsAre DEF AllKinds
  <2> QED
    BY <2>1, <2>2 DEF Within
<1>13. x = Part(Z, D, K + m)
  <2>1. PartsJoin(Z, D, K, m)
    BY <1>7, <1>12, PartMore
  <2>2. Part(Z, D, K) \o Part(Z, D + K, m) = Part(Z, D, K + m)
    BY <2>1 DEF PartsJoin
  <2> QED
    BY <1>1, <1>3, <1>9, <1>10, <2>2, Zenon
<1>14. x \in Seq(Nat \ {0}) /\ Len(x) = K + m
  <2>1. K + m \in Nat
    BY <1>7
  <2>2. IsPart(Nat \ {0}, Z, D, K + m, x)
    BY <1>12, <1>13, <2>1, PartType
  <2> QED
    BY <2>2 DEF IsPart
<1>15. PICK eof \in BOOLEAN : eof = (s.eof \/ got.data = <<>>)
  OBVIOUS
<1>16. PICK t : t = Refill(s, kept, got)
  OBVIOUS
<1>17. t = [s EXCEPT !.parent = got.h, !.buffer = x, !.currbyte = 0, !.eof = eof]
  BY <1>10, <1>15, <1>16 DEF Refill
<1>18. s \in [parent : [pp : Nat, curr : Nat], eof : BOOLEAN, buffer : Seq(Nat \ {0}),
              currbyte : Nat, bits : Words, numbits : Int]
  BY DEF Selves
<1>19. /\ t.parent = got.h /\ t.buffer = x /\ t.currbyte = 0 /\ t.eof = eof
       /\ t.bits = s.bits /\ t.numbits = s.numbits
  <2>1. /\ t.parent = got.h /\ t.buffer = x /\ t.currbyte = 0 /\ t.eof = eof
    BY <1>17, <1>18
  <2>2. t.bits = s.bits /\ t.numbits = s.numbits
    BY <1>17, <1>18
  <2> QED
    BY <2>1, <2>2
<1>20. t \in Selves
  <2>1. got.h \in [pp : Nat, curr : Nat]
    BY <1>9 DEF Good
  <2>2. t \in [parent : [pp : Nat, curr : Nat], eof : BOOLEAN, buffer : Seq(Nat \ {0}),
               currbyte : Nat, bits : Words, numbits : Int]
    BY <1>14, <1>15, <1>17, <1>18, <2>1
  <2> QED
    BY <2>2 DEF Selves
<1>21. k # "memory"
  BY DEF Kinds
<1>22. Typed(k, t)
  BY <1>9, <1>19, <1>20, <1>21 DEF Typed, Below
<1>23. BaseOf(k, t) = D /\ Len(t.buffer) = K + m
  <2>1. BaseOf(k, t) = (P + m) - (K + m)
    BY <1>9, <1>14, <1>19, <1>21 DEF BaseOf
  <2>2. (P + m) - (K + m) = D
    BY <1>3, <1>7
  <2> QED
    BY <1>14, <1>19, <2>1, <2>2
<1>24. AtEnd(k, t) <=> D + (K + m) >= T
  BY <1>2, <1>23 DEF AtEnd
<1>25. eof => m = 0
  <2> SUFFICES ASSUME eof PROVE m = 0
    OBVIOUS
  <2>1. got.data = <<>>
    BY <1>15
  <2>2. Part(Z, P, m) = <<>>
    BY <1>9, <2>1
  <2>3. [i \in 1..m |-> Z[P + i]] = <<>>
    BY <2>2 DEF Part
  <2>4. DOMAIN [i \in 1..m |-> Z[P + i]] = 1..m
    OBVIOUS
  <2>5. 1..m = {}
    BY <2>3, <2>4
  <2> QED
    BY <1>7, <2>5
<1>26. eof => AtEnd(k, t)
  <2>1. m = 0 => D + (K + m) >= T
    <3>1. 0 < n
      BY <1>4
    <3> QED
      BY <1>n, <1>3, <1>7, <1>8, <3>1
  <2> QED
    BY <1>24, <1>25, <2>1, Zenon
<1>27. Bytes(k, t)
  <2>1. t.buffer = Part(Contents(k), D, Len(t.buffer))
    BY <1>1, <1>13, <1>19, <1>23
  <2>2. Len(t.buffer) > 0 => D + Len(t.buffer) <= Size(k)
    <3>1. K + m > 0 => D + (K + m) <= T
      BY <1>3, <1>7, <1>11
    <3> QED
      BY <1>2, <1>23, <3>1
  <2> QED
    BY <1>19, <1>21, <1>23, <1>26, <2>1, <2>2 DEF Bytes
<1>28. AtEnd(k, t) \/ BytesLeftInBuffer(t) > LookAhead
  <2>1. BytesLeftInBuffer(t) = K + m
    <3>1. BytesLeftInBuffer(t) = (K + m) - 0
      BY <1>19, <1>23 DEF BytesLeftInBuffer
    <3> QED
      BY <1>7, <3>1
  <2>2. CASE m < n
    <3>1. D + (K + m) >= T
      BY <1>2, <1>3, <1>7, <1>8, <2>2
    <3> QED
      BY <1>24, <3>1
  <2>3. CASE m = n
    BY <1>0, <1>4, <2>1, <2>3
  <2> QED
    BY <1>4, <1>7, <1>8, <2>2, <2>3
<1>29. Len(t.buffer) \in Nat /\ Len(t.buffer) >= K
  BY <1>7, <1>23
<1>30. D + K <= Size(k) => D + Len(t.buffer) <= Size(k)
  <2>1. P <= T => D + (K + m) <= T
    BY <1>2, <1>3, <1>7, <1>8
  <2> QED
    BY <1>2, <1>3, <1>23, <2>1
<1> QED
  BY <1>16, <1>19, <1>22, <1>23, <1>27, <1>28, <1>29, <1>30 DEF Refilled

\* What FillBuffer has for the client when it returns.
LEMMA RefilledFills ==
    ASSUME NEW k \in Kinds, NEW s, Typed(k, s), Bytes(k, s), NEW t,
           NEW D \in Nat, NEW K \in Nat, Refilled(k, s, t, D, K, D + K),
           D = BaseOf(k, s) + s.currbyte,
           s.currbyte <= Len(s.buffer) => K = Len(s.buffer) - s.currbyte
    PROVE  Fills(k, s, Done(t))
<1>1. PICK r : r = Done(t)
  OBVIOUS
<1>2. r.ok /\ r.s = t
  BY <1>1 DEF Done
<1>3. /\ Typed(k, t) /\ Bytes(k, t) /\ t.bits = s.bits /\ t.numbits = s.numbits
      /\ BaseOf(k, t) = D /\ t.currbyte = 0
      /\ AtEnd(k, t) \/ BytesLeftInBuffer(t) > LookAhead
      /\ Len(t.buffer) \in Nat /\ Len(t.buffer) >= K
      /\ D + K <= Size(k) => D + Len(t.buffer) <= Size(k)
  BY DEF Refilled
<1>4. s \in Selves /\ t \in Selves
  BY <1>3 DEF Typed
<1>5. PICK L \in Nat : L = Len(s.buffer)
  BY <1>4, BytesLeftIs
<1>6. PICK c \in Nat : c = s.currbyte
  BY <1>4, BytesLeftIs
<1>7. PICK B \in Nat : B = BaseOf(k, s)
  BY DEF Bytes
<1>8. PICK M \in Nat : M = Len(t.buffer)
  BY <1>3
<1>9. PICK T \in Nat : T = Size(k)
  BY StreamsAre DEF AllKinds
<1>10. BytesLeftInBuffer(s) = L - c /\ BytesLeftInBuffer(t) = M - 0
  BY <1>3, <1>4, <1>5, <1>6, <1>8, BytesLeftIs
<1>11. BaseOf(k, t) + t.currbyte = BaseOf(k, s) + s.currbyte
  <2>1. BaseOf(k, t) + t.currbyte = D + 0
    BY <1>3
  <2> QED
    BY <2>1
<1>12. ASSUME s.currbyte <= Len(s.buffer)
       PROVE  /\ BytesLeftInBuffer(t) >= BytesLeftInBuffer(s)
              /\ AtEnd(k, s) => AtEnd(k, t)
              /\ BaseOf(k, s) + Len(s.buffer) <= Size(k) => BaseOf(k, t) + Len(t.buffer) <= Size(k)
  <2>1. K = L - c /\ c <= L /\ D = B + c /\ M >= K
    BY <1>3, <1>5, <1>6, <1>7, <1>8, <1>12
  <2>2. M - 0 >= L - c /\ D + K = B + L
    BY <2>1
  <2>3. BytesLeftInBuffer(t) >= BytesLeftInBuffer(s)
    BY <1>10, <2>2, Zenon
  <2>4. AtEnd(k, s) <=> B + L >= T
    BY <1>5, <1>7, <1>9 DEF AtEnd
  <2>5. AtEnd(k, t) <=> D + M >= T
    BY <1>3, <1>8, <1>9 DEF AtEnd
  <2>6. B + L >= T => D + M >= T
    BY <2>1
  <2>7. BaseOf(k, s) + Len(s.buffer) <= Size(k) => BaseOf(k, t) + Len(t.buffer) <= Size(k)
    <3>1. B + L <= T => D + M <= T
      <4>1. D + K <= T => D + M <= T
        BY <1>3, <1>8, <1>9, Zenon
      <4> QED
        BY <2>2, <4>1, Zenon
    <3> QED
      BY <1>3, <1>5, <1>7, <1>8, <1>9, <3>1, Zenon
  <2> QED
    BY <2>3, <2>4, <2>5, <2>6, <2>7, Zenon
<1> QED
  BY <1>1, <1>2, <1>3, <1>11, <1>12, Zenon DEF Fills

\* _CSInputFillBuffer, with and without bytes left over.
LEMMA FillBufferFills ==
    ASSUME kind \in Kinds, NEW s, Typed(kind, s), Bytes(kind, s), ~s.eof,
           BytesLeftInBuffer(s) <= LookAhead
    PROVE  Fills(kind, s, FillBuffer(s))
<1>0. LookAhead = 4 /\ kind # "memory"
  BY DEF LookAhead, Kinds
<1>1. s \in Selves /\ Good(kind, s.parent)
  BY <1>0 DEF Typed, Below
<1>2. PICK L \in Nat : L = Len(s.buffer)
  BY <1>1, BytesLeftIs
<1>3. PICK c \in Nat : c = s.currbyte
  BY <1>1, BytesLeftIs
<1>4. PICK B \in Nat : B = BaseOf(kind, s)
  BY DEF Bytes
<1>5. PICK left \in Int : left = BytesLeftInBuffer(s) /\ left = L - c
  BY <1>1, <1>2, <1>3, BytesLeftIs
<1>6. PICK P \in Nat : P = OffsetInFile(kind, s.parent) /\ B = P - L
  BY <1>0, <1>1, <1>2, <1>4, Promises DEF Promise, BaseOf
<1>7. PICK T \in Nat : T = Size(kind)
  BY StreamsAre DEF AllKinds
<1>8. (L > 0 => B + L <= T) /\ P = B + L
  <2>1. L > 0 => B + L <= T
    BY <1>2, <1>4, <1>7 DEF Bytes
  <2>2. P = B + L
    BY <1>2, <1>4, <1>6
  <2> QED
    BY <2>1, <2>2
<1>t. L \in Nat /\ c \in Nat /\ B \in Nat /\ P \in Nat /\ T \in Nat /\ left \in Int /\ left = L - c
  BY <1>2, <1>3, <1>4, <1>5, <1>6, <1>7, Zenon
<1>9. CASE left >= 0
  <2>1. PICK kept : kept = SubSeq(s.buffer, s.currbyte + 1, Len(s.buffer))
    OBVIOUS
  <2>2. PICK K \in Nat : K = L - c /\ K = left
    BY <1>5, <1>9
  <2>3. s.currbyte <= Len(s.buffer)
    BY <1>2, <1>3, <1>5, <1>9
  <2>4. PICK D \in Nat : D = B + c
    BY <1>3, <1>4
  <2>5. kept = Part(Contents(kind), D, K) /\ kept \in Seq(Nat \ {0}) /\ Len(kept) = K
    <3>1. /\ kept = Part(Contents(kind), BaseOf(kind, s) + s.currbyte,
                         Len(s.buffer) - s.currbyte)
          /\ kept \in Seq(Nat \ {0}) /\ Len(kept) = Len(s.buffer) - s.currbyte
      <4>1. kind \in AllKinds
        BY DEF AllKinds
      <4> QED
        BY <2>1, <2>3, <4>1, BytesKept
    <3> QED
      BY <1>2, <1>3, <1>4, <2>2, <2>4, <3>1
  <2>6. D + K = P /\ K <= LookAhead /\ (K > 0 => D + K <= Size(kind))
    <3>1. D + K = P
      <4>1. D \in Nat /\ K \in Nat /\ D = B + c /\ K = L - c
        BY <2>2, <2>4, Zenon
      <4> QED
        BY <1>t, <1>8, <4>1
    <3>2. K <= LookAhead
      BY <1>5, <2>2
    <3>3. K > 0 => L > 0
      BY <1>2, <1>3, <2>2
    <3> QED
      BY <1>7, <1>8, <3>1, <3>2, <3>3
  <2>7. PICK got : got = ReadAtMost(kind, s.parent, BufSize - Len(kept))
    OBVIOUS
  <2>8. Refilled(kind, s, Refill(s, kept, got), D, K, D + K)
    BY <1>1, <1>6, <2>5, <2>6, <2>7, RefillFills
  <2>9. Fills(kind, s, Done(Refill(s, kept, got)))
    <3>1. D = BaseOf(kind, s) + s.currbyte /\ K = Len(s.buffer) - s.currbyte
      BY <1>2, <1>3, <1>4, <2>2, <2>4
    <3> QED
      BY <2>8, <3>1, RefilledFills
  <2>10. FillBuffer(s) = Done(Refill(s, kept, got))
    <3>1. /\ (IF BytesLeftInBuffer(s) >= 0 THEN SubSeq(s.buffer, s.currbyte + 1, Len(s.buffer))
              ELSE <<>>) = kept
          /\ (IF BytesLeftInBuffer(s) >= 0 THEN Returns(s.parent, <<>>)
              ELSE SkipBytes(kind, s.parent, -BytesLeftInBuffer(s))) = Returns(s.parent, <<>>)
      BY <1>5, <1>9, <2>1, Zenon
    <3>2. Returns(s.parent, <<>>).ok /\ Returns(s.parent, <<>>).h = s.parent
      BY DEF Returns
    <3> QED
      BY <2>7, <3>1, <3>2 DEF FillBuffer, Refill
  <2> QED
    BY <2>9, <2>10, Zenon
<1>10. CASE ~(left >= 0)
  <2>1. PICK n \in Nat : n = -left /\ n = c - L /\ n > 0
    <3>1. -left \in Nat /\ -left = c - L /\ -left > 0
      BY <1>t, <1>10
    <3> QED
      BY <3>1
  <2>2. PICK D \in Nat : D = P + n /\ D = B + c
    <3>1. P + n \in Nat /\ P + n = B + c
      <4>1. n \in Nat /\ n = c - L
        BY <2>1, Zenon
      <4> QED
        BY <1>t, <1>8, <4>1
    <3> QED
      BY <3>1
  <2>3. PICK at : at = SkipBytes(kind, s.parent, -BytesLeftInBuffer(s))
    OBVIOUS
  <2>4. at = SeekToFileOffset(kind, s.parent, D)
    <3>1. -BytesLeftInBuffer(s) = n
      BY <1>5, <2>1, Zenon
    <3>2. at = SkipBytes(kind, s.parent, n)
      BY <2>3, <3>1, Zenon
    <3> QED
      BY <1>6, <2>2, <3>2 DEF SkipBytes
  <2>5. Seeks(kind, D, at)
    BY <1>1, <2>2, <2>4, Promises DEF Promise
  <2>6. PICK kept : kept = <<>>
    OBVIOUS
  <2>7. PICK got : got = ReadAtMost(kind, at.h, BufSize - Len(kept))
    OBVIOUS
  <2>8. FillBuffer(s) = IF ~at.ok THEN RaiseEOF(s) ELSE Done(Refill(s, kept, got))
    <3>1. /\ (IF BytesLeftInBuffer(s) >= 0 THEN SubSeq(s.buffer, s.currbyte + 1, Len(s.buffer))
              ELSE <<>>) = kept
          /\ (IF BytesLeftInBuffer(s) >= 0 THEN Returns(s.parent, <<>>)
              ELSE SkipBytes(kind, s.parent, -BytesLeftInBuffer(s))) = at
      BY <1>5, <1>10, <2>3, <2>6, Zenon
    <3> QED
      BY <2>7, <3>1 DEF FillBuffer, Refill
  <2>9. CASE at.ok
    <3>1. Good(kind, at.h) /\ OffsetInFile(kind, at.h) = D
      BY <2>5, <2>9 DEF Seeks
    <3>2. PICK K \in Nat : K = 0
      OBVIOUS
    <3>3. kept \in Seq(Nat \ {0}) /\ Len(kept) = K /\ kept = Part(Contents(kind), D, K)
      <4>1. <<>> \in Seq(Nat \ {0}) /\ Len(<<>>) = 0
        BY EmptySeq
      <4>2. Part(Contents(kind), D, 0) = <<>>
        BY <2>2, PartNone
      <4> QED
        BY <2>6, <3>2, <4>1, <4>2, Zenon
    <3>4. D + K = OffsetInFile(kind, at.h) /\ K <= LookAhead /\ ~(K > 0)
      <4>1. D + 0 = D
        BY <2>2
      <4>2. D + K = OffsetInFile(kind, at.h)
        BY <3>1, <3>2, <4>1, Zenon
      <4> QED
        BY <1>0, <3>2, <4>2
    <3>5. Refilled(kind, s, Refill(s, kept, got), D, K, D + K)
      BY <1>1, <2>2, <2>7, <3>1, <3>3, <3>4, RefillFills
    <3>6. Fills(kind, s, Done(Refill(s, kept, got)))
      <4>1. ~(c <= L)
        BY <1>t, <2>1
      <4>2. D = BaseOf(kind, s) + s.currbyte /\ ~(s.currbyte <= Len(s.buffer))
        BY <1>2, <1>3, <1>4, <2>2, <4>1, Zenon
      <4> QED
        BY <2>2, <3>2, <3>5, <4>2, RefilledFills
    <3> QED
      BY <2>8, <2>9, <3>6, Zenon
  <2>10. CASE ~at.ok
    <3>1. D > Size(kind)
      BY <2>5, <2>10 DEF Seeks, Size
    <3>2. PICK r : r = FillBuffer(s)
      OBVIOUS
    <3>3. ~r.ok /\ r.s = s
      BY <2>8, <2>10, <3>2 DEF RaiseEOF
    <3>4. s.currbyte > Len(s.buffer) /\ BaseOf(kind, s) + s.currbyte > Size(kind)
      <4>1. c > L
        BY <1>t, <2>1
      <4> QED
        BY <1>2, <1>3, <1>4, <2>2, <3>1, <4>1, Zenon
    <3> QED
      BY <3>2, <3>3, <3>4 DEF Fills
  <2> QED
    BY <2>9, <2>10
<1> QED
  BY <1>9, <1>10

\* CSInputCheckAndFillBuffer.
LEMMA CheckedAndFilled ==
    ASSUME kind \in AllKinds, NEW s, Typed(kind, s), Bytes(kind, s)
    PROVE  Fills(kind, s, CheckAndFillBuffer(s))
<1>1. s \in Selves
  BY DEF Typed
<1>2. CASE ~s.eof /\ BytesLeftInBuffer(s) <= LookAhead
  <2>1. kind \in Kinds
    BY <1>2 DEF Bytes, AllKinds
  <2> QED
    BY <1>2, <2>1, FillBufferFills DEF CheckAndFillBuffer
<1>3. CASE ~(~s.eof /\ BytesLeftInBuffer(s) <= LookAhead)
  <2>1. PICK r : r = CheckAndFillBuffer(s)
    OBVIOUS
  <2>2. r.ok /\ r.s = s
    BY <1>3, <2>1 DEF CheckAndFillBuffer, Done
  <2>3. AtEnd(kind, s) \/ BytesLeftInBuffer(s) > LookAhead
    <3>1. CASE s.eof
      BY <3>1 DEF Bytes
    <3>2. CASE ~s.eof
      <4>1. ~(BytesLeftInBuffer(s) <= LookAhead)
        BY <1>3, <3>2
      <4>2. BytesLeftInBuffer(s) \in Int /\ LookAhead \in Int
        BY <1>1, BytesLeftIs DEF LookAhead
      <4> QED
        BY <4>1, <4>2
    <3> QED
      BY <3>1, <3>2
  <2>4. BytesLeftInBuffer(s) >= BytesLeftInBuffer(s)
    <3>1. BytesLeftInBuffer(s) \in Int
      BY <1>1, BytesLeftIs
    <3> QED
      BY <3>1
  <2> QED
    BY <2>1, <2>2, <2>3, <2>4, Zenon DEF Fills
<1> QED
  BY <1>2, <1>3

\* Division by eight.
LEMMA Eights ==
    ASSUME NEW x \in Int
    PROVE  /\ x \div 8 \in Int /\ x % 8 \in 0..7 /\ x = 8 * (x \div 8) + (x % 8)
           /\ x >= 0 => x \div 8 >= 0
  OBVIOUS

\* Eight at a time: the only way to be so many eights and less than eight more.
LEMMA EightsOnly ==
    ASSUME NEW x \in Int, NEW a \in Int, NEW b \in 0..7, x = 8 * a + b
    PROVE  x \div 8 = a /\ x % 8 = b
  OBVIOUS

(***************************************************************************)
(* The word: its bits in the order the client takes them, and the bits of  *)
(* the stream in the same order.                                           *)
(***************************************************************************)
Orders == {"BE", "LE"}

\* Where the j-th bit of the word is, and which bit of a byte the j-th is.
Place(o, j)  == IF o = "BE" THEN 31 - j ELSE j
Weight(o, j) == IF o = "BE" THEN 7 - j ELSE j

BitIn(k, o, q) == BitOf(Contents(k)[1 + (q \div 8)], Weight(o, q % 8))
BitAt(k, o, q) == IF q < 8 * Size(k) THEN BitIn(k, o, q) ELSE Junk

Word(k, o, s, p) ==
    /\ s.numbits \in 0..32
    /\ p + (s.numbits % 8) = 8 * (BaseOf(k, s) + s.currbyte)
    /\ \A j \in 0..31 : s.bits[Place(o, j)] = IF j < s.numbits THEN BitAt(k, o, p + j) ELSE 0
    /\ s.numbits > 0 => /\ s.currbyte <= Len(s.buffer)
                        /\ BaseOf(k, s) + Len(s.buffer) <= Size(k)
                        /\ s.numbits \div 8 <= BytesLeftInBuffer(s) \/ AtEnd(k, s)

\* A bit's place in the word, and the bit of a place.
LEMMA PlaceIs ==
    ASSUME NEW o \in Orders, NEW j \in 0..31
    PROVE  Place(o, j) \in 0..31 /\ Place(o, Place(o, j)) = j
<1>1. CASE o = "BE"
  BY <1>1 DEF Place
<1>2. CASE o # "BE"
  BY <1>2 DEF Place
<1> QED
  BY <1>1, <1>2

\* A bit's place in its byte.
LEMMA WeightIs ==
    ASSUME NEW o \in Orders, NEW j \in 0..7
    PROVE  Weight(o, j) \in 0..7
<1>1. CASE o = "BE"
  BY <1>1 DEF Weight
<1>2. CASE o # "BE"
  BY <1>2 DEF Weight
<1> QED
  BY <1>1, <1>2

\* A bit of a byte of the file has a number.
LEMMA BitOfIs ==
    ASSUME NEW b \in Nat \ {0}, NEW w \in 0..7
    PROVE  BitOf(b, w) \in Nat
<1>1. b # Junk
  BY DEF Junk
<1> QED
  BY <1>1 DEF BitOf

\* A bit of the stream has a number, and one behind it is junk.
LEMMA BitAtIs ==
    ASSUME NEW k \in AllKinds, NEW o \in Orders, NEW q \in Nat
    PROVE  BitAt(k, o, q) \in Nat \cup {Junk}
<1>1. CASE q < 8 * Size(k)
  <2>1. PICK T \in Nat : T = Size(k)
    BY StreamsAre
  <2>2. 1 + (q \div 8) \in 1..T /\ q % 8 \in 0..7
    <3>1. q < 8 * T
      BY <1>1, <2>1
    <3> QED
      BY <2>1, <3>1
  <2>3. Contents(k)[1 + (q \div 8)] \in Nat \ {0}
    BY <2>1, <2>2, StreamsAre
  <2>4. Weight(o, q % 8) \in 0..7
    BY <2>2, WeightIs
  <2>5. BitIn(k, o, q) \in Nat
    BY <2>3, <2>4, BitOfIs DEF BitIn
  <2> QED
    BY <1>1, <2>5 DEF BitAt
<1>2. CASE ~(q < 8 * Size(k))
  BY <1>2 DEF BitAt
<1> QED
  BY <1>1, <1>2

\* Filling the buffer leaves the word alone.
LEMMA WordKept ==
    ASSUME NEW k \in AllKinds, NEW o, NEW s, NEW p, Typed(k, s), Word(k, o, s, p),
           NEW r, Fills(k, s, r), r.ok
    PROVE  Word(k, o, r.s, p)
<1>1. PICK t : t = r.s
  OBVIOUS
<1>2. /\ Typed(k, t) /\ t.bits = s.bits /\ t.numbits = s.numbits
      /\ BaseOf(k, t) + t.currbyte = BaseOf(k, s) + s.currbyte
      /\ s.currbyte <= Len(s.buffer) =>
            /\ BytesLeftInBuffer(t) >= BytesLeftInBuffer(s)
            /\ AtEnd(k, s) => AtEnd(k, t)
            /\ BaseOf(k, s) + Len(s.buffer) <= Size(k) => BaseOf(k, t) + Len(t.buffer) <= Size(k)
  BY <1>1 DEF Fills
<1>3. s \in Selves /\ t \in Selves
  BY <1>2 DEF Typed
<1>4. /\ s.numbits \in 0..32
      /\ p + (s.numbits % 8) = 8 * (BaseOf(k, s) + s.currbyte)
      /\ \A j \in 0..31 : s.bits[Place(o, j)] = IF j < s.numbits THEN BitAt(k, o, p + j) ELSE 0
      /\ s.numbits > 0 => /\ s.currbyte <= Len(s.buffer)
                          /\ BaseOf(k, s) + Len(s.buffer) <= Size(k)
                          /\ s.numbits \div 8 <= BytesLeftInBuffer(s) \/ AtEnd(k, s)
  BY DEF Word
<1>5. ASSUME s.numbits > 0
      PROVE  /\ t.currbyte <= Len(t.buffer)
             /\ BaseOf(k, t) + Len(t.buffer) <= Size(k)
             /\ t.numbits \div 8 <= BytesLeftInBuffer(t) \/ AtEnd(k, t)
  <2>1. PICK x \in Int : x = BytesLeftInBuffer(s) /\ x = Len(s.buffer) - s.currbyte
    BY <1>3, BytesLeftIs
  <2>2. PICK y \in Int : y = BytesLeftInBuffer(t) /\ y = Len(t.buffer) - t.currbyte
    BY <1>3, BytesLeftIs
  <2>3. PICK q \in Int : q = s.numbits \div 8
    <3>1. PICK n \in 0..32 : n = s.numbits
      BY <1>4, Zenon
    <3>2. n \div 8 \in Int
      BY <3>1
    <3> QED
      BY <3>1, <3>2
  <2>t. x \in Int /\ y \in Int /\ q \in Int
    BY <2>1, <2>2, <2>3, Zenon
  <2>4. y >= x
    BY <1>2, <1>4, <1>5, <2>1, <2>2, Zenon
  <2>5. x >= 0
    <3>1. s.currbyte <= Len(s.buffer) /\ s.currbyte \in Nat /\ Len(s.buffer) \in Nat
      BY <1>3, <1>4, <1>5, BytesLeftIs
    <3> QED
      BY <2>1, <3>1
  <2>6. t.currbyte <= Len(t.buffer)
    <3>1. t.currbyte \in Nat /\ Len(t.buffer) \in Nat /\ y >= 0
      BY <1>3, <2>t, <2>4, <2>5, BytesLeftIs
    <3> QED
      BY <2>2, <3>1
  <2>7. q <= x => q <= y
    BY <2>t, <2>4
  <2>8. t.numbits \div 8 <= BytesLeftInBuffer(t) \/ AtEnd(k, t)
    BY <1>2, <1>4, <1>5, <2>1, <2>2, <2>3, <2>7, Zenon
  <2> QED
    BY <1>2, <1>4, <1>5, <2>6, <2>8, Zenon
<1> QED
  BY <1>1, <1>2, <1>4, <1>5, Zenon DEF Word

(***************************************************************************)
(* _CSInputFillBits: the i-th of num bytes goes behind the n bits of the   *)
(* word and the bytes before it.                                           *)
(***************************************************************************)
LEMMA ByteShiftIs ==
    ASSUME order \in Orders, NEW num \in 0..4, NEW n \in 0..32, n + 8 * num <= 32,
           NEW i \in 0..(num - 1), NEW j \in 0..31
    PROVE  /\ Place(order, j) - ByteShift(num, i, n) = Weight(order, j - (n + 8 * i))
           /\ Place(order, j) - ByteShift(num, i, n) \in 0..7 <=> j - (n + 8 * i) \in 0..7
<1>1. CASE order = "LE"
  <2>1. ByteShift(num, i, n) = n + 8 * i
    BY <1>1 DEF ByteShift
  <2>2. Place(order, j) = j /\ Weight(order, j - (n + 8 * i)) = j - (n + 8 * i)
    BY <1>1 DEF Place, Weight
  <2> QED
    BY <2>1, <2>2
<1>2. CASE order = "BE"
  <2>1. ByteShift(num, i, n) = 24 - 8 * i - n
    <3>1. CASE num = 4
      <4>1. ByteShift(num, i, n) = 24 - 8 * i
        BY <1>2, <3>1 DEF ByteShift
      <4>2. n = 0
        BY <3>1
      <4> QED
        BY <4>1, <4>2
    <3>2. CASE num # 4
      <4>1. ByteShift(num, i, n) = 8 * (num - 1 - i) + (8 * (4 - num) - n)
        BY <1>2, <3>2 DEF ByteShift
      <4> QED
        BY <4>1
    <3> QED
      BY <3>1, <3>2
  <2>2. Place(order, j) = 31 - j /\ Weight(order, j - (n + 8 * i)) = 7 - (j - (n + 8 * i))
    BY <1>2 DEF Place, Weight
  <2> QED
    BY <2>1, <2>2
<1> QED
  BY <1>1, <1>2 DEF Orders

\* One bit of the word after bytes were taken into it.
LEMMA OrBytesBit ==
    ASSUME order \in Orders, NEW s, NEW n \in 0..32, n = s.numbits,
           NEW from, NEW num \in 0..4, n + 8 * num <= 32, NEW j \in 0..31,
           j >= n => s.bits[Place(order, j)] = 0
    PROVE  OrBytes(s, from, num)[Place(order, j)] =
             IF n <= j /\ j < n + 8 * num
             THEN BitOf(PeekByteWithoutEOF(s, from + ((j - n) \div 8)),
                        Weight(order, (j - n) % 8))
             ELSE s.bits[Place(order, j)]
<1>1. PICK w \in 0..31 : w = Place(order, j)
  BY PlaceIs
<1>2. PICK here : here = {i \in 0..(num - 1) : w - ByteShift(num, i, s.numbits) \in 0..7}
  OBVIOUS
<1>3. PICK c : c = CHOOSE i \in here : TRUE
  OBVIOUS
<1>4. OrBytes(s, from, num)[w] =
        IF here = {} THEN s.bits[w]
        ELSE Or(IF num = 4 /\ order = "BE" THEN 0 ELSE s.bits[w],
                BitOf(PeekByteWithoutEOF(s, from + c), w - ByteShift(num, c, s.numbits)))
  BY <1>2, <1>3 DEF OrBytes
<1>5. \A i \in 0..(num - 1) :
         /\ w - ByteShift(num, i, s.numbits) = Weight(order, j - (n + 8 * i))
         /\ w - ByteShift(num, i, s.numbits) \in 0..7 <=> j - (n + 8 * i) \in 0..7
  BY <1>1, ByteShiftIs
<1>6. here = {i \in 0..(num - 1) : j - (n + 8 * i) \in 0..7}
  BY <1>2, <1>5
<1>7. CASE n <= j /\ j < n + 8 * num
  <2>1. PICK i \in 0..(num - 1) : i = (j - n) \div 8
    <3>1. (j - n) \div 8 \in 0..(num - 1)
      BY <1>7
    <3> QED
      BY <3>1
  <2>2. j - (n + 8 * i) = (j - n) % 8 /\ j - (n + 8 * i) \in 0..7
    <3>1. PICK x \in Nat : x = j - n
      BY <1>7
    <3>2. i = x \div 8 /\ i \in Nat
      <4>1. i = x \div 8
        BY <2>1, <3>1, Zenon
      <4>2. i \in Nat
        BY <2>1
      <4> QED
        BY <4>1, <4>2
    <3>3. x - 8 * i = x % 8 /\ x % 8 \in 0..7
      <4>1. x \in Int
        BY <3>1
      <4>2. x % 8 \in 0..7 /\ x = 8 * (x \div 8) + (x % 8)
        BY <4>1, Eights
      <4>3. PICK y \in 0..7 : y = x % 8
        BY <4>2
      <4>4. x = 8 * i + y
        BY <3>2, <4>2, <4>3, Zenon
      <4>5. x - 8 * i = y
        BY <3>2, <4>1, <4>3, <4>4
      <4> QED
        BY <4>2, <4>3, <4>5, Zenon
    <3>4. j - (n + 8 * i) = x - 8 * i
      BY <3>1, <3>2
    <3> QED
      BY <3>1, <3>3, <3>4, Zenon
  <2>3. i \in here
    BY <1>6, <2>2
  <2>4. \A l \in here : l = i
    <3> SUFFICES ASSUME NEW l \in here PROVE l = i
      OBVIOUS
    <3>1. l \in 0..(num - 1) /\ j - (n + 8 * l) \in 0..7
      BY <1>6
    <3> QED
      BY <2>2, <3>1
  <2>5. c = i
    BY <1>3, <2>3, <2>4
  <2>6. w - ByteShift(num, i, s.numbits) = Weight(order, (j - n) % 8)
    BY <1>5, <2>2
  <2>7. s.bits[w] = 0
    BY <1>1, <1>7
  <2>8. OrBytes(s, from, num)[w] = Or(0, BitOf(PeekByteWithoutEOF(s, from + i),
                                                Weight(order, (j - n) % 8)))
    BY <1>4, <2>3, <2>5, <2>6, <2>7
  <2>9. \A y : Or(0, y) = y
    BY DEF Or
  <2> QED
    BY <1>1, <1>7, <2>1, <2>8, <2>9, Zenon
<1>8. CASE ~(n <= j /\ j < n + 8 * num)
  <2>1. here = {}
    <3> SUFFICES ASSUME NEW i \in here PROVE FALSE
      OBVIOUS
    <3>1. i \in 0..(num - 1) /\ j - (n + 8 * i) \in 0..7
      BY <1>6
    <3> QED
      BY <1>8, <3>1
  <2> QED
    BY <1>1, <1>4, <1>8, <2>1, Zenon
<1> QED
  BY <1>7, <1>8

\* The client can take n bits, or has all there are before the end.
Ready(k, s, n) ==
    \/ n <= s.numbits
    \/ AtEnd(k, s) /\ s.numbits >= (s.numbits % 8) + 8 * BytesLeftInBuffer(s)

\* The client is past the end, and the count of bits is below zero.
Beyond(k, s, p) ==
    /\ s.numbits % 8 = 0 /\ BytesLeftInBuffer(s) < 0 /\ AtEnd(k, s)
    /\ p = 8 * (BaseOf(k, s) + s.currbyte)

\* A byte taken into the word: a byte of the stream, or junk behind its end.
LEMMA ByteTaken ==
    ASSUME kind \in AllKinds, NEW s, Typed(kind, s), Bytes(kind, s),
           AtEnd(kind, s) \/ BytesLeftInBuffer(s) > LookAhead,
           NEW i \in 0..4, NEW y \in 0..7, order \in Orders
    PROVE  BitOf(PeekByteWithoutEOF(s, i), Weight(order, y))
              = BitAt(kind, order, 8 * (BaseOf(kind, s) + s.currbyte + i) + y)
<1>1. s \in Selves
  BY DEF Typed
<1>2. PICK b \in Seq(Nat \ {0}) : b = s.buffer
  BY <1>1 DEF Selves
<1>3. PICK c \in Nat : c = s.currbyte
  BY <1>1, BytesLeftIs
<1>4. PICK L \in Nat : L = Len(b)
  BY LenProperties
<1>5. PICK B \in Nat : B = BaseOf(kind, s)
  BY DEF Bytes
<1>6. PICK T \in Nat : T = Size(kind)
  BY StreamsAre
<1>7. PICK q \in Nat : q = B + c + i
  OBVIOUS
<1>t. b \in Seq(Nat \ {0}) /\ c \in Nat /\ L \in Nat /\ B \in Nat /\ T \in Nat /\ q \in Nat /\ i \in 0..4
  BY <1>2, <1>3, <1>4, <1>5, <1>6, <1>7, Zenon
<1>8. PICK x \in Int : x = 8 * q + y
  BY <1>7
<1>9. x \div 8 = q /\ x % 8 = y
  BY <1>7, <1>8, EightsOnly
<1>10. x < 8 * T <=> q < T
  BY <1>t, <1>8
<1>11. L > 0 => B + L <= T
  BY <1>2, <1>4, <1>5, <1>6 DEF Bytes
<1>12. B + L >= T \/ L - c > 4
  <2>1. AtEnd(kind, s) => B + L >= T
    BY <1>2, <1>4, <1>5, <1>6 DEF AtEnd
  <2>2. BytesLeftInBuffer(s) > LookAhead => L - c > 4
    BY <1>2, <1>3, <1>4 DEF BytesLeftInBuffer, LookAhead
  <2> QED
    BY <2>1, <2>2
<1>13. c + i + 1 \in 1..L <=> q < T
  <2>1. c + i + 1 <= L <=> q < T
    BY <1>t, <1>7, <1>11, <1>12
  <2> QED
    BY <1>t, <2>1
<1>14. PeekByteWithoutEOF(s, i) = IF q < T THEN b[c + i + 1] ELSE Junk
  <2>1. DOMAIN b = 1..L
    BY <1>t, <1>4, LenProperties
  <2>2. (s.currbyte + i + 1 \in DOMAIN s.buffer) = (c + i + 1 \in 1..L)
    BY <1>2, <1>3, <2>1, Zenon
  <2> QED
    BY <1>2, <1>3, <1>13, <2>2 DEF PeekByteWithoutEOF
<1>15. CASE q < T
  <2>1. PICK j \in 1..L : j = c + i + 1
    BY <1>13, <1>15
  <2>2. b[j] = Contents(kind)[B + j]
    <3>1. b = Part(Contents(kind), B, L)
      BY <1>2, <1>4, <1>5 DEF Bytes
    <3> QED
      BY <2>1, <3>1 DEF Part
  <2>3. B + j = 1 + q
    BY <1>t, <1>7, <2>1
  <2>4. PeekByteWithoutEOF(s, i) = Contents(kind)[1 + q]
    BY <1>14, <1>15, <2>1, <2>2, <2>3, Zenon
  <2>5. BitAt(kind, order, x) = BitIn(kind, order, x)
    BY <1>6, <1>10, <1>15 DEF BitAt
  <2>6. BitIn(kind, order, x) = BitOf(Contents(kind)[1 + q], Weight(order, y))
    BY <1>9 DEF BitIn
  <2> QED
    BY <1>3, <1>5, <1>7, <1>8, <2>4, <2>5, <2>6, Zenon
<1>16. CASE ~(q < T)
  <2>1. PeekByteWithoutEOF(s, i) = Junk
    BY <1>14, <1>16
  <2>2. BitOf(PeekByteWithoutEOF(s, i), Weight(order, y)) = Junk
    BY <2>1 DEF BitOf
  <2>3. BitAt(kind, order, x) = Junk
    BY <1>6, <1>10, <1>16 DEF BitAt
  <2> QED
    BY <1>3, <1>5, <1>7, <1>8, <2>2, <2>3, Zenon
<1> QED
  BY <1>15, <1>16

\* The word with f more bytes holds as many more bits of the stream.
LEMMA OrBytesAre ==
    ASSUME kind \in AllKinds, order \in Orders, NEW s, NEW p \in Nat,
           Typed(kind, s), Bytes(kind, s), Word(kind, order, s, p),
           AtEnd(kind, s) \/ BytesLeftInBuffer(s) > LookAhead,
           NEW n \in 0..32, n = s.numbits, NEW f \in 0..4, n + 8 * f <= 32,
           NEW j \in 0..31
    PROVE  OrBytes(s, n \div 8, f)[Place(order, j)] =
              IF j < n + 8 * f THEN BitAt(kind, order, p + j) ELSE 0
<1>1. s.bits[Place(order, j)] = IF j < n THEN BitAt(kind, order, p + j) ELSE 0
  BY DEF Word
<1>2. OrBytes(s, n \div 8, f)[Place(order, j)] =
         IF n <= j /\ j < n + 8 * f
         THEN BitOf(PeekByteWithoutEOF(s, (n \div 8) + ((j - n) \div 8)),
                    Weight(order, (j - n) % 8))
         ELSE s.bits[Place(order, j)]
  <2>1. j >= n => s.bits[Place(order, j)] = 0
    BY <1>1
  <2>2. PICK a : a = n \div 8
    OBVIOUS
  <2>3. OrBytes(s, a, f)[Place(order, j)] =
           IF n <= j /\ j < n + 8 * f
           THEN BitOf(PeekByteWithoutEOF(s, a + ((j - n) \div 8)), Weight(order, (j - n) % 8))
           ELSE s.bits[Place(order, j)]
    BY <2>1, OrBytesBit, Zenon
  <2> QED
    BY <2>2, <2>3, Zenon
<1>3. CASE n <= j /\ j < n + 8 * f
  <2>1. PICK x \in 0..31 : x = j - n
    BY <1>3
  <2>2. PICK i \in Int : i = x \div 8
    BY <2>1, Eights
  <2>3. PICK y \in 0..7 : y = x % 8
    BY <2>1, Eights
  <2>4. PICK a \in Int : a = n \div 8
    BY Eights
  <2>5. PICK r \in 0..7 : r = n % 8
    BY Eights
  <2>6. x = 8 * i + y /\ n = 8 * a + r
    <3>1. x \in Int /\ n \in Int
      <4>1. x \in Int
        BY <2>1
      <4>2. n \in Int
        OBVIOUS
      <4> QED
        BY <4>1, <4>2, Zenon
    <3>2. x = 8 * (x \div 8) + (x % 8)
      BY <3>1, Eights
    <3>3. n = 8 * (n \div 8) + (n % 8)
      BY <3>1, Eights
    <3> QED
      BY <2>2, <2>3, <2>4, <2>5, <3>2, <3>3, Zenon
  <2>t. x \in 0..31 /\ i \in Int /\ y \in 0..7 /\ a \in Int /\ r \in 0..7 /\ n \in 0..32 /\ j \in 0..31
    BY <2>1, <2>2, <2>3, <2>4, <2>5, Zenon
  <2>7. PICK l \in 0..3 : l = a + i
    <3>1. x = j - n
      BY <2>1, Zenon
    <3>2. a + i \in 0..3
      BY <2>t, <2>6, <3>1
    <3> QED
      BY <3>2
  <2>8. PICK B \in Nat : B = BaseOf(kind, s)
    BY DEF Bytes
  <2>9. PICK c \in Nat : c = s.currbyte
    BY BytesLeftIs DEF Typed
  <2>10. p + r = 8 * (B + c)
    BY <2>5, <2>8, <2>9 DEF Word
  <2>11. p + j = 8 * (B + c + l) + y
    <3>1. x = j - n /\ B \in Nat /\ c \in Nat /\ l \in 0..3 /\ l = a + i
      BY <2>1, <2>7, <2>8, <2>9, Zenon
    <3> QED
      BY <2>t, <2>6, <2>10, <3>1
  <2>12. BitOf(PeekByteWithoutEOF(s, l), Weight(order, y)) = BitAt(kind, order, 8 * (B + c + l) + y)
    BY <2>3, <2>7, <2>8, <2>9, ByteTaken
  <2>13. j < n + 8 * f
    BY <1>3
  <2> QED
    BY <1>2, <1>3, <2>1, <2>2, <2>3, <2>4, <2>7, <2>11, <2>12, <2>13, Zenon
<1>4. CASE ~(n <= j /\ j < n + 8 * f)
  <2>1. j < n <=> j < n + 8 * f
    BY <1>4
  <2> QED
    BY <1>1, <1>2, <1>4, <2>1, Zenon
<1> QED
  BY <1>3, <1>4

\* What depends on the handle, the bytes and the end alone.
LEMMA SameBytes ==
    ASSUME NEW k, NEW s, NEW t, t.parent = s.parent, t.buffer = s.buffer, t.eof = s.eof
    PROVE  /\ BaseOf(k, t) = BaseOf(k, s) /\ AtEnd(k, t) = AtEnd(k, s)
           /\ Bytes(k, s) => Bytes(k, t)
<1>1. BaseOf(k, t) = BaseOf(k, s)
  BY Zenon DEF BaseOf
<1>2. AtEnd(k, t) = AtEnd(k, s)
  BY <1>1, Zenon DEF AtEnd
<1>3. Bytes(k, s) => Bytes(k, t)
  BY <1>1, <1>2, Zenon DEF Bytes
<1> QED
  BY <1>1, <1>2, <1>3

\* FillWord's fields.
LEMMA FillWordIs ==
    ASSUME NEW s \in Selves, NEW t, t = FillWord(s), NEW k, Typed(k, s)
    PROVE  /\ t.parent = s.parent /\ t.buffer = s.buffer /\ t.eof = s.eof
           /\ t.currbyte = s.currbyte
           /\ t.bits = OrBytes(s, s.numbits \div 8, BytesThatFit(s))
           /\ t.numbits = s.numbits + 8 * BytesThatFit(s)
           /\ t.bits \in Words /\ t.numbits \in Int => Typed(k, t)
<1>1. PICK b : b = OrBytes(s, s.numbits \div 8, BytesThatFit(s))
  OBVIOUS
<1>2. PICK m : m = s.numbits + 8 * BytesThatFit(s)
  OBVIOUS
<1>3. t = [s EXCEPT !.bits = b, !.numbits = m]
  BY <1>1, <1>2, Zenon DEF FillWord
<1>4. /\ t.parent = s.parent /\ t.buffer = s.buffer /\ t.eof = s.eof
      /\ t.currbyte = s.currbyte /\ t.bits = b /\ t.numbits = m
  BY <1>3 DEF Selves
<1>5. b \in Words /\ m \in Int => t \in Selves
  BY <1>3 DEF Selves
<1>6. t.bits \in Words /\ t.numbits \in Int => Typed(k, t)
  BY <1>4, <1>5, Zenon DEF Typed
<1> QED
  BY <1>1, <1>2, <1>4, <1>6, Zenon

\* How many bytes are taken into the word.
LEMMA FitIs ==
    ASSUME NEW s \in Selves, NEW n \in 0..32, n = s.numbits
    PROVE  /\ BytesThatFit(s) \in Int
           /\ BytesThatFit(s) <= BytesLeftInBuffer(s)
           /\ n + 8 * BytesThatFit(s) <= 32
           /\ n + 8 * BytesThatFit(s) >= 25
                 \/ (BytesThatFit(s) = BytesLeftInBuffer(s) /\ BytesThatFit(s) < 4)
<1>1. PICK x \in Int : x = BytesLeftInBuffer(s)
  BY BytesLeftIs
<1>2. PICK d \in Int : d = 32 - n
  OBVIOUS
<1>3. PICK a \in Int : a = d \div 8
  BY Eights
<1>4. PICK y \in 0..7 : d = 8 * a + y
  BY <1>3, Eights
<1>5. PICK f \in Int : f = Least(a, x)
  BY DEF Least
<1>6. BytesThatFit(s) = f
  BY <1>1, <1>2, <1>3, <1>5, Zenon DEF BytesThatFit
<1>7. f <= x /\ f <= a /\ (f = a \/ (f = x /\ f < a))
  BY <1>5 DEF Least
<1>t. a \in Int /\ x \in Int /\ f \in Int /\ y \in 0..7 /\ n \in 0..32 /\ 32 - n = 8 * a + y
  BY <1>1, <1>2, <1>3, <1>4, <1>5, Zenon
<1>8. n + 8 * f <= 32 /\ (n + 8 * f >= 25 \/ (f = x /\ f < 4))
  <2>1. n + 8 * f <= 32
    BY <1>t, <1>7
  <2>2. f = a => n + 8 * f >= 25
    BY <1>t
  <2>3. f < a => f < 4
    BY <1>t
  <2> QED
    BY <1>7, <2>1, <2>2, <2>3
<1>9. f \in Int /\ f <= x
  BY <1>5, <1>7
<1>10. BytesThatFit(s) \in Int
  BY <1>6, <1>9, Zenon
<1>11. BytesThatFit(s) <= BytesLeftInBuffer(s)
  BY <1>1, <1>6, <1>9, Zenon
<1>12. n + 8 * BytesThatFit(s) <= 32
  BY <1>6, <1>8, Zenon
<1>13. n + 8 * BytesThatFit(s) >= 25
          \/ (BytesThatFit(s) = BytesLeftInBuffer(s) /\ BytesThatFit(s) < 4)
  BY <1>1, <1>6, <1>8
<1> QED
  BY <1>10, <1>11, <1>12, <1>13, Zenon

\* The word is full enough, or the client is past the bytes.
LEMMA WordFilled ==
    ASSUME kind \in AllKinds, order \in Orders, NEW s, NEW p \in Nat,
           Typed(kind, s), Bytes(kind, s), Word(kind, order, s, p),
           AtEnd(kind, s) \/ BytesLeftInBuffer(s) > LookAhead,
           NEW t, t = FillWord(s)
    PROVE  /\ Typed(kind, t) /\ Bytes(kind, t)
           /\ \/ /\ Word(kind, order, t, p)
                 /\ \A n \in 1..25 : Ready(kind, t, n)
              \/ Beyond(kind, t, p)
<1>1. s \in Selves
  BY DEF Typed
<1>2. PICK n \in 0..32 : n = s.numbits
  BY DEF Word
<1>3. PICK X \in Int : X = BytesLeftInBuffer(s)
  BY <1>1, BytesLeftIs
<1>4. PICK f \in Int : f = BytesThatFit(s)
  BY <1>1, <1>2, FitIs
<1>5. f <= X /\ n + 8 * f <= 32 /\ (n + 8 * f >= 25 \/ (f = X /\ f < 4))
  BY <1>1, <1>2, <1>3, <1>4, FitIs, Zenon
<1>6. PICK B \in Nat : B = BaseOf(kind, s)
  BY DEF Bytes
<1>7. PICK c \in Nat : c = s.currbyte
  BY <1>1, BytesLeftIs
<1>8. PICK L \in Nat : L = Len(s.buffer)
  BY <1>1, BytesLeftIs
<1>9. PICK T \in Nat : T = Size(kind)
  BY StreamsAre
<1>10. PICK a \in Int : a = n \div 8
  BY Eights
<1>11. PICK r \in 0..7 : r = n % 8 /\ n = 8 * a + r
  BY <1>10, Eights
<1>t. /\ n \in 0..32 /\ X \in Int /\ f \in Int /\ B \in Nat /\ c \in Nat /\ L \in Nat /\ T \in Nat
      /\ a \in Int /\ r \in 0..7 /\ n = 8 * a + r
  BY <1>2, <1>3, <1>4, <1>6, <1>7, <1>8, <1>9, <1>10, <1>11, Zenon
<1>12. X = L - c
  BY <1>1, <1>3, <1>7, <1>8, BytesLeftIs, Zenon
<1>13. p + r = 8 * (B + c) /\ (n > 0 => c <= L /\ B + L <= T)
  BY <1>2, <1>6, <1>7, <1>8, <1>9, <1>11, Zenon DEF Word
<1>14. AtEnd(kind, s) \/ X > 4
  BY <1>3 DEF LookAhead
<1>15. /\ t.parent = s.parent /\ t.buffer = s.buffer /\ t.eof = s.eof
       /\ t.currbyte = c /\ t.bits = OrBytes(s, a, f) /\ t.numbits = n + 8 * f
       /\ t.bits \in Words /\ t.numbits \in Int => Typed(kind, t)
  BY <1>1, <1>2, <1>4, <1>7, <1>10, FillWordIs, Zenon
<1>16. /\ BaseOf(kind, t) = B /\ AtEnd(kind, t) = AtEnd(kind, s) /\ Bytes(kind, t)
       /\ BytesLeftInBuffer(t) = X
  <2>1. BytesLeftInBuffer(t) = X
    BY <1>3, <1>7, <1>15, Zenon DEF BytesLeftInBuffer
  <2> QED
    BY <1>6, <1>15, <2>1, SameBytes, Zenon
<1>17. PICK m \in Int : m = n + 8 * f
  BY <1>t
<1>18. PICK bits : bits = OrBytes(s, a, f)
  OBVIOUS
<1>19. DOMAIN bits = 0..31 /\ bits = [w \in 0..31 |-> bits[w]]
  BY <1>18 DEF OrBytes
<1>20. CASE X < 0
  <2>1. f < 0 /\ f = X
    BY <1>t, <1>5, <1>20
  <2>2. n = 0 /\ r = 0
    BY <1>t, <1>12, <1>13, <1>20
  <2>3. \A w \in 0..31 : bits[w] = s.bits[w]
    <3> TAKE w \in 0..31
    <3>1. PICK here : here = {i \in 0..(f - 1) : w - ByteShift(f, i, s.numbits) \in 0..7}
      OBVIOUS
    <3>2. 0..(f - 1) = {}
      BY <2>1
    <3>3. here = {}
      BY <3>1, <3>2, Zenon
    <3> QED
      BY <1>18, <3>1, <3>3 DEF OrBytes
  <2>4. bits \in Words
    <3>1. s.bits \in Words
      BY <1>1 DEF Selves
    <3>2. \A w \in 0..31 : bits[w] \in Nat \cup {Junk}
      BY <2>3, <3>1 DEF Words
    <3> QED
      BY <1>19, <3>2 DEF Words
  <2>5. m % 8 = 0 /\ p = 8 * (B + c)
    BY <1>t, <1>13, <1>17, <2>1, <2>2
  <2>6. AtEnd(kind, s)
    BY <1>14, <1>20
  <2>7. Beyond(kind, t, p)
    BY <1>15, <1>16, <1>17, <1>20, <2>5, <2>6, Zenon DEF Beyond
  <2> QED
    BY <1>15, <1>16, <1>17, <1>18, <2>4, <2>7, Zenon
<1>21. CASE ~(X < 0)
  <2>1. f \in 0..4
    BY <1>t, <1>5, <1>21
  <2>2. \A j \in 0..31 : bits[Place(order, j)] = IF j < m THEN BitAt(kind, order, p + j) ELSE 0
    <3> TAKE j \in 0..31
    <3>1. OrBytes(s, n \div 8, f)[Place(order, j)] =
             IF j < n + 8 * f THEN BitAt(kind, order, p + j) ELSE 0
      BY <1>2, <1>5, <2>1, OrBytesAre, SMTT(60)
    <3> QED
      BY <1>10, <1>17, <1>18, <3>1, Zenon
  <2>3. bits \in Words
    <3>1. ASSUME NEW w \in 0..31
          PROVE  bits[w] \in Nat \cup {Junk}
      <4>1. PICK j \in 0..31 : j = Place(order, w)
        BY PlaceIs
      <4>2. w = Place(order, j)
        BY <4>1, PlaceIs, Zenon
      <4>3. BitAt(kind, order, p + j) \in Nat \cup {Junk}
        <5>1. p + j \in Nat
          BY <4>1
        <5> QED
          BY <5>1, BitAtIs
      <4>4. bits[w] = BitAt(kind, order, p + j) \/ bits[w] = 0
        BY <2>2, <4>1, <4>2, Zenon
      <4> QED
        BY <4>3, <4>4
    <3> QED
      BY <1>19, <3>1 DEF Words
  <2>4. m \in 0..32 /\ m % 8 = r /\ m \div 8 = a + f
    <3>1. m = 8 * (a + f) + r /\ a + f \in Int
      BY <1>t, <1>17
    <3>2. m % 8 = r /\ m \div 8 = a + f
      BY <1>t, <3>1, EightsOnly
    <3>3. m \in 0..32
      BY <1>t, <1>5, <1>17, <2>1
    <3> QED
      BY <3>2, <3>3, Zenon
  <2>5. a + f <= X \/ AtEnd(kind, s)
    <3>1. X > 4 => a + f <= X
      BY <1>t, <1>5
    <3> QED
      BY <1>14, <3>1
  <2>6. m > 0 => c <= L /\ B + L <= T
    <3>1. c <= L
      BY <1>t, <1>12, <1>21
    <3>2. CASE n > 0
      BY <1>13, <3>1, <3>2, Zenon
    <3>3. CASE ~(n > 0)
      <4>1. ASSUME m > 0 PROVE L > 0
        BY <1>t, <1>5, <1>12, <1>17, <3>3, <4>1
      <4>2. L > 0 => B + L <= T
        BY <1>6, <1>8, <1>9, Zenon DEF Bytes
      <4> QED
        BY <3>1, <4>1, <4>2, Zenon
    <3> QED
      BY <3>2, <3>3
  <2>7. Word(kind, order, t, p)
    <3>1. t.numbits = m /\ t.bits = bits /\ t.currbyte = c /\ Len(t.buffer) = L
      BY <1>8, <1>15, <1>17, <1>18, Zenon
    <3>2. p + (m % 8) = 8 * (B + c)
      BY <1>13, <2>4
    <3>3. m > 0 => c <= L /\ B + L <= T /\ (m \div 8 <= X \/ AtEnd(kind, t))
      BY <1>16, <2>4, <2>5, <2>6, Zenon
    <3> QED
      BY <1>9, <1>16, <2>2, <2>4, <3>1, <3>2, <3>3, Zenon DEF Word
  <2>8. \A l \in 1..25 : Ready(kind, t, l)
    <3> TAKE l \in 1..25
    <3>1. CASE m >= 25
      <4>1. l <= m
        BY <2>4, <3>1
      <4> QED
        BY <1>15, <1>17, <4>1, Zenon DEF Ready
    <3>2. CASE ~(m >= 25)
      <4>1. f = X /\ f < 4
        BY <1>5, <1>17, <3>2
      <4>2. AtEnd(kind, t)
        BY <1>14, <1>16, <4>1
      <4>3. m >= r + 8 * X
        <5>1. a >= 0
          BY <1>t
        <5> QED
          BY <1>t, <1>17, <4>1, <5>1
      <4> QED
        BY <1>15, <1>16, <1>17, <2>4, <4>2, <4>3, Zenon DEF Ready
    <3> QED
      BY <3>1, <3>2
  <2> QED
    BY <1>15, <1>16, <1>17, <1>18, <2>3, <2>7, <2>8, Zenon
<1> QED
  BY <1>20, <1>21

\* What CheckAndFillBits(n) leaves: a word the client can take n bits from,
\* or a client past the end; it fails only for a client past the end.
Peeked(k, o, p, n, r) ==
    IF r.ok THEN /\ Typed(k, r.s) /\ Bytes(k, r.s)
                 /\ (Word(k, o, r.s, p) /\ Ready(k, r.s, n)) \/ Beyond(k, r.s, p)
    ELSE Typed(k, r.s) /\ p > 8 * Size(k)

\* n bits are taken, or they are not all there.
Taken(k, o, p, n, r) ==
    IF r.ok THEN Typed(k, r.s) /\ Bytes(k, r.s) /\ Word(k, o, r.s, p + n) /\ p + n <= 8 * Size(k)
    ELSE Typed(k, r.s) /\ p + n > 8 * Size(k)

\* A client behind the buffer that cannot move on is past the end.
LEMMA PastTheEnd ==
    ASSUME NEW k \in AllKinds, NEW o, NEW s, NEW p \in Nat, Typed(k, s), Bytes(k, s),
           Word(k, o, s, p), s.currbyte > Len(s.buffer), BaseOf(k, s) + s.currbyte > Size(k)
    PROVE  p > 8 * Size(k)
<1>1. s \in Selves
  BY DEF Typed
<1>2. PICK c \in Nat : c = s.currbyte
  BY <1>1, BytesLeftIs
<1>3. PICK L \in Nat : L = Len(s.buffer)
  BY <1>1, BytesLeftIs
<1>4. PICK B \in Nat : B = BaseOf(k, s)
  BY DEF Bytes
<1>5. PICK T \in Nat : T = Size(k)
  BY StreamsAre
<1>6. PICK n \in 0..32 : n = s.numbits
  BY DEF Word
<1>7. c > L /\ B + c > T
  BY <1>2, <1>3, <1>4, <1>5, Zenon
<1>8. (n > 0 => c <= L) /\ p + (n % 8) = 8 * (B + c)
  BY <1>2, <1>3, <1>4, <1>6, Zenon DEF Word
<1>9. n = 0
  BY <1>7, <1>8
<1>10. p > 8 * T
  BY <1>7, <1>8, <1>9
<1> QED
  BY <1>5, <1>10, Zenon

\* CSInputCheckAndFillBits.
LEMMA BitsChecked ==
    ASSUME kind \in AllKinds, order \in Orders, NEW s, NEW p \in Nat,
           Typed(kind, s), Bytes(kind, s), Word(kind, order, s, p), NEW n \in 1..25
    PROVE  Peeked(kind, order, p, n, CheckAndFillBits(s, n))
<1>1. PICK N \in 0..32 : N = s.numbits
  BY DEF Word
<1>2. PICK r : r = CheckAndFillBits(s, n)
  OBVIOUS
<1>3. CASE n > N
  <2>1. PICK c : c = CheckAndFillBuffer(s)
    OBVIOUS
  <2>2. Fills(kind, s, c)
    BY <2>1, CheckedAndFilled, Zenon
  <2>3. r = IF c.ok THEN Done(FillWord(c.s)) ELSE c
    BY <1>1, <1>2, <1>3, <2>1 DEF CheckAndFillBits, FillBits, Then
  <2>4. CASE c.ok
    <3>1. PICK u : u = c.s
      OBVIOUS
    <3>2. Typed(kind, u) /\ Bytes(kind, u) /\ (AtEnd(kind, u) \/ BytesLeftInBuffer(u) > LookAhead)
      BY <2>2, <2>4, <3>1, Zenon DEF Fills
    <3>3. Word(kind, order, u, p)
      BY <2>2, <2>4, <3>1, WordKept, Zenon
    <3>4. PICK t : t = FillWord(u)
      OBVIOUS
    <3>5. /\ Typed(kind, t) /\ Bytes(kind, t)
          /\ \/ /\ Word(kind, order, t, p)
                /\ \A i \in 1..25 : Ready(kind, t, i)
             \/ Beyond(kind, t, p)
      BY <3>2, <3>3, <3>4, WordFilled, Zenon
    <3>6. r.ok /\ r.s = t
      BY <2>3, <2>4, <3>1, <3>4 DEF Done
    <3> QED
      BY <1>2, <3>5, <3>6, Zenon DEF Peeked
  <2>5. CASE ~c.ok
    <3>1. r = c /\ r.s = s
      BY <2>2, <2>3, <2>5, Zenon DEF Fills
    <3>2. s.currbyte > Len(s.buffer) /\ BaseOf(kind, s) + s.currbyte > Size(kind)
      BY <2>2, <2>5, Zenon DEF Fills
    <3>3. p > 8 * Size(kind)
      BY <3>2, PastTheEnd, Zenon
    <3> QED
      BY <1>2, <2>5, <3>1, <3>3, Zenon DEF Peeked
  <2> QED
    BY <2>4, <2>5
<1>4. CASE ~(n > N)
  <2>1. r = Done(s)
    BY <1>1, <1>2, <1>4, Zenon DEF CheckAndFillBits
  <2>2. r.ok /\ r.s = s
    BY <2>1 DEF Done
  <2>3. n <= N
    BY <1>4
  <2>4. Ready(kind, s, n)
    BY <1>1, <2>3, Zenon DEF Ready
  <2> QED
    BY <1>2, <2>2, <2>4, Zenon DEF Peeked
<1> QED
  BY <1>3, <1>4

\* The word is shifted in the order the client takes its bits.
Shifted(o, bits, n) == IF o = "BE" THEN ShiftedLeft(bits, n) ELSE ShiftedRight(bits, n)

\* Bit j of the shifted word is bit j + n, or a zero that was shifted in.
LEMMA ShiftedIs ==
    ASSUME NEW o \in Orders, NEW bits \in Words, NEW n \in 1..32
    PROVE  /\ Shifted(o, bits, n) \in Words
           /\ \A j \in 0..31 : Shifted(o, bits, n)[Place(o, j)] =
                 IF j + n \in 0..31 THEN bits[Place(o, j + n)] ELSE 0
<1>1. CASE o = "BE"
  <2>1. Shifted(o, bits, n) = ShiftedLeft(bits, n)
    BY <1>1 DEF Shifted
  <2>2. ShiftedLeft(bits, n) \in Words
    BY DEF ShiftedLeft, Words
  <2>3. \A j \in 0..31 : ShiftedLeft(bits, n)[Place(o, j)] =
              IF j + n \in 0..31 THEN bits[Place(o, j + n)] ELSE 0
    <3> TAKE j \in 0..31
    <3>1. PICK w \in 0..31 : w = 31 - j
      OBVIOUS
    <3>2. Place(o, j) = w /\ Place(o, j + n) = w - n /\ (j + n \in 0..31 <=> w - n \in 0..31)
      BY <1>1, <3>1 DEF Place
    <3>3. ShiftedLeft(bits, n)[w] = IF w - n \in 0..31 THEN bits[w - n] ELSE 0
      BY DEF ShiftedLeft
    <3> QED
      BY <3>2, <3>3, Zenon
  <2> QED
    BY <2>1, <2>2, <2>3, Zenon
<1>2. CASE o # "BE"
  <2>1. Shifted(o, bits, n) = ShiftedRight(bits, n)
    BY <1>2 DEF Shifted
  <2>2. ShiftedRight(bits, n) \in Words
    BY DEF ShiftedRight, Words
  <2>3. \A j \in 0..31 : ShiftedRight(bits, n)[Place(o, j)] =
              IF j + n \in 0..31 THEN bits[Place(o, j + n)] ELSE 0
    <3> TAKE j \in 0..31
    <3>1. Place(o, j) = j /\ Place(o, j + n) = j + n
      BY <1>2 DEF Place
    <3>2. ShiftedRight(bits, n)[j] = IF j + n \in 0..31 THEN bits[j + n] ELSE 0
      BY DEF ShiftedRight
    <3> QED
      BY <3>1, <3>2, Zenon
  <2> QED
    BY <2>1, <2>2, <2>3, Zenon
<1> QED
  BY <1>1, <1>2

\* SkipPeekedBits's fields.
SkipsTo(t, n, c, nb, L, u) ==
    /\ u.parent = t.parent /\ u.buffer = t.buffer /\ u.eof = t.eof
    /\ u.currbyte = c + nb
    /\ IF L - (c + nb) < 0
       THEN SkipPeekedBits(t, n) = RaiseEOF(u) /\ u.bits = t.bits /\ u.numbits = t.numbits
       ELSE SkipPeekedBits(t, n) = Done(u) /\ u.bits = Shifted(order, t.bits, n)
              /\ u.numbits = t.numbits - n
    /\ c + nb \in Nat => u \in Selves

\* It leaves with some such u.
LEMMA SkippedIs ==
    ASSUME order \in Orders, NEW t \in Selves, NEW n \in 1..32, NEW nb \in Int,
           nb = BytesBegun(t, n), NEW c \in Nat, c = t.currbyte, NEW L \in Nat, L = Len(t.buffer)
    PROVE  \E u : SkipsTo(t, n, c, nb, L, u)
<1>1. PICK d : d = c + nb
  OBVIOUS
<1>2. PICK v : v = [t EXCEPT !.currbyte = @ + BytesBegun(t, n)]
  OBVIOUS
<1>3. v = [t EXCEPT !.currbyte = d]
  BY <1>1, <1>2, Zenon
<1>4. /\ v.parent = t.parent /\ v.buffer = t.buffer /\ v.eof = t.eof /\ v.currbyte = d
      /\ v.bits = t.bits /\ v.numbits = t.numbits
  BY <1>3 DEF Selves
<1>5. d \in Nat => v \in Selves
  BY <1>3 DEF Selves
<1>6. BytesLeftInBuffer(v) = L - (c + nb)
  BY <1>1, <1>4, Zenon DEF BytesLeftInBuffer
<1>7. PICK b : b = Shifted(order, v.bits, n)
  OBVIOUS
<1>8. PICK m : m = v.numbits - n
  OBVIOUS
<1>9. PICK w : w = [v EXCEPT !.bits = b, !.numbits = m]
  OBVIOUS
<1>10. SkipPeekedBits(t, n) = IF L - (c + nb) < 0 THEN RaiseEOF(v) ELSE Done(w)
  <2>1. w = [v EXCEPT !.bits = IF order = "BE" THEN ShiftedLeft(@, n) ELSE ShiftedRight(@, n),
                      !.numbits = @ - n]
    BY <1>7, <1>8, <1>9, Zenon DEF Shifted
  <2>2. SkipPeekedBits(t, n) =
           IF BytesLeftInBuffer(v) < 0 THEN RaiseEOF(v)
           ELSE Done([v EXCEPT !.bits = IF order = "BE" THEN ShiftedLeft(@, n)
                                        ELSE ShiftedRight(@, n),
                               !.numbits = @ - n])
    BY <1>2 DEF SkipPeekedBits
  <2> QED
    BY <1>6, <2>1, <2>2, Zenon
<1>11. CASE L - (c + nb) < 0
  BY <1>1, <1>4, <1>5, <1>10, <1>11, Zenon DEF SkipsTo
<1>12. CASE ~(L - (c + nb) < 0)
  <2>1. DOMAIN v = DOMAIN t /\ v = [i \in DOMAIN v |-> v[i]]
    BY <1>3 DEF Selves
  <2>2. DOMAIN v = {"parent", "eof", "buffer", "currbyte", "bits", "numbits"}
    BY <2>1 DEF Selves
  <2>3. /\ w.parent = v.parent /\ w.buffer = v.buffer /\ w.eof = v.eof /\ w.currbyte = v.currbyte
        /\ w.bits = b /\ w.numbits = m
    BY <1>9, <2>2
  <2>4. d \in Nat => w \in Selves
    <3>1. b \in Words
      <4>1. t.bits \in Words
        BY DEF Selves
      <4> QED
        BY <1>4, <1>7, <4>1, ShiftedIs, Zenon
    <3>2. m \in Int
      <4>1. t.numbits \in Int
        BY DEF Selves
      <4>2. PICK N \in Int : N = t.numbits
        BY <4>1
      <4>3. N - n \in Int
        BY <4>2
      <4> QED
        BY <1>4, <1>8, <4>2, <4>3, Zenon
    <3>3. ASSUME d \in Nat PROVE w \in Selves
      <4>1. v \in Selves
        BY <1>5, <3>3
      <4> QED
        BY <1>9, <3>1, <3>2, <4>1 DEF Selves
    <3> QED
      BY <3>3
  <2>5. w.bits = Shifted(order, t.bits, n) /\ w.numbits = t.numbits - n
    BY <1>4, <1>7, <1>8, <2>3, Zenon
  <2>6. SkipPeekedBits(t, n) = Done(w)
    BY <1>10, <1>12, Zenon
  <2>7. w.parent = t.parent /\ w.buffer = t.buffer /\ w.eof = t.eof /\ w.currbyte = c + nb
    BY <1>1, <1>4, <2>3, Zenon
  <2> QED
    BY <1>1, <1>12, <2>4, <2>5, <2>6, <2>7, Zenon DEF SkipsTo
<1> QED
  BY <1>11, <1>12

\* SkipPeekedBits after CheckAndFillBits.
LEMMA BitsSkipped ==
    ASSUME kind \in AllKinds, order \in Orders, NEW t, NEW p \in Nat,
           Typed(kind, t), Bytes(kind, t), NEW n \in 1..32,
           (Word(kind, order, t, p) /\ Ready(kind, t, n)) \/ Beyond(kind, t, p)
    PROVE  /\ Taken(kind, order, p, n, SkipPeekedBits(t, n))
           /\ SkipPeekedBits(t, n).ok => Word(kind, order, t, p) /\ n <= t.numbits
<1>1. t \in Selves
  BY DEF Typed
<1>2. PICK N \in Int : N = t.numbits
  BY <1>1 DEF Selves
<1>3. PICK c \in Nat : c = t.currbyte
  BY <1>1, BytesLeftIs
<1>4. PICK L \in Nat : L = Len(t.buffer)
  BY <1>1, BytesLeftIs
<1>5. PICK B \in Nat : B = BaseOf(kind, t)
  BY DEF Bytes
<1>6. PICK T \in Nat : T = Size(kind)
  BY StreamsAre
<1>7. PICK a \in Int : a = N \div 8
  BY <1>2, Eights
<1>8. PICK r \in 0..7 : r = N % 8 /\ N = 8 * a + r
  BY <1>2, <1>7, Eights
<1>9. PICK e \in Int : e = n - r + 7
  BY <1>8
<1>10. PICK nb \in Int : nb = e \div 8
  BY <1>9, Eights
<1>11. PICK z \in 0..7 : e = 8 * nb + z
  BY <1>9, <1>10, Eights
<1>t. /\ n \in 1..32 /\ N \in Int /\ c \in Nat /\ L \in Nat /\ B \in Nat /\ T \in Nat /\ p \in Nat
      /\ a \in Int /\ r \in 0..7 /\ N = 8 * a + r /\ nb \in Int /\ z \in 0..7
      /\ n - r + 7 = 8 * nb + z
  BY <1>2, <1>3, <1>4, <1>5, <1>6, <1>7, <1>8, <1>9, <1>10, <1>11, Zenon
<1>12. nb = BytesBegun(t, n)
  BY <1>2, <1>8, <1>9, <1>10, Zenon DEF BytesBegun
<1>13. nb >= 0 /\ c + nb \in Nat
  BY <1>t
<1>14. PICK u :
          /\ u.parent = t.parent /\ u.buffer = t.buffer /\ u.eof = t.eof
          /\ u.currbyte = c + nb
          /\ IF L - (c + nb) < 0
             THEN SkipPeekedBits(t, n) = RaiseEOF(u) /\ u.bits = t.bits /\ u.numbits = t.numbits
             ELSE SkipPeekedBits(t, n) = Done(u) /\ u.bits = Shifted(order, t.bits, n)
                    /\ u.numbits = t.numbits - n
          /\ c + nb \in Nat => u \in Selves
  <2>1. \E u : SkipsTo(t, n, c, nb, L, u)
    BY <1>1, <1>3, <1>4, <1>12, <1>t, SkippedIs, Zenon
  <2> QED
    BY <2>1, Zenon DEF SkipsTo
<1>15. Typed(kind, u)
  BY <1>13, <1>14, Zenon DEF Typed
<1>16. BaseOf(kind, u) = B /\ AtEnd(kind, u) = AtEnd(kind, t) /\ Bytes(kind, u)
  BY <1>5, <1>14, SameBytes, Zenon
<1>17. BytesLeftInBuffer(t) = L - c /\ BytesLeftInBuffer(u) = L - (c + nb)
  BY <1>3, <1>4, <1>14, Zenon DEF BytesLeftInBuffer
<1>18. AtEnd(kind, t) <=> B + L >= T
  BY <1>4, <1>5, <1>6, Zenon DEF AtEnd
<1>19. CASE Beyond(kind, t, p)
  <2>1. r = 0 /\ L - c < 0 /\ B + L >= T /\ p = 8 * (B + c)
    BY <1>2, <1>3, <1>5, <1>8, <1>17, <1>18, <1>19, Zenon DEF Beyond
  <2>2. L - (c + nb) < 0 /\ p + n > 8 * T
    BY <1>t, <1>13, <2>1
  <2>3. SkipPeekedBits(t, n) = RaiseEOF(u)
    BY <1>14, <2>2, Zenon
  <2>4. ~SkipPeekedBits(t, n).ok /\ SkipPeekedBits(t, n).s = u
    BY <2>3 DEF RaiseEOF
  <2> QED
    BY <1>6, <1>15, <2>2, <2>4, Zenon DEF Taken
<1>20. CASE Word(kind, order, t, p) /\ Ready(kind, t, n)
  <2>1. /\ N \in 0..32 /\ p + r = 8 * (B + c)
        /\ \A j \in 0..31 : t.bits[Place(order, j)] = IF j < N THEN BitAt(kind, order, p + j) ELSE 0
        /\ N > 0 => c <= L /\ B + L <= T /\ (a <= L - c \/ B + L >= T)
    BY <1>2, <1>3, <1>4, <1>5, <1>6, <1>7, <1>8, <1>17, <1>18, <1>20, Zenon DEF Word
  <2>2. n <= N \/ (B + L >= T /\ N >= r + 8 * (L - c))
    BY <1>2, <1>8, <1>17, <1>18, <1>20, Zenon DEF Ready
  <2>3. CASE L - (c + nb) < 0
    <3>1. B + L >= T
      <4>1. CASE n <= N
        <5>1. ~(a <= L - c)
          BY <1>t, <2>3, <4>1
        <5> QED
          BY <1>t, <2>1, <4>1, <5>1
      <4> QED
        BY <2>2, <4>1
    <3>2. p + n > 8 * T
      BY <1>t, <2>1, <2>3, <3>1
    <3>3. SkipPeekedBits(t, n) = RaiseEOF(u)
      BY <1>14, <2>3, Zenon
    <3>4. ~SkipPeekedBits(t, n).ok /\ SkipPeekedBits(t, n).s = u
      BY <3>3 DEF RaiseEOF
    <3> QED
      BY <1>6, <1>15, <3>2, <3>4, Zenon DEF Taken
  <2>4. CASE ~(L - (c + nb) < 0)
    <3>1. n <= N
      BY <1>t, <2>2, <2>4
    <3>2. c <= L /\ B + L <= T /\ (a <= L - c \/ B + L >= T)
      BY <1>t, <2>1, <3>1
    <3>3. p + n <= 8 * T
      BY <1>t, <2>1, <2>4, <3>2
    <3>4. PICK M \in 0..32 : M = N - n
      BY <1>t, <2>1, <3>1
    <3>5. PICK y \in 0..7 : y = 7 - z
      BY <1>t
    <3>6. M % 8 = y /\ M \div 8 = a - nb
      <4>1. M = 8 * (a - nb) + y /\ a - nb \in Int /\ M \in Int
        BY <1>t, <3>4, <3>5
      <4> QED
        BY <3>5, <4>1, EightsOnly
    <3>7. p + n + y = 8 * (B + (c + nb))
      BY <1>t, <2>1, <3>5
    <3>8. \A j \in 0..31 : u.bits[Place(order, j)] =
                 IF j < M THEN BitAt(kind, order, (p + n) + j) ELSE 0
      <4> TAKE j \in 0..31
      <4>1. u.bits = Shifted(order, t.bits, n)
        BY <1>14, <2>4, Zenon
      <4>2. t.bits \in Words
        BY <1>1 DEF Selves
      <4>3. Shifted(order, t.bits, n)[Place(order, j)] =
                 IF j + n \in 0..31 THEN t.bits[Place(order, j + n)] ELSE 0
        BY <4>2, ShiftedIs
      <4>4. CASE j + n \in 0..31
        <5>1. PICK i \in 0..31 : i = j + n
          BY <4>4
        <5>2. (j < M <=> i < N) /\ p + i = (p + n) + j
          BY <1>t, <3>4, <5>1
        <5> QED
          BY <2>1, <4>1, <4>3, <4>4, <5>1, <5>2, Zenon
      <4>5. CASE ~(j + n \in 0..31)
        <5>1. ~(j < M)
          BY <1>t, <2>1, <3>4, <4>5
        <5> QED
          BY <4>1, <4>3, <4>5, <5>1, Zenon
      <4> QED
        BY <4>4, <4>5
    <3>9. a - nb <= L - (c + nb) \/ B + L >= T
      BY <1>t, <3>2
    <3>10. c + nb <= L
      BY <1>t, <2>4
    <3>11. SkipPeekedBits(t, n) = Done(u) /\ u.numbits = M
      BY <1>2, <1>14, <2>4, <3>4, Zenon
    <3>12. Word(kind, order, u, p + n)
      <4>1. M > 0 => /\ u.currbyte <= Len(u.buffer) /\ BaseOf(kind, u) + Len(u.buffer) <= Size(kind)
                     /\ M \div 8 <= BytesLeftInBuffer(u) \/ AtEnd(kind, u)
        BY <1>4, <1>6, <1>14, <1>16, <1>17, <1>18, <3>2, <3>6, <3>9, <3>10, Zenon
      <4>2. (p + n) + (M % 8) = 8 * (BaseOf(kind, u) + u.currbyte)
        BY <1>14, <1>16, <3>6, <3>7, Zenon
      <4> QED
        BY <3>4, <3>8, <3>11, <4>1, <4>2, Zenon DEF Word
    <3>13. SkipPeekedBits(t, n).ok /\ SkipPeekedBits(t, n).s = u
      BY <3>11 DEF Done
    <3>14. Taken(kind, order, p, n, SkipPeekedBits(t, n))
      BY <1>6, <1>15, <1>16, <3>3, <3>12, <3>13, Zenon DEF Taken
    <3> QED
      BY <1>2, <1>20, <3>1, <3>14, Zenon
  <2> QED
    BY <2>3, <2>4
<1> QED
  BY <1>19, <1>20

(***************************************************************************)
(* Bits of the stream, one behind the other.                               *)
(***************************************************************************)
Run(k, o, at, m) == [i \in 1..m |-> BitIn(k, o, at + i - 1)]

IsRun(k, o, at, got) == \E m \in Nat : got = Run(k, o, at, m)

\* The length of a run.
LEMMA RunIs ==
    ASSUME NEW k, NEW o, NEW at, NEW m \in Nat
    PROVE  Len(Run(k, o, at, m)) = m
<1>1. PICK f : f = Run(k, o, at, m)
  OBVIOUS
<1>2. PICK S : S = {BitIn(k, o, at + i - 1) : i \in 1..m}
  OBVIOUS
<1>3. f \in [1..m -> S]
  BY <1>1, <1>2 DEF Run
<1> QED
  BY <1>1, <1>3, FunctionIsSeq, Zenon

\* A run and the run behind it are a run.
LEMMA RunsJoin ==
    ASSUME NEW k, NEW o, NEW at \in Nat, NEW to \in Nat, NEW a \in Nat, NEW b \in Nat,
           to = at + a, NEW x, x = Run(k, o, at, a), NEW y, y = Run(k, o, to, b)
    PROVE  IsRun(k, o, at, x \o y)
<1>1. PICK Z : Z = [q \in Nat |-> BitIn(k, o, q - 1)]
  OBVIOUS
<1>2. PICK S : S = {BitIn(k, o, q - 1) : q \in Nat}
  OBVIOUS
<1>3. \A i \in 1..a : Z[at + i] = BitIn(k, o, at + i - 1)
  BY <1>1
<1>4. \A i \in 1..b : Z[to + i] = BitIn(k, o, to + i - 1)
  BY <1>1
<1>5. PICK m \in Nat : m = a + b
  OBVIOUS
<1>6. \A i \in 1..m : Z[at + i] = BitIn(k, o, at + i - 1)
  BY <1>1
<1>7. Within(S, Z, at, m)
  <2>1. \A q \in Nat : Z[q] \in S
    BY <1>1, <1>2
  <2>2. \A i \in 1..m : at + i \in Nat
    OBVIOUS
  <2> QED
    BY <2>1, <2>2, Zenon DEF Within
<1>8. PartsJoin(Z, at, a, b)
  BY <1>5, <1>7, PartMore, Zenon
<1>9. x = Part(Z, at, a) /\ y = Part(Z, to, b) /\ Run(k, o, at, m) = Part(Z, at, m)
  <2>1. x = Part(Z, at, a)
    BY <1>3 DEF Part, Run
  <2>2. y = Part(Z, to, b)
    BY <1>4 DEF Part, Run
  <2>3. Run(k, o, at, m) = Part(Z, at, m)
    BY <1>6 DEF Part, Run
  <2> QED
    BY <2>1, <2>2, <2>3, Zenon
<1>10. x \o y = Run(k, o, at, m)
  BY <1>5, <1>8, <1>9, Zenon DEF PartsJoin
<1> QED
  BY <1>5, <1>10, Zenon DEF IsRun

\* No bits are a run.
LEMMA RunNone ==
    ASSUME NEW k, NEW o, NEW at
    PROVE  IsRun(k, o, at, <<>>)
<1>1. PICK m \in Nat : m = 0
  OBVIOUS
<1>2. PICK f : f = Run(k, o, at, m)
  OBVIOUS
<1>3. f \in Seq({BitIn(k, o, at + i - 1) : i \in 1..m})
  BY <1>2, FunctionIsSeq DEF Run
<1>4. Len(f) = 0
  BY <1>1, <1>2, RunIs, Zenon
<1>5. f = <<>>
  BY <1>3, <1>4, EmptySeq
<1> QED
  BY <1>1, <1>2, <1>5, Zenon DEF IsRun

\* The first bits of the word are bits of the stream.
LEMMA TopBitsAre ==
    ASSUME kind \in AllKinds, order \in Orders, NEW t, NEW p \in Nat,
           Word(kind, order, t, p), NEW m \in 1..32, m <= t.numbits, p + m <= 8 * Size(kind)
    PROVE  TopBits(t, m) = Run(kind, order, p, m)
<1>1. PICK N \in 0..32 : N = t.numbits
  BY DEF Word
<1>2. PICK T \in Nat : T = Size(kind)
  BY StreamsAre
<1>3. \A i \in 1..m : t.bits[Place(order, i - 1)] = BitIn(kind, order, p + i - 1)
  <2> TAKE i \in 1..m
  <2>1. PICK j \in 0..31 : j = i - 1
    OBVIOUS
  <2>2. j < N /\ p + j < 8 * T /\ p + j = p + i - 1
    <3>1. m <= N /\ p + m <= 8 * T
      BY <1>1, <1>2, Zenon
    <3> QED
      BY <2>1, <3>1
  <2>3. t.bits[Place(order, j)] = BitAt(kind, order, p + j)
    BY <1>1, <2>2, Zenon DEF Word
  <2>4. BitAt(kind, order, p + j) = BitIn(kind, order, p + j)
    BY <1>2, <2>2, Zenon DEF BitAt
  <2> QED
    BY <2>1, <2>2, <2>3, <2>4, Zenon
<1>4. \A i \in 1..m : (IF order = "BE" THEN t.bits[32 - i] ELSE t.bits[i - 1])
                        = t.bits[Place(order, i - 1)]
  <2> TAKE i \in 1..m
  <2>1. 31 - (i - 1) = 32 - i
    OBVIOUS
  <2> QED
    BY <2>1, Zenon DEF Place
<1> QED
  BY <1>3, <1>4 DEF TopBits, Run

(***************************************************************************)
(* Reading a code: peeking n bits, and taking m of them.                   *)
(***************************************************************************)
Code(s, n, m) == Then(CheckAndFillBits(s, n), LAMBDA t : SkipPeekedBits(t, m))

\* CSInputPeekBitString and CSInputSkipPeekedBits: the m bits are those of
\* the stream, or not all there.
LEMMA CodeTaken ==
    ASSUME kind \in AllKinds, order \in Orders, NEW s, NEW p \in Nat,
           Typed(kind, s), Bytes(kind, s), Word(kind, order, s, p),
           NEW n \in 1..25, NEW m \in 1..n
    PROVE  /\ Taken(kind, order, p, m, Code(s, n, m))
           /\ Code(s, n, m).ok => TopBits(CheckAndFillBits(s, n).s, m) = Run(kind, order, p, m)
<1>1. PICK c : c = CheckAndFillBits(s, n)
  OBVIOUS
<1>2. Peeked(kind, order, p, n, c)
  BY <1>1, BitsChecked, Zenon
<1>3. Code(s, n, m) = IF c.ok THEN SkipPeekedBits(c.s, m) ELSE c
  BY <1>1 DEF Code, Then
<1>4. CASE c.ok
  <2>1. PICK t : t = c.s
    OBVIOUS
  <2>2. /\ Typed(kind, t) /\ Bytes(kind, t)
        /\ (Word(kind, order, t, p) /\ Ready(kind, t, n)) \/ Beyond(kind, t, p)
    BY <1>2, <1>4, <2>1, Zenon DEF Peeked
  <2>3. ASSUME Word(kind, order, t, p), Ready(kind, t, n)
        PROVE  Ready(kind, t, m)
    <3>1. PICK N \in 0..32 : N = t.numbits
      BY <2>3 DEF Word
    <3>2. n <= N => m <= N
      OBVIOUS
    <3> QED
      BY <2>3, <3>1, <3>2, Zenon DEF Ready
  <2>4. m \in 1..32
    OBVIOUS
  <2>5. /\ Taken(kind, order, p, m, SkipPeekedBits(t, m))
        /\ SkipPeekedBits(t, m).ok => Word(kind, order, t, p) /\ m <= t.numbits
    BY <2>2, <2>3, <2>4, BitsSkipped, Zenon
  <2>6. SkipPeekedBits(t, m).ok => TopBits(t, m) = Run(kind, order, p, m)
    BY <2>4, <2>5, TopBitsAre, Zenon DEF Taken
  <2> QED
    BY <1>1, <1>3, <1>4, <2>1, <2>5, <2>6, Zenon
<1>5. CASE ~c.ok
  <2>1. Typed(kind, c.s) /\ p > 8 * Size(kind)
    BY <1>2, <1>5, Zenon DEF Peeked
  <2>2. p + m > 8 * Size(kind)
    <3>1. Size(kind) \in Nat
      BY StreamsAre
    <3>2. PICK T \in Nat : T = Size(kind)
      BY <3>1
    <3>3. p > 8 * T
      BY <2>1, <3>2, Zenon
    <3>4. p + m > 8 * T
      BY <3>2, <3>3
    <3> QED
      BY <3>2, <3>4, Zenon
  <2> QED
    BY <1>3, <1>5, <2>1, <2>2, Zenon DEF Taken
<1> QED
  BY <1>4, <1>5

(***************************************************************************)
(* The inductive invariant.                                                *)
(***************************************************************************)

\* The last answer, and whether the buffer was left by an exception.
LastIs(k, l, x, p) ==
    /\ l.call = "read" => (x <=> l.need > 8 * Size(k))
    /\ x => l.need > 8 * Size(k)
    /\ l.call = "ateof" => (l.atend <=> UpToByte(p) >= 8 * Size(k))

Standing(k, o, s, p) == Bytes(k, s) /\ Word(k, o, s, p)

IInv ==
    /\ kind \in AllKinds /\ order \in Orders
    /\ startoffs \in Int /\ (kind # "memory" => startoffs \in Nat)
    /\ raised \in BOOLEAN /\ pos \in Nat
    /\ Typed(kind, self)
    /\ ~raised => Standing(kind, order, self, pos)
    /\ IsRun(kind, order, last.at, last.bits)
    /\ LastIs(kind, last, raised, pos)

\* The next byte no bit of which was taken is the one currbyte is at.
LEMMA UpToByteIs ==
    ASSUME NEW k \in AllKinds, NEW o, NEW s, NEW p \in Nat, Typed(k, s), Standing(k, o, s, p)
    PROVE  /\ UpToByte(p) = 8 * (BaseOf(k, s) + s.currbyte)
           /\ BaseOf(k, s) + s.currbyte \in Nat
<1>1. s \in Selves
  BY DEF Typed
<1>2. PICK c \in Nat : c = s.currbyte
  BY <1>1, BytesLeftIs
<1>3. PICK B \in Nat : B = BaseOf(k, s)
  BY DEF Standing, Bytes
<1>4. PICK r \in 0..7 : r = s.numbits % 8
  <2>1. PICK N \in 0..32 : N = s.numbits
    BY DEF Standing, Word
  <2>2. N % 8 \in 0..7
    BY <2>1, Eights
  <2> QED
    BY <2>1, <2>2
<1>5. p + r = 8 * (B + c)
  BY <1>2, <1>3, <1>4 DEF Standing, Word
<1>6. PICK q \in Int : q = p + 7
  OBVIOUS
<1>7. PICK y \in 0..7 : y = 7 - r
  BY <1>4
<1>8. PICK d \in Nat : d = B + c
  BY <1>2, <1>3
<1>9. q = 8 * d + y
  BY <1>4, <1>5, <1>6, <1>7, <1>8
<1>10. q \div 8 = d
  BY <1>6, <1>7, <1>8, <1>9, EightsOnly
<1> QED
  BY <1>2, <1>3, <1>6, <1>8, <1>10, Zenon DEF UpToByte

\* CSInputFileOffset: where the buffer begins, and how far the client is.
LEMMA FileOffsetIs ==
    ASSUME kind \in AllKinds, NEW s, Typed(kind, s)
    PROVE  FileOffset(s) = BaseOf(kind, s) + s.currbyte
<1>1. s \in Selves
  BY DEF Typed
<1>2. PICK c \in Nat : c = s.currbyte
  BY <1>1, BytesLeftIs
<1>3. CASE kind = "memory"
  BY <1>2, <1>3 DEF FileOffset, BaseOf
<1>4. CASE kind # "memory"
  BY <1>4, Zenon DEF FileOffset, BaseOf
<1> QED
  BY <1>3, <1>4

\* The stream bit of the property is that of the proof.
LEMMA StreamBitIs ==
    ASSUME kind \in AllKinds, order \in Orders, NEW q
    PROVE  StreamBit(q) = BitIn(kind, order, q)
BY StreamsAre, Zenon DEF StreamBit, Stream, BitIn, Weight

\* The invariant implies that what is read is the stream,
LEMMA InvReads ==
    ASSUME IInv
    PROVE  ReadsAreTheStream
<1>1. kind \in AllKinds /\ order \in Orders
  BY DEF IInv
<1>2. PICK m \in Nat : last.bits = Run(kind, order, last.at, m)
  BY Zenon DEF IInv, IsRun
<1>3. Len(last.bits) = m
  <2>1. Len(Run(kind, order, last.at, m)) = m
    BY <1>2, RunIs
  <2> QED
    BY <1>2, <2>1, Zenon
<1>4. \A q : StreamBit(q) = BitIn(kind, order, q)
  BY <1>1, StreamBitIs
<1> QED
  BY <1>2, <1>3, <1>4, Zenon DEF ReadsAreTheStream, Run

\* that the end is where the stream ends,
LEMMA InvEnd ==
    ASSUME IInv
    PROVE  EndIsTheEnd
<1>1. kind \in AllKinds /\ Typed(kind, self) /\ pos \in Nat /\ LastIs(kind, last, raised, pos)
  BY DEF IInv
<1>2. Total = Size(kind)
  BY <1>1, StreamsAre, Zenon DEF Total, Stream, Size
<1>3. ASSUME ~raised
      PROVE  8 * FileOffset(self) = UpToByte(pos)
  <2>1. Standing(kind, order, self, pos)
    BY <1>3 DEF IInv
  <2> QED
    BY <1>1, <2>1, UpToByteIs, FileOffsetIs, Zenon
<1> QED
  BY <1>1, <1>2, <1>3, Zenon DEF EndIsTheEnd, LastIs

\* and the types.
LEMMA InvTypes ==
    ASSUME IInv
    PROVE  TypeOK
<1>1. /\ kind \in AllKinds /\ order \in Orders /\ startoffs \in Int /\ raised \in BOOLEAN
      /\ pos \in Nat /\ self \in Selves
  BY DEF IInv, Typed
<1>2. kind \in Kinds \cup {"memory"} /\ order \in {"BE", "LE"}
  BY <1>1 DEF AllKinds, Orders
<1>3. /\ self.parent \in [pp : Nat, curr : Nat] /\ self.eof \in BOOLEAN
      /\ self.buffer \in Seq(Nat \ {0}) /\ self.currbyte \in Nat /\ self.bits \in Words
  BY <1>1 DEF Selves
<1>4. self.parent.pp \in Int /\ self.parent.curr \in Nat
  BY <1>3
<1>5. \A i \in DOMAIN self.buffer : self.buffer[i] \in Nat \ {0}
  <2>1. PICK b \in Seq(Nat \ {0}) : b = self.buffer
    BY <1>3
  <2>2. \A i \in DOMAIN b : b[i] \in Nat \ {0}
    OBVIOUS
  <2> QED
    BY <2>1, <2>2, Zenon
<1>6. \A w \in 0..31 : self.bits[w] \in Nat \cup {Junk}
  BY <1>3 DEF Words
<1>7. raised \/ self.numbits \in 0..32
  BY Zenon DEF IInv, Standing, Word
<1> QED
  BY <1>1, <1>2, <1>3, <1>4, <1>5, <1>6, <1>7, Zenon DEF TypeOK

(***************************************************************************)
(* A call that leaves with r keeps the invariant if the buffer stands at   *)
(* to, or is left past the end.                                            *)
(***************************************************************************)
Settled(k, o, r, to, need) ==
    IF r.ok THEN Typed(k, r.s) /\ Standing(k, o, r.s, to)
    ELSE Typed(k, r.s) /\ need > 8 * Size(k)

\* Such a call keeps the invariant.
LEMMA AnswerKeeps ==
    ASSUME IInv, NEW call \in {"read", "skip", "seek"}, NEW r, NEW got, NEW at, NEW to \in Nat,
           NEW need, Answer(call, r, got, at, to, need), Settled(kind, order, r, to, need),
           call = "read" /\ r.ok => ~(need > 8 * Size(kind)),
           r.ok => IsRun(kind, order, at, got)
    PROVE  IInv'
<1>1. /\ kind \in AllKinds /\ order \in Orders /\ startoffs \in Int
      /\ kind # "memory" => startoffs \in Nat
      /\ pos \in Nat
  BY Zenon DEF IInv
<1>2. kind' = kind /\ order' = order /\ startoffs' = startoffs
  BY Zenon DEF Answer
<1>3. self' = r.s /\ raised' = ~r.ok /\ pos' = (IF r.ok THEN to ELSE pos)
  BY Zenon DEF Answer
<1>4. PICK b : b = IF r.ok THEN got ELSE <<>>
  OBVIOUS
<1>5. last' = [call |-> call, bits |-> b, at |-> at, need |-> need, atend |-> FALSE]
  BY <1>4, Zenon DEF Answer
<1>6. last'.call = call /\ last'.bits = b /\ last'.at = at /\ last'.need = need
  BY <1>5
<1>7. IsRun(kind, order, at, b)
  BY <1>4, RunNone, Zenon
<1>8. Typed(kind, self')
  BY <1>3, Zenon DEF Settled
<1>9. ~raised' => Standing(kind, order, self', pos')
  BY <1>3, Zenon DEF Settled
<1>10. pos' \in Nat
  BY <1>1, <1>3, Zenon
<1>11. raised' \in BOOLEAN
  BY <1>3
<1>12. raised' => need > 8 * Size(kind)
  BY <1>3, Zenon DEF Settled
<1>13. LastIs(kind, last', raised', pos')
  <2>1. call # "ateof"
    OBVIOUS
  <2>2. call = "read" => (raised' <=> need > 8 * Size(kind))
    BY <1>3, <1>12, Zenon
  <2> QED
    BY <1>6, <1>12, <2>1, <2>2, Zenon DEF LastIs
<1>14. IsRun(kind, order, last'.at, last'.bits)
  BY <1>6, <1>7, Zenon
<1> QED
  BY <1>1, <1>2, <1>8, <1>9, <1>10, <1>11, <1>13, <1>14, Zenon DEF IInv

\* Bits taken, or not all there, settle a call that needs them all.
LEMMA TakenSettles ==
    ASSUME NEW k \in AllKinds, NEW o, NEW p \in Nat, NEW n \in Nat, NEW q, q = p + n,
           NEW r, Taken(k, o, p, n, r)
    PROVE  /\ Settled(k, o, r, q, q)
           /\ r.ok => ~(q > 8 * Size(k))
<1>1. PICK T \in Nat : T = Size(k)
  BY StreamsAre
<1>2. PICK d \in Nat : d = q
  OBVIOUS
<1>3. d <= 8 * T => ~(d > 8 * T)
  BY <1>1, <1>2
<1>4. r.ok => ~(q > 8 * Size(k))
  BY <1>1, <1>2, <1>3, Zenon DEF Taken
<1> QED
  BY <1>4, Zenon DEF Taken, Settled, Standing

\* A buffer no exception has left stands somewhere.
LEMMA InvStands ==
    ASSUME IInv, ~raised
    PROVE  /\ kind \in AllKinds /\ order \in Orders /\ pos \in Nat
           /\ Typed(kind, self) /\ Bytes(kind, self) /\ Word(kind, order, self, pos)
BY Zenon DEF IInv, Standing

\* ReadCode keeps the invariant.
LEMMA ReadCodeKeeps ==
    ASSUME IInv, ReadCode
    PROVE  IInv'
<1>1. ~raised
  BY DEF ReadCode
<1>2. /\ kind \in AllKinds /\ order \in Orders /\ pos \in Nat
      /\ Typed(kind, self) /\ Bytes(kind, self) /\ Word(kind, order, self, pos)
  BY <1>1, InvStands, Zenon
<1>3. PICK n \in CodeSizes : \E m \in {k \in CodeSizes : k <= n} :
        \E peeked \in {CheckAndFillBits(self, n)} :
            Answer("read", Then(peeked, LAMBDA t : SkipPeekedBits(t, m)),
                   TopBits(peeked.s, m), pos, pos + m, pos + m)
  BY Zenon DEF ReadCode
<1>a. PICK m \in {k \in CodeSizes : k <= n} :
        Answer("read", Code(self, n, m), TopBits(CheckAndFillBits(self, n).s, m), pos, pos + m, pos + m)
  BY <1>3, Zenon DEF Code
<1>4. n \in 1..25 /\ m \in 1..n
  <2>1. n \in 1..25 /\ m \in 1..25 /\ m <= n
    BY <1>3, <1>a, BufferAssumption
  <2> QED
    BY <2>1
<1>5. PICK r : r = Code(self, n, m)
  OBVIOUS
<1>6. PICK got : got = TopBits(CheckAndFillBits(self, n).s, m)
  OBVIOUS
<1>7. Taken(kind, order, pos, m, r) /\ (r.ok => got = Run(kind, order, pos, m))
  BY <1>2, <1>4, <1>5, <1>6, CodeTaken, Zenon
<1>8. PICK to \in Nat : to = pos + m
  BY <1>2, <1>4
<1>9. m \in Nat
  BY <1>4
<1>10. Settled(kind, order, r, to, to) /\ (r.ok => ~(to > 8 * Size(kind)))
  BY <1>2, <1>7, <1>8, <1>9, TakenSettles, Zenon
<1>11. r.ok => IsRun(kind, order, pos, got)
  BY <1>7, <1>9, Zenon DEF IsRun
<1>12. Answer("read", r, got, pos, to, to)
  BY <1>a, <1>5, <1>6, <1>8, Zenon
<1>13. "read" \in {"read", "skip", "seek"}
  OBVIOUS
<1> QED
  BY <1>8, <1>10, <1>11, <1>12, <1>13, AnswerKeeps, Zenon

\* ReadLong keeps the invariant: the 25 bits and the rest are one run.
LEMMA ReadLongKeeps ==
    ASSUME IInv, ReadLong
    PROVE  IInv'
<1>1. ~raised
  BY DEF ReadLong
<1>2. /\ kind \in AllKinds /\ order \in Orders /\ pos \in Nat
      /\ Typed(kind, self) /\ Bytes(kind, self) /\ Word(kind, order, self, pos)
  BY <1>1, InvStands, Zenon
<1>3. PICK n \in LongSizes :
         \E first \in {CheckAndFillBits(self, 25)} :
           \E second \in {Then(Then(first, LAMBDA t : SkipPeekedBits(t, 25)),
                               LAMBDA t : CheckAndFillBits(t, n - 25))} :
             Answer("read", Then(second, LAMBDA t : SkipPeekedBits(t, n - 25)),
                    TopBits(first.s, 25) \o TopBits(second.s, n - 25), pos, pos + n, pos + n)
  BY Zenon DEF ReadLong
<1>4. PICK m \in 1..7 : m = n - 25
  BY BufferAssumption
<1>5. PICK w \in 1..25 : w = 25
  OBVIOUS
<1>6. PICK first : first = CheckAndFillBits(self, w)
  OBVIOUS
<1>7. PICK a : a = Code(self, w, w)
  OBVIOUS
<1>8. PICK second : second = IF a.ok THEN CheckAndFillBits(a.s, m) ELSE a
  OBVIOUS
<1>9. PICK r : r = IF second.ok THEN SkipPeekedBits(second.s, m) ELSE second
  OBVIOUS
<1>10. PICK to \in Nat : to = pos + n
  BY <1>2, BufferAssumption
<1>11. PICK got : got = TopBits(first.s, w) \o TopBits(second.s, m)
  OBVIOUS
<1>12. Answer("read", r, got, pos, to, to)
  BY <1>3, <1>4, <1>5, <1>6, <1>7, <1>8, <1>9, <1>10, <1>11, Zenon DEF Code, Then
<1>13. /\ Taken(kind, order, pos, w, a)
       /\ a.ok => TopBits(first.s, w) = Run(kind, order, pos, w)
  <2>1. w \in 1..w
    BY <1>5
  <2> QED
    BY <1>2, <1>5, <1>6, <1>7, <2>1, CodeTaken, Zenon
<1>14. PICK mid \in Nat : mid = pos + w
  BY <1>2, <1>5
<1>15. mid + m = to
  BY <1>2, <1>4, <1>5, <1>10, <1>14
<1>16. CASE a.ok
  <2>1. PICK s : s = a.s
    OBVIOUS
  <2>2. Typed(kind, s) /\ Bytes(kind, s) /\ Word(kind, order, s, mid)
    BY <1>13, <1>14, <1>16, <2>1, Zenon DEF Taken
  <2>3. r = Code(s, m, m) /\ second = CheckAndFillBits(s, m)
    BY <1>8, <1>9, <1>16, <2>1, Zenon DEF Code, Then
  <2>4. m \in 1..25 /\ m \in 1..m /\ m \in Nat /\ w \in Nat
    BY <1>4
  <2>5. /\ Taken(kind, order, mid, m, r)
        /\ r.ok => TopBits(second.s, m) = Run(kind, order, mid, m)
    BY <1>2, <1>14, <2>2, <2>3, <2>4, CodeTaken, Zenon
  <2>6. Settled(kind, order, r, to, to) /\ (r.ok => ~(to > 8 * Size(kind)))
    BY <1>2, <1>14, <1>15, <2>4, <2>5, TakenSettles, Zenon
  <2>7. r.ok => IsRun(kind, order, pos, got)
    BY <1>2, <1>11, <1>13, <1>14, <1>16, <2>4, <2>5, RunsJoin, Zenon
  <2>8. "read" \in {"read", "skip", "seek"}
    OBVIOUS
  <2> QED
    BY <1>10, <1>12, <2>6, <2>7, <2>8, AnswerKeeps, Zenon
<1>17. CASE ~a.ok
  <2>1. r = a
    BY <1>8, <1>9, <1>17, Zenon
  <2>2. Typed(kind, r.s) /\ mid > 8 * Size(kind)
    BY <1>13, <1>14, <1>17, <2>1, Zenon DEF Taken
  <2>3. to > 8 * Size(kind)
    <3>1. PICK T \in Nat : T = Size(kind)
      BY <1>2, StreamsAre
    <3>2. mid > 8 * T
      BY <2>2, <3>1, Zenon
    <3>3. to > 8 * T
      BY <1>4, <1>10, <1>14, <1>15, <3>1, <3>2
    <3> QED
      BY <3>1, <3>3, Zenon
  <2>4. Settled(kind, order, r, to, to)
    BY <1>17, <2>1, <2>2, <2>3, Zenon DEF Settled
  <2>5. "read" \in {"read", "skip", "seek"}
    OBVIOUS
  <2> QED
    BY <1>10, <1>12, <1>17, <2>1, <2>4, <2>5, AnswerKeeps, Zenon
<1> QED
  BY <1>16, <1>17

\* A buffer with no bits in the word stands at a byte.
LEMMA AtByte ==
    ASSUME NEW k \in AllKinds, NEW o \in Orders, NEW s, Typed(k, s), Bytes(k, s),
           NEW u \in Selves, u.parent = s.parent, u.buffer = s.buffer, u.eof = s.eof,
           u.numbits = 0, \A j \in 0..31 : u.bits[Place(o, j)] = 0,
           NEW q, q = 8 * (BaseOf(k, s) + u.currbyte)
    PROVE  Typed(k, u) /\ Bytes(k, u) /\ Word(k, o, u, q)
<1>1. Typed(k, u)
  BY Zenon DEF Typed
<1>2. Bytes(k, u) /\ BaseOf(k, u) = BaseOf(k, s)
  BY SameBytes, Zenon
<1>3. PICK n \in 0..32 : n = 0
  OBVIOUS
<1>4. PICK B \in Nat : B = BaseOf(k, s)
  BY DEF Bytes
<1>5. PICK c \in Nat : c = u.currbyte
  BY BytesLeftIs
<1>6. PICK d \in Nat : d = q
  BY <1>4, <1>5
<1>7. d + (n % 8) = 8 * (B + c)
  <2>1. n % 8 = 0
    BY <1>3
  <2>2. d = 8 * (B + c)
    BY <1>4, <1>5, <1>6, Zenon
  <2> QED
    BY <1>6, <2>1, <2>2
<1>8. ~(n > 0) /\ \A j \in 0..31 : ~(j < n)
  BY <1>3
<1>9. u.numbits = n
  BY <1>3
<1> QED
  BY <1>1, <1>2, <1>4, <1>5, <1>6, <1>7, <1>8, <1>9, Zenon DEF Word

\* The empty word.
LEMMA NoBitsAre ==
    ASSUME NEW o \in Orders, NEW j \in 0..31
    PROVE  NoBits[Place(o, j)] = 0 /\ NoBits \in Words
<1>1. NoBits \in Words
  BY DEF NoBits, Words
<1> QED
  BY <1>1, PlaceIs DEF NoBits

\* The buffer at a byte boundary, and n bytes further on.
LEMMA BoundaryIs ==
    ASSUME NEW s \in Selves, NEW n \in Nat, NEW u,
           u = [ToByteBoundary(s) EXCEPT !.currbyte = @ + n]
    PROVE  /\ u \in Selves /\ u.parent = s.parent /\ u.buffer = s.buffer /\ u.eof = s.eof
           /\ u.currbyte = s.currbyte + n /\ u.bits = NoBits /\ u.numbits = 0
<1>1. PICK c \in Nat : c = s.currbyte + n
  <2>1. s.currbyte + n \in Nat
    BY DEF Selves
  <2> QED
    BY <2>1
<1>2. PICK b \in Words : b = NoBits
  BY DEF NoBits, Words
<1>3. PICK z \in Int : z = 0
  OBVIOUS
<1>4. PICK v : v = [s EXCEPT !.bits = b, !.numbits = z]
  OBVIOUS
<1>5. v = ToByteBoundary(s)
  BY <1>2, <1>3, <1>4, Zenon DEF ToByteBoundary
<1>6. v \in Selves
  BY <1>4 DEF Selves
<1>7. /\ v.parent = s.parent /\ v.buffer = s.buffer /\ v.eof = s.eof
      /\ v.currbyte = s.currbyte /\ v.bits = b /\ v.numbits = z
  BY <1>4 DEF Selves
<1>8. u = [v EXCEPT !.currbyte = c]
  BY <1>1, <1>5, <1>7, Zenon
<1>9. u \in Selves
  BY <1>6, <1>8 DEF Selves
<1>10. /\ u.parent = v.parent /\ u.buffer = v.buffer /\ u.eof = v.eof
       /\ u.currbyte = c /\ u.bits = v.bits /\ u.numbits = v.numbits
  BY <1>6, <1>8 DEF Selves
<1> QED
  BY <1>1, <1>2, <1>3, <1>7, <1>9, <1>10, Zenon

\* So it stands at a byte.
LEMMA AtBoundary ==
    ASSUME NEW k \in AllKinds, NEW o \in Orders, NEW s, Typed(k, s), Bytes(k, s), NEW n \in Nat,
           NEW u, u = [ToByteBoundary(s) EXCEPT !.currbyte = @ + n],
           NEW q, q = 8 * (BaseOf(k, s) + s.currbyte + n)
    PROVE  Typed(k, u) /\ Bytes(k, u) /\ Word(k, o, u, q)
<1>1. s \in Selves
  BY DEF Typed
<1>2. PICK c : c = s.currbyte + n
  OBVIOUS
<1>4. /\ u \in Selves /\ u.parent = s.parent /\ u.buffer = s.buffer /\ u.eof = s.eof
      /\ u.currbyte = c /\ u.bits = NoBits /\ u.numbits = 0
  BY <1>1, <1>2, BoundaryIs, Zenon
<1>5. \A j \in 0..31 : u.bits[Place(o, j)] = 0
  BY <1>4, NoBitsAre, Zenon
<1>6. q = 8 * (BaseOf(k, s) + u.currbyte)
  <2>1. PICK B \in Nat : B = BaseOf(k, s)
    BY DEF Bytes
  <2>2. PICK d \in Nat : d = s.currbyte
    BY <1>1, BytesLeftIs
  <2>3. B + d + n = B + (d + n)
    BY <2>1, <2>2
  <2> QED
    BY <1>2, <1>4, <2>1, <2>2, <2>3, Zenon
<1> QED
  BY <1>4, <1>5, <1>6, AtByte, Zenon

\* SkipBits keeps the invariant: the word is dropped, whole bytes are counted
\* off and the rest of the bits is read from the byte they are in.
LEMMA SkipBitsKeeps ==
    ASSUME IInv, SkipBits
    PROVE  IInv'
<1>1. ~raised
  BY DEF SkipBits
<1>2. /\ kind \in AllKinds /\ order \in Orders /\ pos \in Nat
      /\ Typed(kind, self) /\ Bytes(kind, self) /\ Word(kind, order, self, pos)
  BY <1>1, InvStands, Zenon
<1>3. PICK n \in SkipSizes :
        Answer("skip", IF n <= self.numbits THEN SkipPeekedBits(self, n)
                       ELSE IF (n - (self.numbits % 8)) % 8 = 0
                       THEN Done([ToByteBoundary(self)
                                    EXCEPT !.currbyte = @ + (n - (self.numbits % 8)) \div 8])
                       ELSE NextBitString([ToByteBoundary(self)
                                    EXCEPT !.currbyte = @ + (n - (self.numbits % 8)) \div 8],
                                    (n - (self.numbits % 8)) % 8),
               <<>>, pos, pos + n, pos + n)
  BY Zenon DEF SkipBits
<1>4. n \in Nat \ {0}
  BY BufferAssumption
<1>5. PICK N \in 0..32 : N = self.numbits
  BY <1>2 DEF Word
<1>6. PICK x \in 0..7 : x = N % 8 /\ N >= x
  <2>1. N % 8 \in 0..7 /\ N >= N % 8
    BY <1>5
  <2> QED
    BY <2>1
<1>7. PICK sk \in Int : sk = n - x
  BY <1>4, <1>6
<1>8. PICK d \in Int : d = sk \div 8
  BY <1>7, Eights
<1>9. PICK y \in 0..7 : y = sk % 8 /\ sk = 8 * d + y
  BY <1>7, <1>8, Eights
<1>10. PICK there : there = [ToByteBoundary(self) EXCEPT !.currbyte = @ + d]
  OBVIOUS
<1>11. PICK r : r = IF n <= N THEN SkipPeekedBits(self, n)
                    ELSE IF y = 0 THEN Done(there) ELSE NextBitString(there, y)
  OBVIOUS
<1>12. PICK to \in Nat : to = pos + n
  BY <1>2, <1>4
<1>13. Answer("skip", r, <<>>, pos, to, to)
  BY <1>3, <1>5, <1>6, <1>7, <1>8, <1>9, <1>10, <1>11, <1>12, Zenon
<1>14. Settled(kind, order, r, to, to)
  <2>1. CASE n <= N
    <3>1. n \in 1..32 /\ n \in Nat
      BY <1>4, <1>5, <2>1
    <3>2. Ready(kind, self, n)
      BY <1>5, <2>1, Zenon DEF Ready
    <3>3. Taken(kind, order, pos, n, r)
      BY <1>2, <1>11, <2>1, <3>1, <3>2, BitsSkipped, Zenon
    <3> QED
      BY <1>2, <1>12, <3>1, <3>3, TakenSettles, Zenon
  <2>2. CASE ~(n <= N)
    <3>1. d \in Nat
      BY <1>4, <1>5, <1>6, <1>7, <1>8, <1>9, <2>2
    <3>2. PICK q : q = 8 * (BaseOf(kind, self) + self.currbyte + d)
      OBVIOUS
    <3>3. Typed(kind, there) /\ Bytes(kind, there) /\ Word(kind, order, there, q)
      BY <1>2, <1>10, <3>1, <3>2, AtBoundary, Zenon
    <3>4. q \in Nat /\ q + y = to
      <4>1. PICK B \in Nat : B = BaseOf(kind, self)
        BY <1>2 DEF Bytes
      <4>2. PICK c \in Nat : c = self.currbyte
        BY <1>2, BytesLeftIs DEF Typed
      <4>3. pos + x = 8 * (B + c)
        BY <1>2, <1>5, <1>6, <4>1, <4>2, Zenon DEF Word
      <4>4. q = 8 * (B + c + d)
        BY <3>2, <4>1, <4>2, Zenon
      <4>5. pos \in Nat /\ sk = n - x /\ sk = 8 * d + y /\ to = pos + n
        BY <1>2, <1>7, <1>9, <1>12, Zenon
      <4>6. n \in Nat /\ x \in 0..7 /\ y \in 0..7 /\ B \in Nat /\ c \in Nat
        BY <1>4, <1>6, <1>9, <4>1, <4>2, Zenon
      <4> QED
        BY <3>1, <4>3, <4>4, <4>5, <4>6
    <3>5. CASE y = 0
      <4>1. r = Done(there)
        BY <1>11, <2>2, <3>5, Zenon
      <4>2. r.ok /\ r.s = there
        BY <4>1 DEF Done
      <4>3. q = to
        BY <3>4, <3>5
      <4> QED
        BY <3>3, <4>2, <4>3, Zenon DEF Settled, Standing
    <3>6. CASE y # 0
      <4>1. r = Code(there, y, y)
        BY <1>11, <2>2, <3>6, Zenon DEF Code, NextBitString
      <4>2. y \in 1..25 /\ y \in 1..y /\ y \in Nat
        BY <3>6
      <4>3. Taken(kind, order, q, y, r)
        BY <1>2, <3>3, <3>4, <4>1, <4>2, CodeTaken, Zenon
      <4> QED
        BY <1>2, <3>4, <4>2, <4>3, TakenSettles, Zenon
    <3> QED
      BY <3>5, <3>6
  <2> QED
    BY <2>1, <2>2
<1>15. "skip" \in {"read", "skip", "seek"} /\ "skip" # "read"
  OBVIOUS
<1>16. IsRun(kind, order, pos, <<>>)
  BY RunNone
<1> QED
  BY <1>12, <1>13, <1>14, <1>15, <1>16, AnswerKeeps, Zenon

\* Skipping to a byte boundary, and n bytes.
LEMMA BoundaryKeeps ==
    ASSUME IInv, ~raised, NEW n \in Nat, NEW r, r.ok, NEW to,
           r.s = [ToByteBoundary(self) EXCEPT !.currbyte = @ + n],
           to = UpToByte(pos) + 8 * n, Answer("skip", r, <<>>, pos, to, 0)
    PROVE  IInv'
<1>1. /\ kind \in AllKinds /\ order \in Orders /\ pos \in Nat
      /\ Typed(kind, self) /\ Bytes(kind, self) /\ Word(kind, order, self, pos)
  BY InvStands, Zenon
<1>2. PICK B \in Nat : B = BaseOf(kind, self)
  BY <1>1 DEF Bytes
<1>3. PICK c \in Nat : c = self.currbyte
  BY <1>1, BytesLeftIs DEF Typed
<1>4. UpToByte(pos) = 8 * (B + c)
  <2>1. Standing(kind, order, self, pos)
    BY <1>1, Zenon DEF Standing
  <2>2. UpToByte(pos) = 8 * (BaseOf(kind, self) + self.currbyte)
    BY <1>1, <2>1, UpToByteIs, Zenon
  <2> QED
    BY <1>2, <1>3, <2>2, Zenon
<1>5. PICK q : q = 8 * (B + c + n)
  OBVIOUS
<1>6. to = q /\ to \in Nat
  BY <1>2, <1>3, <1>4, <1>5
<1>7. Typed(kind, r.s) /\ Bytes(kind, r.s) /\ Word(kind, order, r.s, q)
  BY <1>1, <1>2, <1>3, <1>5, AtBoundary, Zenon
<1>8. Settled(kind, order, r, to, 0)
  BY <1>6, <1>7, Zenon DEF Settled, Standing
<1>9. "skip" \in {"read", "skip", "seek"} /\ "skip" # "read"
  OBVIOUS
<1>10. IsRun(kind, order, pos, <<>>)
  BY RunNone
<1> QED
  BY <1>6, <1>8, <1>9, <1>10, AnswerKeeps, Zenon

\* SkipToByteBoundary keeps the invariant.
LEMMA SkipToByteBoundaryKeeps ==
    ASSUME IInv, SkipToByteBoundary
    PROVE  IInv'
<1>1. ~raised /\ Answer("skip", Done(ToByteBoundary(self)), <<>>, pos, UpToByte(pos), 0)
  BY Zenon DEF SkipToByteBoundary
<1>2. /\ kind \in AllKinds /\ pos \in Nat /\ Typed(kind, self)
      /\ Standing(kind, order, self, pos)
  BY <1>1, InvStands, Zenon DEF Standing
<1>3. PICK n \in Nat : n = 0
  OBVIOUS
<1>4. PICK r : r = Done(ToByteBoundary(self))
  OBVIOUS
<1>5. r.ok /\ r.s = ToByteBoundary(self)
  BY <1>4 DEF Done
<1>6. UpToByte(pos) = UpToByte(pos) + 8 * n
  <2>1. UpToByte(pos) \in Nat
    <3>1. BaseOf(kind, self) + self.currbyte \in Nat
      BY <1>2, UpToByteIs, Zenon
    <3>2. PICK d \in Nat : d = BaseOf(kind, self) + self.currbyte
      BY <3>1
    <3>3. 8 * d \in Nat
      BY <3>2
    <3> QED
      BY <1>2, <3>2, <3>3, UpToByteIs, Zenon
  <2> QED
    BY <1>3, <2>1
<1>7. r.s = [ToByteBoundary(self) EXCEPT !.currbyte = @ + n]
  <2>1. PICK v : v = ToByteBoundary(self)
    OBVIOUS
  <2>2. PICK c \in Nat : c = self.currbyte
    BY <1>2, BytesLeftIs DEF Typed
  <2>3. self \in Selves
    BY <1>2 DEF Typed
  <2>4. v = [self EXCEPT !.bits = NoBits, !.numbits = 0]
    BY <2>1 DEF ToByteBoundary
  <2>5. v.currbyte = self.currbyte
    BY <2>3, <2>4 DEF Selves
  <2>6. c + n = c
    BY <1>3, <2>2
  <2>7. v = [i \in DOMAIN v |-> v[i]]
    BY <2>4
  <2>8. v = [v EXCEPT !.currbyte = c]
    BY <2>2, <2>5, <2>7
  <2>9. v = [v EXCEPT !.currbyte = @ + n]
    BY <2>2, <2>5, <2>6, <2>8, Zenon
  <2> QED
    BY <1>5, <2>1, <2>9, Zenon
<1>8. PICK to : to = UpToByte(pos)
  OBVIOUS
<1> QED
  BY <1>1, <1>4, <1>5, <1>6, <1>7, <1>8, BoundaryKeeps, Zenon

\* SkipTo16BitBoundary keeps the invariant: offsets from the client's origin
\* are odd when the buffer's are.
LEMMA SkipTo16BitBoundaryKeeps ==
    ASSUME IInv, SkipTo16BitBoundary
    PROVE  IInv'
<1>1. ~raised
  BY DEF SkipTo16BitBoundary
<1>2. /\ kind \in AllKinds /\ pos \in Nat /\ Typed(kind, self) /\ startoffs \in Int
      /\ Standing(kind, order, self, pos)
  BY <1>1, InvStands, Zenon DEF Standing, IInv
<1>3. PICK r : r = Done([ToByteBoundary(self) EXCEPT !.currbyte = @ + (BufferOffset(self) % 2)])
  OBVIOUS
<1>4. PICK bytes : bytes = (UpToByte(pos) \div 8) - startoffs
  OBVIOUS
<1>5. Answer("skip", r, <<>>, pos, 8 * (startoffs + bytes + (bytes % 2)), 0)
  BY <1>3, <1>4, Zenon DEF SkipTo16BitBoundary
<1>6. PICK d \in Nat : d = BaseOf(kind, self) + self.currbyte
  BY <1>2, UpToByteIs
<1>7. UpToByte(pos) = 8 * d
  BY <1>2, <1>6, UpToByteIs, Zenon
<1>8. UpToByte(pos) \div 8 = d
  BY <1>6, <1>7
<1>9. PICK st \in Int : st = startoffs
  BY <1>2
<1>10. bytes = d - st
  BY <1>4, <1>8, <1>9, Zenon
<1>11. BufferOffset(self) = d - st
  BY <1>2, <1>6, <1>9, FileOffsetIs, Zenon DEF BufferOffset
<1>12. PICK n \in Nat : n = (d - st) % 2
  BY <1>6, <1>9
<1>13. r.ok /\ r.s = [ToByteBoundary(self) EXCEPT !.currbyte = @ + n]
  <2>1. PICK v : v = [ToByteBoundary(self) EXCEPT !.currbyte = @ + n]
    OBVIOUS
  <2>2. r = Done(v)
    BY <1>3, <1>11, <1>12, <2>1, Zenon
  <2>3. r.ok /\ r.s = v
    BY <2>2 DEF Done
  <2> QED
    BY <2>1, <2>3, Zenon
<1>14. PICK to : to = 8 * (startoffs + bytes + (bytes % 2))
  OBVIOUS
<1>15. to = UpToByte(pos) + 8 * n
  <2>1. to = 8 * (st + (d - st) + n)
    BY <1>9, <1>10, <1>12, <1>14, Zenon
  <2>2. 8 * (st + (d - st) + n) = 8 * d + 8 * n
    BY <1>6, <1>9, <1>12
  <2> QED
    BY <1>7, <2>1, <2>2, Zenon
<1> QED
  BY <1>1, <1>5, <1>13, <1>14, <1>15, BoundaryKeeps, Zenon

\* A buffer whose word is empty, n bytes further on.
Advanced(t, n) == [t EXCEPT !.currbyte = @ + n]

\* It stands as many bytes further on.
LEMMA AdvanceIs ==
    ASSUME NEW k \in AllKinds, NEW o \in Orders, NEW t, NEW p \in Nat,
           Typed(k, t), Bytes(k, t), Word(k, o, t, p), t.numbits = 0, NEW n \in Nat,
           NEW u, u = Advanced(t, n), NEW q, q = p + 8 * n
    PROVE  Typed(k, u) /\ Bytes(k, u) /\ Word(k, o, u, q)
<1>1. t \in Selves
  BY DEF Typed
<1>2. PICK c \in Nat : c = t.currbyte
  BY <1>1, BytesLeftIs
<1>3. PICK B \in Nat : B = BaseOf(k, t)
  BY DEF Bytes
<1>4. PICK d \in Nat : d = c + n
  BY <1>2
<1>5. u = [t EXCEPT !.currbyte = d]
  BY <1>2, <1>4, Zenon DEF Advanced
<1>6. u \in Selves
  BY <1>1, <1>5 DEF Selves
<1>7. /\ u.parent = t.parent /\ u.buffer = t.buffer /\ u.eof = t.eof
      /\ u.currbyte = d /\ u.bits = t.bits /\ u.numbits = t.numbits
  BY <1>1, <1>5 DEF Selves
<1>8. p = 8 * (B + c)
  <2>1. PICK z \in 0..32 : z = t.numbits
    BY DEF Word
  <2>2. p + (z % 8) = 8 * (B + c)
    BY <1>2, <1>3, <2>1, Zenon DEF Word
  <2>3. z = 0
    BY <2>1, Zenon
  <2> QED
    BY <2>2, <2>3
<1>9. q = 8 * (B + d)
  BY <1>2, <1>3, <1>4, <1>8
<1>10. \A j \in 0..31 : u.bits[Place(o, j)] = 0
  <2> TAKE j \in 0..31
  <2>1. ~(j < 0)
    OBVIOUS
  <2> QED
    BY <1>7, <2>1, Zenon DEF Word
<1> QED
  BY <1>3, <1>6, <1>7, <1>9, <1>10, AtByte, Zenon

\* What CheckAndFillBuffer leaves to a client at a byte.
LEMMA ByteFilled ==
    ASSUME IInv, ~raised, self.numbits = 0, NEW c, c = CheckAndFillBuffer(self)
    PROVE  IF c.ok
           THEN /\ Typed(kind, c.s) /\ Bytes(kind, c.s) /\ Word(kind, order, c.s, pos)
                /\ c.s.numbits = 0 /\ pos = 8 * (BaseOf(kind, c.s) + c.s.currbyte)
                /\ AtEnd(kind, c.s) \/ BytesLeftInBuffer(c.s) > LookAhead
           ELSE Typed(kind, c.s) /\ pos > 8 * Size(kind)
<1>1. /\ kind \in AllKinds /\ order \in Orders /\ pos \in Nat
      /\ Typed(kind, self) /\ Bytes(kind, self) /\ Word(kind, order, self, pos)
  BY InvStands, Zenon
<1>2. Fills(kind, self, c)
  BY <1>1, CheckedAndFilled, Zenon
<1>3. CASE c.ok
  <2>1. PICK t : t = c.s
    OBVIOUS
  <2>2. /\ Typed(kind, t) /\ Bytes(kind, t) /\ t.numbits = 0
        /\ AtEnd(kind, t) \/ BytesLeftInBuffer(t) > LookAhead
    BY <1>2, <1>3, <2>1, Zenon DEF Fills
  <2>3. Word(kind, order, t, pos)
    BY <1>1, <1>2, <1>3, <2>1, WordKept, Zenon
  <2>4. pos = 8 * (BaseOf(kind, t) + t.currbyte)
    <3>1. PICK z \in 0..32 : z = t.numbits
      BY <2>3 DEF Word
    <3>2. z = 0
      BY <2>2, <3>1, Zenon
    <3>3. z % 8 = 0
      BY <3>2
    <3>4. pos + (z % 8) = pos
      BY <1>1, <3>3
    <3> QED
      BY <2>3, <3>1, <3>4, Zenon DEF Word
  <2> QED
    BY <1>3, <2>1, <2>2, <2>3, <2>4, Zenon
<1>4. CASE ~c.ok
  <2>1. c.s = self /\ self.currbyte > Len(self.buffer)
        /\ BaseOf(kind, self) + self.currbyte > Size(kind)
    BY <1>2, <1>4, Zenon DEF Fills
  <2>2. pos > 8 * Size(kind)
    BY <1>1, <2>1, PastTheEnd, Zenon
  <2> QED
    BY <1>1, <1>4, <2>1, <2>2, Zenon
<1> QED
  BY <1>3, <1>4

\* A byte within the bytes of the buffer is one of the stream, and one that
\* is not lies behind the end.
LEMMA ByteThere ==
    ASSUME NEW k \in AllKinds, NEW t, Typed(k, t), Bytes(k, t),
           AtEnd(k, t) \/ BytesLeftInBuffer(t) > LookAhead, NEW offs \in 0..4
    PROVE  offs < BytesLeftInBuffer(t) <=> BaseOf(k, t) + t.currbyte + offs < Size(k)
<1>1. t \in Selves
  BY DEF Typed
<1>2. PICK c \in Nat : c = t.currbyte
  BY <1>1, BytesLeftIs
<1>3. PICK L \in Nat : L = Len(t.buffer)
  BY <1>1, BytesLeftIs
<1>4. PICK B \in Nat : B = BaseOf(k, t)
  BY DEF Bytes
<1>5. PICK T \in Nat : T = Size(k)
  BY StreamsAre
<1>6. BytesLeftInBuffer(t) = L - c
  BY <1>2, <1>3, Zenon DEF BytesLeftInBuffer
<1>7. L > 0 => B + L <= T
  BY <1>3, <1>4, <1>5, Zenon DEF Bytes
<1>8. B + L >= T \/ L - c > 4
  <2>1. AtEnd(k, t) <=> B + L >= T
    BY <1>3, <1>4, <1>5, Zenon DEF AtEnd
  <2>2. BytesLeftInBuffer(t) > LookAhead <=> L - c > 4
    BY <1>6, Zenon DEF LookAhead
  <2> QED
    BY <2>1, <2>2, Zenon
<1>9. offs < L - c <=> B + c + offs < T
  <2>1. c \in Nat /\ L \in Nat /\ B \in Nat /\ T \in Nat
    BY <1>2, <1>3, <1>4, <1>5, Zenon
  <2> QED
    BY <2>1, <1>7, <1>8
<1> QED
  BY <1>2, <1>4, <1>5, <1>6, <1>9, Zenon

\* The bits of a byte of the stream.
LEMMA ByteBitsAre ==
    ASSUME kind \in AllKinds, order \in Orders, NEW t, Typed(kind, t), Bytes(kind, t),
           AtEnd(kind, t) \/ BytesLeftInBuffer(t) > LookAhead,
           NEW i \in 0..4, NEW y \in 0..7, NEW D \in Nat, D = BaseOf(kind, t) + t.currbyte,
           D + i < Size(kind), NEW q, q = 8 * (D + i) + y, NEW j, j = y + 1
    PROVE  ByteBits(PeekByteWithoutEOF(t, i))[j] = BitIn(kind, order, q)
<1>1. PICK b : b = PeekByteWithoutEOF(t, i)
  OBVIOUS
<1>2. j \in 1..8 /\ 8 - j = 7 - y /\ j - 1 = y
  OBVIOUS
<1>3. ByteBits(b)[j] = BitOf(b, IF order = "BE" THEN 8 - j ELSE j - 1)
  BY <1>2 DEF ByteBits
<1>4. (IF order = "BE" THEN 8 - j ELSE j - 1) = Weight(order, y)
  BY <1>2, Zenon DEF Weight
<1>5. BitOf(b, Weight(order, y)) = BitAt(kind, order, 8 * (BaseOf(kind, t) + t.currbyte + i) + y)
  BY <1>1, ByteTaken, Zenon
<1>6. BitAt(kind, order, q) = BitIn(kind, order, q)
  <2>1. PICK T \in Nat : T = Size(kind)
    BY StreamsAre
  <2>2. D + i < T
    BY <2>1, Zenon
  <2>3. q < 8 * T
    BY <2>1, <2>2
  <2> QED
    BY <2>1, <2>3, Zenon DEF BitAt
<1> QED
  BY <1>1, <1>3, <1>4, <1>5, <1>6, Zenon

\* PeekByte keeps the invariant: a byte is there, or the end is before it.
LEMMA PeekByteKeeps ==
    ASSUME IInv, NEW offs \in 0..4, NEW skip \in 0..1, PeekByte(offs, skip)
    PROVE  IInv'
<1>1. ~raised /\ self.numbits = 0
  BY Zenon DEF PeekByte
<1>2. /\ kind \in AllKinds /\ order \in Orders /\ pos \in Nat
  BY <1>1, InvStands, Zenon
<1>3. PICK c : c = CheckAndFillBuffer(self)
  OBVIOUS
<1>4. PICK r : r = IF c.ok THEN IF offs >= BytesLeftInBuffer(c.s) THEN RaiseEOF(c.s)
                                ELSE Done([c.s EXCEPT !.currbyte = @ + skip])
                   ELSE c
  OBVIOUS
<1>5. PICK got : got = ByteBits(PeekByteWithoutEOF(c.s, offs))
  OBVIOUS
<1>6. PICK at \in Nat : at = pos + 8 * offs
  BY <1>2
<1>7. PICK to \in Nat : to = pos + 8 * skip
  BY <1>2
<1>8. PICK need \in Nat : need = pos + 8 * (offs + 1)
  BY <1>2
<1>9. Answer("read", r, got, at, to, need)
  BY <1>3, <1>4, <1>5, <1>6, <1>7, <1>8, Zenon DEF PeekByte, Then
<1>10. IF c.ok
       THEN /\ Typed(kind, c.s) /\ Bytes(kind, c.s) /\ Word(kind, order, c.s, pos)
            /\ c.s.numbits = 0 /\ pos = 8 * (BaseOf(kind, c.s) + c.s.currbyte)
            /\ AtEnd(kind, c.s) \/ BytesLeftInBuffer(c.s) > LookAhead
       ELSE Typed(kind, c.s) /\ pos > 8 * Size(kind)
  BY <1>1, <1>3, ByteFilled, Zenon
<1>11. PICK T \in Nat : T = Size(kind)
  BY <1>2, StreamsAre
<1>12. "read" \in {"read", "skip", "seek"}
  OBVIOUS
<1>13. CASE ~c.ok
  <2>1. r = c /\ Typed(kind, c.s) /\ pos > 8 * T
    BY <1>4, <1>10, <1>11, <1>13, Zenon
  <2>2. need > 8 * T
    BY <1>2, <1>8, <1>11, <2>1
  <2>3. Settled(kind, order, r, to, need)
    BY <1>11, <1>13, <2>1, <2>2, Zenon DEF Settled
  <2> QED
    BY <1>7, <1>9, <1>12, <1>13, <2>1, <2>3, AnswerKeeps, Zenon
<1>14. CASE c.ok
  <2>1. PICK t : t = c.s
    OBVIOUS
  <2>2. /\ Typed(kind, t) /\ Bytes(kind, t) /\ Word(kind, order, t, pos)
        /\ t.numbits = 0 /\ pos = 8 * (BaseOf(kind, t) + t.currbyte)
        /\ AtEnd(kind, t) \/ BytesLeftInBuffer(t) > LookAhead
    BY <1>10, <1>14, <2>1, Zenon
  <2>3. PICK D \in Nat : D = BaseOf(kind, t) + t.currbyte
    <3>1. t \in Selves
      BY <2>2 DEF Typed
    <3>2. PICK x \in Nat : x = t.currbyte
      BY <3>1, BytesLeftIs
    <3>3. PICK B \in Nat : B = BaseOf(kind, t)
      BY <2>2 DEF Bytes
    <3>4. B + x \in Nat
      BY <3>2, <3>3
    <3> QED
      BY <3>2, <3>3, <3>4
  <2>4. pos = 8 * D
    BY <2>2, <2>3, Zenon
  <2>5. offs < BytesLeftInBuffer(t) <=> D + offs < T
    BY <1>2, <1>11, <2>2, <2>3, ByteThere, Zenon
  <2>6. PICK X \in Int : X = BytesLeftInBuffer(t)
    BY <2>2, BytesLeftIs DEF Typed
  <2>7. need > 8 * T <=> ~(D + offs < T)
    BY <1>8, <1>11, <2>3, <2>4
  <2>8. CASE offs >= X
    <3>1. ~(offs < X)
      BY <2>6, <2>8
    <3>2. need > 8 * T
      BY <2>5, <2>6, <2>7, <3>1, Zenon
    <3>3. r = RaiseEOF(t)
      BY <1>4, <1>14, <2>1, <2>6, <2>8, Zenon
    <3>4. ~r.ok /\ r.s = t
      BY <3>3 DEF RaiseEOF
    <3>5. Settled(kind, order, r, to, need)
      BY <1>11, <2>2, <3>2, <3>4, Zenon DEF Settled
    <3> QED
      BY <1>7, <1>9, <1>12, <3>4, <3>5, AnswerKeeps, Zenon
  <2>9. CASE ~(offs >= X)
    <3>1. offs < X
      BY <2>6, <2>9
    <3>2. ~(need > 8 * T) /\ D + offs < T
      BY <2>5, <2>6, <2>7, <3>1, Zenon
    <3>3. PICK u : u = [t EXCEPT !.currbyte = @ + skip]
      OBVIOUS
    <3>4. r = Done(u)
      BY <1>4, <1>14, <2>1, <2>6, <2>9, <3>3, Zenon
    <3>5. r.ok /\ r.s = u
      BY <3>4 DEF Done
    <3>6. skip \in Nat
      OBVIOUS
    <3>7. Typed(kind, u) /\ Bytes(kind, u) /\ Word(kind, order, u, to)
      <4>1. u = Advanced(t, skip)
        BY <3>3, Zenon DEF Advanced
      <4> QED
        BY <1>2, <1>7, <2>2, <3>6, <4>1, AdvanceIs
    <3>8. Settled(kind, order, r, to, need)
      BY <3>5, <3>7, Zenon DEF Settled, Standing
    <3>9. IsRun(kind, order, at, got)
      <4>1. \A j \in 1..8 : got[j] = BitIn(kind, order, at + j - 1)
        <5> TAKE j \in 1..8
        <5>1. PICK y \in 0..7 : y = j - 1
          OBVIOUS
        <5>2. j = y + 1
          BY <5>1
        <5>3. at + j - 1 = 8 * (D + offs) + y
          BY <1>6, <2>3, <2>4, <5>1
        <5>4. PICK q : q = at + j - 1
          OBVIOUS
        <5>5. D + offs < Size(kind) /\ q = 8 * (D + offs) + y
          BY <1>11, <3>2, <5>3, <5>4, Zenon
        <5>6. ByteBits(PeekByteWithoutEOF(t, offs))[j] = BitIn(kind, order, q)
          BY <1>2, <2>2, <2>3, <5>1, <5>2, <5>5, ByteBitsAre, SMTT(30)
        <5> QED
          BY <1>5, <2>1, <5>4, <5>6, Zenon
      <4>2. got = [j \in 1..8 |-> got[j]]
        BY <1>5 DEF ByteBits
      <4>3. got = Run(kind, order, at, 8)
        BY <4>1, <4>2, Zenon DEF Run
      <4>4. PICK m \in Nat : m = 8
        OBVIOUS
      <4> QED
        BY <4>3, <4>4, Zenon DEF IsRun
    <3> QED
      BY <1>7, <1>9, <1>11, <1>12, <3>2, <3>8, <3>9, AnswerKeeps, Zenon
  <2> QED
    BY <2>8, <2>9
<1> QED
  BY <1>13, <1>14

\* NextValue keeps the invariant: the bytes of the value are all there.
LEMMA NextValueKeeps ==
    ASSUME IInv, NextValue
    PROVE  IInv'
<1>1. ~raised /\ self.numbits = 0
  BY Zenon DEF NextValue
<1>2. /\ kind \in AllKinds /\ order \in Orders /\ pos \in Nat
  BY <1>1, InvStands, Zenon
<1>3. PICK c : c = CheckAndFillBuffer(self)
  OBVIOUS
<1>4. PICK size \in ValueSizes :
         /\ pos + 8 * size <= 8 * Total
         /\ Answer("read", IF c.ok THEN Done([c.s EXCEPT !.currbyte = @ + size]) ELSE c,
                   [j \in 1..(8 * size) |->
                      ByteBits(PeekByteWithoutEOF(c.s, (j - 1) \div 8))[1 + ((j - 1) % 8)]],
                   pos, pos + 8 * size, pos + 8 * size)
  BY <1>3, Zenon DEF NextValue, Then
<1>5. size \in 1..4 /\ size \in Nat
  <2>1. size \in 1..4
    BY BufferAssumption
  <2> QED
    BY <2>1
<1>6. PICK r : r = IF c.ok THEN Done([c.s EXCEPT !.currbyte = @ + size]) ELSE c
  OBVIOUS
<1>7. PICK got : got = [j \in 1..(8 * size) |->
                      ByteBits(PeekByteWithoutEOF(c.s, (j - 1) \div 8))[1 + ((j - 1) % 8)]]
  OBVIOUS
<1>8. PICK to \in Nat : to = pos + 8 * size
  BY <1>2, <1>5
<1>9. Answer("read", r, got, pos, to, to)
  BY <1>4, <1>6, <1>7, <1>8, Zenon
<1>10. IF c.ok
       THEN /\ Typed(kind, c.s) /\ Bytes(kind, c.s) /\ Word(kind, order, c.s, pos)
            /\ c.s.numbits = 0 /\ pos = 8 * (BaseOf(kind, c.s) + c.s.currbyte)
            /\ AtEnd(kind, c.s) \/ BytesLeftInBuffer(c.s) > LookAhead
       ELSE Typed(kind, c.s) /\ pos > 8 * Size(kind)
  BY <1>1, <1>3, ByteFilled, Zenon
<1>11. PICK T \in Nat : T = Size(kind)
  BY <1>2, StreamsAre
<1>12. to <= 8 * T
  <2>1. Total = T
    BY <1>2, <1>11, StreamsAre, Zenon DEF Total, Stream, Size
  <2> QED
    BY <1>4, <1>8, <2>1, Zenon
<1>13. c.ok
  <2>1. ~(pos > 8 * T)
    BY <1>2, <1>5, <1>8, <1>11, <1>12
  <2> QED
    BY <1>10, <1>11, <2>1, Zenon
<1>14. PICK t : t = c.s
  OBVIOUS
<1>15. /\ Typed(kind, t) /\ Bytes(kind, t) /\ Word(kind, order, t, pos)
       /\ t.numbits = 0 /\ pos = 8 * (BaseOf(kind, t) + t.currbyte)
       /\ AtEnd(kind, t) \/ BytesLeftInBuffer(t) > LookAhead
  BY <1>10, <1>13, <1>14, Zenon
<1>16. PICK D \in Nat : D = BaseOf(kind, t) + t.currbyte
  <2>1. t \in Selves
    BY <1>15 DEF Typed
  <2>2. PICK x \in Nat : x = t.currbyte
    BY <2>1, BytesLeftIs
  <2>3. PICK B \in Nat : B = BaseOf(kind, t)
    BY <1>15 DEF Bytes
  <2>4. B + x \in Nat
    BY <2>2, <2>3
  <2> QED
    BY <2>2, <2>3, <2>4
<1>17. pos = 8 * D
  BY <1>15, <1>16, Zenon
<1>18. Settled(kind, order, r, to, to)
  <2>1. PICK u : u = [t EXCEPT !.currbyte = @ + size]
    OBVIOUS
  <2>2. r = Done(u)
    BY <1>6, <1>13, <1>14, <2>1, Zenon
  <2>3. r.ok /\ r.s = u
    BY <2>2 DEF Done
  <2>4. Typed(kind, u) /\ Bytes(kind, u) /\ Word(kind, order, u, to)
    <3>1. u = Advanced(t, size)
      BY <2>1, Zenon DEF Advanced
    <3> QED
      BY <1>2, <1>5, <1>8, <1>15, <3>1, AdvanceIs
  <2> QED
    BY <2>3, <2>4, Zenon DEF Settled, Standing
<1>19. IsRun(kind, order, pos, got)
  <2>1. PICK m \in Nat : m = 8 * size
    BY <1>5
  <2>2. \A j \in 1..m : got[j] = BitIn(kind, order, pos + j - 1)
    <3> TAKE j \in 1..m
    <3>1. PICK x \in Nat : x = j - 1 /\ x < m
      <4>1. j - 1 \in Nat /\ j - 1 < m
        BY <2>1
      <4> QED
        BY <4>1
    <3>2. PICK i \in Int : i = x \div 8
      BY <3>1, Eights
    <3>3. PICK y \in 0..7 : y = x % 8 /\ x = 8 * i + y
      BY <3>1, <3>2, Eights
    <3>4. x \in Nat /\ i \in Int /\ y \in 0..7 /\ x = 8 * i + y /\ x < m /\ m = 8 * size
      BY <2>1, <3>1, <3>2, <3>3, Zenon
    <3>5. i \in 0..4 /\ i < size
      BY <1>5, <3>4
    <3>6. D + i < T
      BY <1>5, <1>8, <1>11, <1>12, <1>16, <1>17, <3>5
    <3>7. pos + j - 1 = 8 * (D + i) + y
      <4>1. x = j - 1 /\ D \in Nat
        BY <1>16, <3>1, Zenon
      <4> QED
        BY <1>17, <3>4, <3>5, <4>1
    <3>8. 1 + y = y + 1
      BY <3>3
    <3>9. got[j] = ByteBits(PeekByteWithoutEOF(t, i))[y + 1]
      <4>1. j \in 1..(8 * size)
        BY <2>1
      <4>2. got[j] = ByteBits(PeekByteWithoutEOF(c.s, (j - 1) \div 8))[1 + ((j - 1) % 8)]
        BY <1>7, <4>1, Zenon
      <4> QED
        BY <1>14, <3>1, <3>2, <3>3, <3>8, <4>2, Zenon
    <3>10. PICK q : q = pos + j - 1
      OBVIOUS
    <3>11. PICK l : l = y + 1
      OBVIOUS
    <3>12. D + i < Size(kind) /\ q = 8 * (D + i) + y
      BY <1>11, <3>6, <3>7, <3>10, Zenon
    <3>13. y \in 0..7 /\ i \in 0..4
      BY <3>3, <3>5
    <3>14. ByteBits(PeekByteWithoutEOF(t, i))[l] = BitIn(kind, order, q)
      BY <1>2, <1>15, <1>16, <3>11, <3>12, <3>13, ByteBitsAre
    <3> QED
      BY <3>9, <3>10, <3>11, <3>14, Zenon
  <2>3. got = [j \in 1..m |-> got[j]]
    BY <1>7, <2>1
  <2>4. got = Run(kind, order, pos, m)
    BY <2>2, <2>3, Zenon DEF Run
  <2> QED
    BY <2>1, <2>4, Zenon DEF IsRun
<1>20. ~(to > 8 * Size(kind))
  <2>1. ~(to > 8 * T)
    BY <1>8, <1>11, <1>12
  <2> QED
    BY <1>11, <2>1, Zenon
<1>21. "read" \in {"read", "skip", "seek"}
  OBVIOUS
<1> QED
  BY <1>8, <1>9, <1>18, <1>19, <1>20, <1>21, AnswerKeeps, Zenon

\* NextByte keeps the invariant.
LEMMA NextByteKeeps ==
    ASSUME IInv, NextByte
    PROVE  IInv'
<1>1. PICK offs \in 0..4, skip \in 0..1 : offs = 0 /\ skip = 1
  OBVIOUS
<1>2. PeekByte(offs, skip)
  BY <1>1, Zenon DEF NextByte
<1> QED
  BY <1>2, PeekByteKeeps

\* LookAtByte keeps the invariant.
LEMMA LookAtByteKeeps ==
    ASSUME IInv, LookAtByte
    PROVE  IInv'
<1>1. PICK offs \in 0..LookAhead : PeekByte(offs, 0)
  BY DEF LookAtByte
<1>2. PICK skip \in 0..1 : skip = 0
  OBVIOUS
<1>3. offs \in 0..4
  BY <1>1 DEF LookAhead
<1>4. PeekByte(offs, skip)
  BY <1>1, <1>2, Zenon
<1> QED
  BY <1>3, <1>4, PeekByteKeeps

\* AtEOF keeps the invariant, and its answer is right.
LEMMA AtEOFKeeps ==
    ASSUME IInv, AtEOF
    PROVE  IInv'
<1>1. ~raised
  BY DEF AtEOF
<1>2. /\ kind \in AllKinds /\ order \in Orders /\ pos \in Nat
      /\ Typed(kind, self) /\ Bytes(kind, self) /\ Word(kind, order, self, pos)
  BY <1>1, InvStands, Zenon
<1>3. startoffs \in Int /\ (kind # "memory" => startoffs \in Nat)
  BY Zenon DEF IInv
<1>4. PICK r : r = CheckAndFillBuffer(self)
  OBVIOUS
<1>5. /\ self' = r.s /\ raised' = ~r.ok
      /\ last' = [None EXCEPT !.call = IF r.ok THEN "ateof" ELSE "skip", !.at = pos,
                              !.need = pos, !.atend = BytesLeftInBuffer(r.s) <= 0]
      /\ kind' = kind /\ order' = order /\ startoffs' = startoffs /\ pos' = pos
  BY <1>4, Zenon DEF AtEOF
<1>6. PICK call : call = IF r.ok THEN "ateof" ELSE "skip"
  OBVIOUS
<1>7. PICK atend : atend = (BytesLeftInBuffer(r.s) <= 0)
  OBVIOUS
<1>8. last' = [None EXCEPT !.call = call, !.at = pos, !.need = pos, !.atend = atend]
  BY <1>5, <1>6, <1>7, Zenon
<1>9. /\ last'.call = call /\ last'.bits = <<>> /\ last'.at = pos /\ last'.need = pos
      /\ last'.atend = atend
  BY <1>8 DEF None
<1>10. IsRun(kind, order, pos, <<>>)
  BY RunNone
<1>11. Fills(kind, self, r)
  BY <1>2, <1>4, CheckedAndFilled, Zenon
<1>12. PICK T \in Nat : T = Size(kind)
  BY <1>2, StreamsAre
<1>13. raised' \in BOOLEAN
  BY <1>5
<1>14. CASE ~r.ok
  <2>1. Typed(kind, self') /\ raised' /\ pos > 8 * Size(kind)
    <3>1. r.s = self /\ self.currbyte > Len(self.buffer)
          /\ BaseOf(kind, self) + self.currbyte > Size(kind)
      BY <1>11, <1>14, Zenon DEF Fills
    <3>2. pos > 8 * Size(kind)
      BY <1>2, <3>1, PastTheEnd, Zenon
    <3> QED
      BY <1>2, <1>5, <1>14, <3>1, <3>2, Zenon
  <2>2. call = "skip" /\ call # "read" /\ call # "ateof"
    BY <1>6, <1>14
  <2>3. LastIs(kind, last', raised', pos')
    BY <1>9, <2>1, <2>2, Zenon DEF LastIs
  <2> QED
    BY <1>2, <1>3, <1>5, <1>9, <1>10, <1>13, <2>1, <2>3, Zenon DEF IInv
<1>15. CASE r.ok
  <2>1. PICK t : t = r.s
    OBVIOUS
  <2>2. /\ Typed(kind, t) /\ Bytes(kind, t)
        /\ AtEnd(kind, t) \/ BytesLeftInBuffer(t) > LookAhead
    BY <1>11, <1>15, <2>1, Zenon DEF Fills
  <2>3. Word(kind, order, t, pos)
    BY <1>2, <1>11, <1>15, <2>1, WordKept, Zenon
  <2>4. Standing(kind, order, t, pos)
    BY <2>2, <2>3 DEF Standing
  <2>5. PICK D \in Nat : D = BaseOf(kind, t) + t.currbyte
    BY <1>2, <2>2, <2>4, UpToByteIs
  <2>6. UpToByte(pos) = 8 * D
    BY <1>2, <2>2, <2>4, <2>5, UpToByteIs, Zenon
  <2>7. PICK X \in Int : X = BytesLeftInBuffer(t)
    BY <2>2, BytesLeftIs DEF Typed
  <2>8. X <= 0 <=> 8 * D >= 8 * T
    <3>1. PICK z \in 0..4 : z = 0
      OBVIOUS
    <3>2. z < BytesLeftInBuffer(t) <=> BaseOf(kind, t) + t.currbyte + z < Size(kind)
      BY <1>2, <2>2, ByteThere, Zenon
    <3>3. z < X <=> D + z < T
      BY <1>12, <2>5, <2>7, <3>2, Zenon
    <3> QED
      BY <1>12, <2>5, <2>7, <3>1, <3>3
  <2>9. atend <=> UpToByte(pos) >= 8 * Size(kind)
    BY <1>7, <1>12, <2>1, <2>6, <2>7, <2>8, Zenon
  <2>10. ~raised' /\ call # "read"
    BY <1>5, <1>6, <1>15
  <2>11. LastIs(kind, last', raised', pos')
    BY <1>5, <1>9, <2>9, <2>10, Zenon DEF LastIs
  <2>12. Typed(kind, self') /\ Standing(kind, order, self', pos)
    BY <1>5, <2>1, <2>2, <2>4, Zenon
  <2> QED
    BY <1>2, <1>3, <1>5, <1>9, <1>10, <1>13, <2>11, <2>12, Zenon DEF IInv
<1> QED
  BY <1>14, <1>15

\* A buffer set up on a handle, or flushed, holds nothing yet.
LEMMA EmptyStands ==
    ASSUME NEW k \in Kinds, NEW o \in Orders, NEW h, Good(k, h), NEW offs \in Nat,
           OffsetInFile(k, h) = offs,
           NEW u \in Selves, u.parent = h, u.eof = FALSE, u.buffer = <<>>, u.currbyte = 0,
           u.bits = NoBits, u.numbits = 0, NEW q, q = 8 * offs
    PROVE  Typed(k, u) /\ Bytes(k, u) /\ Word(k, o, u, q)
<1>1. k # "memory" /\ k \in AllKinds
  BY DEF AllKinds, Kinds
<1>2. Typed(k, u)
  BY <1>1, Zenon DEF Typed, Below
<1>3. PICK z \in Nat : z = 0
  OBVIOUS
<1>4. Len(u.buffer) = z
  BY <1>3, EmptySeq
<1>5. BaseOf(k, u) = offs
  <2>1. offs - z = offs
    BY <1>3
  <2> QED
    BY <1>1, <1>4, <2>1, Zenon DEF BaseOf
<1>6. u.buffer = Part(Contents(k), offs, Len(u.buffer))
  <2>1. Part(Contents(k), offs, 0) = <<>>
    BY PartNone
  <2> QED
    BY <1>3, <1>4, <2>1, Zenon
<1>7. ~(Len(u.buffer) > 0)
  <2>1. ~(z > 0)
    BY <1>3
  <2> QED
    BY <1>4, <2>1, Zenon
<1>8. Bytes(k, u)
  BY <1>1, <1>5, <1>6, <1>7, Zenon DEF Bytes
<1>9. \A j \in 0..31 : u.bits[Place(o, j)] = 0
  BY NoBitsAre, Zenon
<1>10. q = 8 * (BaseOf(k, u) + u.currbyte)
  <2>1. offs + 0 = offs
    OBVIOUS
  <2> QED
    BY <1>5, <2>1, Zenon
<1> QED
  BY <1>1, <1>2, <1>8, <1>9, <1>10, AtByte, Zenon

\* A seek keeps the invariant: it flushes the buffer, or fails behind the end.
LEMMA SeekToKeeps ==
    ASSUME IInv, NEW offs \in Nat, SeekTo(offs)
    PROVE  IInv'
<1>1. kind \in Kinds /\ order \in Orders /\ Typed(kind, self)
  <2>1. kind # "memory"
    BY DEF SeekTo
  <2> QED
    BY <2>1 DEF IInv, AllKinds
<1>2. PICK sought : sought = SeekToFileOffset(kind, self.parent, offs)
  OBVIOUS
<1>3. PICK r : r = IF sought.ok
                   THEN Done([Flushed(self) EXCEPT !.parent = sought.h, !.eof = FALSE])
                   ELSE RaiseEOF(self)
  OBVIOUS
<1>4. PICK q \in Nat : q = 8 * offs
  OBVIOUS
<1>5. Answer("seek", r, <<>>, q, q, q)
  BY <1>2, <1>3, <1>4, Zenon DEF SeekTo
<1>6. self \in Selves /\ Good(kind, self.parent)
  BY <1>1 DEF Typed, Below, Kinds
<1>7. Seeks(kind, offs, sought)
  BY <1>1, <1>2, <1>6, Promises, Zenon DEF Promise
<1>8. CASE sought.ok
  <2>1. PICK h : h = sought.h
    OBVIOUS
  <2>2. Good(kind, h) /\ OffsetInFile(kind, h) = offs
    BY <1>7, <1>8, <2>1, Zenon DEF Seeks
  <2>3. h \in [pp : Nat, curr : Nat]
    BY <2>2 DEF Good
  <2>4. PICK b \in Seq(Nat \ {0}) : b = <<>>
    BY EmptySeq
  <2>5. PICK w \in Words : w = NoBits
    BY DEF NoBits, Words
  <2>6. PICK z \in Nat : z = 0
    OBVIOUS
  <2>7. PICK v : v = ToByteBoundary(self)
    OBVIOUS
  <2>8. v = [self EXCEPT !.bits = w, !.numbits = z]
    BY <2>5, <2>6, <2>7, Zenon DEF ToByteBoundary
  <2>9. v \in Selves /\ v.bits = w /\ v.numbits = z
    <3>1. v \in Selves
      <4>1. z \in Int /\ w \in Words
        BY <2>5, <2>6
      <4> QED
        BY <1>6, <2>8, <4>1 DEF Selves
    <3>2. v.bits = w
      BY <1>6, <2>8 DEF Selves
    <3>3. v.numbits = z
      BY <1>6, <2>8 DEF Selves
    <3> QED
      BY <3>1, <3>2, <3>3
  <2>10. PICK x : x = [v EXCEPT !.buffer = b, !.currbyte = z]
    OBVIOUS
  <2>11. x \in Selves /\ x.buffer = b /\ x.currbyte = z /\ x.bits = v.bits /\ x.numbits = v.numbits
    BY <2>9, <2>10 DEF Selves
  <2>12. x = Flushed(self)
    BY <2>4, <2>6, <2>7, <2>10, Zenon DEF Flushed
  <2>13. PICK u : u = [x EXCEPT !.parent = h, !.eof = FALSE]
    OBVIOUS
  <2>14. u \in Selves
    BY <2>3, <2>11, <2>13 DEF Selves
  <2>15. /\ u.parent = h /\ u.eof = FALSE /\ u.buffer = x.buffer /\ u.currbyte = x.currbyte
         /\ u.bits = x.bits /\ u.numbits = x.numbits
    BY <2>11, <2>13 DEF Selves
  <2>16. r = Done(u)
    BY <1>3, <1>8, <2>1, <2>12, <2>13, Zenon
  <2>17. r.ok /\ r.s = u
    BY <2>16 DEF Done
  <2>18. /\ u.parent = h /\ u.eof = FALSE /\ u.buffer = <<>> /\ u.currbyte = 0
         /\ u.bits = NoBits /\ u.numbits = 0
    BY <2>4, <2>5, <2>6, <2>9, <2>11, <2>15, Zenon
  <2>19. Typed(kind, u) /\ Bytes(kind, u) /\ Word(kind, order, u, q)
    BY <1>1, <1>4, <2>2, <2>14, <2>18, EmptyStands, Zenon
  <2>20. Settled(kind, order, r, q, q)
    BY <2>17, <2>19, Zenon DEF Settled, Standing
  <2>21. "seek" \in {"read", "skip", "seek"} /\ "seek" # "read"
    OBVIOUS
  <2>22. IsRun(kind, order, q, <<>>)
    BY RunNone
  <2> QED
    BY <1>4, <1>5, <2>20, <2>21, <2>22, AnswerKeeps, Zenon
<1>9. CASE ~sought.ok
  <2>1. r = RaiseEOF(self)
    BY <1>3, <1>9, Zenon
  <2>2. ~r.ok /\ r.s = self
    BY <2>1 DEF RaiseEOF
  <2>3. PICK T \in Nat : T = Size(kind)
    BY <1>1, StreamsAre DEF AllKinds
  <2>4. offs > T
    BY <1>7, <1>9, <2>3, Zenon DEF Seeks, Size
  <2>5. q > 8 * T
    BY <1>4, <2>3, <2>4
  <2>6. Settled(kind, order, r, q, q)
    BY <1>1, <2>2, <2>3, <2>5, Zenon DEF Settled
  <2>7. "seek" \in {"read", "skip", "seek"} /\ "seek" # "read"
    OBVIOUS
  <2> QED
    BY <1>4, <1>5, <2>2, <2>6, <2>7, AnswerKeeps, Zenon
<1> QED
  BY <1>8, <1>9

\* So do the four calls that seek.
LEMMA SeeksKeep ==
    ASSUME IInv, SeekToOffset \/ SeekToBufferOffset \/ Restart \/ Synchronize
    PROVE  IInv'
<1>1. kind \in AllKinds /\ (kind # "memory" => startoffs \in Nat)
  BY Zenon DEF IInv
<1>2. ASSUME NEW offs, SeekTo(offs)
      PROVE  kind # "memory" /\ startoffs \in Nat
  BY <1>1, <1>2, Zenon DEF SeekTo
<1>3. CASE SeekToOffset
  <2>1. PICK offs \in Offsets : SeekTo(offs)
    BY <1>3 DEF SeekToOffset
  <2>2. offs \in Nat
    BY BufferAssumption
  <2> QED
    BY <2>1, <2>2, SeekToKeeps
<1>4. CASE SeekToBufferOffset
  <2>1. PICK offs \in Offsets : SeekTo(offs + startoffs)
    BY <1>4 DEF SeekToBufferOffset
  <2>2. startoffs \in Nat
    BY <1>2, <2>1
  <2>3. PICK q \in Nat : q = offs + startoffs
    BY <2>2, BufferAssumption
  <2> QED
    BY <2>1, <2>3, SeekToKeeps
<1>5. CASE Restart
  <2>1. SeekTo(startoffs) /\ startoffs \in Nat
    BY <1>2, <1>5 DEF Restart
  <2> QED
    BY <2>1, SeekToKeeps
<1>6. CASE Synchronize
  <2>1. ~raised /\ SeekTo(FileOffset(self))
    BY <1>6 DEF Synchronize
  <2>2. /\ Typed(kind, self) /\ pos \in Nat /\ Standing(kind, order, self, pos)
    BY <2>1, Zenon DEF IInv
  <2>3. FileOffset(self) \in Nat
    BY <1>1, <2>2, FileOffsetIs, UpToByteIs, Zenon
  <2>4. PICK q \in Nat : q = FileOffset(self)
    BY <2>3
  <2> QED
    BY <2>1, <2>4, SeekToKeeps, Zenon
<1> QED
  BY <1>3, <1>4, <1>5, <1>6

\* A buffer set up on a block in memory holds all of it.
LEMMA MemoryStands ==
    ASSUME NEW o \in Orders, NEW u \in Selves, u.parent = Opened("file"), u.eof = TRUE,
           u.buffer = Contents("memory"), u.currbyte = 0, u.bits = NoBits, u.numbits = 0,
           NEW q, q = 0
    PROVE  Typed("memory", u) /\ Bytes("memory", u) /\ Word("memory", o, u, q)
<1>1. PICK k \in AllKinds : k = "memory"
  BY DEF AllKinds
<1>2. Typed(k, u)
  BY <1>1, Zenon DEF Typed, Below
<1>3. PICK Z \in Seq(Nat \ {0}) : Z = Contents(k)
  BY StreamsAre
<1>4. PICK T \in Nat : T = Len(Z)
  OBVIOUS
<1>5. PICK B \in Nat : B = 0
  OBVIOUS
<1>6. BaseOf(k, u) = B
  BY <1>1, <1>5, Zenon DEF BaseOf
<1>7. u.buffer = Z /\ Len(u.buffer) = T /\ Size(k) = T
  BY <1>1, <1>3, <1>4, Zenon DEF Size
<1>8. Z = Part(Z, B, T)
  <2>1. Z = [i \in 1..T |-> Z[i]]
    BY <1>4
  <2>2. \A i \in 1..T : B + i = i
    BY <1>5
  <2> QED
    BY <2>1, <2>2 DEF Part
<1>9. B + T <= T /\ B + T >= T
  BY <1>4, <1>5
<1>10. AtEnd(k, u)
  BY <1>6, <1>7, <1>9, Zenon DEF AtEnd
<1>11. Bytes(k, u)
  BY <1>3, <1>5, <1>6, <1>7, <1>8, <1>9, <1>10, Zenon DEF Bytes
<1>12. \A j \in 0..31 : u.bits[Place(o, j)] = 0
  BY NoBitsAre, Zenon
<1>13. q = 8 * (BaseOf(k, u) + u.currbyte)
  <2>1. 8 * (B + 0) = 0
    BY <1>5
  <2> QED
    BY <1>6, <2>1, Zenon
<1> QED
  BY <1>1, <1>2, <1>11, <1>12, <1>13, AtByte, Zenon

\* A buffer that was just set up satisfies the invariant.
LEMMA InitInv ==
    ASSUME Init
    PROVE  IInv
<1>1. kind \in AllKinds /\ order \in Orders /\ raised = FALSE /\ last = None
  BY Zenon DEF Init, AllKinds, Orders
<1>2. PICK offs \in StartOffsets :
         /\ startoffs = IF kind = "memory" THEN -offs ELSE offs
         /\ pos = IF kind = "memory" THEN 0 ELSE 8 * offs
         /\ kind # "memory" => SeekToFileOffset(kind, Opened(kind), offs).ok
         /\ self = [parent   |-> IF kind = "memory" THEN Opened("file")
                                 ELSE SeekToFileOffset(kind, Opened(kind), offs).h,
                    eof      |-> kind = "memory",
                    buffer   |-> IF kind = "memory" THEN Stream ELSE <<>>,
                    currbyte |-> 0,
                    bits     |-> NoBits,
                    numbits  |-> 0]
  BY Zenon DEF Init
<1>3. offs \in Nat
  BY BufferAssumption
<1>4. PICK w \in Words : w = NoBits
  BY DEF NoBits, Words
<1>5. PICK z \in Nat : z = 0
  OBVIOUS
<1>6. PICK h : h = IF kind = "memory" THEN Opened("file")
                   ELSE SeekToFileOffset(kind, Opened(kind), offs).h
  OBVIOUS
<1>7. PICK b : b = IF kind = "memory" THEN Stream ELSE <<>>
  OBVIOUS
<1>8. PICK e \in BOOLEAN : e = (kind = "memory")
  OBVIOUS
<1>9. self = [parent |-> h, eof |-> e, buffer |-> b, currbyte |-> z, bits |-> w, numbits |-> z]
  BY <1>2, <1>4, <1>5, <1>6, <1>7, <1>8, Zenon
<1>10. self.parent = h /\ self.eof = e /\ self.buffer = b /\ self.currbyte = 0
       /\ self.bits = NoBits /\ self.numbits = 0
  <2>1. self.parent = h /\ self.eof = e /\ self.buffer = b /\ self.currbyte = z
        /\ self.bits = w /\ self.numbits = z
    BY <1>9
  <2> QED
    BY <1>4, <1>5, <2>1, Zenon
<1>11. ASSUME h \in [pp : Nat, curr : Nat], b \in Seq(Nat \ {0})
       PROVE  self \in Selves
  <2>1. z \in Int
    BY <1>5
  <2> QED
    BY <1>4, <1>5, <1>8, <1>9, <1>11, <2>1 DEF Selves
<1>12. startoffs \in Int /\ (kind # "memory" => startoffs \in Nat) /\ pos \in Nat
       /\ Typed(kind, self) /\ Standing(kind, order, self, pos)
  <2>1. CASE kind = "memory"
    <3>1. startoffs \in Int
      BY <1>2, <1>3, <2>1
    <3>2. pos = 0 /\ h = Opened("file") /\ e = TRUE
      BY <1>2, <1>6, <1>8, <2>1
    <3>3. b = Contents("memory") /\ b \in Seq(Nat \ {0})
      BY <1>1, <1>7, <2>1, StreamsAre, Zenon DEF Stream
    <3>4. h \in [pp : Nat, curr : Nat]
      <4>1. "file" \in Kinds
        BY DEF Kinds
      <4>2. Good("file", Opened("file"))
        BY <4>1, Promises, Zenon DEF Promise
      <4> QED
        BY <3>2, <4>2 DEF Good
    <3>5. self \in Selves
      BY <1>11, <3>3, <3>4
    <3>6. Typed("memory", self) /\ Bytes("memory", self) /\ Word("memory", order, self, pos)
      BY <1>1, <1>10, <3>2, <3>3, <3>5, MemoryStands, Zenon
    <3>7. pos \in Nat
      BY <3>2
    <3> QED
      BY <2>1, <3>1, <3>6, <3>7, Zenon DEF Standing
  <2>2. CASE kind # "memory"
    <3>1. kind \in Kinds
      BY <1>1, <2>2 DEF AllKinds
    <3>2. startoffs = offs /\ pos = 8 * offs /\ b = <<>> /\ e = FALSE
      BY <1>2, <1>7, <1>8, <2>2
    <3>3. Good(kind, h) /\ OffsetInFile(kind, h) = offs
      <4>1. Good(kind, Opened(kind))
        BY <3>1, Promises, Zenon DEF Promise
      <4>2. Seeks(kind, offs, SeekToFileOffset(kind, Opened(kind), offs))
        BY <1>3, <3>1, <4>1, Promises, Zenon DEF Promise
      <4> QED
        BY <1>2, <1>6, <2>2, <4>2, Zenon DEF Seeks
    <3>4. h \in [pp : Nat, curr : Nat]
      BY <3>3 DEF Good
    <3>5. b \in Seq(Nat \ {0})
      BY <3>2, EmptySeq
    <3>6. self \in Selves
      BY <1>11, <3>4, <3>5
    <3>7. Typed(kind, self) /\ Bytes(kind, self) /\ Word(kind, order, self, pos)
      BY <1>1, <1>3, <1>10, <3>1, <3>2, <3>3, <3>6, EmptyStands, Zenon
    <3>8. pos \in Nat /\ startoffs \in Int /\ startoffs \in Nat
      BY <1>3, <3>2
    <3> QED
      BY <3>7, <3>8, Zenon DEF Standing
  <2> QED
    BY <2>1, <2>2
<1>13. last.call = "none" /\ last.bits = <<>>
  BY <1>1 DEF None
<1>14. IsRun(kind, order, last.at, last.bits)
  BY <1>13, RunNone, Zenon
<1>15. LastIs(kind, last, raised, pos)
  BY <1>1, <1>13 DEF LastIs
<1> QED
  BY <1>1, <1>12, <1>14, <1>15, Zenon DEF IInv

\* Every step keeps the invariant.
LEMMA NextInv ==
    ASSUME IInv, [Next]_vars
    PROVE  IInv'
<1>1. CASE ReadCode
  BY <1>1, ReadCodeKeeps
<1>2. CASE ReadLong
  BY <1>2, ReadLongKeeps
<1>3. CASE SkipBits
  BY <1>3, SkipBitsKeeps
<1>4. CASE SkipToByteBoundary
  BY <1>4, SkipToByteBoundaryKeeps
<1>5. CASE SkipTo16BitBoundary
  BY <1>5, SkipTo16BitBoundaryKeeps
<1>6. CASE NextByte
  BY <1>6, NextByteKeeps
<1>7. CASE LookAtByte
  BY <1>7, LookAtByteKeeps
<1>8. CASE NextValue
  BY <1>8, NextValueKeeps
<1>9. CASE AtEOF
  BY <1>9, AtEOFKeeps
<1>10. CASE SeekToOffset \/ SeekToBufferOffset \/ Restart \/ Synchronize
  BY <1>10, SeeksKeep
<1>11. CASE UNCHANGED vars
  BY <1>11, Zenon DEF IInv, vars
<1> QED
  BY <1>1, <1>2, <1>3, <1>4, <1>5, <1>6, <1>7, <1>8, <1>9, <1>10, <1>11, Zenon DEF Next

\* The inductive invariant holds in every reachable state.
LEMMA SpecInv == Spec => []IInv
<1>1. Init => IInv
  BY InitInv
<1>2. IInv /\ [Next]_vars => IInv'
  BY NextInv
<1> QED
  BY <1>1, <1>2, PTL DEF Spec

\* The types, and what the word may hold, for every handle and buffer size.
THEOREM TypesOK == Spec => []TypeOK
<1>1. IInv => TypeOK
  BY InvTypes
<1> QED
  BY <1>1, SpecInv, PTL

\* What is read is the stream, for every handle, layout, buffer size and bit
\* order.
THEOREM StreamRead == Spec => []ReadsAreTheStream
<1>1. IInv => ReadsAreTheStream
  BY InvReads
<1> QED
  BY <1>1, SpecInv, PTL

\* The end is where the stream ends: a read fails exactly when it needs more,
\* and the reported offset is that of the next byte.
THEOREM EndFound == Spec => []EndIsTheEnd
<1>1. IInv => EndIsTheEnd
  BY InvEnd
<1> QED
  BY <1>1, SpecInv, PTL

=============================================================================
