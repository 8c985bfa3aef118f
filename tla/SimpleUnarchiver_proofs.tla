------------------------ MODULE SimpleUnarchiver_proofs ------------------------
(***************************************************************************)
(* Proofs about SimpleUnarchiver.                                          *)
(***************************************************************************)
EXTENDS SimpleUnarchiver, TLAPS, FiniteSetTheorems, WellFoundedInduction

-----------------------------------------------------------------------------
(***************************************************************************)
(* Paths, as sequences.                                                    *)
(***************************************************************************)
\* Paths are equal if their names are.
LEMMA SamePath ==
  ASSUME NEW p \in Paths, NEW q \in Paths, Len(p) = Len(q), \A n \in 1..Len(p) : p[n] = q[n]
  PROVE  p = q
BY DEF Paths

\* What IsPrefix says of the names of two paths.
LEMMA PrefixFacts ==
  \A p, q \in Paths :
    IsPrefix(p, q) <=> Len(p) <= Len(q) /\ \A n \in 1..Len(p) : p[n] = q[n]
BY DEF Paths, IsPrefix

\* The beginning of a path.
LEMMA SubSeqFacts ==
  \A p \in Paths : \A m \in 0..Len(p) :
    /\ SubSeq(p, 1, m) \in Paths
    /\ Len(SubSeq(p, 1, m)) = m
    /\ \A n \in 1..m : SubSeq(p, 1, m)[n] = p[n]
BY DEF Paths

\* The beginning of the beginning, and the whole, of a path.
LEMMA SubSeqSubSeq ==
  ASSUME NEW p \in Paths, NEW m \in 0..Len(p)
  PROVE  /\ \A n \in 0..m : SubSeq(SubSeq(p, 1, m), 1, n) = SubSeq(p, 1, n)
         /\ SubSeq(p, 1, Len(p)) = p
<1>1. ASSUME NEW n \in 0..m PROVE SubSeq(SubSeq(p, 1, m), 1, n) = SubSeq(p, 1, n)
  <2>1. n \in 0..Len(p) /\ Len(p) \in Nat
    BY DEF Paths
  <2> QED BY <2>1, SubSeqFacts, SamePath
<1>2. SubSeq(p, 1, Len(p)) = p
  BY DEF Paths
<1> QED BY <1>1, <1>2

\* A path made one name longer.
LEMMA AppendFacts ==
  ASSUME NEW p \in Paths, NEW name \in Names
  PROVE  /\ Append(p, name) \in Paths
         /\ Len(Append(p, name)) = Len(p) + 1
         /\ Append(p, name)[Len(p) + 1] = name
         /\ \A n \in 1..Len(p) : Append(p, name)[n] = p[n]
         /\ \A m \in 0..Len(p) : SubSeq(Append(p, name), 1, m) = SubSeq(p, 1, m)
<1>1. /\ Append(p, name) \in Paths /\ Len(Append(p, name)) = Len(p) + 1 /\ Len(p) \in Nat
      /\ Append(p, name)[Len(p) + 1] = name
      /\ \A n \in 1..Len(p) : Append(p, name)[n] = p[n]
  BY DEF Paths
<1>2. ASSUME NEW m \in 0..Len(p) PROVE SubSeq(Append(p, name), 1, m) = SubSeq(p, 1, m)
  BY <1>1, SubSeqFacts, SamePath
<1> QED BY <1>1, <1>2

\* Two paths, one after the other.
LEMMA ConcatFacts ==
  ASSUME NEW p \in Paths, NEW q \in Paths
  PROVE  /\ p \o q \in Paths /\ Len(p \o q) = Len(p) + Len(q)
         /\ \A n \in 1..Len(p) : (p \o q)[n] = p[n]
         /\ \A n \in 1..Len(q) : (p \o q)[Len(p) + n] = q[n]
<1>1. Len(p) \in Nat /\ Len(q) \in Nat /\ p \in Seq(Names) /\ q \in Seq(Names)
  BY DEF Paths
<1>2. p \o q \in Paths /\ Len(p \o q) = Len(p) + Len(q)
  BY DEF Paths
<1>3. \A n \in 1..Len(p) + Len(q) : (p \o q)[n] = IF n <= Len(p) THEN p[n] ELSE q[n - Len(p)]
  BY <1>1
<1>4. \A n \in 1..Len(q) : Len(p) + n \in 1..Len(p) + Len(q) /\ ~(Len(p) + n <= Len(p))
                          /\ (Len(p) + n) - Len(p) = n
  BY <1>1
<1>5. \A n \in 1..Len(q) : (p \o q)[Len(p) + n] = q[n]
  BY <1>3, <1>4
<1>6. \A n \in 1..Len(p) : (p \o q)[n] = p[n]
  BY <1>1, <1>3
<1> QED BY <1>2, <1>5, <1>6

\* A path whose last name got a number.
LEMMA NumberedFacts ==
  ASSUME NEW p \in Paths, p # <<>>, NEW n \in Nat
  PROVE  /\ Numbered(p, n) \in Paths /\ Len(Numbered(p, n)) = Len(p)
         /\ Numbered(p, n)[Len(p)].text = p[Len(p)].text
         /\ Numbered(p, n)[Len(p)].fork = p[Len(p)].fork
         /\ Numbered(p, n)[Len(p)].number = n
         /\ \A m \in 1..Len(p) - 1 : Numbered(p, n)[m] = p[m]
<1>1. Len(p) \in 1..Len(p) /\ p \in [1..Len(p) -> Names]
  BY DEF Paths
<1>2. [p[Len(p)] EXCEPT !.number = n] \in Names
  BY <1>1 DEF Names
<1>3. Numbered(p, n) = [p EXCEPT ![Len(p)] = [p[Len(p)] EXCEPT !.number = n]]
  BY DEF Numbered
<1>4. Numbered(p, n) \in [1..Len(p) -> Names]
  BY <1>1, <1>2, <1>3
<1>5. Numbered(p, n) \in Paths /\ Len(Numbered(p, n)) = Len(p)
  BY <1>1, <1>4 DEF Paths
<1>6. Numbered(p, n)[Len(p)] = [p[Len(p)] EXCEPT !.number = n] /\ p[Len(p)] \in Names
  BY <1>1, <1>3
<1>7. \A m \in 1..Len(p) - 1 : Numbered(p, n)[m] = p[m]
  BY <1>1, <1>3
<1> QED BY <1>5, <1>6, <1>7 DEF Names

-----------------------------------------------------------------------------
(***************************************************************************)
(* Finite sets, and the names that UniquePath tries.                       *)
(***************************************************************************)
\* Every nonempty set of numbers has a least one.
LEMMA LeastNumber ==
  ASSUME NEW T \in SUBSET Nat, T # {}
  PROVE  \E n \in T : \A m \in T : n <= m
<1> DEFINE U == {1..n : n \in T}
<1>1. U \subseteq FiniteSubsetsOf(Nat) /\ U # {}
  <2>1. ASSUME NEW n \in T PROVE 1..n \in FiniteSubsetsOf(Nat)
    <3>1. IsFiniteSet(1..n)
      BY FS_Interval
    <3> QED BY <3>1 DEF FiniteSubsetsOf
  <2> QED BY <2>1
<1>2. PICK u \in U : \A v \in U : ~(<<v, u>> \in StrictSubsetOrdering(Nat))
  BY <1>1, WFMin, FS_StrictSubsetOrderingWellFounded
<1>3. PICK n \in T : u = 1..n
  BY <1>2
<1>4. ASSUME NEW m \in T, m < n PROVE FALSE
  <2>1. n \in 1..n /\ n \notin 1..m
    BY <1>4
  <2>2. PICK v : v = 1..m
    OBVIOUS
  <2>3. v \in SUBSET Nat /\ u \in SUBSET Nat /\ v \subseteq u /\ v # u
    BY <1>3, <1>4, <2>1, <2>2
  <2>4. v \in U
    BY <2>2
  <2>5. <<v, u>> \in StrictSubsetOrdering(Nat)
    BY <2>3 DEF StrictSubsetOrdering
  <2> QED BY <1>2, <2>4, <2>5
<1> QED BY <1>4

\* UniquePath finds a number, and the path with it is free.
LEMMA UniquePathFacts ==
  ASSUME NEW p \in Paths, p # <<>>, IsFiniteSet(DOMAIN disk)
  PROVE  \E n \in Nat \ {0} : UniquePath(p) = Numbered(p, n) /\ ~Exists(UniquePath(p))
<1> DEFINE N == 1..Cardinality(DOMAIN disk) + 1
           F == {n \in N : ~Exists(Numbered(p, n))}
           f == [n \in N |-> Numbered(p, n)]
<1>1. Cardinality(DOMAIN disk) \in Nat
  BY FS_CardinalityType
<1>2. IsFiniteSet(N) /\ Cardinality(N) = Cardinality(DOMAIN disk) + 1
  BY <1>1, FS_Interval
<1>3. F # {}
  <2>1. SUFFICES ASSUME F = {} PROVE FALSE
    OBVIOUS
  <2>2. f \in [N -> DOMAIN disk]
    BY <2>1 DEF Exists
  <2>3. \E n, m \in N : n # m /\ f[n] = f[m]
    <3>1. Cardinality(DOMAIN disk) < Cardinality(N)
      BY <1>1, <1>2
    <3> HIDE DEF f, N
    <3> QED BY <1>2, <2>2, <3>1, FS_PigeonHole
  <2>5. PICK n, m \in N : n # m /\ f[n] = f[m]
    BY <2>3
  <2>4. Numbered(p, n)[Len(p)].number = n /\ Numbered(p, m)[Len(p)].number = m
    BY NumberedFacts
  <2> QED BY <2>5, <2>4
<1>4. PICK n \in F : \A m \in F : n <= m
  <2>1. F \in SUBSET Nat
    BY <1>1
  <2> HIDE DEF F
  <2> QED BY <1>3, <2>1, LeastNumber
<1>5. n \in N /\ ~Exists(Numbered(p, n)) /\ \A m \in 1..n - 1 : Exists(Numbered(p, m))
  BY <1>1, <1>4
<1> DEFINE chosen == CHOOSE l \in N : ~Exists(Numbered(p, l)) /\ \A m \in 1..l - 1 : Exists(Numbered(p, m))
<1>6. chosen \in N /\ ~Exists(Numbered(p, chosen))
  BY <1>5
<1>7. UniquePath(p) = Numbered(p, chosen)
  BY DEF UniquePath
<1>8. N \subseteq Nat \ {0}
  BY <1>1
<1> HIDE DEF chosen, N
<1> QED BY <1>6, <1>7, <1>8

\* SetToSeq puts the elements of a finite set in a sequence.
LEMMA SetToSeqFacts ==
  ASSUME NEW S, IsFiniteSet(S)
  PROVE  /\ SetToSeq(S) \in Seq(S)
         /\ \A x \in S : \E n \in 1..Len(SetToSeq(S)) : SetToSeq(S)[n] = x
         /\ \A m, n \in 1..Len(SetToSeq(S)) : SetToSeq(S)[m] = SetToSeq(S)[n] => m = n
<1>1. Cardinality(S) \in Nat /\ \E f \in [1..Cardinality(S) -> S] : IsInjective(f)
  <2>1. PICK f \in Bijection(1..Cardinality(S), S) : TRUE
    BY FS_CardinalityType DEF ExistsBijection
  <2>2. f \in [1..Cardinality(S) -> S] /\ IsInjective(f)
    BY <2>1 DEF Bijection, Injection, Surjection, IsInjective
  <2> QED BY <2>2, FS_CardinalityType
<1>2. SetToSeq(S) \in [1..Cardinality(S) -> S] /\ IsInjective(SetToSeq(S))
  BY <1>1 DEF SetToSeq
<1>3. SetToSeq(S) \in Injection(1..Cardinality(S), S)
  BY <1>2 DEF Injection, IsInjective
<1>4. SetToSeq(S) \in Surjection(1..Cardinality(S), S)
  <2>1. IsFiniteSet(1..Cardinality(S)) /\ Cardinality(1..Cardinality(S)) = Cardinality(S)
    BY <1>1, FS_Interval
  <2> QED BY <1>3, <2>1, FS_Injection
<1>5. SetToSeq(S) \in Seq(S) /\ Len(SetToSeq(S)) = Cardinality(S)
  BY <1>1, <1>2
<1> QED BY <1>2, <1>4, <1>5 DEF Surjection, IsInjective

-----------------------------------------------------------------------------
(***************************************************************************)
(* What the operations on the disk do.                                     *)
(***************************************************************************)
\* The disk is a function from finitely many paths to files and directories.
DiskType ==
  /\ IsFiniteSet(DOMAIN disk) /\ DOMAIN disk \subseteq Paths \ {<<>>}
  /\ \A p \in DOMAIN disk : IsNode(disk[p])

Jobs == [src : Paths \ {<<>>}, dest : Paths \ {<<>>}, checked : BOOLEAN]

\* Where q goes when src is moved to dest.
Rebased(src, dest, q) == dest \o SubSeq(q, Len(src) + 1, Len(q))

\* The names of a path that was moved.
LEMMA RebasedFacts ==
  ASSUME NEW src \in Paths, NEW dest \in Paths, NEW q \in Paths, IsPrefix(src, q)
  PROVE  /\ Rebased(src, dest, q) \in Paths
         /\ Len(Rebased(src, dest, q)) = Len(dest) + (Len(q) - Len(src))
         /\ \A n \in 1..Len(dest) : Rebased(src, dest, q)[n] = dest[n]
         /\ \A n \in 1..Len(q) - Len(src) :
              Rebased(src, dest, q)[Len(dest) + n] = q[Len(src) + n]
         /\ IsPrefix(dest, Rebased(src, dest, q))
         /\ Rebased(dest, src, Rebased(src, dest, q)) = q
<1> DEFINE t == SubSeq(q, Len(src) + 1, Len(q))
           r == Rebased(src, dest, q)
<1>1. Len(src) \in 0..Len(q) /\ Len(src) \in Nat /\ Len(dest) \in Nat /\ Len(q) \in Nat
  BY PrefixFacts DEF Paths
<1>2. t \in Paths /\ Len(t) = Len(q) - Len(src) /\ \A n \in 1..Len(q) - Len(src) : t[n] = q[Len(src) + n]
  BY <1>1 DEF Paths
<1>3. r = dest \o t
  BY DEF Rebased
<1> HIDE DEF r, t
<1>4. /\ r \in Paths /\ Len(r) = Len(dest) + (Len(q) - Len(src))
      /\ \A n \in 1..Len(dest) : r[n] = dest[n]
      /\ \A n \in 1..Len(q) - Len(src) : r[Len(dest) + n] = t[n]
  <2>1. /\ r \in Paths /\ Len(r) = Len(dest) + Len(t)
        /\ \A n \in 1..Len(dest) : r[n] = dest[n]
        /\ \A n \in 1..Len(t) : r[Len(dest) + n] = t[n]
    BY <1>2, <1>3, ConcatFacts
  <2> QED BY <1>2, <2>1
<1>5. IsPrefix(dest, r)
  BY <1>1, <1>4, PrefixFacts
<1>6. Rebased(dest, src, r) = q
  <2>1. /\ SubSeq(r, Len(dest) + 1, Len(r)) \in Paths
        /\ Len(SubSeq(r, Len(dest) + 1, Len(r))) = Len(q) - Len(src)
        /\ \A n \in 1..Len(q) - Len(src) : SubSeq(r, Len(dest) + 1, Len(r))[n] = r[Len(dest) + n]
    BY <1>1, <1>4 DEF Paths
  <2>2. /\ Rebased(dest, src, r) \in Paths /\ Len(Rebased(dest, src, r)) = Len(q)
        /\ \A n \in 1..Len(src) : Rebased(dest, src, r)[n] = src[n]
        /\ \A n \in 1..Len(q) - Len(src) : Rebased(dest, src, r)[Len(src) + n] = q[Len(src) + n]
    <3>1. Rebased(dest, src, r) = src \o SubSeq(r, Len(dest) + 1, Len(r))
      BY DEF Rebased
    <3>2. Len(src) + (Len(q) - Len(src)) = Len(q)
      BY <1>1
    <3>3. PICK v : v = SubSeq(r, Len(dest) + 1, Len(r))
      OBVIOUS
    <3>4. v \in Paths /\ Len(v) = Len(q) - Len(src) /\ \A n \in 1..Len(q) - Len(src) : v[n] = r[Len(dest) + n]
      BY <2>1, <3>3
    <3>5. PICK u : u = src \o v
      OBVIOUS
    <3>6. /\ u \in Paths /\ Len(u) = Len(src) + Len(v)
          /\ \A n \in 1..Len(src) : u[n] = src[n]
          /\ \A n \in 1..Len(v) : u[Len(src) + n] = v[n]
      BY <3>4, <3>5, ConcatFacts
    <3>7. \A n \in 1..Len(q) - Len(src) : u[Len(src) + n] = q[Len(src) + n]
      BY <1>2, <1>4, <3>4, <3>6
    <3>8. Rebased(dest, src, r) = u
      BY <3>1, <3>3, <3>5
    <3> QED BY <3>2, <3>4, <3>6, <3>7, <3>8
  <2>3. ASSUME NEW n \in 1..Len(q) PROVE Rebased(dest, src, r)[n] = q[n]
    <3>1. CASE n \in 1..Len(src)
      BY <2>2, <3>1, PrefixFacts
    <3>2. CASE n \notin 1..Len(src)
      <4>1. n - Len(src) \in 1..Len(q) - Len(src) /\ n = Len(src) + (n - Len(src))
        BY <1>1, <3>2
      <4> QED BY <2>2, <4>1
    <3> QED BY <3>1, <3>2
  <2> QED BY <2>2, <2>3, SamePath
<1>7. \A n \in 1..Len(q) - Len(src) : r[Len(dest) + n] = q[Len(src) + n]
  BY <1>2, <1>4
<1> QED BY <1>4, <1>5, <1>6, <1>7 DEF r

\* The same, one part at a time: how long a moved path is, and its names behind
\* the destination.
LEMMA RebasedLength ==
  \A src, dest, q \in Paths :
    IsPrefix(src, q) => /\ Rebased(src, dest, q) \in Paths
                        /\ Len(Rebased(src, dest, q)) = Len(dest) + (Len(q) - Len(src))
BY RebasedFacts, Zenon

LEMMA RebasedRest ==
  \A src, dest, q \in Paths :
    IsPrefix(src, q) =>
      \A n \in 1..Len(q) - Len(src) : Rebased(src, dest, q)[Len(dest) + n] = q[Len(src) + n]
BY RebasedFacts, Zenon

LEMMA RebasedFront ==
  \A src, dest, q \in Paths :
    IsPrefix(src, q) => /\ IsPrefix(dest, Rebased(src, dest, q))
                        /\ \A n \in 1..Len(dest) : Rebased(src, dest, q)[n] = dest[n]
BY RebasedFacts, Zenon

\* What is on the disk after a move: what was not moved, and what was, at its
\* new place.
LEMMA MovedFacts ==
  ASSUME DiskType, NEW src \in Paths \ {<<>>}, NEW dest \in Paths \ {<<>>}
  PROVE  /\ \A q \in DOMAIN disk : IsPrefix(src, q) =>
              /\ Rebased(src, dest, q) \in DOMAIN Moved(src, dest)
              /\ Moved(src, dest)[Rebased(src, dest, q)] = disk[q]
         /\ \A q \in DOMAIN disk : ~IsPrefix(src, q) =>
              /\ q \in DOMAIN Moved(src, dest)
              /\ ~IsPrefix(dest, q) => Moved(src, dest)[q] = disk[q]
         /\ \A q \in DOMAIN Moved(src, dest) :
              \/ q \in DOMAIN disk /\ ~IsPrefix(src, q) /\ Moved(src, dest)[q] = disk[q]
              \/ \E r \in DOMAIN disk :
                   IsPrefix(src, r) /\ q = Rebased(src, dest, r) /\ Moved(src, dest)[q] = disk[r]
         /\ IsFiniteSet(DOMAIN Moved(src, dest))
<1> DEFINE kept == {q \in DOMAIN disk : ~IsPrefix(src, q)}
           gone == DOMAIN disk \ kept
           to == {Rebased(src, dest, q) : q \in gone}
           M == Moved(src, dest)
<1>1. M = [q \in kept \cup to |-> IF q \in to THEN disk[Rebased(dest, src, q)] ELSE disk[q]]
  BY DEF Moved, Rebased
<1>2. \A q \in gone : q \in DOMAIN disk /\ q \in Paths /\ IsPrefix(src, q)
  BY DEF DiskType
<1>3. \A q \in gone : Rebased(dest, src, Rebased(src, dest, q)) = q
                       /\ IsPrefix(dest, Rebased(src, dest, q))
  BY <1>2, RebasedFacts
<1>4. \A q \in DOMAIN disk : IsPrefix(src, q) => q \in gone
  OBVIOUS
<1>5. \A q \in DOMAIN disk : ~IsPrefix(src, q) => q \in kept
  OBVIOUS
<1>6. \A q \in kept : q \in DOMAIN disk /\ ~IsPrefix(src, q)
  OBVIOUS
<1>7. \A q \in gone : Rebased(src, dest, q) \in to
  OBVIOUS
<1>8. \A r \in to : \E q \in gone : r = Rebased(src, dest, q)
  OBVIOUS
<1>9. IsFiniteSet(kept \cup to)
  <2> DEFINE f == [q \in gone |-> Rebased(src, dest, q)]
  <2>1. IsFiniteSet(gone) /\ IsFiniteSet(kept)
    BY FS_Subset DEF DiskType
  <2>2. f \in Surjection(gone, to)
    BY DEF Surjection
  <2>3. IsFiniteSet(to)
    <3> HIDE DEF f, gone, to
    <3> QED BY <2>1, <2>2, FS_Surjection
  <2> HIDE DEF kept, to
  <2> QED BY <2>1, <2>3, FS_Union
<1> HIDE DEF kept, gone, to, M
<1>10. DOMAIN M = kept \cup to
  BY <1>1
<1>11. \A q \in gone : Rebased(src, dest, q) \in DOMAIN M /\ M[Rebased(src, dest, q)] = disk[q]
  BY <1>1, <1>3, <1>7
<1>12. \A q \in kept : q \in DOMAIN M /\ (q \notin to => M[q] = disk[q])
  BY <1>1
<1>13. \A q \in kept : ~IsPrefix(dest, q) => q \notin to
  BY <1>3, <1>8
<1>14. ASSUME NEW q \in DOMAIN M
       PROVE  \/ q \in DOMAIN disk /\ ~IsPrefix(src, q) /\ M[q] = disk[q]
              \/ \E r \in DOMAIN disk :
                   IsPrefix(src, r) /\ q = Rebased(src, dest, r) /\ M[q] = disk[r]
  <2>1. CASE q \in to
    BY <1>2, <1>8, <1>11, <2>1
  <2>2. CASE q \notin to
    BY <1>6, <1>10, <1>12, <2>2
  <2> QED BY <2>1, <2>2
<1> QED BY <1>4, <1>5, <1>9, <1>10, <1>11, <1>12, <1>13, <1>14 DEF M

\* A move keeps the type of the disk.
LEMMA MovedType ==
  ASSUME DiskType, NEW src \in Paths \ {<<>>}, NEW dest \in Paths \ {<<>>}, disk' = Moved(src, dest)
  PROVE  DiskType'
<1>1. IsFiniteSet(DOMAIN disk')
  BY MovedFacts
<1>2. ASSUME NEW q \in DOMAIN disk' PROVE q \in Paths \ {<<>>} /\ IsNode(disk'[q])
  <2>1. CASE q \in DOMAIN disk /\ disk'[q] = disk[q]
    BY <2>1 DEF DiskType
  <2>2. ASSUME NEW r \in DOMAIN disk, IsPrefix(src, r), q = Rebased(src, dest, r), disk'[q] = disk[r]
        PROVE  q \in Paths \ {<<>>} /\ IsNode(disk'[q])
    <3>1. r \in Paths /\ IsNode(disk[r])
      BY <2>2 DEF DiskType
    <3>2. Len(dest) \in Nat \ {0} /\ Len(r) \in Nat /\ Len(src) \in Nat /\ Len(<<>>) = 0
      BY <3>1 DEF Paths
    <3>3. Len(src) <= Len(r)
      BY <2>2, <3>1, PrefixFacts
    <3>4. Rebased(src, dest, r) \in Paths /\ Len(Rebased(src, dest, r)) = Len(dest) + (Len(r) - Len(src))
      BY <2>2, <3>1, RebasedFacts
    <3> QED BY <2>2, <3>1, <3>2, <3>3, <3>4
  <2> QED BY <2>1, <2>2, MovedFacts
<1> QED BY <1>1, <1>2 DEF DiskType, Exists

\* Removing something keeps the type of the disk.
LEMMA RemovedType ==
  ASSUME DiskType, NEW p, disk' = Removed(p)
  PROVE  DiskType'
<1>1. DOMAIN disk' \subseteq DOMAIN disk /\ \A q \in DOMAIN disk' : disk'[q] = disk[q]
  BY DEF Removed
<1>2. IsFiniteSet(DOMAIN disk')
  BY <1>1, FS_Subset DEF DiskType
<1> QED BY <1>1, <1>2 DEF DiskType

\* A function extended by one element.
LEMMA ExtendedFacts ==
  ASSUME NEW f, NEW x, NEW y
  PROVE  /\ DOMAIN Extended(f, x, y) = DOMAIN f \cup {x}
         /\ Extended(f, x, y)[x] = y
         /\ \A z \in DOMAIN f \ {x} : Extended(f, x, y)[z] = f[z]
BY DEF Extended

\* A path has finitely many parents, which are shorter.
LEMMA ParentsFacts ==
  ASSUME NEW p \in Paths
  PROVE  /\ IsFiniteSet(Parents(p)) /\ Parents(p) \subseteq Paths \ {<<>>}
         /\ \A q \in Parents(p) :
              Len(q) \in 1..Len(p) - 1 /\ q = SubSeq(p, 1, Len(q)) /\ IsPrefix(q, p)
<1> DEFINE f == [k \in 1..Len(p) - 1 |-> SubSeq(p, 1, k)]
<1>1. Len(p) \in Nat
  BY DEF Paths
<1>2. IsFiniteSet(1..Len(p) - 1)
  BY <1>1, FS_Interval
<1>3. f \in Surjection(1..Len(p) - 1, Parents(p))
  BY DEF Surjection, Parents
<1>4. IsFiniteSet(Parents(p))
  <2> HIDE DEF f
  <2> QED BY <1>2, <1>3, FS_Surjection
<1>5. ASSUME NEW q \in Parents(p)
      PROVE  q \in Paths \ {<<>>} /\ Len(q) \in 1..Len(p) - 1 /\ q = SubSeq(p, 1, Len(q)) /\ IsPrefix(q, p)
  <2>1. PICK k \in 1..Len(p) - 1 : q = SubSeq(p, 1, k)
    BY DEF Parents
  <2>2. k \in 0..Len(p) /\ q \in Paths /\ Len(q) = k /\ \A n \in 1..k : q[n] = p[n]
    BY <1>1, <2>1, SubSeqFacts
  <2>3. Len(q) <= Len(p) /\ q # <<>>
    BY <1>1, <2>1, <2>2
  <2> QED BY <2>1, <2>2, <2>3, PrefixFacts
<1> QED BY <1>4, <1>5

\* The missing parents of a path are made.
LEMMA WithParentsFacts ==
  ASSUME NEW p \in Paths
  PROVE  /\ DOMAIN WithParents(p) = DOMAIN disk \cup Parents(p)
         /\ \A q \in DOMAIN disk : WithParents(p)[q] = disk[q]
         /\ \A q \in Parents(p) \ DOMAIN disk : WithParents(p)[q] = Node(TRUE, i)
BY DEF WithParents, Exists

\* A file or directory is written.
LEMMA WrittenFacts ==
  ASSUME path \in Paths
  PROVE  \/ /\ Written = disk /\ Exists(path) /\ Entry.dir
         \/ /\ ~(Exists(path) /\ Entry.dir)
            /\ DOMAIN Written = DOMAIN disk \cup Parents(path) \cup {path}
            /\ Written[path] = Node(Entry.dir, i)
            /\ \A q \in DOMAIN disk \ {path} : Written[q] = disk[q]
            /\ \A q \in Parents(path) \ (DOMAIN disk \cup {path}) : Written[q] = Node(TRUE, i)
<1>1. CASE Exists(path) /\ Entry.dir
  BY <1>1 DEF Written
<1>2. CASE ~(Exists(path) /\ Entry.dir)
  <2> DEFINE W == WithParents(path)
  <2>1. Written = Extended(W, path, Node(Entry.dir, i))
    BY <1>2 DEF Written
  <2>2. /\ DOMAIN W = DOMAIN disk \cup Parents(path)
        /\ \A q \in DOMAIN disk : W[q] = disk[q]
        /\ \A q \in Parents(path) \ DOMAIN disk : W[q] = Node(TRUE, i)
    BY WithParentsFacts
  <2> HIDE DEF W
  <2>3. /\ DOMAIN Written = DOMAIN W \cup {path} /\ Written[path] = Node(Entry.dir, i)
        /\ \A q \in DOMAIN W \ {path} : Written[q] = W[q]
    BY <2>1 DEF Extended
  <2>4. ASSUME NEW q \in DOMAIN disk \ {path} PROVE Written[q] = disk[q]
    BY <2>2, <2>3
  <2>5. ASSUME NEW q \in Parents(path) \ (DOMAIN disk \cup {path}) PROVE Written[q] = Node(TRUE, i)
    BY <2>2, <2>3
  <2>6. DOMAIN Written = DOMAIN disk \cup Parents(path) \cup {path}
    BY <2>2, <2>3
  <2> QED BY <1>2, <2>3, <2>4, <2>5, <2>6
<1> QED BY <1>1, <1>2

\* Writing keeps the type of the disk.
LEMMA WrittenType ==
  ASSUME DiskType, path \in Paths \ {<<>>}, i \in Nat, Entry.dir \in BOOLEAN,
         disk' \in {disk, WithParents(path), Written}
  PROVE  DiskType'
<1>1. IsFiniteSet(DOMAIN disk \cup Parents(path)) /\ IsFiniteSet(DOMAIN disk \cup Parents(path) \cup {path})
  <2>1. IsFiniteSet(DOMAIN disk \cup Parents(path))
    BY ParentsFacts, FS_Union DEF DiskType
  <2> QED BY <2>1, FS_AddElement
<1>2. Parents(path) \subseteq Paths \ {<<>>} /\ IsNode(Node(TRUE, i)) /\ IsNode(Node(Entry.dir, i))
  BY ParentsFacts DEF IsNode, Node
<1>3. CASE disk' = disk
  BY <1>3 DEF DiskType, Exists
<1>4. CASE disk' = WithParents(path)
  BY <1>1, <1>2, <1>4, WithParentsFacts DEF DiskType
<1>5. CASE disk' = Written /\ ~(Exists(path) /\ Entry.dir)
  <2>1. IsFiniteSet(DOMAIN disk') /\ DOMAIN disk' \subseteq Paths \ {<<>>}
    BY <1>1, <1>2, <1>5, WrittenFacts DEF DiskType
  <2>2. ASSUME NEW q \in DOMAIN disk' PROVE IsNode(disk'[q])
    BY <1>2, <1>5, <2>2, WrittenFacts DEF DiskType
  <2> QED BY <2>1, <2>2 DEF DiskType
<1> QED BY <1>3, <1>4, <1>5, WrittenFacts

-----------------------------------------------------------------------------
(***************************************************************************)
(* The answers of _checkPath:.                                             *)
(***************************************************************************)
\* q is p, except for the number of its last name.
Like(q, p) ==
  /\ q \in Paths \ {<<>>} /\ Len(q) = Len(p)
  /\ q[Len(p)].text = p[Len(p)].text /\ q[Len(p)].fork = p[Len(p)].fork
  /\ \A m \in 1..Len(p) - 1 : q[m] = p[m]

\* Something meant for p is skipped, or goes to p if that is free or may be
\* replaced, or beside p where nothing is yet.
LEMMA CheckPathFacts ==
  ASSUME policy \in Policies, IsFiniteSet(DOMAIN disk), NEW p \in Paths \ {<<>>}, NEW answer \in CheckPath(p)
  PROVE  \/ answer = Skipped /\ Exists(p) /\ policy \in {"skip", "ask"}
         \/ /\ Like(answer, p)
            /\ \/ ~Exists(answer)
               \/ answer = p /\ policy \in {"overwrite", "ask"}
<1>1. Like(p, p)
  BY DEF Like
<1>2. Like(UniquePath(p), p) /\ ~Exists(UniquePath(p))
  <2>1. PICK n \in Nat \ {0} : UniquePath(p) = Numbered(p, n) /\ ~Exists(UniquePath(p))
    BY UniquePathFacts
  <2>2. Len(p) \in Nat \ {0} /\ Len(<<>>) = 0
    BY DEF Paths
  <2> QED BY <2>1, <2>2, NumberedFacts DEF Like
<1>3. CASE policy = "overwrite" \/ ~Exists(p)
  BY <1>1, <1>3 DEF CheckPath
<1>4. CASE policy # "overwrite" /\ Exists(p)
  <2>1. policy \in {"rename", "ask", "skip"}
    BY <1>4, PoliciesAssumption
  <2>2. CASE policy = "rename"
    BY <1>2, <1>4, <2>2 DEF CheckPath
  <2>3. CASE policy = "ask"
    BY <1>1, <1>2, <1>4, <2>3 DEF CheckPath
  <2>4. CASE policy = "skip"
    BY <1>4, <2>4 DEF CheckPath
  <2> QED BY <2>1, <2>2, <2>3, <2>4
<1> QED BY <1>3, <1>4

-----------------------------------------------------------------------------
(***************************************************************************)
(* Types.                                                                  *)
(***************************************************************************)
EnclosingDirs == {p \in Paths : Len(p) = 1 /\ p[1].text = Enclosing.text}

ConfigType ==
  /\ archive \in Archives /\ before \in Disks /\ policy \in Policies
  /\ sub \in BOOLEAN /\ enclosingdir \in BOOLEAN /\ removesolo \in BOOLEAN

ControlType ==
  /\ pc \in {"begin", "next", "walk", "extract", "solo", "place", "replace", "move", "returned"}
  /\ i \in 1..Len(archive) + 1 /\ (pc \in {"walk", "extract"} => i <= Len(archive))
  /\ pc \in {"walk", "extract"} => c \in 1..Len(Entry.path) + 1 /\ Len(path) >= c - 1
  /\ pc = "extract" => c = Len(Entry.path) + 1
  /\ path \in Paths
  /\ numextracted \in 0..Len(archive)
  /\ pc \in {"begin", "next", "walk", "extract"} => numextracted < i

RenamesType ==
  /\ DOMAIN renames \subseteq Paths \ {<<>>}
  /\ \A w \in DOMAIN renames :
       renames[w] \in Paths /\ (renames[w] = Skipped \/ Len(renames[w]) >= Len(w))
  /\ DOMAIN written \subseteq 1..Len(archive)
  /\ \A j \in DOMAIN written : written[j] \in Paths

PlaceType ==
  /\ unpackdestination \in EnclosingDirs \cup {Nowhere}
  /\ finaldestination \in EnclosingDirs \cup {Nowhere}
  /\ originaldest \in {Nowhere, <<Enclosing>>}
  /\ sub /\ enclosingdir /\ removesolo /\ pc # "begin" => unpackdestination # Nowhere
  /\ pc \in {"solo", "place", "replace"} => sub /\ enclosingdir /\ removesolo
  /\ pc = "replace" => originaldest # Nowhere
  /\ pc = "place" => SoloKnown
  /\ work \in Seq(Jobs)

OutcomeType ==
  /\ lookslikesolo \in BOOLEAN /\ shouldstop \in BOOLEAN /\ skips \in BOOLEAN
  /\ error \in {"none", "damaged", "fileexists"}
  /\ result \in {"none", "break", "damaged", "fileexists", "attributes", "raised"}
  /\ setbacks \in 0..MaxSetbacks

TypeInv ==
  ConfigType /\ DiskType /\ ControlType /\ RenamesType /\ PlaceType /\ OutcomeType

\* The names made up by the unarchiver.
LEMMA NameFacts ==
  /\ Enclosing \in Names /\ Temporary \in Names /\ Enclosing.text # Temporary.text
  /\ EnclosingDirs \subseteq Paths \ {<<>>} /\ Nowhere \in Paths
  /\ \A p \in EnclosingDirs : Len(p) = 1 /\ p[1] \in Names /\ p[1].text = Enclosing.text
<1>1. "enclosing" # "temporary"
  OBVIOUS
<1>7. "enclosing" \in Texts /\ "temporary" \in Texts
  BY TextsAssumption
<1>2. Enclosing = [text |-> "enclosing", number |-> 0, fork |-> FALSE]
      /\ Temporary = [text |-> "temporary", number |-> 0, fork |-> FALSE]
  BY DEF Enclosing, Temporary, Name
<1>3. Enclosing \in Names /\ Temporary \in Names
  BY <1>2, <1>7 DEF Names
<1>4. Enclosing.text # Temporary.text
  BY <1>1, <1>2
<1>5. Nowhere \in Paths
  BY DEF Nowhere, Paths
<1>6. ASSUME NEW p \in EnclosingDirs
      PROVE  p \in Paths \ {<<>>} /\ Len(p) = 1 /\ p[1] \in Names /\ p[1].text = Enclosing.text
  <2>1. p \in Seq(Names) /\ Len(p) = 1 /\ p[1].text = Enclosing.text
    BY DEF EnclosingDirs, Paths
  <2>2. p[1] \in Names
    <3>1. \A q \in Seq(Names) : Len(q) = 1 => q[1] \in Names
      OBVIOUS
    <3> QED BY <2>1, <3>1
  <2>3. p # <<>>
    <3>1. \A q \in Seq(Names) : Len(q) = 1 => q # <<>>
      OBVIOUS
    <3>2. p \in Seq(Names) /\ Len(p) = 1
      BY <2>1
    <3> QED BY <3>1, <3>2
  <2> QED BY <2>1, <2>2, <2>3 DEF Paths
<1> QED BY <1>3, <1>4, <1>5, <1>6

\* The entry the walk is about, and its path as it is looked up.
LEMMA EntryFacts ==
  ASSUME ConfigType, NEW j \in 1..Len(archive)
  PROVE  /\ archive[j] \in EntryType /\ archive[j].path # <<>> /\ Len(archive[j].path) \in Nat \ {0}
         /\ Adjusted(archive[j]) \in Paths /\ Len(Adjusted(archive[j])) = Len(archive[j].path)
         /\ \A k \in 1..Len(archive[j].path) :
              /\ Adjusted(archive[j])[k] \in Names /\ Adjusted(archive[j])[k].text # Temporary.text
              /\ Adjusted(archive[j])[k].number = 0
<1>1. archive[j] \in EntryType /\ archive[j].path \in Seq(Texts) /\ archive[j].path # <<>>
  <2>1. archive \in Seq(EntryType) /\ archive[j].path # <<>>
    BY ArchivesAssumption DEF ConfigType
  <2>2. archive[j] \in EntryType
    BY <2>1
  <2> QED BY <2>1, <2>2 DEF EntryType
<1>2. Len(archive[j].path) \in Nat \ {0}
  BY <1>1
<1> DEFINE n == Len(archive[j].path)
           a == Adjusted(archive[j])
<1>3. ASSUME NEW k \in 1..n
      PROVE  /\ archive[j].path[k] \in Texts /\ archive[j].path[k] # Temporary.text
             /\ (archive[j].fork /\ k = n) \in BOOLEAN
  BY <1>1, ArchivesAssumption DEF ConfigType
<1>4. a = [k \in 1..n |-> [text |-> archive[j].path[k], number |-> 0, fork |-> archive[j].fork /\ k = n]]
  BY DEF Adjusted
<1>5. a \in [1..n -> Names] /\ \A k \in 1..n : a[k].text # Temporary.text /\ a[k].number = 0
  BY <1>3, <1>4 DEF Names
<1>6. a \in Paths /\ Len(a) = n
  BY <1>2, <1>5 DEF Paths
<1> QED BY <1>1, <1>2, <1>5, <1>6

\* How far the walk has come, and the path it looks at next.
LEMMA WalkFacts ==
  ASSUME ConfigType, i \in 1..Len(archive), c \in 1..Len(Entry.path), path \in Paths
  PROVE  /\ Walked \in Paths \ {<<>>} /\ Len(Walked) = c
         /\ Adjusted(Entry)[c] \in Names /\ Adjusted(Entry)[c].text # Temporary.text
         /\ Append(path, Adjusted(Entry)[c]) \in Paths \ {<<>>}
         /\ Len(Append(path, Adjusted(Entry)[c])) = Len(path) + 1
         /\ Append(path, Adjusted(Entry)[c])[Len(path) + 1] = Adjusted(Entry)[c]
<1>1. /\ Adjusted(Entry) \in Paths /\ Len(Adjusted(Entry)) = Len(Entry.path) /\ Len(Entry.path) \in Nat
      /\ Adjusted(Entry)[c] \in Names /\ Adjusted(Entry)[c].text # Temporary.text
  BY EntryFacts DEF Entry
<1>2. Walked \in Paths /\ Len(Walked) = c /\ c \in Nat \ {0} /\ Len(<<>>) = 0
  BY <1>1, SubSeqFacts DEF Walked
<1>3. /\ Append(path, Adjusted(Entry)[c]) \in Paths /\ Len(Append(path, Adjusted(Entry)[c])) = Len(path) + 1
      /\ Append(path, Adjusted(Entry)[c])[Len(path) + 1] = Adjusted(Entry)[c]
      /\ Len(path) \in Nat
  BY <1>1, AppendFacts DEF Paths
<1> QED BY <1>1, <1>2, <1>3

\* The archive, the options and the old disk are what they are.
LEMMA ConfigStep ==
  ASSUME [Next]_vars PROVE configVars' = configVars
<1>1. CASE BeginRegular \/ BeginSub
  BY <1>1 DEF BeginRegular, BeginSub, configVars
<1>2. CASE NextEntry \/ RuleOut \/ WalkKnown \/ WalkNew \/ WalkEnds
  BY <1>2 DEF NextEntry, RuleOut, WalkKnown, WalkNew, WalkEnds, configVars
<1>3. CASE ExtractEntry \/ ExtractFails \/ ExtractStopped \/ SubFails \/ EntriesDone
  BY <1>3 DEF ExtractEntry, ExtractFails, ExtractStopped, SubFails, EntriesDone, configVars
<1>4. CASE RenameEnclosing \/ SoloUnknown \/ PlaceSolo \/ Replace
  BY <1>4 DEF RenameEnclosing, SoloUnknown, PlaceSolo, Replace, configVars
<1>5. CASE MoveItem \/ MoveFails \/ MovesDone \/ UNCHANGED vars
  BY <1>5 DEF MoveItem, MoveFails, MovesDone, configVars, vars
<1> QED BY <1>1, <1>2, <1>3, <1>4, <1>5 DEF Next, Extract

\* The two ways to begin.
LEMMA BeginTypes ==
  ASSUME TypeInv, BeginRegular \/ BeginSub
  PROVE  ControlType' /\ DiskType' /\ RenamesType' /\ PlaceType' /\ OutcomeType'
<1>1. /\ disk' = disk /\ walkVars' = walkVars /\ renames' = renames /\ work' = work
      /\ numextracted' = numextracted /\ error' = error /\ shouldstop' = shouldstop
      /\ written' = written /\ setbacks' = setbacks /\ configVars' = configVars /\ pc = "begin"
      /\ pc' = "next" \/ (pc' = "returned" /\ result' = "none" /\ ~(sub /\ enclosingdir /\ removesolo))
      /\ pc' = "next" => result' = result
  BY DEF BeginRegular, BeginSub, UnpackChecked, UnpackBeside, UnpackInto, Return
<1>2. <<Enclosing>> \in EnclosingDirs /\ <<Enclosing>> \in Paths \ {<<>>} /\ <<Enclosing>> # Nowhere
  <2>1. Enclosing \in Names
    BY NameFacts
  <2> QED BY <2>1 DEF EnclosingDirs, Paths, Nowhere
<1>3. \A q : Like(q, <<Enclosing>>) => q \in EnclosingDirs
  <2>1. ASSUME NEW q, Like(q, <<Enclosing>>) PROVE q \in EnclosingDirs
    <3>1. Len(<<Enclosing>>) = 1 /\ <<Enclosing>>[1] = Enclosing
      OBVIOUS
    <3> QED BY <2>1, <3>1 DEF Like, EnclosingDirs
  <2> QED BY <2>1
<1>4. Nowhere \notin EnclosingDirs
  BY DEF Nowhere, EnclosingDirs
<1>5. \A answer \in CheckPath(<<Enclosing>>) : answer = Skipped \/ answer \in EnclosingDirs
  BY <1>2, <1>3, CheckPathFacts DEF TypeInv, ConfigType, DiskType
<1>6. UniquePath(<<Enclosing>>) \in EnclosingDirs
  <2>1. PICK n \in Nat \ {0} : UniquePath(<<Enclosing>>) = Numbered(<<Enclosing>>, n)
    BY <1>2, UniquePathFacts DEF TypeInv, DiskType
  <2>2. Len(<<Enclosing>>) = 1 /\ <<Enclosing>>[1] = Enclosing
    OBVIOUS
  <2>3. /\ Numbered(<<Enclosing>>, n) \in Paths /\ Len(Numbered(<<Enclosing>>, n)) = 1
        /\ Numbered(<<Enclosing>>, n)[1].text = Enclosing.text
    BY <1>2, <2>2, NumberedFacts
  <2> QED BY <2>1, <2>3 DEF EnclosingDirs
<1>7. DiskType' /\ RenamesType'
  BY <1>1 DEF TypeInv, DiskType, RenamesType, configVars
<1>8. ControlType'
  BY <1>1 DEF TypeInv, ControlType, configVars, walkVars, Entry
<1>9. OutcomeType'
  <2>1. lookslikesolo' \in BOOLEAN
    BY DEF TypeInv, OutcomeType, BeginRegular, BeginSub, SameTop, soloVars
  <2>2. skips' \in BOOLEAN
    BY DEF TypeInv, OutcomeType, BeginRegular, BeginSub, UnpackChecked, UnpackBeside, Answer, collisionVars
  <2> QED BY <1>1, <2>1, <2>2 DEF TypeInv, OutcomeType
<1>10. PlaceType'
  <2>1. /\ unpackdestination' \in EnclosingDirs \cup {Nowhere}
        /\ finaldestination' \in EnclosingDirs \cup {Nowhere}
        /\ originaldest' \in {Nowhere, <<Enclosing>>}
    BY <1>2, <1>5, <1>6 DEF TypeInv, PlaceType, BeginRegular, BeginSub, UnpackChecked, UnpackBeside, UnpackInto
  <2>2. sub /\ enclosingdir /\ removesolo => unpackdestination' # Nowhere
    BY <1>2, <1>4, <1>6 DEF BeginRegular, BeginSub, UnpackInto
  <2> QED BY <1>1, <2>1, <2>2 DEF TypeInv, PlaceType, configVars
<1> QED BY <1>7, <1>8, <1>9, <1>10

\* The walk along the path of an entry.
LEMMA WalkTypes ==
  ASSUME TypeInv, NextEntry \/ RuleOut \/ WalkKnown \/ WalkNew \/ WalkEnds
  PROVE  ControlType' /\ DiskType' /\ RenamesType' /\ PlaceType' /\ OutcomeType'
<1>1. /\ disk' = disk /\ placeVars' = placeVars /\ work' = work
      /\ numextracted' = numextracted /\ error' = error
      /\ written' = written /\ configVars' = configVars /\ pc \in {"next", "walk", "extract"}
  BY DEF NextEntry, RuleOut, WalkKnown, WalkNew, WalkEnds, Known
<1>2. pc' \in {"next", "walk", "extract", "returned"}
  BY <1>1 DEF NextEntry, RuleOut, WalkKnown, WalkNew, WalkEnds, Return, PassOver
<1>3. DiskType'
  BY <1>1 DEF TypeInv, DiskType
<1>4. PlaceType'
  BY <1>1, <1>2 DEF TypeInv, PlaceType, placeVars, configVars
<1>5. OutcomeType'
  <2>1. CASE NextEntry
    <3>1. lookslikesolo' \in BOOLEAN
      BY <2>1 DEF NextEntry, TestForSolo, TypeInv, OutcomeType, soloVars
    <3>2. shouldstop' \in BOOLEAN /\ skips' = skips
      BY <2>1 DEF NextEntry, PollStop, TypeInv, OutcomeType, collisionVars
    <3>3. result' \in {result, "break"} /\ setbacks' = setbacks
      BY <2>1 DEF NextEntry, Return
    <3> QED BY <1>1, <3>1, <3>2, <3>3 DEF TypeInv, OutcomeType
  <2>2. CASE RuleOut
    <3>1. setbacks' \in 0..MaxSetbacks
      BY <2>2, MaxSetbacksAssumption DEF RuleOut, Setback, TypeInv, OutcomeType
    <3> QED BY <1>1, <2>2, <3>1 DEF TypeInv, OutcomeType, RuleOut, soloVars, collisionVars
  <2>3. CASE WalkKnown \/ WalkEnds
    BY <1>1, <2>3 DEF TypeInv, OutcomeType, WalkKnown, WalkEnds, soloVars, collisionVars
  <2>4. CASE WalkNew
    <3>1. skips' \in BOOLEAN
      BY <2>4 DEF WalkNew, Answer, TypeInv, OutcomeType
    <3> QED BY <1>1, <2>4, <3>1 DEF TypeInv, OutcomeType, WalkNew, soloVars
  <2> QED BY <2>1, <2>2, <2>3, <2>4
<1>6. CASE NextEntry
  <2>1. i \in 1..Len(archive) /\ pc' \in {"walk", "returned"} /\ i' = i
    BY <1>6 DEF NextEntry, TypeInv, ControlType, Return
  <2>2. pc' = "walk" => c' = 1 /\ path' = unpackdestination
    BY <1>6 DEF NextEntry, Start, Return
  <2>3. pc' = "returned" => path' = path
    BY <1>6 DEF NextEntry, Return
  <2>4. unpackdestination \in Paths
    BY NameFacts DEF TypeInv, PlaceType
  <2>5. Len(Entry.path) \in Nat \ {0} /\ Len(unpackdestination) \in Nat
    BY <2>1, <2>4, EntryFacts DEF TypeInv, Entry, Paths
  <2>6. Entry' = Entry
    BY <1>1, <2>1 DEF Entry, configVars
  <2>7. ControlType'
    BY <1>1, <2>1, <2>2, <2>3, <2>4, <2>5, <2>6 DEF TypeInv, ControlType, configVars
  <2> QED BY <1>1, <1>3, <1>4, <1>5, <1>6, <2>7 DEF TypeInv, RenamesType, NextEntry, configVars
<1>7. CASE RuleOut \/ WalkEnds
  <2>1. path' = path /\ c' = c /\ renames' = renames /\ i \in 1..Len(archive)
    BY <1>7 DEF RuleOut, WalkEnds, walkVars, TypeInv, ControlType
  <2>2. \/ pc' = "next" /\ i' = i + 1
        \/ pc' = "extract" /\ i' = i /\ pc = "walk" /\ c > Len(Entry.path)
    BY <1>7 DEF RuleOut, WalkEnds, PassOver, walkVars
  <2>3. i' = i => Entry' = Entry
    BY <1>1 DEF Entry, configVars
  <2>4. Len(Entry.path) \in Nat
    BY <2>1, EntryFacts DEF TypeInv, Entry
  <2>5. ControlType'
    <3>1. CASE pc' = "next" /\ i' = i + 1
      BY <1>1, <2>1, <3>1 DEF TypeInv, ControlType, configVars
    <3>2. CASE pc' = "extract" /\ i' = i /\ pc = "walk" /\ c > Len(Entry.path)
      BY <1>1, <2>1, <2>3, <2>4, <3>2 DEF TypeInv, ControlType, configVars
    <3> QED BY <2>2, <3>1, <3>2
  <2> QED BY <1>1, <1>3, <1>4, <1>5, <2>1, <2>5 DEF TypeInv, RenamesType, configVars
<1>8. CASE WalkKnown
  <2>1. /\ i \in 1..Len(archive) /\ c \in 1..Len(Entry.path) /\ Walked \in DOMAIN renames /\ renames' = renames
        /\ c \in Nat
    BY <1>8 DEF WalkKnown, Known, TypeInv, ControlType
  <2>2. \/ pc' = "next" /\ i' = i + 1 /\ path' = path
        \/ pc' = pc /\ pc = "walk" /\ i' = i /\ path' = renames[Walked] /\ path' # Skipped /\ c' = c + 1
    BY <1>8 DEF WalkKnown, PassOver, Known
  <2>3. Len(Walked) = c
    BY <2>1, WalkFacts DEF TypeInv, ControlType
  <2>4. renames[Walked] \in Paths /\ (renames[Walked] # Skipped => Len(renames[Walked]) >= c)
    BY <2>1, <2>3 DEF TypeInv, RenamesType
  <2>5. i' = i => Entry' = Entry
    BY <1>1 DEF Entry, configVars
  <2>6. Len(Entry.path) \in Nat
    BY <2>1, EntryFacts DEF TypeInv, Entry
  <2>7. ControlType'
    <3>1. CASE pc' = "next" /\ i' = i + 1 /\ path' = path
      BY <1>1, <2>1, <3>1 DEF TypeInv, ControlType, configVars
    <3>2. CASE pc' = pc /\ pc = "walk" /\ i' = i /\ path' = renames[Walked] /\ path' # Skipped /\ c' = c + 1
      BY <1>1, <2>1, <2>4, <2>5, <2>6, <3>2 DEF TypeInv, ControlType, configVars
    <3> QED BY <2>2, <3>1, <3>2
  <2> QED BY <1>1, <1>3, <1>4, <1>5, <2>1, <2>7 DEF TypeInv, RenamesType, configVars
<1>9. CASE WalkNew
  <2> DEFINE p == Append(path, Adjusted(Entry)[c])
  <2>1. i \in 1..Len(archive) /\ c \in 1..Len(Entry.path) /\ c \in Nat /\ pc = "walk" /\ Len(path) >= c - 1
        /\ path \in Paths
    BY <1>9 DEF WalkNew, TypeInv, ControlType
  <2>2. PICK answer \in CheckPath(p) :
          /\ renames' = Extended(renames, Walked, answer)
          /\ \/ answer = Skipped /\ pc' = "next" /\ i' = i + 1 /\ path' = path
             \/ answer # Skipped /\ pc' = pc /\ i' = i /\ path' = answer /\ c' = c + 1
    BY <1>9 DEF WalkNew, PassOver
  <2>3. Len(Walked) = c /\ Walked \in Paths \ {<<>>} /\ p \in Paths \ {<<>>} /\ Len(p) = Len(path) + 1
    BY <2>1, WalkFacts DEF TypeInv
  <2> HIDE DEF p
  <2>4. answer = Skipped \/ (answer \in Paths \ {<<>>} /\ Len(answer) = Len(path) + 1)
    BY <2>2, <2>3, CheckPathFacts DEF TypeInv, ConfigType, DiskType, Like
  <2>5. i' = i => Entry' = Entry
    BY <1>1 DEF Entry, configVars
  <2>6. Len(Entry.path) \in Nat /\ Len(path) \in Nat
    BY <2>1, EntryFacts DEF TypeInv, Entry, Paths
  <2>7. ControlType'
    <3>1. CASE answer = Skipped /\ pc' = "next" /\ i' = i + 1 /\ path' = path
      BY <1>1, <2>1, <3>1 DEF TypeInv, ControlType, configVars
    <3>2. CASE answer # Skipped /\ pc' = pc /\ i' = i /\ path' = answer /\ c' = c + 1
      BY <1>1, <2>1, <2>4, <2>5, <2>6, <3>2 DEF TypeInv, ControlType, configVars
    <3> QED BY <2>2, <3>1, <3>2
  <2>8. answer \in Paths /\ (answer = Skipped \/ Len(answer) >= c)
    <3>1. Skipped \in Paths
      BY DEF Skipped, Paths
    <3>2. Len(path) + 1 >= c
      BY <2>1, <2>6
    <3> QED BY <2>4, <3>1, <3>2
  <2>9. RenamesType'
    <3>1. DOMAIN renames' = DOMAIN renames \cup {Walked} /\ renames'[Walked] = answer
          /\ \A w \in DOMAIN renames \ {Walked} : renames'[w] = renames[w]
      BY <2>2 DEF Extended
    <3>2. ASSUME NEW w \in DOMAIN renames'
          PROVE  renames'[w] \in Paths /\ (renames'[w] = Skipped \/ Len(renames'[w]) >= Len(w))
      BY <2>3, <2>8, <3>1 DEF TypeInv, RenamesType
    <3>3. DOMAIN renames' \subseteq Paths \ {<<>>}
      BY <2>3, <3>1 DEF TypeInv, RenamesType
    <3> QED BY <1>1, <3>2, <3>3 DEF TypeInv, RenamesType, configVars
  <2> QED BY <1>3, <1>4, <1>5, <2>7, <2>9
<1> QED BY <1>6, <1>7, <1>8, <1>9

\* The extraction of an entry, whatever comes of it.
LEMMA ExtractTypes ==
  ASSUME TypeInv, ExtractEntry \/ ExtractFails \/ ExtractStopped \/ SubFails
  PROVE  ControlType' /\ DiskType' /\ RenamesType' /\ PlaceType' /\ OutcomeType'
<1>1. /\ placeVars' = placeVars /\ work' = work /\ configVars' = configVars /\ renames' = renames
      /\ path' = path /\ c' = c /\ soloVars' = soloVars /\ skips' = skips
      /\ pc \in {"next", "extract"} /\ pc' \in {"next", "returned"}
  BY DEF ExtractEntry, ExtractFails, ExtractStopped, SubFails, PassOver, Return, walkVars, collisionVars
<1>2. PlaceType'
  BY <1>1 DEF TypeInv, PlaceType, placeVars, configVars
<1>3. setbacks' = setbacks \/ Setback
  BY DEF ExtractEntry, ExtractFails, ExtractStopped, SubFails
<1>4. setbacks' \in 0..MaxSetbacks
  BY <1>3, MaxSetbacksAssumption DEF Setback, TypeInv, OutcomeType
<1>5. /\ shouldstop' \in {shouldstop, TRUE} /\ error' \in {error, "damaged"} /\ result' \in {result, "break"}
  BY DEF ExtractEntry, ExtractFails, ExtractStopped, SubFails, Return
<1>6. OutcomeType'
  BY <1>1, <1>4, <1>5 DEF TypeInv, OutcomeType, soloVars
<1>7. CASE SubFails
  <2>1. disk' = disk /\ written' = written /\ i' = Len(archive) + 1 /\ numextracted' = numextracted /\ pc = "next"
        /\ pc' = pc
    BY <1>7 DEF SubFails
  <2>2. Len(archive) \in Nat
    BY ArchivesAssumption DEF TypeInv, ConfigType
  <2>3. ControlType'
    BY <1>1, <2>1, <2>2 DEF TypeInv, ControlType, configVars
  <2> QED BY <1>1, <1>2, <1>6, <2>1, <2>3 DEF TypeInv, DiskType, RenamesType, configVars
<1>8. CASE ExtractEntry \/ ExtractFails \/ ExtractStopped
  <2>1. /\ pc = "extract" /\ numextracted' = numextracted + 1
        /\ \/ pc' = "next" /\ i' = i + 1
           \/ pc' = "returned" /\ i' = i
    BY <1>8 DEF ExtractEntry, ExtractFails, ExtractStopped, PassOver, Return, walkVars
  <2>2. i \in 1..Len(archive) /\ Len(archive) \in Nat /\ path \in Paths /\ numextracted < i /\ numextracted \in Nat
        /\ c = Len(Entry.path) + 1 /\ Len(path) >= c - 1
    BY <2>1, ArchivesAssumption DEF TypeInv, ControlType, ConfigType
  <2>3. ControlType'
    BY <1>1, <2>1, <2>2 DEF TypeInv, ControlType, configVars
  <2>4. Entry \in EntryType /\ Len(Entry.path) \in Nat \ {0}
    BY <2>2, EntryFacts DEF TypeInv, Entry
  <2>5. path # <<>> /\ Entry.dir \in BOOLEAN /\ i \in Nat
    <3>1. Len(path) >= 1 /\ Len(<<>>) = 0
      BY <2>2, <2>4
    <3> QED BY <2>2, <2>4, <3>1 DEF EntryType
  <2>6. disk' \in {disk, WithParents(path), Written}
    BY <1>8 DEF ExtractEntry, ExtractFails, ExtractStopped
  <2>7. DiskType'
    BY <2>2, <2>5, <2>6, WrittenType DEF TypeInv
  <2>8. written' = written \/ written' = Extended(written, i, path)
    BY <1>8 DEF ExtractEntry, ExtractFails, ExtractStopped
  <2>9. DOMAIN written' \subseteq 1..Len(archive) /\ \A j \in DOMAIN written' : written'[j] \in Paths
    <3>1. CASE written' = written
      BY <3>1 DEF TypeInv, RenamesType
    <3>2. CASE written' = Extended(written, i, path)
      BY <2>2, <3>2 DEF TypeInv, RenamesType, Extended
    <3> QED BY <2>8, <3>1, <3>2
  <2>10. RenamesType'
    BY <1>1, <2>9 DEF TypeInv, RenamesType, configVars
  <2> QED BY <1>2, <1>6, <2>3, <2>7, <2>10
<1> QED BY <1>7, <1>8

\* How the run goes on after the last entry.
LEMMA EntriesDoneTypes ==
  ASSUME TypeInv, EntriesDone
  PROVE  ControlType' /\ DiskType' /\ RenamesType' /\ PlaceType' /\ OutcomeType'
<1>1. /\ disk' = disk /\ walkVars' = walkVars /\ renames' = renames /\ soloVars' = soloVars /\ work' = work
      /\ numextracted' = numextracted /\ error' = error /\ collisionVars' = collisionVars
      /\ written' = written /\ configVars' = configVars /\ pc = "next"
  BY DEF EntriesDone
<1>2. shouldstop' \in BOOLEAN
  BY DEF EntriesDone, PollStop, TypeInv, OutcomeType
<1>3. /\ unpackdestination' = unpackdestination /\ originaldest' = originaldest
      /\ finaldestination' \in {finaldestination, unpackdestination}
  BY DEF EntriesDone, SettleHere, placeVars
<1>4. setbacks' = setbacks \/ Setback
  BY DEF EntriesDone, Finalize
<1>5. setbacks' \in 0..MaxSetbacks
  BY <1>4, MaxSetbacksAssumption DEF Setback, TypeInv, OutcomeType
<1>6. /\ pc' \in {"solo", "replace", "returned"}
      /\ pc' \in {"solo", "replace"} => sub /\ enclosingdir /\ removesolo /\ result' = result
      /\ pc' = "replace" => originaldest # Nowhere
      /\ result' \in {result, "break", error, "none", "attributes"}
  BY DEF EntriesDone, Finalize, Return
<1>7. DiskType' /\ RenamesType'
  BY <1>1 DEF TypeInv, DiskType, RenamesType, configVars
<1>8. ControlType'
  BY <1>1, <1>6 DEF TypeInv, ControlType, configVars, walkVars
<1>9. PlaceType'
  BY <1>1, <1>3, <1>6 DEF TypeInv, PlaceType, configVars
<1>10. OutcomeType'
  BY <1>1, <1>2, <1>5, <1>6 DEF TypeInv, OutcomeType, soloVars, collisionVars
<1> QED BY <1>7, <1>8, <1>9, <1>10

\* The one item there is, if everything has gone below one top-level path.
LEMMA SoloFacts ==
  ASSUME RenamesType, SoloKnown
  PROVE  \E w \in DOMAIN renames :
           /\ Len(w) = 1 /\ renames[w] # Skipped /\ \A v \in DOMAIN renames : Len(v) = 1 => v = w
           /\ SoloName = renames[w][Len(renames[w])] /\ SoloName \in Names
<1>1. PICK p \in TopPaths : TopNames # {} /\ (\A w, v \in TopNames : w = v) /\ p # Skipped
  BY DEF SoloKnown
<1>2. PICK w \in DOMAIN renames : Len(w) = 1 /\ p = renames[w]
  BY <1>1 DEF TopPaths
<1>3. \A v \in DOMAIN renames : Len(v) = 1 => v = w
  BY <1>1, <1>2 DEF TopNames
<1>4. TopPaths = {p}
  BY <1>2, <1>3 DEF TopPaths
<1>5. SoloName = p[Len(p)]
  <2>1. (CHOOSE q \in TopPaths : TRUE) = p
    BY <1>4
  <2> QED BY <2>1 DEF SoloName
<1>6. p \in Seq(Names) /\ Len(p) \in 1..Len(p)
  BY <1>1, <1>2 DEF RenamesType, Paths, Skipped
<1>7. p[Len(p)] \in Names
  BY <1>6
<1> QED BY <1>1, <1>2, <1>3, <1>5, <1>7

\* The unarchiver finds a place for what was unpacked.
LEMMA PlacingTypes ==
  ASSUME TypeInv, RenameEnclosing \/ SoloUnknown \/ PlaceSolo \/ Replace
  PROVE  ControlType' /\ DiskType' /\ RenamesType' /\ PlaceType' /\ OutcomeType'
<1>1. /\ walkVars' = walkVars /\ renames' = renames /\ soloVars' = soloVars /\ unpackdestination' = unpackdestination
      /\ originaldest' = originaldest /\ shouldstop' = shouldstop /\ error' = error
      /\ written' = written /\ configVars' = configVars /\ pc \in {"solo", "place", "replace"}
  BY DEF RenameEnclosing, SoloUnknown, PlaceSolo, Replace, placeVars
<1>2. /\ sub /\ enclosingdir /\ removesolo
      /\ unpackdestination \in EnclosingDirs /\ unpackdestination \in Paths \ {<<>>}
      /\ <<Temporary>> \in Paths \ {<<>>}
  <2>1. Temporary \in Names
    BY NameFacts
  <2>2. <<Temporary>> \in Seq(Names) /\ <<Temporary>> # <<>>
    BY <2>1
  <2> QED BY <1>1, <2>2, NameFacts DEF TypeInv, PlaceType, Paths
<1>3. disk' \in {disk, Moved(unpackdestination, <<Temporary>>), Removed(<<Temporary>>), Removed(unpackdestination)}
  BY DEF RenameEnclosing, SoloUnknown, EnclosingRenamed, PlaceSolo, Replace
<1>4. DiskType'
  <2>1. CASE disk' = disk
    BY <2>1 DEF TypeInv, DiskType
  <2>2. CASE disk' = Moved(unpackdestination, <<Temporary>>)
    BY <1>2, <2>2, MovedType DEF TypeInv
  <2>3. CASE disk' = Removed(<<Temporary>>) \/ disk' = Removed(unpackdestination)
    BY <2>3, RemovedType DEF TypeInv
  <2> QED BY <1>3, <2>1, <2>2, <2>3
<1>5. RenamesType'
  BY <1>1 DEF TypeInv, RenamesType, configVars
<1>6. /\ pc' \in {"place", "move", "returned"}
      /\ pc' = "place" => SoloKnown
      /\ numextracted' \in {numextracted, 0}
      /\ result' \in {result, "raised", error, "none", "attributes"}
  BY DEF RenameEnclosing, SoloUnknown, PlaceSolo, Replace, Return, Finalize
<1>7. setbacks' = setbacks \/ Setback
  BY DEF RenameEnclosing, SoloUnknown, EnclosingRenamed, PlaceSolo, Replace, Finalize
<1>8. setbacks' \in 0..MaxSetbacks
  BY <1>7, MaxSetbacksAssumption DEF Setback, TypeInv, OutcomeType
<1>9. skips' \in BOOLEAN
  BY DEF RenameEnclosing, SoloUnknown, PlaceSolo, Replace, Answer, TypeInv, OutcomeType, collisionVars
<1>10. OutcomeType'
  BY <1>1, <1>6, <1>8, <1>9 DEF TypeInv, OutcomeType, soloVars
<1>11. ControlType'
  BY <1>1, <1>6 DEF TypeInv, ControlType, walkVars, configVars
<1>12. SoloKnown' = SoloKnown
  BY <1>1 DEF SoloKnown, TopPaths, TopNames
<1>13. CASE RenameEnclosing \/ SoloUnknown
  <2>1. finaldestination' = finaldestination /\ work' = work
    BY <1>13 DEF RenameEnclosing, SoloUnknown, placeVars
  <2> QED BY <1>1, <1>2, <1>4, <1>5, <1>6, <1>10, <1>11, <1>12, <2>1 DEF TypeInv, PlaceType, configVars
<1>14. CASE PlaceSolo
  <2>1. finaldestination' = finaldestination /\ pc' \in {"move", "returned"}
    BY <1>14 DEF PlaceSolo, placeVars, Return
  <2>2. SoloName \in Names
    BY <1>14, SoloFacts DEF PlaceSolo, TypeInv, PlaceType
  <2>3. <<SoloName>> \in Paths \ {<<>>} /\ <<Temporary, SoloName>> \in Paths \ {<<>>}
    <3>1. Temporary \in Names
      BY NameFacts
    <3> QED BY <2>2, <3>1 DEF Paths
  <2>4. PICK answer \in CheckPath(<<SoloName>>) :
          work' = work \/ (answer # Skipped /\ work' = <<Job(<<Temporary, SoloName>>, answer, TRUE)>>)
    BY <1>14 DEF PlaceSolo
  <2>5. answer # Skipped => answer \in Paths \ {<<>>}
    BY <2>3, CheckPathFacts DEF TypeInv, ConfigType, DiskType, Like
  <2>6. answer # Skipped => Job(<<Temporary, SoloName>>, answer, TRUE) \in Jobs
    BY <2>3, <2>5 DEF Job, Jobs
  <2>7. work' \in Seq(Jobs)
    <3>1. \A job \in Jobs : <<job>> \in Seq(Jobs)
      OBVIOUS
    <3> QED BY <2>4, <2>6, <3>1 DEF TypeInv, PlaceType
  <2> QED BY <1>1, <1>4, <1>5, <1>10, <1>11, <2>1, <2>7 DEF TypeInv, PlaceType, configVars
<1>15. CASE Replace
  <2>1. pc' \in {"move", "returned"} /\ originaldest = <<Enclosing>>
    BY <1>15 DEF Replace, Return, Finalize, TypeInv, PlaceType
  <2>2. <<Enclosing>> \in Paths \ {<<>>} /\ <<Enclosing>> # <<>>
    <3>1. Enclosing \in Names
      BY NameFacts
    <3> QED BY <3>1 DEF Paths
  <2>3. PICK answer \in CheckPath(originaldest) \cup {unpackdestination} :
          /\ finaldestination' = finaldestination \/ (answer # Skipped /\ finaldestination' = answer)
          /\ work' = work \/ (answer # Skipped /\ work' = <<Job(unpackdestination, answer, TRUE)>>)
    BY <1>15 DEF Replace
  <2>4. answer # Skipped => answer \in EnclosingDirs
    <3>1. CASE answer = unpackdestination
      BY <1>2, <3>1
    <3>2. CASE answer \in CheckPath(originaldest) /\ answer # Skipped
      <4>1. Like(answer, <<Enclosing>>)
        BY <2>1, <2>2, <3>2, CheckPathFacts DEF TypeInv, ConfigType, DiskType
      <4>2. Len(<<Enclosing>>) = 1 /\ <<Enclosing>>[1] = Enclosing
        OBVIOUS
      <4> QED BY <4>1, <4>2 DEF Like, EnclosingDirs
    <3> QED BY <2>3, <3>1, <3>2
  <2>5. answer # Skipped => Job(unpackdestination, answer, TRUE) \in Jobs
    BY <1>2, <2>4, NameFacts DEF Job, Jobs
  <2>6. work' \in Seq(Jobs) /\ finaldestination' \in EnclosingDirs \cup {Nowhere}
    <3>1. \A job \in Jobs : <<job>> \in Seq(Jobs)
      OBVIOUS
    <3> QED BY <2>3, <2>4, <2>5, <3>1 DEF TypeInv, PlaceType
  <2> QED BY <1>1, <1>4, <1>5, <1>10, <1>11, <2>1, <2>6 DEF TypeInv, PlaceType, configVars
<1> QED BY <1>13, <1>14, <1>15

\* The jobs that the merge of a directory into another is made of.
Inside(job, dest) == {Job(q, Append(dest, q[Len(q)]), FALSE) : q \in Children(job.src)}

\* They are finitely many, and in order.
LEMMA InsideFacts ==
  ASSUME DiskType, NEW job \in Jobs, NEW dest \in Paths
  PROVE  IsFiniteSet(Inside(job, dest)) /\ Inside(job, dest) \subseteq Jobs
<1> DEFINE f == [q \in Children(job.src) |-> Job(q, Append(dest, q[Len(q)]), FALSE)]
<1>1. Children(job.src) \subseteq DOMAIN disk
  BY DEF Children
<1>2. IsFiniteSet(Children(job.src))
  BY <1>1, FS_Subset DEF DiskType
<1>3. f \in Surjection(Children(job.src), Inside(job, dest))
  BY DEF Surjection, Inside
<1>4. IsFiniteSet(Inside(job, dest))
  <2> HIDE DEF f
  <2> QED BY <1>2, <1>3, FS_Surjection
<1>5. ASSUME NEW q \in Children(job.src)
      PROVE  Job(q, Append(dest, q[Len(q)]), FALSE) \in Jobs
  <2>1. q \in Seq(Names) /\ q # <<>>
    BY <1>1 DEF DiskType, Paths
  <2>2. q[Len(q)] \in Names
    BY <2>1
  <2>3. Append(dest, q[Len(q)]) \in Paths /\ Len(Append(dest, q[Len(q)])) = Len(dest) + 1 /\ Len(dest) \in Nat
    BY <2>2, AppendFacts DEF Paths
  <2>4. Append(dest, q[Len(q)]) # <<>> /\ q \in Paths
    <3>1. Append(dest, q[Len(q)]) # <<>>
      BY <2>2 DEF Paths
    <3> QED BY <2>1, <3>1 DEF Paths
  <2> QED BY <2>1, <2>3, <2>4 DEF Job, Jobs
<1> QED BY <1>4, <1>5 DEF Inside

\* What a step of a move does.
LEMMA MoveItemSteps ==
  ASSUME MoveItem
  PROVE  /\ work # <<>> /\ pc = "move"
         /\ LET job == Head(work)
            IN  \E answer \in Answers(job) :
                  /\ Destination(job, answer)
                  /\ \/ answer = Skipped /\ work' = Tail(work) /\ disk' = disk /\ error' = error
                     \/ /\ answer # Skipped
                        /\ \/ work' = <<>> /\ error' = "fileexists" /\ disk' = disk
                           \/ /\ Exists(answer) /\ disk[answer].dir /\ Exists(job.src) /\ disk[job.src].dir
                              /\ work' = SetToSeq(Inside(job, answer)) \o Tail(work)
                              /\ disk' = disk /\ error' = error
                           \/ /\ ~(Exists(answer) /\ disk[answer].dir) /\ Exists(job.src)
                              /\ ~Clash(job, answer)
                              /\ disk' = Moved(job.src, answer) /\ work' = Tail(work) /\ error' = error
<1> DEFINE job == Head(work)
<1>1. work # <<>> /\ pc = "move"
  BY DEF MoveItem, Moving
<1>2. PICK answer \in Answers(job) :
        /\ Destination(job, answer)
        /\ IF answer = Skipped
             THEN work' = Tail(work) /\ UNCHANGED <<disk, error>>
             ELSE MoveTo(job, answer)
  BY DEF MoveItem
<1> HIDE DEF job
<1>3. CASE answer = Skipped
  BY <1>1, <1>2, <1>3 DEF job
<1>4. CASE answer # Skipped /\ (~Exists(job.src) \/ Clash(job, answer))
  <2>1. work' = <<>> /\ error' = "fileexists" /\ disk' = disk
    BY <1>2, <1>4 DEF MoveTo, GiveUp
  <2> QED BY <1>1, <1>2, <1>4, <2>1 DEF job
<1>5. CASE answer # Skipped /\ Exists(job.src) /\ ~Clash(job, answer) /\ Exists(answer) /\ disk[answer].dir
  <2>1. disk[job.src].dir = disk[answer].dir
    BY <1>5 DEF Clash
  <2>2. work' = SetToSeq(Inside(job, answer)) \o Tail(work) /\ disk' = disk /\ error' = error
    BY <1>2, <1>5 DEF MoveTo, Merge, Inside
  <2> QED BY <1>1, <1>2, <1>5, <2>1, <2>2 DEF job
<1>6. CASE answer # Skipped /\ Exists(job.src) /\ ~Clash(job, answer) /\ ~(Exists(answer) /\ disk[answer].dir)
  <2>1. disk' = Moved(job.src, answer) /\ work' = Tail(work) /\ error' = error
    BY <1>2, <1>6 DEF MoveTo
  <2> QED BY <1>1, <1>2, <1>6, <2>1 DEF job
<1> QED BY <1>3, <1>4, <1>5, <1>6

\* The head of the list of moves, and where it may go.
LEMMA JobFacts ==
  ASSUME TypeInv, work # <<>>
  PROVE  /\ Head(work) \in Jobs /\ Tail(work) \in Seq(Jobs)
         /\ \A answer \in Answers(Head(work)) : answer = Skipped \/ answer \in Paths \ {<<>>}
<1>1. Head(work) \in Jobs /\ Tail(work) \in Seq(Jobs)
  BY DEF TypeInv, PlaceType
<1>2. Head(work).dest \in Paths \ {<<>>}
  BY <1>1 DEF Jobs
<1>3. ASSUME NEW answer \in CheckPath(Head(work).dest)
      PROVE  answer = Skipped \/ answer \in Paths \ {<<>>}
  BY <1>2, CheckPathFacts DEF TypeInv, ConfigType, DiskType, Like
<1> QED BY <1>1, <1>2, <1>3 DEF Answers

\* The moves, and what is left of the enclosing directory.
LEMMA MovingTypes ==
  ASSUME TypeInv, MoveItem \/ MoveFails \/ MovesDone
  PROVE  ControlType' /\ DiskType' /\ RenamesType' /\ PlaceType' /\ OutcomeType'
<1>1. /\ walkVars' = walkVars /\ renames' = renames /\ soloVars' = soloVars /\ unpackdestination' = unpackdestination
      /\ originaldest' = originaldest /\ shouldstop' = shouldstop /\ numextracted' = numextracted
      /\ finaldestination' \in {finaldestination, Nowhere}
      /\ written' = written /\ configVars' = configVars /\ pc = "move" /\ pc' \in {"move", "returned"}
  BY DEF MoveItem, MoveFails, MovesDone, Moving, Finalize, Return, placeVars
<1>2. RenamesType'
  BY <1>1 DEF TypeInv, RenamesType, configVars
<1>3. ControlType'
  BY <1>1 DEF TypeInv, ControlType, walkVars, configVars
<1>4. setbacks' = setbacks \/ Setback
  BY DEF MoveItem, MoveFails, MovesDone, Finalize
<1>5. setbacks' \in 0..MaxSetbacks
  BY <1>4, MaxSetbacksAssumption DEF Setback, TypeInv, OutcomeType
<1>6. skips' \in BOOLEAN
  BY DEF MoveItem, MoveFails, MovesDone, Destination, Answer, TypeInv, OutcomeType, collisionVars
<1>7. error' \in {error, "fileexists"} /\ result' \in {result, error, "none", "attributes"}
  BY MoveItemSteps DEF MoveItem, MoveFails, MovesDone, Finalize, Return
<1>8. OutcomeType'
  BY <1>1, <1>5, <1>6, <1>7 DEF TypeInv, OutcomeType, soloVars
<1>9. work' \in Seq(Jobs) /\ DiskType'
  <2>1. CASE MoveItem
    <3>1. work # <<>> /\ Head(work) \in Jobs /\ Tail(work) \in Seq(Jobs)
      BY <2>1, MoveItemSteps, JobFacts
    <3>2. PICK answer \in Answers(Head(work)) :
            \/ work' = Tail(work) /\ disk' = disk
            \/ work' = <<>> /\ disk' = disk
            \/ answer # Skipped /\ work' = SetToSeq(Inside(Head(work), answer)) \o Tail(work) /\ disk' = disk
            \/ answer # Skipped /\ disk' = Moved(Head(work).src, answer) /\ work' = Tail(work)
      BY <2>1, MoveItemSteps
    <3>3. answer # Skipped => answer \in Paths \ {<<>>}
      BY <3>1, JobFacts
    <3>4. disk' = disk => DiskType'
      BY DEF TypeInv, DiskType
    <3>5. CASE answer # Skipped /\ work' = SetToSeq(Inside(Head(work), answer)) \o Tail(work) /\ disk' = disk
      <4>1. IsFiniteSet(Inside(Head(work), answer)) /\ Inside(Head(work), answer) \subseteq Jobs
        BY <3>1, <3>3, <3>5, InsideFacts DEF TypeInv
      <4>2. SetToSeq(Inside(Head(work), answer)) \in Seq(Inside(Head(work), answer))
        BY <4>1, SetToSeqFacts
      <4>3. SetToSeq(Inside(Head(work), answer)) \in Seq(Jobs)
        BY <4>1, <4>2
      <4> QED BY <3>1, <3>4, <3>5, <4>3
    <3>6. CASE answer # Skipped /\ disk' = Moved(Head(work).src, answer) /\ work' = Tail(work)
      BY <3>1, <3>3, <3>6, MovedType DEF TypeInv, Jobs
    <3>7. <<>> \in Seq(Jobs)
      OBVIOUS
    <3> QED BY <3>1, <3>2, <3>4, <3>5, <3>6, <3>7
  <2>2. CASE MoveFails
    <3>1. work' = <<>>
      BY <2>2 DEF MoveFails
    <3>2. PICK answer : disk' = disk \/ disk' = Removed(answer)
      BY <2>2 DEF MoveFails
    <3>3. disk' = disk => DiskType'
      BY DEF TypeInv, DiskType
    <3> QED BY <3>1, <3>2, <3>3, RemovedType DEF TypeInv
  <2>3. CASE MovesDone
    <3>1. work' = work /\ (disk' = disk \/ disk' = Removed(<<Temporary>>))
      BY <2>3 DEF MovesDone
    <3>2. disk' = disk => DiskType'
      BY DEF TypeInv, DiskType
    <3> QED BY <3>1, <3>2, RemovedType DEF TypeInv, PlaceType
  <2> QED BY <2>1, <2>2, <2>3
<1>10. PlaceType'
  BY <1>1, <1>9 DEF TypeInv, PlaceType, configVars
<1> QED BY <1>2, <1>3, <1>8, <1>9, <1>10

\* Every step keeps the types.
LEMMA TypeStep == TypeInv /\ [Next]_vars => TypeInv'
<1> SUFFICES ASSUME TypeInv, [Next]_vars PROVE TypeInv'
  OBVIOUS
<1>1. ConfigType'
  BY ConfigStep DEF TypeInv, ConfigType, configVars
<1>2. CASE UNCHANGED vars
  <2> USE <1>2 DEF vars, configVars, walkVars, soloVars, placeVars, collisionVars
  <2>1. DiskType'
    BY DEF TypeInv, DiskType
  <2>2. ControlType'
    BY DEF TypeInv, ControlType, Entry
  <2>3. RenamesType'
    BY DEF TypeInv, RenamesType
  <2>4. PlaceType'
    BY DEF TypeInv, PlaceType, SoloKnown, TopPaths, TopNames
  <2>5. OutcomeType'
    BY DEF TypeInv, OutcomeType
  <2> QED BY <1>1, <2>1, <2>2, <2>3, <2>4, <2>5 DEF TypeInv
<1>3. CASE Next
  <2>1. ControlType' /\ DiskType' /\ RenamesType' /\ PlaceType' /\ OutcomeType'
    BY <1>3, BeginTypes, WalkTypes, ExtractTypes, EntriesDoneTypes, PlacingTypes, MovingTypes DEF Next, Extract
  <2> QED BY <1>1, <2>1 DEF TypeInv
<1> QED BY <1>2, <1>3

\* The types hold at the start.
LEMMA TypeInit == Init => TypeInv
<1> SUFFICES ASSUME Init PROVE TypeInv
  OBVIOUS
<1>1. ConfigType
  BY DEF Init, ConfigType
<1>2. DiskType
  <2>1. before \in Disks /\ disk = before
    BY DEF Init
  <2>2. \A d \in Disks : /\ IsFiniteSet(DOMAIN d) /\ DOMAIN d \subseteq Paths \ {<<>>}
                         /\ \A p \in DOMAIN d : d[p] \in {Node(TRUE, 0), Node(FALSE, 0)}
    BY DisksAssumption
  <2>3. IsNode(Node(TRUE, 0)) /\ IsNode(Node(FALSE, 0))
    BY DEF IsNode, Node
  <2> QED BY <2>1, <2>2, <2>3 DEF DiskType
<1>3. ControlType
  <2>1. archive \in Seq(EntryType) /\ archive # <<>>
    BY ArchivesAssumption DEF Init
  <2>2. Len(archive) \in Nat \ {0}
    BY <2>1
  <2>3. pc = "begin" /\ i = 1 /\ path = Nowhere /\ numextracted = 0
    BY DEF Init
  <2> QED BY <2>2, <2>3, NameFacts DEF ControlType
<1>4. RenamesType
  <2>1. renames = <<>> /\ written = <<>>
    BY DEF Init
  <2>2. DOMAIN <<>> = {}
    OBVIOUS
  <2> QED BY <2>1, <2>2 DEF RenamesType
<1>5. PlaceType
  <2>1. /\ unpackdestination = Nowhere /\ originaldest = Nowhere /\ finaldestination = Nowhere
        /\ pc = "begin" /\ work = <<>>
    BY DEF Init
  <2>2. work \in Seq(Jobs)
    BY <2>1
  <2> QED BY <2>1, <2>2 DEF PlaceType
<1>6. OutcomeType
  <2>1. lookslikesolo \in BOOLEAN /\ shouldstop \in BOOLEAN /\ skips \in BOOLEAN
    BY DEF Init
  <2>2. error = "none" /\ result = "none" /\ setbacks = 0
    BY DEF Init
  <2> QED BY <2>1, <2>2, MaxSetbacksAssumption DEF OutcomeType
<1> QED BY <1>1, <1>2, <1>3, <1>4, <1>5, <1>6 DEF TypeInv

\* The types are an invariant.
LEMMA Types == Spec => []TypeInv
BY TypeInit, TypeStep, PTL DEF Spec

-----------------------------------------------------------------------------
(***************************************************************************)
(* Where the paths of the archive are on the disk.  What the walk answers  *)
(* for a path lies below the answer for the directory it is in, and no     *)
(* answer is ever changed.                                                 *)
(***************************************************************************)
\* q is at the place of w below the directory that is unpacked into.
Placed(w, q) ==
  /\ Len(q) = Len(unpackdestination) + Len(w)
  /\ IsPrefix(unpackdestination, q)
  /\ \A m \in 1..Len(w) :
       /\ q[Len(unpackdestination) + m].text = w[m].text
       /\ q[Len(unpackdestination) + m].fork = w[m].fork
       /\ w[m].text # Temporary.text /\ w[m].number = 0

\* So are the directories around it.
Chained(w) ==
  \A m \in 1..Len(w) :
    /\ SubSeq(w, 1, m) \in DOMAIN renames
    /\ renames[SubSeq(w, 1, m)] = SubSeq(renames[w], 1, Len(unpackdestination) + m)

RenamesInv ==
  \A w \in DOMAIN renames : renames[w] # Skipped => Placed(w, renames[w]) /\ Chained(w)

WalkInv ==
  pc \in {"walk", "extract"} =>
    \/ c = 1 /\ path = unpackdestination
    \/ /\ c > 1 /\ path # Skipped
       /\ SubSeq(Adjusted(Entry), 1, c - 1) \in DOMAIN renames
       /\ path = renames[SubSeq(Adjusted(Entry), 1, c - 1)]

WrittenInv ==
  \A j \in DOMAIN written :
    /\ Adjusted(archive[j]) \in DOMAIN renames
    /\ written[j] = renames[Adjusted(archive[j])] /\ written[j] # Skipped

TreeInv ==
  /\ RenamesInv /\ WalkInv /\ WrittenInv
  /\ pc = "begin" => DOMAIN renames = {} /\ DOMAIN written = {}

\* What a step has to leave alone, to leave the tree alone.
LEMMA TreeQuiet ==
  ASSUME TreeInv, unpackdestination' = unpackdestination, renames' = renames, written' = written,
         configVars' = configVars, pc' # "begin", WalkInv'
  PROVE  TreeInv'
BY DEF TreeInv, RenamesInv, Placed, Chained, WrittenInv, configVars

\* The answer for a new path is at its place.
LEMMA WalkNewPlaced ==
  ASSUME TypeInv, TreeInv, WalkNew,
         NEW answer \in CheckPath(Append(path, Adjusted(Entry)[c])), answer # Skipped,
         renames' = Extended(renames, Walked, answer)
  PROVE  /\ Placed(Walked, answer)
         /\ \A m \in 1..Len(Walked) :
              /\ SubSeq(Walked, 1, m) \in DOMAIN renames'
              /\ renames'[SubSeq(Walked, 1, m)] = SubSeq(answer, 1, Len(unpackdestination) + m)
<1> DEFINE p == Append(path, Adjusted(Entry)[c])
           d == Len(unpackdestination)
           a == Adjusted(Entry)
<1>1. /\ i \in 1..Len(archive) /\ c \in 1..Len(Entry.path) /\ c \in Nat \ {0} /\ path \in Paths /\ d \in Nat
      /\ unpackdestination \in Paths /\ pc = "walk" /\ Walked \notin DOMAIN renames
  <2>1. unpackdestination \in Paths
    BY NameFacts DEF TypeInv, PlaceType
  <2>2. pc = "walk" /\ c <= Len(Entry.path) /\ ~Known
    BY DEF WalkNew
  <2>3. i \in 1..Len(archive) /\ c \in 1..Len(Entry.path) + 1 /\ path \in Paths
    BY <2>2 DEF TypeInv, ControlType
  <2>4. Len(Entry.path) \in Nat
    BY <2>3, EntryFacts DEF TypeInv, Entry
  <2> QED BY <2>1, <2>2, <2>3, <2>4 DEF Known, Paths
<1>2. /\ a \in Paths /\ Len(a) = Len(Entry.path) /\ Len(Entry.path) \in Nat
      /\ \A m \in 1..Len(Entry.path) : a[m] \in Names /\ a[m].text # Temporary.text /\ a[m].number = 0
  BY <1>1, EntryFacts DEF TypeInv, Entry
<1>3. /\ p \in Paths \ {<<>>} /\ Len(p) = Len(path) + 1 /\ p[Len(path) + 1] = a[c] /\ Len(path) \in Nat
      /\ \A m \in 0..Len(path) : SubSeq(p, 1, m) = SubSeq(path, 1, m)
  <2>1. Append(path, Adjusted(Entry)[c]) \in Paths \ {<<>>}
    BY <1>1, WalkFacts DEF TypeInv
  <2> QED BY <1>1, <1>2, <2>1, AppendFacts DEF Paths
<1>4. /\ Walked = SubSeq(a, 1, c) /\ Walked \in Paths /\ Len(Walked) = c
      /\ \A m \in 1..c : Walked[m] = a[m]
      /\ \A m \in 0..c : SubSeq(Walked, 1, m) = SubSeq(a, 1, m)
  <2>1. c \in 0..Len(a)
    BY <1>1, <1>2
  <2> QED BY <1>2, <2>1, SubSeqFacts, SubSeqSubSeq DEF Walked
<1> HIDE DEF p, d, a
<1>5. Like(answer, p)
  BY <1>3, CheckPathFacts DEF TypeInv, ConfigType, DiskType, p
<1>6. \A m \in 1..Len(path) : answer[m] = path[m]
  <2>1. \A m \in 1..Len(path) : p[m] = path[m]
    <3>1. \A m \in 1..Len(path) : SubSeq(p, 1, Len(path))[m] = p[m] /\ SubSeq(path, 1, Len(path))[m] = path[m]
      BY <1>1, <1>3, SubSeqFacts
    <3> QED BY <1>3, <3>1
  <2> QED BY <1>3, <1>5, <2>1 DEF Like
<1>7. /\ answer \in Paths /\ Len(answer) = Len(path) + 1 /\ Len(path) \in 0..Len(answer)
      /\ answer[Len(path) + 1].text = a[c].text /\ answer[Len(path) + 1].fork = a[c].fork
  BY <1>3, <1>5 DEF Like
<1>8. \A m \in 0..Len(path) : SubSeq(answer, 1, m) = SubSeq(path, 1, m)
  <2>1. ASSUME NEW m \in 0..Len(path) PROVE SubSeq(answer, 1, m) = SubSeq(path, 1, m)
    <3>1. m \in 0..Len(answer) /\ m \in Nat /\ Len(answer) \in Nat
      BY <1>3, <1>7
    <3> QED BY <1>1, <1>6, <3>1, <1>7, SubSeqFacts, SamePath
  <2> QED BY <2>1
\* The path so far: the directory unpacked into, or a placed one.
<1>9. /\ Len(path) = d + (c - 1) /\ IsPrefix(unpackdestination, path)
      /\ \A m \in 1..c - 1 : path[d + m].text = a[m].text /\ path[d + m].fork = a[m].fork
      /\ \A m \in 1..c - 1 : /\ SubSeq(a, 1, m) \in DOMAIN renames
                             /\ renames[SubSeq(a, 1, m)] = SubSeq(path, 1, d + m)
  <2>1. CASE c = 1 /\ path = unpackdestination
    BY <1>1, <2>1, PrefixFacts DEF d
  <2>2. CASE /\ c > 1 /\ path # Skipped
             /\ SubSeq(Adjusted(Entry), 1, c - 1) \in DOMAIN renames
             /\ path = renames[SubSeq(Adjusted(Entry), 1, c - 1)]
    <3> DEFINE w == SubSeq(a, 1, c - 1)
    <3>1. w \in DOMAIN renames /\ path = renames[w] /\ renames[w] # Skipped
      BY <2>2 DEF a
    <3>2. Placed(w, path) /\ Chained(w)
      BY <3>1 DEF TreeInv, RenamesInv
    <3>3. c - 1 \in 0..Len(a) /\ c - 1 \in Nat
      BY <1>1, <1>2
    <3>4. Len(w) = c - 1 /\ (\A m \in 1..c - 1 : w[m] = a[m]) /\ \A m \in 0..c - 1 : SubSeq(w, 1, m) = SubSeq(a, 1, m)
      BY <1>2, <3>3, SubSeqFacts, SubSeqSubSeq
    <3> HIDE DEF w
    <3>5. /\ Len(path) = d + (c - 1) /\ IsPrefix(unpackdestination, path)
          /\ \A m \in 1..c - 1 : path[d + m].text = a[m].text /\ path[d + m].fork = a[m].fork
      BY <3>2, <3>4 DEF Placed, d
    <3>6. ASSUME NEW m \in 1..c - 1
          PROVE  SubSeq(a, 1, m) \in DOMAIN renames /\ renames[SubSeq(a, 1, m)] = SubSeq(path, 1, d + m)
      <4>1. m \in 1..Len(w) /\ SubSeq(w, 1, m) = SubSeq(a, 1, m)
        BY <3>3, <3>4
      <4>2. SubSeq(w, 1, m) \in DOMAIN renames
            /\ renames[SubSeq(w, 1, m)] = SubSeq(renames[w], 1, Len(unpackdestination) + m)
        BY <3>2, <4>1 DEF Chained
      <4> QED BY <3>1, <4>1, <4>2 DEF d
    <3> QED BY <3>5, <3>6
  <2> QED BY <1>1, <2>1, <2>2 DEF TreeInv, WalkInv
<1>10. Placed(Walked, answer)
  <2>1. Len(answer) = d + c
    BY <1>1, <1>3, <1>7, <1>9
  <2>2. IsPrefix(unpackdestination, answer)
    <3>1. d <= Len(path) /\ \A m \in 1..d : unpackdestination[m] = path[m]
      BY <1>1, <1>9, PrefixFacts DEF d
    <3>2. d <= Len(answer) /\ \A m \in 1..d : unpackdestination[m] = answer[m]
      BY <1>1, <1>3, <1>6, <1>7, <3>1
    <3> QED BY <1>1, <1>7, <3>2, PrefixFacts DEF d
  <2>3. ASSUME NEW m \in 1..c
        PROVE  /\ answer[d + m].text = Walked[m].text /\ answer[d + m].fork = Walked[m].fork
               /\ Walked[m].text # Temporary.text /\ Walked[m].number = 0
    <3>1. Walked[m] = a[m] /\ a[m].text # Temporary.text /\ a[m].number = 0
      BY <1>1, <1>2, <1>4
    <3>2. CASE m = c
      <4>1. d + m = Len(path) + 1
        BY <1>1, <1>9, <3>2
      <4> QED BY <1>7, <3>1, <3>2, <4>1
    <3>3. CASE m \in 1..c - 1
      <4>1. d + m \in 1..Len(path)
        BY <1>1, <1>9, <3>3
      <4> QED BY <1>6, <1>9, <3>1, <3>3, <4>1
    <3>4. m = c \/ m \in 1..c - 1
      BY <1>1
    <3> QED BY <3>2, <3>3, <3>4
  <2> QED BY <1>4, <2>1, <2>2, <2>3 DEF Placed, d
<1>11. ASSUME NEW m \in 1..c
       PROVE  /\ SubSeq(Walked, 1, m) \in DOMAIN renames'
              /\ renames'[SubSeq(Walked, 1, m)] = SubSeq(answer, 1, d + m)
  <2>1. /\ Walked \in DOMAIN renames' /\ renames'[Walked] = answer
        /\ \A w \in DOMAIN renames : w \in DOMAIN renames' /\ (w # Walked => renames'[w] = renames[w])
    BY DEF Extended
  <2>2. CASE m = c
    <3>1. SubSeq(Walked, 1, m) = Walked
      BY <1>4, <2>2, SubSeqSubSeq
    <3>2. d + m = Len(answer)
      BY <1>1, <1>3, <1>7, <1>9, <2>2
    <3>3. SubSeq(answer, 1, Len(answer)) = answer
      BY <1>7 DEF Paths
    <3> QED BY <2>1, <3>1, <3>2, <3>3
  <2>3. CASE m \in 1..c - 1
    <3>1. SubSeq(Walked, 1, m) = SubSeq(a, 1, m) /\ d + m \in 0..Len(path)
      BY <1>1, <1>4, <1>9, <2>3
    <3>2. SubSeq(a, 1, m) \in DOMAIN renames /\ SubSeq(a, 1, m) # Walked
          /\ renames[SubSeq(a, 1, m)] = SubSeq(path, 1, d + m)
      BY <1>1, <1>9, <2>3
    <3> QED BY <1>8, <2>1, <3>1, <3>2
  <2>4. m = c \/ m \in 1..c - 1
    BY <1>1
  <2> QED BY <2>2, <2>3, <2>4
<1> QED BY <1>4, <1>10, <1>11 DEF d

\* Another answer leaves the tree as it was.
LEMMA WalkNewTree ==
  ASSUME TypeInv, TreeInv, WalkNew
  PROVE  TreeInv'
<1> DEFINE p == Append(path, Adjusted(Entry)[c])
<1>1. /\ placeVars' = placeVars /\ configVars' = configVars /\ written' = written
      /\ pc = "walk" /\ Walked \notin DOMAIN renames /\ c <= Len(Entry.path)
  BY DEF WalkNew, Known
<1>2. PICK answer \in CheckPath(p) :
        /\ renames' = Extended(renames, Walked, answer)
        /\ \/ answer = Skipped /\ pc' = "next"
           \/ answer # Skipped /\ pc' = "walk" /\ i' = i /\ path' = answer /\ c' = c + 1
  BY <1>1 DEF WalkNew, PassOver
<1>3. PICK W : W = Walked
  OBVIOUS
<1>4. /\ DOMAIN renames' = DOMAIN renames \cup {W} /\ renames'[W] = answer /\ W \notin DOMAIN renames
      /\ \A w \in DOMAIN renames : renames'[w] = renames[w]
  BY <1>1, <1>2, <1>3 DEF Extended
<1>5. i \in 1..Len(archive) /\ c \in 1..Len(Entry.path) /\ path \in Paths /\ c \in Nat
  <2>1. i \in 1..Len(archive) /\ c \in 1..Len(Entry.path) + 1 /\ path \in Paths
    BY <1>1 DEF TypeInv, ControlType
  <2>2. Len(Entry.path) \in Nat
    BY <2>1, EntryFacts DEF TypeInv, Entry
  <2> QED BY <1>1, <2>1, <2>2
<1>6. unpackdestination' = unpackdestination /\ archive' = archive
  BY <1>1 DEF placeVars, configVars
<1>7. RenamesInv'
  <2>1. ASSUME NEW w \in DOMAIN renames, renames[w] # Skipped
        PROVE  (Placed(w, renames[w]) /\ Chained(w))'
    <3>1. Placed(w, renames[w]) /\ Chained(w)
      BY <2>1 DEF TreeInv, RenamesInv
    <3>2. Placed(w, renames[w])'
      BY <1>4, <1>6, <3>1 DEF Placed
    <3>3. Chained(w)'
      BY <1>4, <1>6, <3>1 DEF Chained
    <3> QED BY <3>2, <3>3
  <2>2. ASSUME answer # Skipped PROVE (Placed(W, renames[W]) /\ Chained(W))'
    <3>1. /\ Placed(W, answer)
          /\ \A m \in 1..Len(W) :
               /\ SubSeq(W, 1, m) \in DOMAIN renames'
               /\ renames'[SubSeq(W, 1, m)] = SubSeq(answer, 1, Len(unpackdestination) + m)
      BY <1>2, <1>3, <2>2, WalkNewPlaced
    <3>2. Placed(W, renames[W])'
      BY <1>4, <1>6, <3>1 DEF Placed
    <3>3. Chained(W)'
      BY <1>4, <1>6, <3>1 DEF Chained
    <3> QED BY <3>2, <3>3
  <2>3. ASSUME NEW w \in DOMAIN renames', renames'[w] # Skipped
        PROVE  (Placed(w, renames[w]) /\ Chained(w))'
    BY <1>4, <2>1, <2>2, <2>3
  <2> QED BY <2>3 DEF RenamesInv
<1>8. WalkInv'
  <2>1. CASE answer = Skipped /\ pc' = "next"
    BY <2>1 DEF WalkInv
  <2>2. CASE answer # Skipped /\ pc' = "walk" /\ i' = i /\ path' = answer /\ c' = c + 1
    <3>1. Adjusted(Entry)' = Adjusted(Entry)
      BY <1>6, <2>2 DEF Adjusted, Entry
    <3>2. c' - 1 = c /\ c' > 1
      BY <1>5, <2>2
    <3>3. SubSeq(Adjusted(Entry)', 1, c' - 1) = W
      BY <1>3, <3>1, <3>2 DEF Walked
    <3> QED BY <1>4, <2>2, <3>2, <3>3 DEF WalkInv
  <2> QED BY <1>2, <2>1, <2>2
<1>9. WrittenInv'
  <2>1. ASSUME NEW j \in DOMAIN written
        PROVE  /\ Adjusted(archive[j]) \in DOMAIN renames'
               /\ written[j] = renames'[Adjusted(archive[j])] /\ written[j] # Skipped
    BY <1>4 DEF TreeInv, WrittenInv
  <2>2. \A j : Adjusted(archive'[j]) = Adjusted(archive[j])
    BY <1>6
  <2> QED BY <1>1, <1>6, <2>1, <2>2 DEF WrittenInv
<1>10. pc' # "begin"
  BY <1>2
<1> QED BY <1>7, <1>8, <1>9, <1>10 DEF TreeInv

\* The walk, and the extraction of its entry, keep the tree.
LEMMA WalkTree ==
  ASSUME TypeInv, TreeInv, NextEntry \/ RuleOut \/ WalkKnown \/ WalkEnds
  PROVE  TreeInv'
<1>1. /\ unpackdestination' = unpackdestination /\ renames' = renames /\ written' = written
      /\ configVars' = configVars /\ archive' = archive
      /\ pc' \in {"next", "walk", "extract", "returned"}
  BY DEF NextEntry, RuleOut, WalkKnown, WalkEnds, PassOver, Return, placeVars, configVars, Known
<1>2. i' = i => Entry' = Entry /\ Adjusted(Entry)' = Adjusted(Entry)
  BY <1>1 DEF Entry, Adjusted
<1>3. WalkInv'
  <2>1. CASE NextEntry
    <3>1. \/ pc' = "returned"
          \/ c' = 1 /\ path' = unpackdestination
      BY <2>1 DEF NextEntry, Return, Start
    <3> QED BY <1>1, <3>1 DEF WalkInv
  <2>2. CASE RuleOut
    BY <2>2 DEF WalkInv, RuleOut, PassOver
  <2>3. CASE WalkEnds
    <3>1. pc = "walk" /\ i' = i /\ c' = c /\ path' = path
      BY <2>3 DEF WalkEnds, walkVars
    <3> QED BY <1>1, <1>2, <3>1 DEF TreeInv, WalkInv
  <2>4. CASE WalkKnown
    <3>1. /\ pc = "walk" /\ c <= Len(Entry.path) /\ Walked \in DOMAIN renames
          /\ \/ pc' = "next"
             \/ renames[Walked] # Skipped /\ pc' = "walk" /\ i' = i /\ path' = renames[Walked] /\ c' = c + 1
      BY <2>4 DEF WalkKnown, Known, PassOver
    <3>2. c \in Nat \ {0}
      BY <3>1 DEF TypeInv, ControlType
    <3>3. CASE renames[Walked] # Skipped /\ pc' = "walk" /\ i' = i /\ path' = renames[Walked] /\ c' = c + 1
      <4>1. c' - 1 = c /\ c' > 1
        BY <3>2, <3>3
      <4>2. SubSeq(Adjusted(Entry)', 1, c' - 1) = Walked
        BY <1>2, <3>3, <4>1 DEF Walked
      <4> QED BY <1>1, <3>1, <3>3, <4>1, <4>2 DEF WalkInv
    <3> QED BY <3>1, <3>3 DEF WalkInv
  <2> QED BY <2>1, <2>2, <2>3, <2>4
<1> QED BY <1>1, <1>3, TreeQuiet

\* An entry is written at the path of its walk.
LEMMA ExtractTree ==
  ASSUME TypeInv, TreeInv, ExtractEntry
  PROVE  TreeInv'
<1>1. /\ pc = "extract" /\ pc' = "next" /\ unpackdestination' = unpackdestination
      /\ renames' = renames /\ archive' = archive /\ written' = Extended(written, i, path)
  BY DEF ExtractEntry, PassOver, placeVars, configVars
<1>2. /\ i \in 1..Len(archive) /\ c = Len(Entry.path) + 1 /\ Len(Entry.path) \in Nat \ {0}
      /\ Adjusted(Entry) \in Paths /\ Len(Adjusted(Entry)) = Len(Entry.path)
  <2>1. i \in 1..Len(archive) /\ c = Len(Entry.path) + 1
    BY <1>1 DEF TypeInv, ControlType
  <2> QED BY <2>1, EntryFacts DEF TypeInv, Entry
<1>3. /\ Adjusted(Entry) \in DOMAIN renames /\ path = renames[Adjusted(Entry)] /\ path # Skipped
  <2>1. c # 1 /\ c - 1 = Len(Adjusted(Entry))
    BY <1>2
  <2>2. SubSeq(Adjusted(Entry), 1, c - 1) = Adjusted(Entry)
    BY <1>2, <2>1, SubSeqSubSeq
  <2>3. /\ SubSeq(Adjusted(Entry), 1, c - 1) \in DOMAIN renames
        /\ path = renames[SubSeq(Adjusted(Entry), 1, c - 1)] /\ path # Skipped
    BY <1>1, <2>1 DEF TreeInv, WalkInv
  <2> QED BY <2>2, <2>3
<1>4. RenamesInv'
  BY <1>1 DEF TreeInv, RenamesInv, Placed, Chained
<1>5. WrittenInv'
  <2>1. ASSUME NEW j \in DOMAIN written \cup {i}
        PROVE  /\ Adjusted(archive[j]) \in DOMAIN renames
               /\ written'[j] = renames[Adjusted(archive[j])] /\ written'[j] # Skipped
    <3>1. CASE j = i
      BY <1>1, <1>3, <3>1 DEF Extended, Entry
    <3>2. CASE j # i /\ j \in DOMAIN written
      BY <1>1, <3>2 DEF Extended, TreeInv, WrittenInv
    <3> QED BY <3>1, <3>2
  <2>2. DOMAIN written' = DOMAIN written \cup {i}
    BY <1>1 DEF Extended
  <2>3. \A j : Adjusted(archive'[j]) = Adjusted(archive[j])
    BY <1>1
  <2> QED BY <1>1, <2>1, <2>2, <2>3 DEF WrittenInv
<1>6. WalkInv'
  BY <1>1 DEF WalkInv
<1> QED BY <1>1, <1>4, <1>5, <1>6 DEF TreeInv

\* At the start the tree is empty.
LEMMA BeginTree ==
  ASSUME TreeInv, BeginRegular \/ BeginSub
  PROVE  TreeInv'
<1>1. /\ renames' = renames /\ written' = written /\ pc = "begin" /\ pc' \in {"next", "returned"}
  BY DEF BeginRegular, BeginSub, UnpackChecked, UnpackBeside, UnpackInto, Return
<1>2. DOMAIN renames' = {} /\ DOMAIN written' = {}
  BY <1>1 DEF TreeInv
<1> QED BY <1>1, <1>2 DEF TreeInv, RenamesInv, WalkInv, WrittenInv

\* Every step keeps the tree.
LEMMA TreeStep == TypeInv /\ TreeInv /\ [Next]_vars => TreeInv'
<1> SUFFICES ASSUME TypeInv, TreeInv, [Next]_vars PROVE TreeInv'
  OBVIOUS
<1>1. CASE UNCHANGED vars
  BY <1>1 DEF vars, configVars, walkVars, placeVars, TreeInv, RenamesInv, Placed, Chained, WalkInv, WrittenInv, Entry
<1>2. configVars' = configVars
  BY ConfigStep
<1>3. CASE ExtractFails \/ ExtractStopped \/ SubFails
  <2>1. /\ unpackdestination' = unpackdestination /\ renames' = renames /\ written' = written
        /\ pc' \in {"next", "returned"}
    BY <1>3 DEF ExtractFails, ExtractStopped, SubFails, PassOver, Return, placeVars
  <2> QED BY <1>2, <2>1, TreeQuiet DEF WalkInv
<1>4. CASE EntriesDone \/ RenameEnclosing \/ SoloUnknown \/ PlaceSolo \/ Replace
  <2>1. /\ unpackdestination' = unpackdestination /\ renames' = renames /\ written' = written
        /\ pc' \in {"solo", "place", "replace", "move", "returned"}
    BY <1>4 DEF EntriesDone, RenameEnclosing, SoloUnknown, PlaceSolo, Replace, Finalize, Return, placeVars
  <2> QED BY <1>2, <2>1, TreeQuiet DEF WalkInv
<1>5. CASE MoveItem \/ MoveFails \/ MovesDone
  <2>1. /\ unpackdestination' = unpackdestination /\ renames' = renames /\ written' = written
        /\ pc' \in {"move", "returned"}
    BY <1>5 DEF MoveItem, MoveFails, MovesDone, Moving, Finalize, Return, placeVars
  <2> QED BY <1>2, <2>1, TreeQuiet DEF WalkInv
<1> QED BY <1>1, <1>3, <1>4, <1>5, BeginTree, WalkTree, WalkNewTree, ExtractTree DEF Next, Extract

\* The types and the tree are an invariant.
LEMMA Tree == Spec => [](TypeInv /\ TreeInv)
<1>1. Init => TreeInv
  <2> SUFFICES ASSUME Init PROVE TreeInv
    OBVIOUS
  <2>1. renames = <<>> /\ written = <<>> /\ pc = "begin"
    BY DEF Init
  <2>2. DOMAIN <<>> = {}
    OBVIOUS
  <2> QED BY <2>1, <2>2 DEF TreeInv, RenamesInv, WalkInv, WrittenInv
<1> QED BY <1>1, TypeInit, TypeStep, TreeStep, PTL DEF Spec

\* FoldersStayWhole: two entries of the same directory of the archive are
\* extracted to the same directory, because the directories around an answer
\* are the answers for the directories around its path.
THEOREM FoldersWhole == Spec => []FoldersStayWhole
<1>1. TypeInv /\ TreeInv => FoldersStayWhole
  <2> SUFFICES ASSUME TypeInv, TreeInv PROVE FoldersStayWhole
    OBVIOUS
  <2> DEFINE A(j) == Adjusted(archive[j])
             Ancestor(j, m) == SubSeq(written[j], 1, Len(written[j]) - Len(archive[j].path) + m)
  <2>1. ASSUME NEW j \in DOMAIN written, NEW m \in 1..Len(archive[j].path)
        PROVE  Ancestor(j, m) = renames[SubSeq(A(j), 1, m)]
    <3>1. A(j) \in DOMAIN renames /\ written[j] = renames[A(j)] /\ renames[A(j)] # Skipped
      BY DEF TreeInv, WrittenInv
    <3>2. Placed(A(j), renames[A(j)]) /\ Chained(A(j))
      BY <3>1 DEF TreeInv, RenamesInv
    <3>3. Len(A(j)) = Len(archive[j].path) /\ Len(A(j)) \in Nat
      <4>1. j \in 1..Len(archive)
        BY DEF TypeInv, RenamesType
      <4> QED BY <4>1, EntryFacts DEF TypeInv
    <3>4. Len(unpackdestination) \in Nat
      <4>1. unpackdestination \in Paths
        BY NameFacts DEF TypeInv, PlaceType
      <4> QED BY <4>1 DEF Paths
    <3>5. Len(written[j]) - Len(archive[j].path) = Len(unpackdestination)
      <4>1. Len(written[j]) = Len(unpackdestination) + Len(A(j))
        BY <3>1, <3>2 DEF Placed
      <4> QED BY <3>3, <3>4, <4>1
    <3>6. renames[SubSeq(A(j), 1, m)] = SubSeq(renames[A(j)], 1, Len(unpackdestination) + m)
      BY <3>2, <3>3 DEF Chained
    <3> QED BY <3>1, <3>5, <3>6
  <2> HIDE DEF A
  <2>2. ASSUME NEW j \in DOMAIN written, NEW k \in DOMAIN written,
               NEW m \in (1..Len(archive[j].path)) \cap (1..Len(archive[k].path)),
               SubSeq(A(j), 1, m) = SubSeq(A(k), 1, m)
        PROVE  Ancestor(j, m) = Ancestor(k, m)
    <3> HIDE DEF Ancestor
    <3> QED BY <2>1, <2>2
  <2> QED BY <2>2 DEF FoldersStayWhole, A
<1> QED BY <1>1, Tree, PTL

-----------------------------------------------------------------------------
(***************************************************************************)
(* The disk is a tree, also while what was unpacked is being moved, and    *)
(* nothing has the temporary name but an enclosing directory on the way.   *)
(***************************************************************************)
\* Everything on the disk has a directory around it.
IsDir(p) == Exists(p) /\ disk[p].dir
Closed == \A p \in DOMAIN disk : \A q \in Parents(p) : IsDir(q)

\* The name of the directory that everything is moved out of.
FromDir == IF lookslikesolo THEN Temporary ELSE unpackdestination[1]

\* A job moves something out of that directory, into one that exists.
Bound(job) ==
  /\ job.src[1] = FromDir /\ job.dest[1] # FromDir /\ job.dest[1].text # Temporary.text
  /\ ~job.checked => Len(job.dest) > 1
  /\ \A q \in Parents(job.dest) : IsDir(q)

MoveInv == pc = "move" => \A job \in ToSet(work) : Bound(job)

PhaseInv ==
  /\ pc \in {"solo", "place"} => lookslikesolo
  /\ pc = "replace" => ~lookslikesolo
  /\ pc = "move" => sub /\ enclosingdir /\ removesolo

TemporaryInv ==
  \A p \in DOMAIN disk :
    p[1].text = Temporary.text =>
      /\ p[1] = Temporary
      /\ pc = "place" \/ (pc = "move" /\ lookslikesolo) \/ (pc = "returned" /\ result = "raised")

DiskInv == Closed /\ MoveInv /\ PhaseInv /\ TemporaryInv


\* A path has a first name, which what is below it shares.
LEMMA FirstName ==
  ASSUME NEW p \in Paths \ {<<>>}
  PROVE  /\ Len(p) \in Nat \ {0} /\ p[1] \in Names
         /\ \A q \in Paths : IsPrefix(p, q) => q # <<>> /\ q[1] = p[1] /\ Len(p) <= Len(q)
<1>1. \A r \in Seq(Names) : r # <<>> => Len(r) \in Nat \ {0} /\ r[1] \in Names
  OBVIOUS
<1>2. Len(p) \in Nat \ {0} /\ p[1] \in Names
  BY <1>1 DEF Paths
<1>3. ASSUME NEW q \in Paths, IsPrefix(p, q) PROVE q # <<>> /\ q[1] = p[1] /\ Len(p) <= Len(q)
  <2>1. Len(p) <= Len(q) /\ \A n \in 1..Len(p) : p[n] = q[n]
    BY <1>3, PrefixFacts
  <2>2. 1 \in 1..Len(p) /\ Len(q) # 0
    <3>1. Len(q) \in Nat
      BY DEF Paths
    <3> QED BY <1>2, <2>1, <3>1
  <2>3. \A r \in Seq(Names) : Len(r) # 0 => r # <<>>
    OBVIOUS
  <2> QED BY <2>1, <2>2, <2>3 DEF Paths
<1> QED BY <1>2, <1>3

\* The parents of a path are the shorter paths it is below.
LEMMA ParentsArePrefixes ==
  ASSUME NEW p \in Paths, NEW q \in Paths \ {<<>>}
  PROVE  q \in Parents(p) <=> IsPrefix(q, p) /\ q # p
<1>1. Len(p) \in Nat /\ Len(q) \in Nat \ {0}
  BY FirstName DEF Paths
<1>2. ASSUME q \in Parents(p) PROVE IsPrefix(q, p) /\ q # p
  <2>1. Len(q) \in 1..Len(p) - 1 /\ IsPrefix(q, p)
    BY <1>2, ParentsFacts
  <2> QED BY <1>1, <2>1
<1>3. ASSUME IsPrefix(q, p), q # p PROVE q \in Parents(p)
  <2>1. Len(q) <= Len(p) /\ \A n \in 1..Len(q) : q[n] = p[n]
    BY <1>3, PrefixFacts
  <2>2. Len(q) # Len(p)
    BY <1>3, <2>1, SamePath
  <2>3. Len(q) \in 0..Len(p) /\ Len(q) \in 1..Len(p) - 1
    BY <1>1, <2>1, <2>2
  <2>4. SubSeq(p, 1, Len(q)) = q
    <3>1. /\ SubSeq(p, 1, Len(q)) \in Paths /\ Len(SubSeq(p, 1, Len(q))) = Len(q)
          /\ \A n \in 1..Len(q) : SubSeq(p, 1, Len(q))[n] = p[n]
      BY <2>3, SubSeqFacts
    <3> QED BY <2>1, <3>1, SamePath
  <2> QED BY <2>3, <2>4 DEF Parents
<1> QED BY <1>2, <1>3

\* The beginning of a beginning, and two paths that begin alike.
LEMMA PrefixChains ==
  ASSUME NEW p \in Paths, NEW q \in Paths, NEW r \in Paths
  PROVE  /\ IsPrefix(p, p)
         /\ IsPrefix(p, q) /\ IsPrefix(q, r) => IsPrefix(p, r)
         /\ IsPrefix(p, r) /\ IsPrefix(q, r) /\ Len(p) <= Len(q) => IsPrefix(p, q)
<1>1. Len(p) \in Nat /\ Len(q) \in Nat /\ Len(r) \in Nat
  BY DEF Paths
<1>2. IsPrefix(p, p)
  BY <1>1, PrefixFacts
<1>3. ASSUME IsPrefix(p, q), IsPrefix(q, r) PROVE IsPrefix(p, r)
  <2>1. Len(p) <= Len(q) /\ Len(q) <= Len(r)
    BY <1>3, PrefixFacts
  <2>2. \A n \in 1..Len(p) : p[n] = r[n]
    BY <1>1, <1>3, <2>1, PrefixFacts
  <2> QED BY <1>1, <2>1, <2>2, PrefixFacts
<1>4. ASSUME IsPrefix(p, r), IsPrefix(q, r), Len(p) <= Len(q) PROVE IsPrefix(p, q)
  <2>1. \A n \in 1..Len(p) : p[n] = q[n]
    BY <1>1, <1>4, PrefixFacts
  <2> QED BY <1>4, <2>1, PrefixFacts
<1> QED BY <1>2, <1>3, <1>4

\* The elements of lists.
LEMMA ListFacts ==
  /\ \A S : \A s \in Seq(S) : s # <<>> =>
       /\ Head(s) \in ToSet(s) /\ ToSet(Tail(s)) \subseteq ToSet(s)
       /\ \A x \in ToSet(s) : x = Head(s) \/ x \in ToSet(Tail(s))
  /\ \A S : \A s, t \in Seq(S) : ToSet(s \o t) = ToSet(s) \cup ToSet(t)
  /\ ToSet(<<>>) = {} /\ \A x : ToSet(<<x>>) = {x}
  /\ \A S : \A s \in Seq(S) : ToSet(s) \subseteq S
<1>1. ASSUME NEW S, NEW s \in Seq(S), s # <<>>
      PROVE  /\ Head(s) \in ToSet(s) /\ ToSet(Tail(s)) \subseteq ToSet(s)
             /\ \A x \in ToSet(s) : x = Head(s) \/ x \in ToSet(Tail(s))
  <2>1. /\ Len(s) \in Nat \ {0} /\ DOMAIN s = 1..Len(s) /\ Head(s) = s[1]
        /\ DOMAIN Tail(s) = 1..Len(s) - 1 /\ \A n \in 1..Len(s) - 1 : Tail(s)[n] = s[n + 1]
    BY <1>1
  <2>2. Head(s) \in ToSet(s)
    BY <2>1 DEF ToSet
  <2>3. ASSUME NEW x \in ToSet(Tail(s)) PROVE x \in ToSet(s)
    <3>1. PICK n \in 1..Len(s) - 1 : x = s[n + 1]
      BY <2>1 DEF ToSet
    <3>2. n + 1 \in 1..Len(s)
      BY <2>1
    <3> QED BY <2>1, <3>1, <3>2 DEF ToSet
  <2>4. ASSUME NEW x \in ToSet(s), x # Head(s) PROVE x \in ToSet(Tail(s))
    <3>1. PICK n \in 1..Len(s) : x = s[n]
      BY <2>1 DEF ToSet
    <3>2. n - 1 \in 1..Len(s) - 1 /\ n = (n - 1) + 1
      BY <2>1, <2>4, <3>1
    <3>3. x = Tail(s)[n - 1]
      BY <2>1, <3>1, <3>2
    <3> QED BY <2>1, <3>2, <3>3 DEF ToSet
  <2> QED BY <2>2, <2>3, <2>4
<1>2. ASSUME NEW S, NEW s \in Seq(S), NEW t \in Seq(S) PROVE ToSet(s \o t) = ToSet(s) \cup ToSet(t)
  <2>1. /\ Len(s) \in Nat /\ Len(t) \in Nat /\ DOMAIN s = 1..Len(s) /\ DOMAIN t = 1..Len(t)
        /\ DOMAIN (s \o t) = 1..Len(s) + Len(t)
        /\ \A n \in 1..Len(s) + Len(t) : (s \o t)[n] = IF n <= Len(s) THEN s[n] ELSE t[n - Len(s)]
    OBVIOUS
  <2>2. ASSUME NEW x \in ToSet(s \o t) PROVE x \in ToSet(s) \cup ToSet(t)
    <3>1. PICK n \in 1..Len(s) + Len(t) : x = (s \o t)[n]
      BY <2>1 DEF ToSet
    <3>2. CASE n <= Len(s)
      <4>1. n \in 1..Len(s) /\ x = s[n]
        BY <2>1, <3>1, <3>2
      <4> QED BY <2>1, <4>1 DEF ToSet
    <3>3. CASE ~(n <= Len(s))
      <4>1. n - Len(s) \in 1..Len(t) /\ x = t[n - Len(s)]
        BY <2>1, <3>1, <3>3
      <4> QED BY <2>1, <4>1 DEF ToSet
    <3> QED BY <3>2, <3>3
  <2>3. ASSUME NEW x \in ToSet(s) PROVE x \in ToSet(s \o t)
    <3>1. PICK n \in 1..Len(s) : x = s[n]
      BY <2>1 DEF ToSet
    <3>2. n \in 1..Len(s) + Len(t) /\ x = (s \o t)[n]
      BY <2>1, <3>1
    <3> QED BY <2>1, <3>2 DEF ToSet
  <2>4. ASSUME NEW x \in ToSet(t) PROVE x \in ToSet(s \o t)
    <3>1. PICK n \in 1..Len(t) : x = t[n]
      BY <2>1 DEF ToSet
    <3>2. n + Len(s) \in 1..Len(s) + Len(t) /\ ~(n + Len(s) <= Len(s)) /\ (n + Len(s)) - Len(s) = n
      BY <2>1
    <3>3. x = (s \o t)[n + Len(s)]
      BY <2>1, <3>1, <3>2
    <3> QED BY <2>1, <3>2, <3>3 DEF ToSet
  <2> QED BY <2>2, <2>3, <2>4
<1>3. ToSet(<<>>) = {} /\ \A x : ToSet(<<x>>) = {x}
  BY DEF ToSet
<1>4. ASSUME NEW S, NEW s \in Seq(S) PROVE ToSet(s) \subseteq S
  <2>1. DOMAIN s = 1..Len(s) /\ \A n \in 1..Len(s) : s[n] \in S
    OBVIOUS
  <2> QED BY <2>1 DEF ToSet
<1> QED BY <1>1, <1>2, <1>3, <1>4

\* Nothing is below what is no directory.
LEMMA NothingBelow ==
  ASSUME DiskType, Closed, NEW p \in Paths \ {<<>>}, ~IsDir(p), NEW q \in DOMAIN disk, IsPrefix(p, q)
  PROVE  q = p
<1>1. q \in Paths
  BY DEF DiskType
<1>2. SUFFICES ASSUME q # p PROVE FALSE
  OBVIOUS
<1>3. p \in Parents(q)
  BY <1>1, <1>2, ParentsArePrefixes
<1> QED BY <1>3 DEF Closed

\* A move from below one top-level name to below another: only what is moved,
\* and a file that is replaced, leaves its place.
LEMMA MoveFacts ==
  ASSUME DiskType, Closed, NEW src \in Paths \ {<<>>}, NEW dest \in Paths \ {<<>>},
         src[1] # dest[1], ~IsDir(dest), disk' = Moved(src, dest)
  PROVE  /\ \A q \in DOMAIN disk : ~IsPrefix(src, q) /\ q # dest => q \in DOMAIN disk' /\ disk'[q] = disk[q]
         /\ \A q \in DOMAIN disk : IsPrefix(src, q) =>
              Rebased(src, dest, q) \in DOMAIN disk' /\ disk'[Rebased(src, dest, q)] = disk[q]
         /\ \A q \in DOMAIN disk' :
              \/ q \in DOMAIN disk /\ ~IsPrefix(src, q) /\ disk'[q] = disk[q]
              \/ q[1] = dest[1] /\ \E r \in DOMAIN disk :
                   IsPrefix(src, r) /\ q = Rebased(src, dest, r) /\ disk'[q] = disk[r]
         /\ \A q \in DOMAIN disk : q[1] # src[1] => ~IsPrefix(src, q)
<1>1. \A q \in DOMAIN disk : q \in Paths
  BY DEF DiskType
<1>2. ASSUME NEW q \in DOMAIN disk, ~IsPrefix(src, q), q # dest
      PROVE  q \in DOMAIN disk' /\ disk'[q] = disk[q]
  <2>1. ~IsPrefix(dest, q)
    BY <1>2, NothingBelow
  <2> QED BY <1>2, <2>1, MovedFacts
<1>3. ASSUME NEW q \in DOMAIN disk, IsPrefix(src, q)
      PROVE  /\ Rebased(src, dest, q) \in DOMAIN disk' /\ disk'[Rebased(src, dest, q)] = disk[q]
             /\ Rebased(src, dest, q)[1] = dest[1]
  <2>1. Rebased(src, dest, q) \in Paths /\ IsPrefix(dest, Rebased(src, dest, q))
    BY <1>1, <1>3, RebasedFacts
  <2>2. Rebased(src, dest, q)[1] = dest[1]
    BY <2>1, FirstName
  <2> QED BY <1>3, <2>2, MovedFacts
<1>4. ASSUME NEW q \in DOMAIN disk'
      PROVE  \/ q \in DOMAIN disk /\ ~IsPrefix(src, q) /\ disk'[q] = disk[q]
             \/ q[1] = dest[1] /\ \E r \in DOMAIN disk :
                  IsPrefix(src, r) /\ q = Rebased(src, dest, r) /\ disk'[q] = disk[r]
  <2>1. \/ q \in DOMAIN disk /\ ~IsPrefix(src, q) /\ disk'[q] = disk[q]
        \/ \E r \in DOMAIN disk : IsPrefix(src, r) /\ q = Rebased(src, dest, r) /\ disk'[q] = disk[r]
    BY MovedFacts
  <2> QED BY <1>3, <2>1
<1>5. ASSUME NEW q \in DOMAIN disk, q[1] # src[1] PROVE ~IsPrefix(src, q)
  BY <1>1, <1>5, FirstName
<1> QED BY <1>2, <1>3, <1>4, <1>5

\* It keeps the directories around everything.
LEMMA MoveCloses ==
  ASSUME DiskType, Closed, NEW src \in Paths \ {<<>>}, NEW dest \in Paths \ {<<>>},
         src[1] # dest[1], ~IsDir(dest), \A q \in Parents(dest) : IsDir(q), disk' = Moved(src, dest)
  PROVE  /\ Closed'
         /\ \A q \in DOMAIN disk : IsDir(q) /\ q[1] # src[1] => IsDir(q)'
<1>1. ASSUME NEW q \in DOMAIN disk, IsDir(q), ~IsPrefix(src, q) PROVE IsDir(q)'
  <2>1. q # dest
    BY <1>1
  <2> QED BY <1>1, <2>1, MoveFacts DEF IsDir, Exists
<1>2. \A q \in DOMAIN disk : IsDir(q) /\ q[1] # src[1] => IsDir(q)'
  BY <1>1, MoveFacts
<1>3. ASSUME NEW q \in DOMAIN disk', NEW r \in Parents(q) PROVE IsDir(r)'
  <2>1. CASE q \in DOMAIN disk /\ ~IsPrefix(src, q)
    <3>1. IsDir(r) /\ r \in DOMAIN disk /\ q \in Paths /\ r \in Paths
      BY <2>1 DEF Closed, DiskType, IsDir, Exists
    <3>2. ~IsPrefix(src, r)
      BY <2>1, <3>1, PrefixChains, ParentsFacts
    <3> QED BY <1>1, <3>1, <3>2
  <2>2. ASSUME NEW x \in DOMAIN disk, IsPrefix(src, x), q = Rebased(src, dest, x) PROVE IsDir(r)'
    <3>1. x \in Paths /\ q \in Paths /\ IsPrefix(dest, q) /\ r \in Paths \ {<<>>}
      <4>1. x \in Paths
        BY DEF DiskType
      <4>2. q \in Paths /\ IsPrefix(dest, q)
        BY <2>2, <4>1, RebasedFacts
      <4> QED BY <4>1, <4>2, ParentsFacts
    <3>2. IsPrefix(r, q) /\ r # q
      BY <3>1, ParentsArePrefixes
    <3>3. Len(r) \in Nat /\ Len(dest) \in Nat /\ Len(src) \in Nat \ {0} /\ Len(x) \in Nat /\ Len(q) \in Nat
      BY <3>1, FirstName DEF Paths
    <3>4. CASE Len(r) < Len(dest)
      <4>1. IsPrefix(r, dest) /\ r # dest
        BY <3>1, <3>2, <3>3, <3>4, PrefixChains
      <4>2. r \in Parents(dest) /\ r[1] = dest[1]
        BY <3>1, <4>1, ParentsArePrefixes, FirstName
      <4>3. IsDir(r) /\ r \in DOMAIN disk
        BY <4>2 DEF IsDir, Exists
      <4> QED BY <1>2, <4>2, <4>3
    <3>5. CASE Len(r) >= Len(dest)
      <4> DEFINE n == Len(src) + (Len(r) - Len(dest))
                 y == SubSeq(x, 1, n)
      <4>1. Len(q) = Len(dest) + (Len(x) - Len(src)) /\ Len(r) < Len(q) /\ Len(src) <= Len(x)
        <5>1. Len(r) \in 1..Len(q) - 1
          BY <3>1, ParentsFacts
        <5>2. Len(q) = Len(dest) + (Len(x) - Len(src))
          BY <2>2, <3>1, RebasedLength
        <5>3. Len(src) <= Len(x)
          BY <2>2, <3>1, FirstName
        <5> QED BY <3>3, <5>1, <5>2, <5>3
      <4>2. /\ n \in 1..Len(x) - 1 /\ n \in 0..Len(x) /\ n \in Nat /\ Len(src) <= n
            /\ n = Len(src) + (Len(r) - Len(dest))
        BY <3>3, <3>5, <4>1
      <4>3. y \in Paths /\ Len(y) = n /\ \A m \in 1..n : y[m] = x[m]
        BY <3>1, <4>2, SubSeqFacts
      <4>4. y \in Parents(x)
        BY <4>2 DEF Parents
      <4>5. IsPrefix(src, y)
        <5>1. \A m \in 1..Len(src) : src[m] = x[m]
          BY <2>2, <3>1, PrefixFacts
        <5>2. \A m \in 1..Len(src) : m \in 1..n
          BY <3>3, <4>2
        <5>3. /\ Len(src) <= Len(y) /\ \A m \in 1..Len(src) : src[m] = y[m]
          BY <4>2, <4>3, <5>1, <5>2
        <5> HIDE DEF y, n
        <5> QED BY <4>3, <5>3, PrefixFacts
      <4>6. IsDir(y) /\ y \in DOMAIN disk
        BY <4>4 DEF Closed, IsDir, Exists
      <4> HIDE DEF y, n
      <4>7. r = Rebased(src, dest, y)
        <5>1. /\ Rebased(src, dest, y) \in Paths /\ Len(Rebased(src, dest, y)) = Len(dest) + (n - Len(src))
              /\ \A m \in 1..Len(dest) : Rebased(src, dest, y)[m] = dest[m]
              /\ \A m \in 1..n - Len(src) : Rebased(src, dest, y)[Len(dest) + m] = y[Len(src) + m]
          <6>1. Len(y) = n /\ y \in Paths
            BY <4>3
          <6>2. /\ Rebased(src, dest, y) \in Paths
                /\ Len(Rebased(src, dest, y)) = Len(dest) + (Len(y) - Len(src))
            BY <4>5, <6>1, RebasedLength, Zenon
          <6>3. \A m \in 1..Len(dest) : Rebased(src, dest, y)[m] = dest[m]
            BY <4>5, <6>1, RebasedFront, Zenon
          <6>4. \A m \in 1..Len(y) - Len(src) : Rebased(src, dest, y)[Len(dest) + m] = y[Len(src) + m]
            BY <4>5, <6>1, RebasedRest, Zenon
          <6> QED BY <6>1, <6>2, <6>3, <6>4
        <5>2. Len(Rebased(src, dest, y)) = Len(r)
          BY <3>3, <4>2, <5>1
        <5>3. ASSUME NEW m \in 1..Len(r) PROVE r[m] = Rebased(src, dest, y)[m]
          <6>1. r[m] = q[m]
            BY <3>1, <3>2, PrefixFacts
          <6>2. CASE m \in 1..Len(dest)
            <7>1. q[m] = dest[m]
              BY <3>1, <6>2, PrefixFacts
            <7> QED BY <5>1, <6>1, <6>2, <7>1
          <6>3. CASE m \notin 1..Len(dest)
            <7>1. /\ m - Len(dest) \in 1..n - Len(src) /\ m - Len(dest) \in 1..Len(x) - Len(src)
                  /\ m = Len(dest) + (m - Len(dest)) /\ Len(src) + (m - Len(dest)) \in 1..n
              BY <3>3, <4>1, <4>2, <6>3
            <7>2. q[m] = x[Len(src) + (m - Len(dest))]
              <8>1. \A k \in 1..Len(x) - Len(src) : Rebased(src, dest, x)[Len(dest) + k] = x[Len(src) + k]
                <9>1. src \in Paths /\ dest \in Paths /\ x \in Paths /\ IsPrefix(src, x)
                  BY <2>2, <3>1
                <9> QED BY <9>1, RebasedRest, Zenon
              <8> QED BY <2>2, <7>1, <8>1
            <7>3. x[Len(src) + (m - Len(dest))] = y[Len(src) + (m - Len(dest))]
              BY <4>3, <7>1
            <7>4. Rebased(src, dest, y)[m] = y[Len(src) + (m - Len(dest))]
              BY <5>1, <7>1
            <7> QED BY <6>1, <7>2, <7>3, <7>4
          <6> QED BY <6>2, <6>3
        <5> QED BY <3>1, <5>1, <5>2, <5>3, SamePath
      <4> QED BY <4>5, <4>6, <4>7, MoveFacts DEF IsDir, Exists
    <3> QED BY <3>3, <3>4, <3>5
  <2> QED BY <2>1, <2>2, MoveFacts
<1> QED BY <1>2, <1>3 DEF Closed

\* What is left when something has been removed.
LEMMA RemoveFacts ==
  ASSUME DiskType, Closed, NEW p \in Paths \ {<<>>}, disk' = Removed(p)
  PROVE  /\ Closed'
         /\ \A q \in DOMAIN disk' : q \in DOMAIN disk /\ disk'[q] = disk[q] /\ ~IsPrefix(p, q)
         /\ \A q \in DOMAIN disk : ~IsPrefix(p, q) => q \in DOMAIN disk' /\ disk'[q] = disk[q]
<1>1. /\ \A q \in DOMAIN disk' : q \in DOMAIN disk /\ disk'[q] = disk[q] /\ ~IsPrefix(p, q)
      /\ \A q \in DOMAIN disk : ~IsPrefix(p, q) => q \in DOMAIN disk' /\ disk'[q] = disk[q]
  BY DEF Removed
<1>2. ASSUME NEW q \in DOMAIN disk', NEW r \in Parents(q) PROVE IsDir(r)'
  <2>1. q \in DOMAIN disk /\ q \in Paths /\ ~IsPrefix(p, q)
    BY <1>1 DEF DiskType
  <2>2. r \in DOMAIN disk /\ disk[r].dir /\ r \in Paths /\ IsPrefix(r, q)
    BY <2>1, ParentsFacts DEF Closed, IsDir, Exists
  <2>3. ~IsPrefix(p, r)
    BY <2>1, <2>2, PrefixChains
  <2> QED BY <1>1, <2>2, <2>3 DEF IsDir, Exists
<1> QED BY <1>1, <1>2 DEF Closed

\* What an entry that is extracted, or not quite, leaves behind.
LEMMA WriteFacts ==
  ASSUME DiskType, Closed, path \in Paths \ {<<>>}, Writable,
         disk' \in {disk, WithParents(path), Written}
  PROVE  /\ Closed'
         /\ \A q \in DOMAIN disk' : q \in DOMAIN disk \/ (q \in Paths \ {<<>>} /\ IsPrefix(q, path))
         /\ \A q \in DOMAIN disk \ {path} : q \in DOMAIN disk' /\ disk'[q] = disk[q]
<1>1. /\ DOMAIN disk \subseteq DOMAIN disk'
      /\ DOMAIN disk' \subseteq DOMAIN disk \cup Parents(path) \cup {path}
      /\ \A q \in DOMAIN disk \ {path} : disk'[q] = disk[q]
      /\ disk' = disk \/ Parents(path) \subseteq DOMAIN disk'
      /\ \A q \in Parents(path) \ DOMAIN disk : q \in DOMAIN disk' => disk'[q] = Node(TRUE, i)
      /\ path \in DOMAIN disk => disk'[path].dir = disk[path].dir
  <2>1. \A q \in Parents(path) : q # path
    BY ParentsArePrefixes, ParentsFacts
  <2>2. CASE disk' = disk
    BY <2>2
  <2>3. CASE disk' = WithParents(path)
    <3>1. /\ DOMAIN WithParents(path) = DOMAIN disk \cup Parents(path)
          /\ \A q \in DOMAIN disk : WithParents(path)[q] = disk[q]
          /\ \A q \in Parents(path) \ DOMAIN disk : WithParents(path)[q] = Node(TRUE, i)
      BY WithParentsFacts
    <3> QED BY <2>3, <3>1
  <2>4. CASE disk' = Written /\ disk' # disk
    <3>1. /\ DOMAIN Written = DOMAIN disk \cup Parents(path) \cup {path}
          /\ Written[path] = Node(Entry.dir, i)
          /\ \A q \in DOMAIN disk \ {path} : Written[q] = disk[q]
          /\ \A q \in Parents(path) \ (DOMAIN disk \cup {path}) : Written[q] = Node(TRUE, i)
      BY <2>4, WrittenFacts
    <3>2. path \in DOMAIN disk => disk[path].dir = Entry.dir
      BY DEF Writable, Exists
    <3>3. Node(Entry.dir, i).dir = Entry.dir
      BY DEF Node
    <3> QED BY <2>1, <2>4, <3>1, <3>2, <3>3
  <2> QED BY <2>2, <2>3, <2>4
<1>2. \A q \in Parents(path) : q \in DOMAIN disk => disk[q].dir
  BY DEF Writable, ParentsFit, Exists
<1>3. \A q \in Parents(path) : q # path /\ q \in Paths \ {<<>>} /\ IsPrefix(q, path)
  BY ParentsArePrefixes, ParentsFacts
<1>4. ASSUME NEW q \in DOMAIN disk, IsDir(q) PROVE IsDir(q)'
  BY <1>1, <1>4 DEF IsDir, Exists
<1>5. ASSUME disk' # disk, NEW q \in Parents(path) PROVE IsDir(q)'
  <2>1. q \in DOMAIN disk'
    BY <1>1, <1>5
  <2>2. CASE q \in DOMAIN disk
    BY <1>2, <1>4, <2>2 DEF IsDir, Exists
  <2>3. CASE q \notin DOMAIN disk
    BY <1>1, <2>1, <2>3 DEF IsDir, Exists, Node
  <2> QED BY <2>2, <2>3
<1>6. ASSUME NEW q \in DOMAIN disk', NEW r \in Parents(q) PROVE IsDir(r)'
  <2>1. CASE q \in DOMAIN disk
    <3>1. IsDir(r) /\ r \in DOMAIN disk
      BY <2>1 DEF Closed, IsDir, Exists
    <3> QED BY <1>4, <3>1
  <2>2. CASE q \notin DOMAIN disk
    <3>1. disk' # disk /\ (q = path \/ q \in Parents(path))
      BY <1>1, <2>2
    <3>2. r \in Parents(path)
      <4>1. CASE q = path
        BY <4>1
      <4>2. CASE q \in Parents(path)
        <5>1. q \in Paths /\ IsPrefix(q, path) /\ q # path
          BY <1>3, <4>2
        <5>2. r \in Paths \ {<<>>} /\ IsPrefix(r, q) /\ r # q
          BY <5>1, ParentsArePrefixes, ParentsFacts
        <5>3. IsPrefix(r, path)
          BY <5>1, <5>2, PrefixChains
        <5>4. r # path
          <6>1. Len(r) < Len(q) /\ Len(q) <= Len(path) /\ Len(q) \in Nat /\ Len(path) \in Nat /\ Len(r) \in Nat
            BY <5>1, <5>2, ParentsFacts, PrefixFacts DEF Paths
          <6> QED BY <6>1
        <5> QED BY <5>2, <5>3, <5>4, ParentsArePrefixes
      <4> QED BY <3>1, <4>1, <4>2
    <3> QED BY <1>5, <3>1, <3>2
  <2> QED BY <2>1, <2>2
<1>7. ASSUME NEW q \in DOMAIN disk', q \notin DOMAIN disk PROVE q \in Paths \ {<<>>} /\ IsPrefix(q, path)
  <2>1. CASE q = path
    BY <2>1, PrefixChains
  <2>2. CASE q \in Parents(path)
    BY <1>3, <2>2
  <2> QED BY <1>1, <1>7, <2>1, <2>2
<1> QED BY <1>1, <1>6, <1>7 DEF Closed

\* Nothing of the archive is placed under the temporary name, and everything
\* below the enclosing directory, if there is one.
LEMMA PlacedFirst ==
  ASSUME TypeInv, NEW w \in Paths \ {<<>>}, NEW q \in Paths, Placed(w, q)
  PROVE  /\ q # <<>> /\ q[1].text # Temporary.text
         /\ unpackdestination # Nowhere => q[1] = unpackdestination[1]
<1>1. Len(w) \in Nat \ {0} /\ Len(q) = Len(unpackdestination) + Len(w) /\ IsPrefix(unpackdestination, q)
  BY FirstName DEF Placed
<1>2. CASE unpackdestination = Nowhere
  <2>1. Len(unpackdestination) = 0
    BY <1>2 DEF Nowhere
  <2>2. 1 \in 1..Len(w) /\ Len(unpackdestination) + 1 = 1 /\ Len(q) # 0
    BY <1>1, <2>1
  <2>3. q[1].text = w[1].text /\ w[1].text # Temporary.text
    <3>1. q[Len(unpackdestination) + 1].text = w[1].text /\ w[1].text # Temporary.text
      BY <2>2 DEF Placed
    <3> QED BY <2>2, <3>1
  <2>4. q # <<>>
    BY <2>2
  <2> QED BY <1>2, <2>3, <2>4
<1>3. CASE unpackdestination # Nowhere
  <2>1. unpackdestination \in Paths \ {<<>>} /\ unpackdestination[1].text # Temporary.text
    BY <1>3, NameFacts DEF TypeInv, PlaceType
  <2>2. q # <<>> /\ q[1] = unpackdestination[1]
    BY <1>1, <2>1, FirstName
  <2> QED BY <2>1, <2>2
<1> QED BY <1>2, <1>3

\* So is the path of an entry that is extracted.
LEMMA PathPlaced ==
  ASSUME TypeInv, TreeInv, pc = "extract"
  PROVE  /\ Adjusted(Entry) \in DOMAIN renames /\ path = renames[Adjusted(Entry)]
         /\ path \in Paths \ {<<>>} /\ Placed(Adjusted(Entry), path)
         /\ path[1].text # Temporary.text
         /\ unpackdestination # Nowhere => path[1] = unpackdestination[1]
<1>1. /\ i \in 1..Len(archive) /\ c = Len(Entry.path) + 1 /\ Len(Entry.path) \in Nat \ {0}
      /\ Adjusted(Entry) \in Paths /\ Len(Adjusted(Entry)) = Len(Entry.path)
  <2>1. i \in 1..Len(archive) /\ c = Len(Entry.path) + 1
    BY DEF TypeInv, ControlType
  <2> QED BY <2>1, EntryFacts DEF TypeInv, Entry
<1>2. c # 1 /\ c - 1 = Len(Adjusted(Entry))
  BY <1>1
<1>3. SubSeq(Adjusted(Entry), 1, c - 1) = Adjusted(Entry)
  BY <1>1, <1>2, SubSeqSubSeq
<1>4. /\ SubSeq(Adjusted(Entry), 1, c - 1) \in DOMAIN renames
      /\ path = renames[SubSeq(Adjusted(Entry), 1, c - 1)] /\ path # Skipped
  BY <1>2 DEF TreeInv, WalkInv
<1>5. Adjusted(Entry) \in DOMAIN renames /\ path = renames[Adjusted(Entry)] /\ path # Skipped
  BY <1>3, <1>4
<1>6. Placed(Adjusted(Entry), path) /\ path \in Paths /\ Adjusted(Entry) \in Paths \ {<<>>}
  BY <1>5 DEF TreeInv, RenamesInv, TypeInv, RenamesType
<1> QED BY <1>5, <1>6, PlacedFirst

\* While the entries are found and walked along, the disk is left alone.
LEMMA QuietDisk ==
  ASSUME DiskInv, disk' = disk, pc \in {"begin", "next", "walk", "extract", "replace"},
         pc' \notin {"move", "place"}, PhaseInv'
  PROVE  DiskInv'
<1>1. Closed'
  BY DEF DiskInv, Closed, IsDir, Exists
<1>2. MoveInv'
  BY DEF MoveInv
<1>3. TemporaryInv'
  BY DEF DiskInv, TemporaryInv
<1> QED BY <1>1, <1>2, <1>3 DEF DiskInv

\* Extracting leaves a tree.
LEMMA ExtractDisk ==
  ASSUME TypeInv, TreeInv, DiskInv, ExtractEntry \/ ExtractFails \/ ExtractStopped
  PROVE  DiskInv'
<1>1. pc = "extract" /\ pc' \in {"next", "returned"}
  BY DEF ExtractEntry, ExtractFails, ExtractStopped, PassOver, Return
<1>2. PhaseInv'
  BY <1>1 DEF PhaseInv
<1>3. CASE disk' = disk
  BY <1>1, <1>2, <1>3, QuietDisk
<1>4. CASE Writable /\ disk' \in {disk, WithParents(path), Written}
  <2>1. path \in Paths \ {<<>>} /\ path[1].text # Temporary.text
    BY <1>1, PathPlaced
  <2>2. /\ Closed'
        /\ \A q \in DOMAIN disk' : q \in DOMAIN disk \/ (q \in Paths \ {<<>>} /\ IsPrefix(q, path))
    BY <1>4, <2>1, WriteFacts DEF TypeInv, DiskInv
  <2>3. ASSUME NEW q \in DOMAIN disk' PROVE q[1].text # Temporary.text
    <3>1. CASE q \in DOMAIN disk
      BY <1>1, <3>1 DEF DiskInv, TemporaryInv
    <3>2. CASE q \in Paths \ {<<>>} /\ IsPrefix(q, path)
      <4>1. path[1] = q[1]
        BY <2>1, <3>2, FirstName
      <4> QED BY <2>1, <4>1
    <3> QED BY <2>2, <3>1, <3>2
  <2> QED BY <1>1, <1>2, <2>2, <2>3 DEF DiskInv, MoveInv, TemporaryInv
<1>5. (Writable /\ disk' \in {disk, WithParents(path), Written}) \/ disk' = disk
  BY DEF ExtractEntry, ExtractFails, ExtractStopped
<1> QED BY <1>3, <1>4, <1>5

\* The paths that the unarchiver makes up.
LEMMA MadeUpPaths ==
  /\ <<Temporary>> \in Paths \ {<<>>} /\ <<Temporary>>[1] = Temporary /\ Len(<<Temporary>>) = 1
  /\ <<Enclosing>> \in Paths \ {<<>>} /\ <<Enclosing>>[1] = Enclosing /\ Len(<<Enclosing>>) = 1
  /\ \A name \in Names :
       /\ <<name>> \in Paths \ {<<>>} /\ <<name>>[1] = name /\ Len(<<name>>) = 1
       /\ <<Temporary, name>> \in Paths \ {<<>>} /\ <<Temporary, name>>[1] = Temporary
       /\ <<Temporary, name>>[2] = name /\ Len(<<Temporary, name>>) = 2
  /\ \A p \in Paths : Len(p) = 1 => Parents(p) = {}
<1>1. Temporary \in Names /\ Enclosing \in Names
  BY NameFacts
<1>2. \A name \in Names : <<name>> \in Paths \ {<<>>} /\ <<name>>[1] = name /\ Len(<<name>>) = 1
  <2>1. \A name \in Names : <<name>> \in Seq(Names)
    OBVIOUS
  <2> QED BY <2>1 DEF Paths
<1>3. \A a, b \in Names : <<a, b>> \in Paths \ {<<>>} /\ <<a, b>>[1] = a /\ <<a, b>>[2] = b /\ Len(<<a, b>>) = 2
  <2>1. \A a, b \in Names : <<a, b>> \in Seq(Names)
    OBVIOUS
  <2> QED BY <2>1 DEF Paths
<1>4. \A p \in Paths : Len(p) = 1 => Parents(p) = {}
  BY DEF Parents
<1> QED BY <1>1, <1>2, <1>3, <1>4

\* What is like a path of one name is a path of one name.
LEMMA LikeOne ==
  ASSUME NEW p \in Paths, Len(p) = 1, NEW q, Like(q, p)
  PROVE  q \in Paths \ {<<>>} /\ Len(q) = 1 /\ q[1].text = p[1].text /\ Parents(q) = {} /\ q[1] \in Names
<1>1. q \in Paths \ {<<>>} /\ Len(q) = 1 /\ q[1].text = p[1].text
  BY DEF Like
<1> QED BY <1>1, MadeUpPaths, FirstName

\* The directory that a sub-archive was unpacked into.
LEMMA UnpackFacts ==
  ASSUME TypeInv, sub, enclosingdir, removesolo, pc # "begin"
  PROVE  /\ unpackdestination \in EnclosingDirs /\ unpackdestination \in Paths \ {<<>>}
         /\ Len(unpackdestination) = 1 /\ unpackdestination[1] \in Names
         /\ unpackdestination[1].text # Temporary.text /\ unpackdestination[1] # Temporary
         /\ unpackdestination # Nowhere /\ \A q \in Paths \ {<<>>} :
              q[1] = unpackdestination[1] => IsPrefix(unpackdestination, q)
<1>1. unpackdestination \in EnclosingDirs /\ unpackdestination # Nowhere
  BY DEF TypeInv, PlaceType
<1>2. /\ unpackdestination \in Paths \ {<<>>} /\ Len(unpackdestination) = 1 /\ unpackdestination[1] \in Names
      /\ unpackdestination[1].text # Temporary.text
  BY <1>1, NameFacts
<1>3. ASSUME NEW q \in Paths \ {<<>>}, q[1] = unpackdestination[1] PROVE IsPrefix(unpackdestination, q)
  <2>1. Len(q) \in Nat \ {0}
    BY FirstName
  <2>2. Len(unpackdestination) <= Len(q) /\ \A n \in 1..Len(unpackdestination) : unpackdestination[n] = q[n]
    BY <1>2, <1>3, <2>1
  <2> QED BY <1>2, <2>2, PrefixFacts
<1> QED BY <1>1, <1>2, <1>3

\* Nor is the solo item called like the temporary directory.
LEMMA SoloNameFacts ==
  ASSUME TypeInv, TreeInv, SoloKnown
  PROVE  SoloName \in Names /\ SoloName.text # Temporary.text
<1>1. PICK w \in DOMAIN renames :
        /\ Len(w) = 1 /\ renames[w] # Skipped
        /\ SoloName = renames[w][Len(renames[w])] /\ SoloName \in Names
  BY SoloFacts DEF TypeInv
<1>2. Placed(w, renames[w])
  BY <1>1 DEF TreeInv, RenamesInv
<1>3. /\ Len(renames[w]) = Len(unpackdestination) + 1
      /\ renames[w][Len(unpackdestination) + 1].text = w[1].text /\ w[1].text # Temporary.text
  BY <1>1, <1>2 DEF Placed
<1> QED BY <1>1, <1>3

\* Renaming the enclosing directory.
LEMMA RenameDisk ==
  ASSUME TypeInv, TreeInv, DiskInv, RenameEnclosing \/ SoloUnknown
  PROVE  DiskInv'
<1>1. /\ pc = "solo" /\ lookslikesolo' = lookslikesolo
      /\ pc' = "place" \/ (pc' = "returned" /\ result' = "raised")
      /\ disk' = disk \/ disk' = Moved(unpackdestination, <<Temporary>>)
  BY DEF RenameEnclosing, SoloUnknown, EnclosingRenamed, Return, soloVars
<1>2. PhaseInv'
  BY <1>1 DEF DiskInv, PhaseInv
<1>3. MoveInv'
  BY <1>1 DEF MoveInv
<1>4. \A q \in DOMAIN disk : q[1].text # Temporary.text
  BY <1>1 DEF DiskInv, TemporaryInv
<1>5. CASE disk' = disk
  <2>1. Closed'
    BY <1>5 DEF DiskInv, Closed, IsDir, Exists
  <2>2. TemporaryInv'
    BY <1>4, <1>5 DEF TemporaryInv
  <2> QED BY <1>2, <1>3, <2>1, <2>2 DEF DiskInv
<1>6. CASE disk' = Moved(unpackdestination, <<Temporary>>)
  <2>1. sub /\ enclosingdir /\ removesolo
    BY <1>1 DEF TypeInv, PlaceType
  <2>2. unpackdestination \in Paths \ {<<>>} /\ unpackdestination[1] # Temporary
    BY <1>1, <2>1, UnpackFacts
  <2>3. ~IsDir(<<Temporary>>) /\ Parents(<<Temporary>>) = {}
    BY <1>4, MadeUpPaths DEF IsDir, Exists
  <2>4. Closed' /\ \A q \in DOMAIN disk' : q \in DOMAIN disk \/ q[1] = Temporary
    BY <1>6, <2>2, <2>3, MoveFacts, MoveCloses, MadeUpPaths DEF TypeInv, DiskInv
  <2>5. TemporaryInv'
    BY <1>1, <1>4, <2>4 DEF TemporaryInv
  <2> QED BY <1>2, <1>3, <2>4, <2>5 DEF DiskInv
<1> QED BY <1>1, <1>5, <1>6

\* Placing a solo item.
LEMMA PlaceSoloDisk ==
  ASSUME TypeInv, TreeInv, DiskInv, PlaceSolo
  PROVE  DiskInv'
<1>1. /\ pc = "place" /\ lookslikesolo /\ lookslikesolo' = lookslikesolo /\ SoloKnown
      /\ sub /\ enclosingdir /\ removesolo /\ configVars' = configVars
      /\ unpackdestination' = unpackdestination
  BY DEF PlaceSolo, soloVars, placeVars, DiskInv, PhaseInv, TypeInv, PlaceType
<1>2. SoloName \in Names /\ SoloName.text # Temporary.text
  BY <1>1, SoloNameFacts
<1>3. PICK answer \in CheckPath(<<SoloName>>) :
        \/ disk' = Removed(<<Temporary>>) /\ pc' = "returned"
        \/ /\ answer # Skipped /\ work' = <<Job(<<Temporary, SoloName>>, answer, TRUE)>>
           /\ pc' = "move" /\ disk' = disk
  BY DEF PlaceSolo, Return
<1>4. PhaseInv'
  BY <1>1, <1>3 DEF PhaseInv, configVars
<1>5. CASE disk' = Removed(<<Temporary>>) /\ pc' = "returned"
  <2>1. /\ Closed'
        /\ \A q \in DOMAIN disk' : q \in DOMAIN disk /\ ~IsPrefix(<<Temporary>>, q)
    BY <1>5, RemoveFacts, MadeUpPaths DEF TypeInv, DiskInv
  <2>2. ASSUME NEW q \in DOMAIN disk' PROVE q[1].text # Temporary.text
    <3>1. q \in DOMAIN disk /\ ~IsPrefix(<<Temporary>>, q) /\ q \in Paths \ {<<>>} /\ Len(q) \in Nat \ {0}
      BY <2>1, FirstName DEF TypeInv, DiskType
    <3>2. q[1] # Temporary
      BY <3>1, MadeUpPaths, PrefixFacts
    <3> QED BY <3>1, <3>2 DEF DiskInv, TemporaryInv
  <2> QED BY <1>4, <1>5, <2>1, <2>2 DEF DiskInv, MoveInv, TemporaryInv
<1>6. CASE /\ answer # Skipped /\ work' = <<Job(<<Temporary, SoloName>>, answer, TRUE)>>
           /\ pc' = "move" /\ disk' = disk
  <2>1. Closed'
    BY <1>6 DEF DiskInv, Closed, IsDir, Exists
  <2>2. TemporaryInv'
    BY <1>1, <1>6 DEF DiskInv, TemporaryInv
  <2>3. Like(answer, <<SoloName>>)
    BY <1>2, <1>6, CheckPathFacts, MadeUpPaths DEF TypeInv, ConfigType, DiskType
  <2>4. answer[1].text # Temporary.text /\ Parents(answer) = {}
    <3>1. <<SoloName>> \in Paths /\ Len(<<SoloName>>) = 1 /\ <<SoloName>>[1] = SoloName
      BY <1>2, MadeUpPaths
    <3>2. answer[1].text = SoloName.text /\ Parents(answer) = {}
      BY <2>3, <3>1, LikeOne
    <3> QED BY <1>2, <3>2
  <2>5. \A job \in ToSet(work') : job = Job(<<Temporary, SoloName>>, answer, TRUE)
    <3>1. \A x : ToSet(<<x>>) = {x}
      BY ListFacts
    <3> QED BY <1>6, <3>1
  <2>6. FromDir' = Temporary
    BY <1>1 DEF FromDir
  <2>7. Job(<<Temporary, SoloName>>, answer, TRUE).src[1] = Temporary
        /\ Job(<<Temporary, SoloName>>, answer, TRUE).dest = answer
        /\ Job(<<Temporary, SoloName>>, answer, TRUE).checked
    BY <1>2, MadeUpPaths DEF Job
  <2>8. MoveInv'
    BY <2>4, <2>5, <2>6, <2>7 DEF MoveInv, Bound
  <2> QED BY <1>4, <2>1, <2>2, <2>8 DEF DiskInv
<1> QED BY <1>3, <1>5, <1>6

\* Replacing what was in the place of the enclosing directory.
LEMMA ReplaceDisk ==
  ASSUME TypeInv, TreeInv, DiskInv, Replace
  PROVE  DiskInv'
<1>1. /\ pc = "replace" /\ ~lookslikesolo /\ lookslikesolo' = lookslikesolo
      /\ sub /\ enclosingdir /\ removesolo /\ configVars' = configVars
      /\ originaldest = <<Enclosing>> /\ unpackdestination' = unpackdestination
  BY DEF Replace, soloVars, DiskInv, PhaseInv, TypeInv, PlaceType
<1>2. /\ unpackdestination \in Paths \ {<<>>} /\ Len(unpackdestination) = 1
      /\ unpackdestination[1].text # Temporary.text /\ unpackdestination # Nowhere
  BY <1>1, UnpackFacts
<1>3. PICK answer \in CheckPath(originaldest) \cup {unpackdestination} :
        \/ disk' = Removed(unpackdestination) /\ pc' = "returned"
        \/ disk' = disk /\ pc' = "returned"
        \/ /\ answer # Skipped /\ answer # unpackdestination
           /\ work' = <<Job(unpackdestination, answer, TRUE)>> /\ pc' = "move" /\ disk' = disk
  BY DEF Replace, Return, Finalize
<1>4. PhaseInv'
  BY <1>1, <1>3 DEF PhaseInv, configVars
<1>5. CASE disk' = Removed(unpackdestination) /\ pc' = "returned"
  <2>1. /\ Closed'
        /\ \A q \in DOMAIN disk' : q \in DOMAIN disk
    BY <1>2, <1>5, RemoveFacts DEF TypeInv, DiskInv
  <2>2. TemporaryInv'
    BY <1>1, <2>1 DEF DiskInv, TemporaryInv
  <2> QED BY <1>4, <1>5, <2>1, <2>2 DEF DiskInv, MoveInv
<1>6. CASE disk' = disk /\ pc' = "returned"
  BY <1>1, <1>4, <1>6, QuietDisk
<1>7. CASE /\ answer # Skipped /\ answer # unpackdestination
           /\ work' = <<Job(unpackdestination, answer, TRUE)>> /\ pc' = "move" /\ disk' = disk
  <2>1. Closed'
    BY <1>7 DEF DiskInv, Closed, IsDir, Exists
  <2>2. TemporaryInv'
    BY <1>1, <1>7 DEF DiskInv, TemporaryInv
  <2>3. Like(answer, <<Enclosing>>)
    BY <1>1, <1>3, <1>7, CheckPathFacts, MadeUpPaths DEF TypeInv, ConfigType, DiskType
  <2>4. answer \in Paths /\ Len(answer) = 1 /\ answer[1].text # Temporary.text /\ Parents(answer) = {}
    BY <2>3, LikeOne, MadeUpPaths, NameFacts
  <2>5. answer[1] # unpackdestination[1]
    BY <1>2, <1>7, <2>4, SamePath
  <2>6. \A job \in ToSet(work') : job = Job(unpackdestination, answer, TRUE)
    <3>1. \A x : ToSet(<<x>>) = {x}
      BY ListFacts
    <3> QED BY <1>7, <3>1
  <2>7. FromDir' = unpackdestination[1]
    BY <1>1 DEF FromDir
  <2>8. Job(unpackdestination, answer, TRUE).src = unpackdestination
        /\ Job(unpackdestination, answer, TRUE).dest = answer
        /\ Job(unpackdestination, answer, TRUE).checked
    BY DEF Job
  <2>9. MoveInv'
    BY <2>4, <2>5, <2>6, <2>7, <2>8 DEF MoveInv, Bound
  <2> QED BY <1>4, <2>1, <2>2, <2>9 DEF DiskInv
<1> QED BY <1>3, <1>5, <1>6, <1>7

\* What is like a path is in the same directory.
LEMMA LikeFacts ==
  ASSUME NEW p \in Paths \ {<<>>}, NEW q, Like(q, p)
  PROVE  /\ q \in Paths \ {<<>>} /\ Len(q) = Len(p) /\ Parents(q) = Parents(p)
         /\ q[1].text = p[1].text /\ (Len(p) > 1 => q[1] = p[1])
<1>1. Len(p) \in Nat \ {0} /\ q \in Paths \ {<<>>} /\ Len(q) = Len(p) /\ \A m \in 1..Len(p) - 1 : q[m] = p[m]
  BY FirstName DEF Like
<1>2. Len(p) > 1 => q[1] = p[1]
  <2>1. Len(p) > 1 => 1 \in 1..Len(p) - 1
    BY <1>1
  <2> QED BY <1>1, <2>1
<1>3. q[1].text = p[1].text
  <2>1. CASE Len(p) = 1
    BY <2>1 DEF Like
  <2>2. CASE Len(p) > 1
    BY <1>2, <2>2
  <2> QED BY <1>1, <2>1, <2>2
<1>4. ASSUME NEW k \in 1..Len(p) - 1 PROVE SubSeq(q, 1, k) = SubSeq(p, 1, k)
  <2>1. k \in 0..Len(p) /\ \A n \in 1..k : n \in 1..Len(p) - 1
    BY <1>1
  <2>2. /\ SubSeq(p, 1, k) \in Paths /\ Len(SubSeq(p, 1, k)) = k /\ \A n \in 1..k : SubSeq(p, 1, k)[n] = p[n]
        /\ SubSeq(q, 1, k) \in Paths /\ Len(SubSeq(q, 1, k)) = k /\ \A n \in 1..k : SubSeq(q, 1, k)[n] = q[n]
    BY <1>1, <2>1, SubSeqFacts
  <2> QED BY <1>1, <2>1, <2>2, SamePath
<1>5. Parents(q) = Parents(p)
  BY <1>1, <1>4 DEF Parents
<1> QED BY <1>1, <1>2, <1>3, <1>5

\* The directories around something in p are p and those around p.
LEMMA ParentsOfAppend ==
  ASSUME NEW p \in Paths \ {<<>>}, NEW name \in Names
  PROVE  Parents(Append(p, name)) \subseteq Parents(p) \cup {p}
<1>1. /\ Len(p) \in Nat \ {0} /\ Len(Append(p, name)) = Len(p) + 1
      /\ \A m \in 0..Len(p) : SubSeq(Append(p, name), 1, m) = SubSeq(p, 1, m)
  BY FirstName, AppendFacts
<1>2. SubSeq(p, 1, Len(p)) = p
  BY SubSeqSubSeq, <1>1
<1>3. ASSUME NEW q \in Parents(Append(p, name)), q # p PROVE q \in Parents(p)
  <2>1. PICK k \in 1..Len(p) : q = SubSeq(Append(p, name), 1, k)
    BY <1>1 DEF Parents
  <2>2. q = SubSeq(p, 1, k)
    BY <1>1, <2>1
  <2>3. k # Len(p)
    BY <1>2, <1>3, <2>2
  <2>4. k \in 1..Len(p) - 1
    BY <1>1, <2>1, <2>3
  <2> QED BY <2>2, <2>4 DEF Parents
<1> QED BY <1>3

\* Where the head of the list of moves goes.
LEMMA AnswerFacts ==
  ASSUME TypeInv, DiskInv, pc = "move", work # <<>>,
         NEW answer, answer # Skipped, Destination(Head(work), answer)
  PROVE  /\ Head(work) \in Jobs /\ Tail(work) \in Seq(Jobs) /\ work \in Seq(Jobs)
         /\ Head(work) \in ToSet(work) /\ Bound(Head(work))
         /\ answer \in Paths \ {<<>>} /\ Like(answer, Head(work).dest)
         /\ Head(work).checked => answer = Head(work).dest
         /\ ~Head(work).checked =>
              ~Exists(answer) \/ (answer = Head(work).dest /\ policy \in {"overwrite", "ask"})
         /\ Head(work).src[1] # answer[1]
         /\ answer[1] # FromDir /\ answer[1].text # Temporary.text
         /\ \A q \in Parents(answer) : IsDir(q)
<1> DEFINE job == Head(work)
<1>1. /\ job \in Jobs /\ Tail(work) \in Seq(Jobs) /\ work \in Seq(Jobs)
      /\ job \in ToSet(work) /\ Bound(job)
  <2>1. work \in Seq(Jobs) /\ job \in Jobs /\ Tail(work) \in Seq(Jobs)
    BY JobFacts DEF TypeInv, PlaceType
  <2>2. job \in ToSet(work)
    BY <2>1, ListFacts
  <2> QED BY <2>1, <2>2 DEF DiskInv, MoveInv
<1> HIDE DEF job
<1>2. job.dest \in Paths \ {<<>>} /\ job.src \in Paths \ {<<>>}
  BY <1>1 DEF Jobs
<1>3. /\ job.src[1] = FromDir /\ job.dest[1] # FromDir /\ job.dest[1].text # Temporary.text
      /\ ~job.checked => Len(job.dest) > 1
      /\ \A q \in Parents(job.dest) : IsDir(q)
  BY <1>1 DEF Bound
<1>4. CASE job.checked
  <2>1. answer = job.dest
    BY <1>4 DEF Destination, job
  <2>2. Like(answer, job.dest)
    BY <1>2, <2>1 DEF Like
  <2> QED BY <1>1, <1>2, <1>3, <1>4, <2>1, <2>2 DEF job
<1>5. CASE ~job.checked
  <2>1. answer \in CheckPath(job.dest)
    BY <1>5 DEF Destination, job
  <2>2. Like(answer, job.dest) /\ (~Exists(answer) \/ (answer = job.dest /\ policy \in {"overwrite", "ask"}))
    BY <1>2, <2>1, CheckPathFacts DEF TypeInv, ConfigType, DiskType
  <2>3. /\ answer \in Paths \ {<<>>} /\ answer[1] = job.dest[1] /\ Parents(answer) = Parents(job.dest)
    BY <1>2, <1>3, <1>5, <2>2, LikeFacts
  <2> QED BY <1>1, <1>3, <1>5, <2>2, <2>3 DEF job
<1> QED BY <1>4, <1>5

\* The jobs that a merge adds.
LEMMA MergeBound ==
  ASSUME TypeInv, DiskInv, NEW job \in Jobs, Bound(job), NEW answer \in Paths \ {<<>>},
         answer[1] # FromDir, answer[1].text # Temporary.text, IsDir(answer),
         \A q \in Parents(answer) : IsDir(q), NEW new \in Inside(job, answer)
  PROVE  Bound(new)
<1>1. PICK q \in Children(job.src) : new = Job(q, Append(answer, q[Len(q)]), FALSE)
  BY DEF Inside
<1>2. q \in Paths \ {<<>>} /\ IsPrefix(job.src, q)
  BY <1>1 DEF Children, TypeInv, DiskType
<1>3. q[Len(q)] \in Names /\ q[1] = job.src[1]
  <2>1. \A r \in Seq(Names) : r # <<>> => r[Len(r)] \in Names
    OBVIOUS
  <2>2. q[Len(q)] \in Names
    BY <1>2, <2>1 DEF Paths
  <2>3. job.src \in Paths \ {<<>>}
    BY DEF Jobs
  <2> QED BY <1>2, <2>2, <2>3, FirstName
<1>4. /\ Append(answer, q[Len(q)])[1] = answer[1] /\ Len(Append(answer, q[Len(q)])) > 1
      /\ Parents(Append(answer, q[Len(q)])) \subseteq Parents(answer) \cup {answer}
  <2>1. Len(answer) \in Nat \ {0}
    BY FirstName
  <2>2. 1 \in 1..Len(answer) /\ Len(answer) + 1 > 1
    BY <2>1
  <2> QED BY <1>3, <2>2, AppendFacts, ParentsOfAppend
<1>5. new.src = q /\ new.dest = Append(answer, q[Len(q)]) /\ new.checked = FALSE
  BY <1>1 DEF Job
<1>6. job.src[1] = FromDir
  BY DEF Bound
<1> QED BY <1>3, <1>4, <1>5, <1>6 DEF Bound

\* One item of a move.
LEMMA MoveItemDisk ==
  ASSUME TypeInv, TreeInv, DiskInv, MoveItem
  PROVE  DiskInv'
<1>1. /\ pc = "move" /\ pc' = "move" /\ soloVars' = soloVars /\ placeVars' = placeVars /\ configVars' = configVars
      /\ work # <<>>
  BY DEF MoveItem, Moving
<1>2. PhaseInv' /\ FromDir' = FromDir
  BY <1>1 DEF DiskInv, PhaseInv, FromDir, soloVars, placeVars, configVars
<1>3. \A job : disk' = disk /\ Bound(job) => Bound(job)'
  BY <1>2 DEF Bound, IsDir, Exists
<1>4. disk' = disk => Closed' /\ TemporaryInv'
  BY <1>1 DEF DiskInv, Closed, TemporaryInv, IsDir, Exists, soloVars
<1>5. /\ work \in Seq(Jobs) /\ Tail(work) \in Seq(Jobs) /\ ToSet(Tail(work)) \subseteq ToSet(work)
      /\ \A job \in ToSet(work) : Bound(job)
  <2>1. work \in Seq(Jobs) /\ Tail(work) \in Seq(Jobs)
    BY <1>1, JobFacts DEF TypeInv, PlaceType
  <2> QED BY <1>1, <2>1, ListFacts DEF DiskInv, MoveInv
<1>6. PICK answer \in Answers(Head(work)) :
        /\ Destination(Head(work), answer)
        /\ \/ disk' = disk /\ work' \in {Tail(work), <<>>}
           \/ /\ answer # Skipped
              /\ \/ /\ IsDir(answer) /\ work' = SetToSeq(Inside(Head(work), answer)) \o Tail(work)
                    /\ disk' = disk
                 \/ /\ ~IsDir(answer) /\ disk' = Moved(Head(work).src, answer) /\ work' = Tail(work)
  BY MoveItemSteps DEF IsDir
<1>7. CASE disk' = disk /\ work' \in {Tail(work), <<>>}
  <2>1. ToSet(work') \subseteq ToSet(work)
    BY <1>5, <1>7, ListFacts
  <2>2. MoveInv'
    BY <1>3, <1>5, <1>7, <2>1 DEF MoveInv
  <2> QED BY <1>2, <1>4, <1>7, <2>2 DEF DiskInv
<1>8. CASE /\ answer # Skipped /\ IsDir(answer) /\ disk' = disk
           /\ work' = SetToSeq(Inside(Head(work), answer)) \o Tail(work)
  <2>1. /\ Head(work) \in Jobs /\ Bound(Head(work)) /\ answer \in Paths \ {<<>>}
        /\ answer[1] # FromDir /\ answer[1].text # Temporary.text
        /\ \A q \in Parents(answer) : IsDir(q)
    BY <1>1, <1>6, <1>8, AnswerFacts
  <2>2. \A new \in Inside(Head(work), answer) : Bound(new)
    BY <1>8, <2>1, MergeBound
  <2>3. ToSet(work') \subseteq Inside(Head(work), answer) \cup ToSet(work)
    <3>1. IsFiniteSet(Inside(Head(work), answer)) /\ Inside(Head(work), answer) \subseteq Jobs
      BY <2>1, InsideFacts DEF TypeInv
    <3>2. SetToSeq(Inside(Head(work), answer)) \in Seq(Inside(Head(work), answer))
      BY <3>1, SetToSeqFacts
    <3>3. ToSet(SetToSeq(Inside(Head(work), answer))) \subseteq Inside(Head(work), answer)
      BY <3>2, ListFacts
    <3>4. SetToSeq(Inside(Head(work), answer)) \in Seq(Jobs)
      BY <3>1, <3>2
    <3>5. ToSet(work') = ToSet(SetToSeq(Inside(Head(work), answer))) \cup ToSet(Tail(work))
      <4>1. \A s, t \in Seq(Jobs) : ToSet(s \o t) = ToSet(s) \cup ToSet(t)
        BY ListFacts
      <4> QED BY <1>5, <1>8, <3>4, <4>1
    <3> QED BY <1>5, <3>3, <3>5
  <2>4. MoveInv'
    BY <1>3, <1>5, <1>8, <2>2, <2>3 DEF MoveInv
  <2> QED BY <1>2, <1>4, <1>8, <2>4 DEF DiskInv
<1>9. CASE /\ answer # Skipped /\ ~IsDir(answer)
           /\ disk' = Moved(Head(work).src, answer) /\ work' = Tail(work)
  <2>1. /\ Head(work) \in Jobs /\ Bound(Head(work)) /\ answer \in Paths \ {<<>>}
        /\ answer[1] # FromDir /\ answer[1].text # Temporary.text /\ Head(work).src[1] # answer[1]
        /\ \A q \in Parents(answer) : IsDir(q)
    BY <1>1, <1>6, <1>9, AnswerFacts
  <2>2. Head(work).src \in Paths \ {<<>>} /\ Head(work).src[1] = FromDir
    BY <2>1 DEF Jobs, Bound
  <2>3. /\ Closed'
        /\ \A q \in DOMAIN disk : IsDir(q) /\ q[1] # FromDir => IsDir(q)'
        /\ \A q \in DOMAIN disk' : q \in DOMAIN disk \/ q[1] = answer[1]
    BY <1>9, <2>1, <2>2, MoveCloses, MoveFacts DEF TypeInv, DiskInv
  <2>4. TemporaryInv'
    <3>1. \A q \in DOMAIN disk' : q[1].text = Temporary.text =>
            q[1] = Temporary /\ ((pc = "move" /\ lookslikesolo) \/ (pc = "returned" /\ result = "raised"))
      BY <1>1, <2>1, <2>3 DEF DiskInv, TemporaryInv
    <3> QED BY <1>1, <3>1 DEF TemporaryInv, soloVars
  <2>5. ASSUME NEW job \in ToSet(work) PROVE Bound(job)'
    <3>1. Bound(job) /\ job.dest \in Paths
      <4>1. job \in Jobs
        BY <1>5, ListFacts
      <4> QED BY <1>5, <4>1 DEF Jobs
    <3>2. ASSUME NEW q \in Parents(job.dest) PROVE IsDir(q)'
      <4>1. IsDir(q) /\ q \in DOMAIN disk
        BY <3>1 DEF Bound, IsDir, Exists
      <4>2. q[1] = job.dest[1]
        BY <3>1, ParentsFacts, FirstName
      <4>3. q[1] # FromDir
        BY <3>1, <4>2 DEF Bound
      <4> QED BY <2>3, <4>1, <4>3
    <3> QED BY <1>2, <3>1, <3>2 DEF Bound
  <2>6. MoveInv'
    BY <1>5, <1>9, <2>5 DEF MoveInv
  <2> QED BY <1>2, <2>3, <2>4, <2>6 DEF DiskInv
<1> QED BY <1>6, <1>7, <1>8, <1>9

\* A move that fails, and the end of the moves.
LEMMA MoveEndsDisk ==
  ASSUME TypeInv, TreeInv, DiskInv, MoveFails \/ MovesDone
  PROVE  DiskInv'
<1>1. /\ pc = "move" /\ soloVars' = soloVars /\ unpackdestination' = unpackdestination /\ configVars' = configVars
  BY DEF MoveFails, MovesDone, Moving, placeVars
<1>2. PhaseInv'
  <2>1. pc' \in {"move", "returned"}
    BY <1>1 DEF MoveFails, MovesDone, Finalize, Return
  <2> QED BY <1>1, <2>1 DEF DiskInv, PhaseInv, configVars
<1>3. CASE MoveFails
  <2>1. pc' = "move" /\ work' = <<>> /\ work # <<>>
    BY <1>1, <1>3 DEF MoveFails, Moving
  <2>2. MoveInv'
    BY <2>1, ListFacts DEF MoveInv
  <2>3. PICK answer \in Answers(Head(work)) \ {Skipped} :
          Destination(Head(work), answer) /\ disk' \in {disk, Removed(answer)}
    BY <1>3 DEF MoveFails
  <2>4. answer \in Paths \ {<<>>}
    BY <1>1, <2>1, <2>3, AnswerFacts
  <2>5. CASE disk' = disk
    BY <1>1, <1>2, <2>1, <2>2, <2>5 DEF DiskInv, Closed, IsDir, Exists, TemporaryInv, soloVars
  <2>6. CASE disk' = Removed(answer)
    <3>1. Closed' /\ \A q \in DOMAIN disk' : q \in DOMAIN disk
      BY <2>4, <2>6, RemoveFacts DEF TypeInv, DiskInv
    <3>2. TemporaryInv'
      BY <1>1, <2>1, <3>1 DEF DiskInv, TemporaryInv, soloVars
    <3> QED BY <1>2, <2>2, <3>1, <3>2 DEF DiskInv
  <2> QED BY <2>3, <2>5, <2>6
<1>4. CASE MovesDone
  <2>1. pc' = "returned" /\ disk' = IF lookslikesolo THEN Removed(<<Temporary>>) ELSE disk
    BY <1>4 DEF MovesDone, Finalize, Return
  <2>2. MoveInv'
    BY <2>1 DEF MoveInv
  <2>3. CASE ~lookslikesolo
    <3>1. \A q \in DOMAIN disk : q[1].text # Temporary.text
      BY <1>1, <2>3 DEF DiskInv, TemporaryInv
    <3> QED BY <1>2, <2>1, <2>2, <2>3, <3>1 DEF DiskInv, Closed, IsDir, Exists, TemporaryInv
  <2>4. CASE lookslikesolo
    <3>1. Closed' /\ \A q \in DOMAIN disk' : q \in DOMAIN disk /\ ~IsPrefix(<<Temporary>>, q)
      BY <2>1, <2>4, RemoveFacts, MadeUpPaths DEF TypeInv, DiskInv
    <3>2. ASSUME NEW q \in DOMAIN disk' PROVE q[1].text # Temporary.text
      <4>1. q \in DOMAIN disk /\ ~IsPrefix(<<Temporary>>, q) /\ q \in Paths \ {<<>>} /\ Len(q) \in Nat \ {0}
        BY <3>1, FirstName DEF TypeInv, DiskType
      <4>2. q[1] # Temporary
        BY <4>1, MadeUpPaths, PrefixFacts
      <4> QED BY <4>1, <4>2 DEF DiskInv, TemporaryInv
    <3> QED BY <1>2, <2>2, <3>1, <3>2 DEF DiskInv, TemporaryInv
  <2> QED BY <2>3, <2>4
<1> QED BY <1>3, <1>4

\* Every step keeps the tree on the disk.
LEMMA DiskStep == TypeInv /\ TreeInv /\ DiskInv /\ [Next]_vars => DiskInv'
<1> SUFFICES ASSUME TypeInv, TreeInv, DiskInv, [Next]_vars PROVE DiskInv'
  OBVIOUS
<1>1. CASE UNCHANGED vars
  BY <1>1 DEF vars, configVars, soloVars, placeVars, DiskInv, Closed, MoveInv, Bound, FromDir, PhaseInv,
     TemporaryInv, IsDir, Exists
<1>2. CASE BeginRegular \/ BeginSub \/ NextEntry \/ RuleOut \/ WalkKnown \/ WalkNew \/ WalkEnds \/ SubFails
           \/ EntriesDone
  <2>1. disk' = disk /\ pc \in {"begin", "next", "walk", "extract"}
    BY <1>2 DEF BeginRegular, BeginSub, NextEntry, RuleOut, WalkKnown, WalkNew, WalkEnds, SubFails, EntriesDone, Known
  <2>2. CASE ~EntriesDone
    <3>1. pc' \in {"next", "walk", "extract", "returned"}
      BY <1>2, <2>2 DEF BeginRegular, BeginSub, UnpackChecked, UnpackBeside, UnpackInto, NextEntry, RuleOut,
         WalkKnown, WalkNew, WalkEnds, SubFails, PassOver, Return, Known
    <3> QED BY <2>1, <3>1, QuietDisk DEF PhaseInv
  <2>3. CASE EntriesDone
    <3>1. /\ pc' \in {"solo", "replace", "returned"} /\ lookslikesolo' = lookslikesolo
          /\ pc' = "solo" => lookslikesolo
          /\ pc' = "replace" => ~lookslikesolo
      BY <2>3 DEF EntriesDone, Finalize, Return, soloVars
    <3> QED BY <2>1, <3>1, QuietDisk DEF PhaseInv
  <2> QED BY <2>2, <2>3
<1> QED BY <1>1, <1>2, ExtractDisk, RenameDisk, PlaceSoloDisk, ReplaceDisk, MoveItemDisk, MoveEndsDisk
    DEF Next, Extract

\* The disk is a tree at the start.
LEMMA DiskInit == Init => DiskInv
<1> SUFFICES ASSUME Init PROVE DiskInv
  OBVIOUS
<1>1. before \in Disks /\ disk = before /\ pc = "begin"
  BY DEF Init
<1>2. \A p \in DOMAIN before :
        p[1].text # Temporary.text /\ \A q \in Parents(p) : q \in DOMAIN before /\ before[q].dir
  BY <1>1, DisksAssumption
<1> QED BY <1>1, <1>2 DEF DiskInv, Closed, MoveInv, PhaseInv, TemporaryInv, IsDir, Exists

\* The types, the tree of the archive and the tree on the disk are an invariant.
LEMMA DiskTree == Spec => [](TypeInv /\ TreeInv /\ DiskInv)
<1>1. Init => TreeInv
  <2> SUFFICES ASSUME Init PROVE TreeInv
    OBVIOUS
  <2>1. renames = <<>> /\ written = <<>> /\ pc = "begin"
    BY DEF Init
  <2>2. DOMAIN <<>> = {}
    OBVIOUS
  <2> QED BY <2>1, <2>2 DEF TreeInv, RenamesInv, WalkInv, WrittenInv
<1> QED BY <1>1, TypeInit, TypeStep, TreeStep, DiskInit, DiskStep, PTL DEF Spec

\* TypeOK: what the variables hold, that everything on the disk has a
\* directory around it, and that a path is walked no further than it goes.
THEOREM TypeCorrect == Spec => []TypeOK
<1>1. TypeInv /\ DiskInv => TypeOK
  BY DEF TypeInv, ControlType, DiskType, RenamesType, OutcomeType, DiskInv, Closed, IsDir, TypeOK
<1> QED BY <1>1, DiskTree, PTL

\* NoTemporaryLeft: when the run returns, nothing has the temporary name of
\* the enclosing directory any more, whether the solo item was moved or not.
THEOREM TemporaryGone == Spec => []NoTemporaryLeft
<1>1. DiskInv => NoTemporaryLeft
  BY DEF DiskInv, TemporaryInv, NoTemporaryLeft
<1> QED BY <1>1, DiskTree, PTL
-----------------------------------------------------------------------------
(***************************************************************************)
(* What was on the disk before.                                            *)
(***************************************************************************)
\* Where an old file may not be touched.
Protected(p) == p \in DOMAIN before \ agreed /\ ~before[p].dir

OldInv ==
  /\ pc = "begin" => disk = before
  /\ policy # "overwrite" =>
       /\ \A p \in DOMAIN before : Protected(p) => Exists(p) /\ disk[p] = before[p]
       /\ \A w \in DOMAIN renames : ~Protected(renames[w])
       /\ pc = "move" => \A job \in ToSet(work) : job.checked => ~Protected(job.dest)

\* The directory for a sub-archive is a new one.
Fresh == sub /\ enclosingdir /\ removesolo /\ pc # "begin"
FreshInv == Fresh => \A p \in DOMAIN before : p[1] # unpackdestination[1]

\* The old files are where they can be: not under a name that was made up.
LEMMA BeforeFacts ==
  ASSUME ConfigType
  PROVE  \A p \in DOMAIN before : p \in Paths \ {<<>>} /\ p[1].text # Temporary.text /\ p[1] # Temporary
<1>1. before \in Disks
  BY DEF ConfigType
<1> QED BY <1>1, DisksAssumption

\* What has been agreed to stays agreed to, and the directory that is
\* unpacked into is chosen once.
LEMMA OldConfig ==
  ASSUME [Next]_vars
  PROVE  /\ agreed \subseteq agreed'
         /\ pc # "begin" => unpackdestination' = unpackdestination /\ pc' # "begin"
<1>1. agreed \subseteq agreed'
  <2>1. CASE BeginRegular \/ BeginSub
    BY <2>1 DEF BeginRegular, BeginSub, UnpackChecked, UnpackBeside, Answer, collisionVars
  <2>2. CASE NextEntry \/ RuleOut \/ WalkKnown \/ WalkNew \/ WalkEnds
    BY <2>2 DEF NextEntry, RuleOut, WalkKnown, WalkNew, WalkEnds, Answer, collisionVars
  <2>3. CASE ExtractEntry \/ ExtractFails \/ ExtractStopped \/ SubFails \/ EntriesDone
    BY <2>3 DEF ExtractEntry, ExtractFails, ExtractStopped, SubFails, EntriesDone, collisionVars
  <2>4. CASE RenameEnclosing \/ SoloUnknown \/ PlaceSolo \/ Replace
    BY <2>4 DEF RenameEnclosing, SoloUnknown, PlaceSolo, Replace, Answer, collisionVars
  <2>5. CASE MoveItem \/ MoveFails \/ MovesDone \/ UNCHANGED vars
    BY <2>5 DEF MoveItem, MoveFails, MovesDone, Destination, Answer, collisionVars, vars
  <2> QED BY <2>1, <2>2, <2>3, <2>4, <2>5 DEF Next, Extract
<1>2. ASSUME pc # "begin" PROVE unpackdestination' = unpackdestination /\ pc' # "begin"
  <2>1. ~BeginRegular /\ ~BeginSub
    BY <1>2 DEF BeginRegular, BeginSub
  <2>2. CASE NextEntry \/ RuleOut \/ WalkKnown \/ WalkNew \/ WalkEnds
    BY <2>2 DEF NextEntry, RuleOut, WalkKnown, WalkNew, WalkEnds, placeVars, PassOver, Return, Known
  <2>3. CASE ExtractEntry \/ ExtractFails \/ ExtractStopped \/ SubFails \/ EntriesDone
    BY <2>3 DEF ExtractEntry, ExtractFails, ExtractStopped, SubFails, EntriesDone, placeVars, PassOver, Return, Finalize
  <2>4. CASE RenameEnclosing \/ SoloUnknown \/ PlaceSolo \/ Replace
    BY <2>4 DEF RenameEnclosing, SoloUnknown, PlaceSolo, Replace, placeVars, Return, Finalize
  <2>5. CASE MoveItem \/ MoveFails \/ MovesDone \/ UNCHANGED vars
    BY <1>2, <2>5 DEF MoveItem, MoveFails, MovesDone, Moving, Finalize, Return, placeVars, vars
  <2> QED BY <2>1, <2>2, <2>3, <2>4, <2>5 DEF Next, Extract
<1> QED BY <1>1, <1>2

\* The directory for a sub-archive is free when it is chosen.
LEMMA FreshStep ==
  ASSUME TypeInv, DiskInv, OldInv, FreshInv, [Next]_vars
  PROVE  FreshInv'
<1>1. configVars' = configVars
  BY ConfigStep
<1>2. CASE pc # "begin"
  BY <1>1, <1>2, OldConfig DEF FreshInv, Fresh, configVars
<1>3. CASE BeginSub /\ enclosingdir /\ removesolo
  <2>1. /\ disk = before /\ before' = before
        /\ unpackdestination' = IF Exists(<<Enclosing>>) THEN UniquePath(<<Enclosing>>) ELSE <<Enclosing>>
    BY <1>1, <1>3 DEF BeginSub, UnpackInto, OldInv, configVars
  <2>2. unpackdestination' \in Paths \ {<<>>} /\ Len(unpackdestination') = 1 /\ ~Exists(unpackdestination')
    <3>1. CASE Exists(<<Enclosing>>)
      <4>1. \E n \in Nat \ {0} : UniquePath(<<Enclosing>>) = Numbered(<<Enclosing>>, n)
                                  /\ ~Exists(UniquePath(<<Enclosing>>))
        BY UniquePathFacts, MadeUpPaths DEF TypeInv, DiskType
      <4>2. PICK n \in Nat \ {0} : UniquePath(<<Enclosing>>) = Numbered(<<Enclosing>>, n)
                                   /\ ~Exists(UniquePath(<<Enclosing>>))
        BY <4>1
      <4>3. Numbered(<<Enclosing>>, n) \in Paths /\ Len(Numbered(<<Enclosing>>, n)) = 1
        BY NumberedFacts, MadeUpPaths
      <4>4. \A q \in Seq(Names) : Len(q) = 1 => q # <<>>
        OBVIOUS
      <4> QED BY <2>1, <3>1, <4>2, <4>3, <4>4 DEF Paths
    <3>2. CASE ~Exists(<<Enclosing>>)
      BY <2>1, <3>2, MadeUpPaths
    <3> QED BY <3>1, <3>2
  <2>3. ASSUME NEW p \in DOMAIN before, p[1] = unpackdestination'[1] PROVE FALSE
    <3>1. p \in Paths \ {<<>>} /\ Len(p) \in Nat \ {0} /\ p \in DOMAIN disk
      BY <2>1, BeforeFacts, FirstName DEF TypeInv
    <3>2. PICK q : q = unpackdestination'
      OBVIOUS
    <3>3. Len(q) <= Len(p) /\ \A n \in 1..Len(q) : q[n] = p[n]
      BY <2>2, <2>3, <3>1, <3>2
    <3>4. IsPrefix(q, p)
      BY <2>2, <3>1, <3>2, <3>3, PrefixFacts
    <3>5. p = q
      BY <2>2, <3>1, <3>2, <3>4, NothingBelow DEF TypeInv, DiskInv, IsDir
    <3> QED BY <2>2, <3>1, <3>2, <3>5 DEF Exists
  <2> QED BY <2>1, <2>3 DEF FreshInv
<1>4. CASE (BeginRegular \/ BeginSub) /\ ~(sub /\ enclosingdir /\ removesolo)
  BY <1>1, <1>4 DEF FreshInv, Fresh, configVars
<1>5. CASE UNCHANGED vars
  BY <1>5 DEF vars, configVars, placeVars, FreshInv, Fresh
<1>6. CASE pc = "begin" /\ Next
  <2>1. BeginRegular \/ BeginSub
    BY <1>6 DEF Next, Extract, NextEntry, RuleOut, WalkKnown, WalkNew, WalkEnds, ExtractEntry, ExtractFails,
       ExtractStopped, SubFails, EntriesDone, RenameEnclosing, SoloUnknown, PlaceSolo, Replace, MoveItem,
       MoveFails, MovesDone, Moving, Known
  <2>2. BeginRegular => ~sub
    BY DEF BeginRegular
  <2> QED BY <1>3, <1>4, <2>1, <2>2
<1> QED BY <1>2, <1>5, <1>6

\* A path that _checkPath: lets something go to is not protected.
LEMMA AnswerUnprotected ==
  ASSUME TypeInv, OldInv, policy # "overwrite", NEW p \in Paths \ {<<>>}, NEW answer \in CheckPath(p),
         Answer(p, answer), before' = before
  PROVE  ~Protected(answer)'
<1>1. agreed \subseteq agreed' /\ (policy = "ask" /\ answer = p /\ Exists(p) => p \in agreed')
  BY DEF Answer
<1>2. Protected(answer)' => answer \in DOMAIN before /\ Protected(answer) /\ answer \notin agreed'
  BY <1>1 DEF Protected
<1>3. CASE answer = Skipped
  BY <1>2, <1>3, BeforeFacts DEF Skipped, TypeInv
<1>4. CASE ~Exists(answer)
  BY <1>2, <1>4 DEF OldInv
<1>5. CASE answer = p /\ policy \in {"overwrite", "ask"} /\ Exists(answer)
  BY <1>1, <1>2, <1>5
<1> QED BY <1>3, <1>4, <1>5, CheckPathFacts DEF TypeInv, ConfigType, DiskType

\* What a step has to leave alone, to leave the old files alone.
LEMMA OldKept ==
  ASSUME OldInv, before' = before, policy' = policy, agreed \subseteq agreed', pc' # "begin",
         policy # "overwrite" =>
           \A p \in DOMAIN disk : Protected(p) /\ Protected(p)' => p \in DOMAIN disk' /\ disk'[p] = disk[p],
         policy # "overwrite" =>
           renames' = renames \/ \E w, answer : renames' = Extended(renames, w, answer) /\ ~Protected(answer)',
         policy # "overwrite" /\ pc' = "move" =>
           \A job \in ToSet(work') :
             (pc = "move" /\ job \in ToSet(work)) \/ ~job.checked \/ ~Protected(job.dest)'
  PROVE  OldInv'
<1>1. \A p : Protected(p)' => Protected(p)
  BY DEF Protected
<1>2. ASSUME policy # "overwrite", NEW p \in DOMAIN before, Protected(p)'
      PROVE  p \in DOMAIN disk' /\ disk'[p] = before[p]
  BY <1>1, <1>2 DEF OldInv, Exists
<1>3. ASSUME policy # "overwrite", NEW w \in DOMAIN renames' PROVE (~Protected(renames[w]))'
  <2> SUFFICES ASSUME NEW answer, answer = renames'[w] PROVE ~Protected(answer)'
    BY DEF Protected
  <2>1. CASE renames' = renames
    <3>1. ~Protected(answer)
      BY <1>3, <2>1 DEF OldInv
    <3> QED BY <1>1, <3>1
  <2>2. ASSUME NEW v, NEW a, renames' = Extended(renames, v, a), ~Protected(a)'
        PROVE  ~Protected(answer)'
    <3>1. answer = IF w = v THEN a ELSE renames[w]
      BY <1>3, <2>2 DEF Extended
    <3>2. CASE w = v
      BY <2>2, <3>1, <3>2
    <3>3. CASE w # v
      <4>1. w \in DOMAIN renames /\ ~Protected(answer)
        BY <1>3, <2>2, <3>1, <3>3 DEF OldInv, Extended
      <4> QED BY <1>1, <4>1
    <3> QED BY <3>2, <3>3
  <2> QED BY <1>3, <2>1, <2>2
<1>4. ASSUME policy # "overwrite", pc' = "move", NEW job \in ToSet(work'), job.checked
      PROVE  ~Protected(job.dest)'
  <2>1. CASE pc = "move" /\ job \in ToSet(work)
    BY <1>1, <1>4, <2>1 DEF OldInv
  <2> QED BY <1>4, <2>1
<1> QED BY <1>2, <1>3, <1>4 DEF OldInv, Exists

\* The walk and the extraction spare the old files.
LEMMA ExtractOld ==
  ASSUME TypeInv, TreeInv, DiskInv, OldInv, Extract \/ BeginRegular \/ BeginSub \/ EntriesDone
  PROVE  OldInv'
<1>1. [Next]_vars
  BY DEF Next
<1>2. before' = before /\ policy' = policy /\ agreed \subseteq agreed'
  BY <1>1, ConfigStep, OldConfig DEF configVars
<1>3. pc' # "begin" /\ pc' # "move"
  BY DEF Extract, BeginRegular, BeginSub, UnpackChecked, UnpackBeside, UnpackInto, NextEntry, RuleOut,
     WalkKnown, WalkNew, WalkEnds, ExtractEntry, ExtractFails, ExtractStopped, SubFails, EntriesDone,
     PassOver, Return, Finalize, Known
<1>4. CASE WalkNew
  <2> DEFINE p == Append(path, Adjusted(Entry)[c])
  <2>1. /\ disk' = disk
        /\ \E answer \in CheckPath(p) : Answer(p, answer) /\ renames' = Extended(renames, Walked, answer)
    BY <1>4 DEF WalkNew
  <2>2. PICK answer \in CheckPath(p) : Answer(p, answer) /\ renames' = Extended(renames, Walked, answer)
    BY <2>1
  <2>3. p \in Paths \ {<<>>}
    <3>1. pc = "walk" /\ c <= Len(Entry.path) /\ i \in 1..Len(archive) /\ path \in Paths
          /\ c \in 1..Len(Entry.path) + 1
      BY <1>4 DEF WalkNew, TypeInv, ControlType
    <3>2. Len(Entry.path) \in Nat
      BY <3>1, EntryFacts DEF TypeInv, Entry
    <3>3. c \in 1..Len(Entry.path)
      BY <3>1, <3>2
    <3> QED BY <3>1, <3>3, WalkFacts DEF TypeInv
  <2> HIDE DEF p
  <2>4. policy # "overwrite" => ~Protected(answer)'
    BY <1>2, <2>2, <2>3, AnswerUnprotected
  <2> QED BY <1>2, <1>3, <2>1, <2>2, <2>4, OldKept
<1>5. CASE ExtractEntry \/ ExtractFails \/ ExtractStopped
  <2>1. pc = "extract" /\ renames' = renames
    BY <1>5 DEF ExtractEntry, ExtractFails, ExtractStopped
  <2>2. disk' = disk \/ (Writable /\ disk' \in {disk, WithParents(path), Written})
    BY <1>5 DEF ExtractEntry, ExtractFails, ExtractStopped
  <2>3. path \in Paths \ {<<>>} /\ (policy # "overwrite" => ~Protected(path))
    BY <2>1, PathPlaced DEF OldInv
  <2>4. \A q \in DOMAIN disk \ {path} : q \in DOMAIN disk' /\ disk'[q] = disk[q]
    <3>1. CASE disk' = disk
      BY <3>1
    <3>2. CASE Writable /\ disk' \in {disk, WithParents(path), Written}
      BY <2>3, <3>2, WriteFacts DEF TypeInv, DiskInv
    <3> QED BY <2>2, <3>1, <3>2
  <2> QED BY <1>2, <1>3, <2>1, <2>3, <2>4, OldKept
<1>6. CASE BeginRegular \/ BeginSub \/ NextEntry \/ RuleOut \/ WalkKnown \/ WalkEnds \/ SubFails \/ EntriesDone
  <2>1. disk' = disk /\ renames' = renames
    BY <1>6 DEF BeginRegular, BeginSub, NextEntry, RuleOut, WalkKnown, WalkEnds, SubFails, EntriesDone
  <2> QED BY <1>2, <1>3, <2>1, OldKept
<1> QED BY <1>4, <1>5, <1>6 DEF Extract

\* Finding a place for what was unpacked spares the old files.
LEMMA PlacingOld ==
  ASSUME TypeInv, TreeInv, DiskInv, OldInv, FreshInv, RenameEnclosing \/ SoloUnknown \/ PlaceSolo \/ Replace
  PROVE  OldInv'
<1>1. [Next]_vars
  BY DEF Next
<1>2. before' = before /\ policy' = policy /\ agreed \subseteq agreed'
  BY <1>1, ConfigStep, OldConfig DEF configVars
<1>3. /\ pc' # "begin" /\ renames' = renames /\ pc \in {"solo", "place", "replace"}
      /\ sub /\ enclosingdir /\ removesolo
  BY DEF RenameEnclosing, SoloUnknown, PlaceSolo, Replace, Return, Finalize, TypeInv, PlaceType
<1>4. /\ unpackdestination \in Paths \ {<<>>} /\ unpackdestination[1] # Temporary
      /\ \A p \in DOMAIN before : p \in Paths \ {<<>>} /\ p[1] # unpackdestination[1] /\ p[1] # Temporary
  BY <1>3, UnpackFacts, BeforeFacts DEF FreshInv, Fresh, TypeInv
<1>5. \A p : Protected(p) => p \in DOMAIN before
  BY DEF Protected
<1>6. ASSUME \/ disk' \in {disk, Removed(<<Temporary>>), Removed(unpackdestination)}
             \/ disk' = Moved(unpackdestination, <<Temporary>>) /\ pc = "solo"
      PROVE  \A p \in DOMAIN disk : Protected(p) => p \in DOMAIN disk' /\ disk'[p] = disk[p]
  <2> SUFFICES ASSUME NEW p \in DOMAIN disk, Protected(p) PROVE p \in DOMAIN disk' /\ disk'[p] = disk[p]
    OBVIOUS
  <2>1. p \in Paths \ {<<>>} /\ p[1] # unpackdestination[1] /\ p[1] # Temporary
    BY <1>4, <1>5
  <2>2. ~IsPrefix(unpackdestination, p) /\ ~IsPrefix(<<Temporary>>, p) /\ p # <<Temporary>>
    <3>1. <<Temporary>> \in Paths \ {<<>>} /\ <<Temporary>>[1] = Temporary
      BY MadeUpPaths
    <3> QED BY <1>4, <2>1, <3>1, FirstName
  <2>3. CASE disk' = disk
    BY <2>3
  <2>4. CASE disk' = Removed(<<Temporary>>) \/ disk' = Removed(unpackdestination)
    BY <1>4, <2>2, <2>4, RemoveFacts, MadeUpPaths DEF TypeInv, DiskInv
  <2>5. CASE disk' = Moved(unpackdestination, <<Temporary>>) /\ pc = "solo"
    <3>1. <<Temporary>> \in Paths \ {<<>>} /\ <<Temporary>>[1] = Temporary
      BY MadeUpPaths
    <3>2. ~IsDir(<<Temporary>>)
      BY <2>5, <3>1 DEF DiskInv, TemporaryInv, IsDir, Exists
    <3> QED BY <1>4, <2>2, <2>5, <3>1, <3>2, MoveFacts DEF TypeInv, DiskInv
  <2> QED BY <1>6, <2>3, <2>4, <2>5
<1>7. CASE RenameEnclosing \/ SoloUnknown
  <2>1. /\ disk' \in {disk, Moved(unpackdestination, <<Temporary>>)} /\ pc = "solo" /\ pc' # "move"
    BY <1>7 DEF RenameEnclosing, SoloUnknown, EnclosingRenamed, Return
  <2> QED BY <1>2, <1>3, <1>6, <2>1, OldKept
<1>8. CASE PlaceSolo
  <2>1. \E answer \in CheckPath(<<SoloName>>) :
          /\ Answer(<<SoloName>>, answer)
          /\ \/ disk' = Removed(<<Temporary>>) /\ pc' # "move"
             \/ disk' = disk /\ work' = <<Job(<<Temporary, SoloName>>, answer, TRUE)>>
    BY <1>8 DEF PlaceSolo, Return
  <2>2. PICK answer \in CheckPath(<<SoloName>>) :
          /\ Answer(<<SoloName>>, answer)
          /\ \/ disk' = Removed(<<Temporary>>) /\ pc' # "move"
             \/ disk' = disk /\ work' = <<Job(<<Temporary, SoloName>>, answer, TRUE)>>
    BY <2>1
  <2>3. <<SoloName>> \in Paths \ {<<>>} /\ pc = "place"
    <3>1. SoloName \in Names
      BY <1>8, SoloNameFacts DEF PlaceSolo, TypeInv, PlaceType
    <3> QED BY <1>8, <3>1, MadeUpPaths DEF PlaceSolo
  <2>4. policy # "overwrite" => ~Protected(answer)'
    BY <1>2, <2>2, <2>3, AnswerUnprotected
  <2>5. \A p \in DOMAIN disk : Protected(p) => p \in DOMAIN disk' /\ disk'[p] = disk[p]
    BY <1>6, <2>2, <2>3
  <2>6. pc' = "move" /\ policy # "overwrite" => \A job \in ToSet(work') : ~Protected(job.dest)'
    <3>1. \A x : ToSet(<<x>>) = {x}
      BY ListFacts
    <3>2. Job(<<Temporary, SoloName>>, answer, TRUE).dest = answer
      BY DEF Job
    <3>3. ASSUME pc' = "move", policy # "overwrite", NEW job \in ToSet(work') PROVE ~Protected(job.dest)'
      <4>1. job.dest = answer
        BY <2>2, <3>1, <3>2, <3>3
      <4> QED BY <2>4, <3>3, <4>1
    <3> QED BY <3>3
  <2> QED BY <1>2, <1>3, <2>5, <2>6, OldKept
<1>9. CASE Replace
  <2>1. \E answer \in CheckPath(originaldest) \cup {unpackdestination} :
          /\ Answer(originaldest, answer)
          /\ \/ disk' = Removed(unpackdestination) /\ pc' # "move"
             \/ disk' = disk /\ pc' # "move"
             \/ disk' = disk /\ answer # unpackdestination /\ work' = <<Job(unpackdestination, answer, TRUE)>>
    BY <1>9 DEF Replace, Return, Finalize
  <2>2. PICK answer \in CheckPath(originaldest) \cup {unpackdestination} :
          /\ Answer(originaldest, answer)
          /\ \/ disk' = Removed(unpackdestination) /\ pc' # "move"
             \/ disk' = disk /\ pc' # "move"
             \/ disk' = disk /\ answer # unpackdestination /\ work' = <<Job(unpackdestination, answer, TRUE)>>
    BY <2>1
  <2>3. originaldest \in Paths \ {<<>>} /\ pc = "replace"
    BY <1>9, MadeUpPaths DEF Replace, TypeInv, PlaceType
  <2>4. policy # "overwrite" /\ answer # unpackdestination => ~Protected(answer)'
    BY <1>2, <2>2, <2>3, AnswerUnprotected
  <2>5. \A p \in DOMAIN disk : Protected(p) => p \in DOMAIN disk' /\ disk'[p] = disk[p]
    BY <1>6, <2>2, <2>3
  <2>6. pc' = "move" /\ policy # "overwrite" => \A job \in ToSet(work') : ~Protected(job.dest)'
    <3>1. \A x : ToSet(<<x>>) = {x}
      BY ListFacts
    <3>2. Job(unpackdestination, answer, TRUE).dest = answer
      BY DEF Job
    <3>3. ASSUME pc' = "move", policy # "overwrite", NEW job \in ToSet(work') PROVE ~Protected(job.dest)'
      <4>1. job.dest = answer /\ answer # unpackdestination
        BY <2>2, <3>1, <3>2, <3>3
      <4> QED BY <2>4, <3>3, <4>1
    <3> QED BY <3>3
  <2> QED BY <1>2, <1>3, <2>5, <2>6, OldKept
<1> QED BY <1>7, <1>8, <1>9

\* So do the moves.
LEMMA MovingOld ==
  ASSUME TypeInv, TreeInv, DiskInv, OldInv, FreshInv, MoveItem \/ MoveFails \/ MovesDone
  PROVE  OldInv'
<1>1. [Next]_vars
  BY DEF Next
<1>2. before' = before /\ policy' = policy /\ agreed \subseteq agreed'
  BY <1>1, ConfigStep, OldConfig DEF configVars
<1>3. /\ pc' # "begin" /\ renames' = renames /\ pc = "move" /\ sub /\ enclosingdir /\ removesolo
  BY DEF MoveItem, MoveFails, MovesDone, Moving, Return, Finalize, DiskInv, PhaseInv
<1>4. \A p : Protected(p) => p \in DOMAIN before /\ p \in Paths \ {<<>>} /\ p[1] # FromDir /\ p[1] # Temporary
  <2>1. \A p \in DOMAIN before : p \in Paths \ {<<>>} /\ p[1] # unpackdestination[1] /\ p[1] # Temporary
    BY <1>3, BeforeFacts DEF FreshInv, Fresh, TypeInv
  <2>2. FromDir \in {Temporary, unpackdestination[1]}
    BY DEF FromDir
  <2> QED BY <2>1, <2>2 DEF Protected
\* Where the head of the list goes may be replaced.
<1>5. ASSUME work # <<>>, policy # "overwrite", NEW answer, answer # Skipped, Destination(Head(work), answer)
      PROVE  ~Protected(answer)'
  <2>1. Head(work) \in ToSet(work) /\ Head(work) \in Jobs /\ (Head(work).checked => answer = Head(work).dest)
    BY <1>3, <1>5, AnswerFacts
  <2>2. CASE Head(work).checked
    <3>1. ~Protected(answer)
      BY <1>3, <1>5, <2>1, <2>2 DEF OldInv
    <3> QED BY <1>2, <3>1 DEF Protected
  <2>3. CASE ~Head(work).checked
    <3>1. answer \in CheckPath(Head(work).dest) /\ Answer(Head(work).dest, answer)
      BY <1>5, <2>3 DEF Destination
    <3>2. Head(work).dest \in Paths \ {<<>>}
      BY <2>1 DEF Jobs
    <3> QED BY <1>2, <1>5, <3>1, <3>2, AnswerUnprotected
  <2> QED BY <2>2, <2>3
<1>6. CASE MoveItem
  <2>1. work # <<>> /\ work \in Seq(Jobs) /\ Tail(work) \in Seq(Jobs) /\ ToSet(Tail(work)) \subseteq ToSet(work)
        /\ Head(work) \in Jobs
    <3>1. work # <<>> /\ work \in Seq(Jobs) /\ Tail(work) \in Seq(Jobs) /\ Head(work) \in Jobs
      BY <1>6, JobFacts DEF MoveItem, Moving, TypeInv, PlaceType
    <3> QED BY <3>1, ListFacts
  <2>2. PICK answer \in Answers(Head(work)) :
          /\ Destination(Head(work), answer)
          /\ \/ disk' = disk /\ work' \in {Tail(work), <<>>}
             \/ /\ answer # Skipped
                /\ \/ work' = SetToSeq(Inside(Head(work), answer)) \o Tail(work) /\ disk' = disk
                   \/ ~IsDir(answer) /\ disk' = Moved(Head(work).src, answer) /\ work' = Tail(work)
    BY <1>6, MoveItemSteps DEF IsDir
  <2>3. \A job \in ToSet(work') : job \in ToSet(work) \/ ~job.checked
    <3>1. CASE work' \in {Tail(work), <<>>}
      BY <2>1, <3>1, ListFacts
    <3>2. CASE answer # Skipped /\ work' = SetToSeq(Inside(Head(work), answer)) \o Tail(work)
      <4>1. answer \in Paths
        BY <1>3, <2>1, <2>2, <3>2, AnswerFacts
      <4>2. IsFiniteSet(Inside(Head(work), answer)) /\ Inside(Head(work), answer) \subseteq Jobs
        BY <2>1, <4>1, InsideFacts DEF TypeInv
      <4>3. SetToSeq(Inside(Head(work), answer)) \in Seq(Inside(Head(work), answer))
        BY <4>2, SetToSeqFacts
      <4>4. ToSet(SetToSeq(Inside(Head(work), answer))) \subseteq Inside(Head(work), answer)
        BY <4>3, ListFacts
      <4>5. SetToSeq(Inside(Head(work), answer)) \in Seq(Jobs)
        BY <4>2, <4>3
      <4>6. \A s, t \in Seq(Jobs) : ToSet(s \o t) = ToSet(s) \cup ToSet(t)
        BY ListFacts
      <4>7. ToSet(work') \subseteq Inside(Head(work), answer) \cup ToSet(work)
        BY <2>1, <3>2, <4>4, <4>5, <4>6
      <4>8. \A job \in Inside(Head(work), answer) : ~job.checked
        BY DEF Inside, Job
      <4> QED BY <4>7, <4>8
    <3> QED BY <2>2, <3>1, <3>2
  <2>4. policy # "overwrite" =>
          \A p \in DOMAIN disk : Protected(p) /\ Protected(p)' => p \in DOMAIN disk' /\ disk'[p] = disk[p]
    <3> SUFFICES ASSUME policy # "overwrite", NEW p \in DOMAIN disk, Protected(p), Protected(p)'
                 PROVE  p \in DOMAIN disk' /\ disk'[p] = disk[p]
      OBVIOUS
    <3>1. CASE disk' = disk
      BY <3>1
    <3>2. CASE answer # Skipped /\ ~IsDir(answer) /\ disk' = Moved(Head(work).src, answer)
      <4>1. /\ Bound(Head(work)) /\ answer \in Paths \ {<<>>} /\ Head(work).src[1] # answer[1]
        BY <1>3, <2>1, <2>2, <3>2, AnswerFacts
      <4>2. Head(work).src \in Paths \ {<<>>} /\ Head(work).src[1] = FromDir
        BY <2>1, <4>1 DEF Jobs, Bound
      <4>3. p # answer
        BY <1>5, <2>1, <2>2, <3>2
      <4>4. p[1] # Head(work).src[1]
        BY <1>4, <4>2
      <4> QED BY <3>2, <4>1, <4>2, <4>3, <4>4, MoveFacts DEF TypeInv, DiskInv
    <3> QED BY <2>2, <3>1, <3>2
  <2> QED BY <1>2, <1>3, <2>3, <2>4, OldKept
<1>7. CASE MoveFails
  <2>1. work' = <<>> /\ work # <<>>
    BY <1>7 DEF MoveFails, Moving
  <2>2. PICK answer \in Answers(Head(work)) \ {Skipped} :
          /\ Destination(Head(work), answer)
          /\ disk' = disk \/ (disk' = Removed(answer) /\ ~disk[answer].dir)
    BY <1>7 DEF MoveFails
  <2>3. answer \in Paths \ {<<>>}
    BY <1>3, <2>1, <2>2, AnswerFacts
  <2>4. policy # "overwrite" =>
          \A p \in DOMAIN disk : Protected(p) /\ Protected(p)' => p \in DOMAIN disk' /\ disk'[p] = disk[p]
    <3> SUFFICES ASSUME policy # "overwrite", NEW p \in DOMAIN disk, Protected(p), Protected(p)'
                 PROVE  p \in DOMAIN disk' /\ disk'[p] = disk[p]
      OBVIOUS
    <3>1. CASE disk' = disk
      BY <3>1
    <3>2. CASE disk' = Removed(answer) /\ ~disk[answer].dir
      <4>1. p # answer
        BY <1>5, <2>1, <2>2
      <4>2. ~IsPrefix(answer, p)
        BY <2>3, <3>2, <4>1, NothingBelow DEF TypeInv, DiskInv, IsDir
      <4> QED BY <2>3, <3>2, <4>2, RemoveFacts DEF TypeInv, DiskInv
    <3> QED BY <2>2, <3>1, <3>2
  <2> QED BY <1>2, <1>3, <2>1, <2>4, ListFacts, OldKept
<1>8. CASE MovesDone
  <2>1. pc' # "move" /\ disk' \in {disk, Removed(<<Temporary>>)}
    BY <1>8 DEF MovesDone, Finalize, Return
  <2>2. \A p \in DOMAIN disk : Protected(p) => p \in DOMAIN disk' /\ disk'[p] = disk[p]
    <3>1. \A p : Protected(p) => ~IsPrefix(<<Temporary>>, p)
      BY <1>4, FirstName, MadeUpPaths
    <3>2. CASE disk' = Removed(<<Temporary>>)
      BY <3>1, <3>2, RemoveFacts, MadeUpPaths DEF TypeInv, DiskInv
    <3> QED BY <2>1, <3>2
  <2> QED BY <1>2, <1>3, <2>1, <2>2, OldKept
<1> QED BY <1>6, <1>7, <1>8

\* The old files, with the types and the trees, are an invariant.
LEMMA OldFiles == Spec => [](TypeInv /\ TreeInv /\ DiskInv /\ OldInv /\ FreshInv)
<1>1. Init => OldInv /\ FreshInv
  <2> SUFFICES ASSUME Init PROVE OldInv /\ FreshInv
    OBVIOUS
  <2>1. disk = before /\ renames = <<>> /\ pc = "begin"
    BY DEF Init
  <2>2. DOMAIN <<>> = {}
    OBVIOUS
  <2> QED BY <2>1, <2>2 DEF OldInv, FreshInv, Fresh, Exists
<1>2. TypeInv /\ TreeInv /\ DiskInv /\ OldInv /\ FreshInv /\ [Next]_vars => OldInv' /\ FreshInv'
  <2> SUFFICES ASSUME TypeInv, TreeInv, DiskInv, OldInv, FreshInv, [Next]_vars PROVE OldInv' /\ FreshInv'
    OBVIOUS
  <2>1. CASE UNCHANGED vars
    <3>1. /\ before' = before /\ policy' = policy /\ disk' = disk /\ pc' = pc /\ renames' = renames
          /\ work' = work /\ agreed' = agreed
      BY <2>1 DEF vars, configVars, collisionVars
    <3>2. OldInv'
      BY <3>1 DEF OldInv, Protected, Exists
    <3> QED BY <3>2, FreshStep
  <2>2. CASE Next
    <3>1. OldInv'
      BY <2>2, ExtractOld, PlacingOld, MovingOld DEF Next
    <3> QED BY <3>1, FreshStep
  <2>3. FreshInv'
    BY FreshStep
  <2> QED BY <2>1, <2>2, <2>3
<1> QED BY <1>1, <1>2, DiskTree, TypeStep, TreeStep, DiskStep, PTL DEF Spec

\* OldFilesSurvive: unless the policy is to overwrite, a file that was there
\* before is still there, untouched, if the delegate has not agreed to
\* replacing it.
THEOREM OldFilesSafe == Spec => []OldFilesSurvive
<1>1. OldInv => OldFilesSurvive
  BY DEF OldInv, Protected, OldFilesSurvive
<1> QED BY <1>1, OldFiles, PTL

-----------------------------------------------------------------------------
(***************************************************************************)
(* What is outside the directory of a sub-archive.                         *)
(***************************************************************************)
\* Only what is extracted is written, and that is inside.
LEMMA OutsideStep ==
  ASSUME TypeInv, TreeInv, DiskInv, OldInv, OutsideUntouched, [Next]_vars
  PROVE  OutsideUntouched'
<1> DEFINE Unpacking == {"next", "walk", "extract", "solo", "replace"}
           Untouched(p) == Exists(p) /\ p \in DOMAIN before /\ disk[p] = before[p]
<1>1. before' = before /\ sub' = sub
  BY ConfigStep DEF configVars
<1>2. SUFFICES ASSUME sub, pc' \in Unpacking, NEW p \in DOMAIN disk' \cup DOMAIN before
               PROVE  IsPrefix(unpackdestination', p) \/ (p \in DOMAIN disk' /\ p \in DOMAIN before /\ disk'[p] = before[p])
  BY <1>1 DEF OutsideUntouched, Exists
<1>3. CASE disk' = disk
  <2>1. CASE pc = "begin"
    BY <1>2, <1>3, <2>1 DEF OldInv
  <2>2. CASE pc \in Unpacking
    <3>1. unpackdestination' = unpackdestination
      BY <2>2, OldConfig
    <3> QED BY <1>2, <1>3, <2>2, <3>1 DEF OutsideUntouched, Exists
  <2>3. pc = "begin" \/ pc \in Unpacking
    BY <1>2 DEF Next, vars, Extract, BeginRegular, BeginSub, NextEntry, RuleOut, WalkKnown, WalkNew, WalkEnds,
       ExtractEntry, ExtractFails, ExtractStopped, SubFails, EntriesDone, RenameEnclosing, SoloUnknown,
       PlaceSolo, Replace, MoveItem, MoveFails, MovesDone, Known, Moving, Return, Finalize
  <2> QED BY <2>1, <2>2, <2>3
<1>4. CASE ExtractEntry \/ ExtractFails \/ ExtractStopped
  <2>1. pc = "extract"
    BY <1>4 DEF ExtractEntry, ExtractFails, ExtractStopped
  <2>2. disk' = disk \/ (Writable /\ disk' \in {disk, WithParents(path), Written})
    BY <1>4 DEF ExtractEntry, ExtractFails, ExtractStopped
  <2>3. unpackdestination' = unpackdestination
    BY <2>1, OldConfig
  <2>4. /\ path \in Paths \ {<<>>} /\ IsPrefix(unpackdestination, path)
        /\ unpackdestination \in Paths /\ Len(unpackdestination) <= 1
    <3>1. unpackdestination \in Paths /\ (unpackdestination = <<>> \/ Len(unpackdestination) = 1)
      BY NameFacts DEF TypeInv, PlaceType, Nowhere
    <3>2. Len(<<>>) = 0
      OBVIOUS
    <3>3. path \in Paths \ {<<>>} /\ IsPrefix(unpackdestination, path)
      BY <2>1, PathPlaced DEF Placed
    <3>4. CASE unpackdestination = <<>>
      BY <3>1, <3>2, <3>3, <3>4
    <3>5. CASE Len(unpackdestination) = 1
      BY <3>1, <3>3, <3>5
    <3> QED BY <3>1, <3>4, <3>5
  <2>5. CASE Writable /\ disk' \in {disk, WithParents(path), Written}
    <3>1. /\ \A q \in DOMAIN disk' : q \in DOMAIN disk \/ (q \in Paths \ {<<>>} /\ IsPrefix(q, path))
          /\ \A q \in DOMAIN disk \ {path} : q \in DOMAIN disk' /\ disk'[q] = disk[q]
      BY <2>4, <2>5, WriteFacts DEF TypeInv, DiskInv
    <3>2. \A q \in Paths \ {<<>>} : IsPrefix(q, path) => IsPrefix(unpackdestination, q)
      <4> SUFFICES ASSUME NEW q \in Paths \ {<<>>}, IsPrefix(q, path) PROVE IsPrefix(unpackdestination, q)
        OBVIOUS
      <4>1. Len(q) \in Nat \ {0}
        BY FirstName
      <4>2. Len(unpackdestination) \in Nat
        BY <2>4 DEF Paths
      <4>3. Len(unpackdestination) <= Len(q)
        BY <2>4, <4>1, <4>2
      <4> QED BY <2>4, <4>3, PrefixChains
    <3>3. IsPrefix(path, path)
      BY <2>4, PrefixChains
    <3>4. CASE p \notin DOMAIN disk
      <4>1. CASE p \in DOMAIN disk'
        BY <2>3, <3>1, <3>2, <3>4, <4>1
      <4>2. CASE p \in DOMAIN before
        BY <1>2, <2>1, <2>3, <3>4, <4>2 DEF OutsideUntouched, Exists
      <4> QED BY <1>2, <4>1, <4>2
    <3>5. CASE p \in DOMAIN disk /\ p # path
      BY <1>2, <2>1, <2>3, <3>1, <3>5 DEF OutsideUntouched, Exists
    <3>6. CASE p = path
      BY <2>3, <2>4, <3>6
    <3> QED BY <3>4, <3>5, <3>6
  <2> QED BY <1>3, <2>2, <2>5
<1>5. disk' = disk \/ ExtractEntry \/ ExtractFails \/ ExtractStopped
  BY <1>2 DEF Next, vars, Extract, BeginRegular, BeginSub, NextEntry, RuleOut, WalkKnown, WalkNew, WalkEnds,
     SubFails, EntriesDone, RenameEnclosing, SoloUnknown,
     PlaceSolo, Replace, MoveItem, MoveFails, MovesDone, Known, Moving, Return, Finalize
<1> QED BY <1>3, <1>4, <1>5

\* OutsideUntouched: until it is known where they belong, the files of a
\* sub-archive stay in the directory picked for them, and everything outside it
\* is as it was.
THEOREM OutsideSafe == Spec => []OutsideUntouched
<1>1. Init => OutsideUntouched
  BY DEF Init, OutsideUntouched
<1>2. TypeInv /\ TreeInv /\ DiskInv /\ OldInv /\ OutsideUntouched /\ [Next]_vars => OutsideUntouched'
  BY OutsideStep
<1> QED BY <1>1, <1>2, OldFiles, PTL DEF Spec

-----------------------------------------------------------------------------
(***************************************************************************)
(* Where the files of the archive are.                                     *)
(***************************************************************************)
\* In a new directory there are no collisions.
NewInv ==
  Fresh =>
    /\ \A w \in DOMAIN renames : renames[w] = unpackdestination \o w
    /\ pc \in {"next", "walk", "extract", "solo", "replace"} =>
         \A q \in DOMAIN disk :
           q[1] = unpackdestination[1] =>
             q = unpackdestination \/ \E w \in DOMAIN renames : q = unpackdestination \o w

\* Entries whose file should be somewhere.
Kept(j) == j \in DOMAIN written /\ ~archive[j].dir /\ ~Superseded(j)

FileAt(p, j) == Exists(p) /\ disk[p] = Node(FALSE, j)

CollectInv ==
  /\ pc \in {"begin", "next", "walk", "extract"} =>
       /\ \A j \in DOMAIN written : j < i
       /\ numextracted = 0 => DOMAIN written = {}
  /\ pc \in {"begin", "next", "walk", "extract", "solo", "replace"} =>
       \A j \in DOMAIN written : Kept(j) => FileAt(written[j], j)

\* Every name below the directory that everything is moved out of is one of the archive.
Plain(q) == \A m \in 2..Len(q) : q[m].number = 0
PlainInv == pc \in {"place", "move"} => \A q \in DOMAIN disk : q[1] = FromDir => Plain(q)

PlaceInv ==
  pc = "place" =>
    \/ \A q \in DOMAIN disk : q[1] # Temporary
    \/ \A j \in DOMAIN written : Kept(j) => FileAt(<<Temporary>> \o Adjusted(archive[j]), j)

\* Where everything is moved to.
Root == IF lookslikesolo THEN Nowhere ELSE finaldestination

\* p is below the first b of its names what w is, but for the numbers.
Below(p, b, w) ==
  Len(p) = b + Len(w) /\ \A m \in 1..Len(w) : p[b + m].text = w[m].text /\ p[b + m].fork = w[m].fork

\* A job moves something to its place.
Aimed(job) ==
  IsPrefix(Root, job.dest) /\ Below(job.dest, Len(Root), SubSeq(job.src, 2, Len(job.src)))

Source(j) == <<FromDir>> \o Adjusted(archive[j])

\* The file of entry j is still to be moved, or has been.
ToBeMoved(j) == FileAt(Source(j), j) /\ \E job \in ToSet(work) : IsPrefix(job.src, Source(j))
HasMoved(j) ==
  /\ ~Exists(Source(j))
  /\ \E p \in DOMAIN disk :
       FileAt(p, j) /\ p[1] # FromDir /\ IsPrefix(Root, p) /\ Below(p, Len(Root), Adjusted(archive[j]))

\* There is nothing to move.
Doomed == work # <<>> /\ Head(work).checked /\ ~Exists(Head(work).src)

TransitInv ==
  pc = "move" =>
    /\ \A job \in ToSet(work) : Aimed(job)
    /\ (error = "none" /\ ~skips) =>
         Doomed \/ \A j \in DOMAIN written : Kept(j) => ToBeMoved(j) \/ HasMoved(j)

LostInv == NewInv /\ CollectInv /\ PlainInv /\ PlaceInv /\ TransitInv

\* Different paths of the archive have different places.
LEMMA SamePlace ==
  ASSUME TypeInv, NEW w \in Paths, NEW v \in Paths, NEW q, Placed(w, q), Placed(v, q)
  PROVE  w = v
<1>1. Len(w) \in Nat /\ Len(v) \in Nat /\ Len(unpackdestination) \in Nat
  BY NameFacts DEF Paths, TypeInv, PlaceType
<1>2. Len(w) = Len(v)
  BY <1>1 DEF Placed
<1>3. ASSUME NEW m \in 1..Len(w) PROVE w[m] = v[m]
  <2>1. w[m] \in Names /\ v[m] \in Names
    BY <1>2 DEF Paths
  <2>2. w[m].text = v[m].text /\ w[m].fork = v[m].fork /\ w[m].number = v[m].number
    BY <1>2 DEF Placed
  <2> QED BY <2>1, <2>2 DEF Names
<1> QED BY <1>2, <1>3, SamePath

\* An entry that is extracted does not overwrite one whose file counts.
LEMMA KeptElsewhere ==
  ASSUME TypeInv, TreeInv, CollectInv, pc = "extract", NEW j, Kept(j)
  PROVE  written[j] # path
<1>1. j \in DOMAIN written /\ j \in 1..Len(archive) /\ j < i /\ i \in 1..Len(archive)
  BY DEF Kept, CollectInv, TypeInv, RenamesType, ControlType
<1>2. Len(archive) \in Nat
  BY ArchivesAssumption DEF TypeInv, ConfigType
<1>3. i \in j + 1..Len(archive)
  BY <1>1, <1>2
<1>4. Adjusted(archive[i]) # Adjusted(archive[j])
  BY <1>3 DEF Kept, Superseded
<1>5. /\ Placed(Adjusted(archive[j]), written[j]) /\ Placed(Adjusted(archive[i]), path)
      /\ Adjusted(archive[j]) \in Paths /\ Adjusted(archive[i]) \in Paths
  <2>1. Placed(Adjusted(archive[i]), path)
    BY PathPlaced DEF Entry
  <2>2. Placed(Adjusted(archive[j]), written[j])
    BY <1>1 DEF TreeInv, WrittenInv, RenamesInv
  <2> QED BY <1>1, <2>1, <2>2, EntryFacts DEF TypeInv
<1> QED BY <1>4, <1>5, SamePlace

\* While the entries are extracted, they are where they were written.
LEMMA CollectStep ==
  ASSUME TypeInv, TreeInv, DiskInv, CollectInv, [Next]_vars
  PROVE  CollectInv'
<1> DEFINE Finding == {"begin", "next", "walk", "extract"}
           Collecting == {"begin", "next", "walk", "extract", "solo", "replace"}
<1>1. archive' = archive
  BY ConfigStep DEF configVars
<1>2. \A j : Superseded(j)' <=> Superseded(j)
  BY <1>1 DEF Superseded
<1>3. /\ DOMAIN written \subseteq 1..Len(archive) /\ Len(archive) \in Nat /\ i \in 1..Len(archive) + 1
      /\ i \in Int /\ numextracted \in Nat
  BY ArchivesAssumption DEF TypeInv, ConfigType, RenamesType, ControlType
<1>4. CASE ExtractEntry \/ ExtractFails \/ ExtractStopped
  <2>1. /\ pc = "extract" /\ numextracted' = numextracted + 1
        /\ i' = i + 1 \/ pc' = "returned"
    BY <1>4 DEF ExtractEntry, ExtractFails, ExtractStopped, PassOver, Return
  <2>2. disk' = disk \/ (Writable /\ disk' \in {disk, WithParents(path), Written})
    BY <1>4 DEF ExtractEntry, ExtractFails, ExtractStopped
  <2>3. path \in Paths \ {<<>>}
    BY <2>1, PathPlaced
  <2>4. \A q \in DOMAIN disk \ {path} : q \in DOMAIN disk' /\ disk'[q] = disk[q]
    <3>1. CASE disk' = disk
      BY <3>1
    <3>2. CASE Writable /\ disk' \in {disk, WithParents(path), Written}
      BY <2>3, <3>2, WriteFacts DEF TypeInv, DiskInv
    <3> QED BY <2>2, <3>1, <3>2
  <2>5. ASSUME NEW j \in DOMAIN written, Kept(j) PROVE FileAt(written[j], j)'
                                                       \/ written' # written
    BY <2>1, <2>4, <2>5, KeptElsewhere DEF CollectInv, FileAt, Exists
  <2>6. CASE ExtractEntry
    <3>1. /\ written' = Extended(written, i, path) /\ disk' = Written /\ Writable /\ pc' = "next"
      BY <2>6 DEF ExtractEntry, PassOver
    <3>2. /\ DOMAIN written' = DOMAIN written \cup {i} /\ written'[i] = path
          /\ \A j \in DOMAIN written \ {i} : written'[j] = written[j]
      BY <3>1 DEF Extended
    <3>8. PICK me : me = i
      OBVIOUS
    <3>3. \A j \in DOMAIN written : j < i /\ j # i
      BY <1>3, <2>1 DEF CollectInv
    <3>4. \A j \in DOMAIN written' : j < i + 1
      BY <1>3, <3>2, <3>3
    <3>5. numextracted' # 0
      BY <1>3, <2>1
    <3>6. ASSUME NEW j \in DOMAIN written', Kept(j)' PROVE FileAt(written[j], j)' \/ j = me
      <4>1. CASE j = me
        BY <4>1
      <4>2. CASE j # me
        <5>1. Kept(j) /\ j \in DOMAIN written
          BY <1>1, <1>2, <3>2, <3>6, <3>8, <4>2 DEF Kept
        <5>2. FileAt(written[j], j) /\ written[j] # path
          BY <2>1, <5>1, KeptElsewhere DEF CollectInv
        <5>3. written'[j] = written[j]
          BY <3>2, <3>8, <4>2, <5>1
        <5> QED BY <2>4, <5>2, <5>3 DEF FileAt, Exists
      <4> QED BY <4>1, <4>2
    <3>7. ASSUME Kept(me)' PROVE FileAt(written[me], me)'
      <4>1. Entry.dir = FALSE
        <5>1. ~Entry.dir
          BY <1>1, <3>7, <3>8 DEF Kept, Entry
        <5>2. Entry.dir \in BOOLEAN
          <6>1. i \in 1..Len(archive)
            BY <2>1 DEF TypeInv, ControlType
          <6> QED BY <6>1, EntryFacts DEF Entry, EntryType, TypeInv
        <5> QED BY <5>1, <5>2
      <4>2. path \in DOMAIN Written /\ Written[path] = Node(FALSE, i)
        BY <2>3, <4>1, WrittenFacts
      <4> QED BY <3>1, <3>2, <3>8, <4>2 DEF FileAt, Exists
    <3>9. \A j \in DOMAIN written' : Kept(j)' => FileAt(written[j], j)'
      BY <3>6, <3>7
    <3>10. i' = i + 1
      BY <2>1, <3>1
    <3> QED BY <3>4, <3>5, <3>9, <3>10 DEF CollectInv
  <2>7. CASE written' = written
    <3>1. pc' = "returned" \/ i' = i + 1
      BY <2>1
    <3>2. \A j \in DOMAIN written : j < i + 1
      BY <1>3, <2>1 DEF CollectInv
    <3>3. numextracted' # 0
      BY <1>3, <2>1
    <3>4. \A j \in DOMAIN written' : Kept(j)' => Kept(j)
      BY <1>1, <1>2, <2>7 DEF Kept
    <3>5. ASSUME NEW j \in DOMAIN written', Kept(j)' PROVE FileAt(written[j], j)'
      BY <2>5, <2>7, <3>4, <3>5
    <3>6. CASE pc' = "returned"
      BY <3>6 DEF CollectInv
    <3>7. CASE i' = i + 1
      BY <2>7, <3>2, <3>3, <3>5, <3>7 DEF CollectInv
    <3> QED BY <3>1, <3>6, <3>7
  <2> QED BY <1>4, <2>6, <2>7 DEF ExtractFails, ExtractStopped
<1>5. CASE /\ pc \in Collecting /\ pc' \in Collecting /\ (pc' \in Finding => pc \in Finding)
           /\ disk' = disk /\ written' = written /\ numextracted' = numextracted
           /\ i' \in {i, i + 1, Len(archive) + 1}
  <2>1. \A j : Kept(j)' <=> Kept(j)
    BY <1>1, <1>2, <1>5 DEF Kept
  <2>2. \A j \in DOMAIN written : Kept(j) => FileAt(written[j], j)
    BY <1>5 DEF CollectInv
  <2>3. \A j \in DOMAIN written' : Kept(j)' => FileAt(written[j], j)'
    BY <1>5, <2>1, <2>2 DEF FileAt, Exists
  <2>4. ASSUME pc' \in Finding, NEW j \in DOMAIN written' PROVE j < i'
    <3>1. j \in 1..Len(archive) /\ j < i
      BY <1>3, <1>5, <2>4 DEF CollectInv
    <3>2. j < i /\ j < i + 1 /\ j < Len(archive) + 1
      BY <1>3, <3>1
    <3>3. CASE i' = i
      BY <3>2, <3>3
    <3>4. CASE i' = i + 1
      BY <3>2, <3>4
    <3>5. CASE i' = Len(archive) + 1
      BY <3>2, <3>5
    <3> QED BY <1>5, <3>3, <3>4, <3>5
  <2>5. pc' \in Finding /\ numextracted' = 0 => DOMAIN written' = {}
    BY <1>5 DEF CollectInv
  <2> QED BY <2>3, <2>4, <2>5 DEF CollectInv
<1>6. CASE pc' \notin Collecting
  BY <1>6 DEF CollectInv
<1>7. CASE UNCHANGED vars
  <2>1. /\ pc' = pc /\ disk' = disk /\ written' = written /\ numextracted' = numextracted /\ i' = i
    BY <1>7 DEF vars, walkVars
  <2>2. pc' \in Collecting \/ pc' \notin Collecting
    OBVIOUS
  <2> QED BY <1>5, <1>6, <2>1, <2>2
<1>8. CASE Next
  <2>1. \/ pc' \notin Collecting
        \/ ExtractEntry \/ ExtractFails \/ ExtractStopped
        \/ /\ pc \in Collecting /\ pc' \in Collecting /\ (pc' \in Finding => pc \in Finding)
           /\ disk' = disk /\ written' = written /\ numextracted' = numextracted
           /\ i' \in {i, i + 1, Len(archive) + 1}
    <3>1. CASE Extract
      BY <3>1 DEF Extract, NextEntry, RuleOut, WalkKnown, WalkNew, WalkEnds, SubFails, PassOver, Return, Known,
         walkVars
    <3>2. CASE BeginRegular \/ BeginSub \/ EntriesDone
      BY <3>2 DEF BeginRegular, BeginSub, EntriesDone, UnpackChecked, UnpackBeside, UnpackInto, Return,
         Finalize, walkVars
    <3>3. CASE RenameEnclosing \/ SoloUnknown \/ PlaceSolo \/ Replace \/ MoveItem \/ MoveFails \/ MovesDone
      BY <3>3 DEF RenameEnclosing, SoloUnknown, PlaceSolo, Replace, MoveItem, MoveFails, MovesDone, Moving,
         Return, Finalize
    <3> QED BY <1>8, <3>1, <3>2, <3>3 DEF Next
  <2> QED BY <1>4, <1>5, <1>6, <2>1
<1> QED BY <1>7, <1>8

\* Paths below a directory of one name.
LEMMA Under ==
  ASSUME NEW d \in Paths, Len(d) = 1, NEW w \in Paths
  PROVE  /\ d \o w \in Paths \ {<<>>} /\ Len(d \o w) = Len(w) + 1 /\ (d \o w)[1] = d[1]
         /\ \A m \in 1..Len(w) : (d \o w)[m + 1] = w[m]
         /\ \A v \in Paths : d \o v = d \o w => v = w
         /\ \A m \in 0..Len(w) : SubSeq(d \o w, 1, m + 1) = d \o SubSeq(w, 1, m)
         /\ \A name \in Names : Append(d \o w, name) = d \o Append(w, name)
<1> DEFINE q == d \o w
<1>1. ASSUME NEW v \in Paths
      PROVE  /\ d \o v \in Paths \ {<<>>} /\ Len(d \o v) = Len(v) + 1 /\ (d \o v)[1] = d[1] /\ Len(v) \in Nat
             /\ \A m \in 1..Len(v) : (d \o v)[m + 1] = v[m]
  <2>1. /\ d \o v \in Paths /\ Len(d \o v) = 1 + Len(v) /\ (d \o v)[1] = d[1]
        /\ \A m \in 1..Len(v) : (d \o v)[1 + m] = v[m]
    <3>1. /\ d \o v \in Paths /\ Len(d \o v) = Len(d) + Len(v)
          /\ \A n \in 1..Len(d) : (d \o v)[n] = d[n]
          /\ \A n \in 1..Len(v) : (d \o v)[Len(d) + n] = v[n]
      BY ConcatFacts
    <3>2. 1 \in 1..Len(d)
      OBVIOUS
    <3> QED BY <3>1, <3>2
  <2>2. Len(v) \in Nat
    BY DEF Paths
  <2>3. Len(v) + 1 = 1 + Len(v) /\ \A m \in 1..Len(v) : 1 + m = m + 1
    BY <2>2
  <2>4. d \o v # <<>>
    <3>1. \A s \in Seq(Names) : s = <<>> => Len(s) = 0
      OBVIOUS
    <3> QED BY <2>1, <2>2, <3>1 DEF Paths
  <2> QED BY <2>1, <2>2, <2>3, <2>4
<1>2. ASSUME NEW v \in Paths, d \o v = d \o w PROVE v = w
  <2>1. Len(v) = Len(w)
    BY <1>1, <1>2
  <2>3. \A n \in 1..Len(v) : (d \o v)[n + 1] = v[n]
    BY <1>1
  <2>4. \A n \in 1..Len(w) : (d \o w)[n + 1] = w[n]
    BY <1>1
  <2>2. \A n \in 1..Len(v) : v[n] = w[n]
    BY <1>2, <2>1, <2>3, <2>4
  <2> QED BY <2>1, <2>2, SamePath
<1>3. /\ q \in Paths \ {<<>>} /\ Len(q) = Len(w) + 1 /\ q[1] = d[1] /\ Len(w) \in Nat
      /\ \A m \in 1..Len(w) : q[m + 1] = w[m]
  BY <1>1
<1>4. \A n \in 1..Len(w) + 1 : n = 1 \/ (n - 1 \in 1..Len(w) /\ (n - 1) + 1 = n)
  BY <1>3
<1> HIDE DEF q
<1>5. ASSUME NEW m \in 0..Len(w) PROVE SubSeq(q, 1, m + 1) = d \o SubSeq(w, 1, m)
  <2>1. m + 1 \in 0..Len(q)
    BY <1>3
  <2>2. /\ SubSeq(q, 1, m + 1) \in Paths /\ Len(SubSeq(q, 1, m + 1)) = m + 1
        /\ \A n \in 1..m + 1 : SubSeq(q, 1, m + 1)[n] = q[n]
    BY <1>3, <2>1, SubSeqFacts
  <2>3. SubSeq(w, 1, m) \in Paths /\ Len(SubSeq(w, 1, m)) = m /\ \A n \in 1..m : SubSeq(w, 1, m)[n] = w[n]
    BY SubSeqFacts
  <2>4. /\ d \o SubSeq(w, 1, m) \in Paths /\ Len(d \o SubSeq(w, 1, m)) = m + 1
        /\ (d \o SubSeq(w, 1, m))[1] = d[1]
        /\ \A n \in 1..m : (d \o SubSeq(w, 1, m))[n + 1] = w[n]
    BY <1>1, <2>3
  <2>5. ASSUME NEW n \in 1..m + 1 PROVE SubSeq(q, 1, m + 1)[n] = (d \o SubSeq(w, 1, m))[n]
    <3>1. CASE n = 1
      BY <1>3, <2>2, <2>4, <3>1
    <3>2. CASE n # 1
      <4>1. n - 1 \in 1..m /\ n - 1 \in 1..Len(w) /\ (n - 1) + 1 = n
        BY <1>3, <3>2
      <4>2. q[n] = w[n - 1] /\ (d \o SubSeq(w, 1, m))[n] = w[n - 1]
        BY <1>3, <2>4, <4>1
      <4> QED BY <2>2, <4>2
    <3> QED BY <3>1, <3>2
  <2> DEFINE r == SubSeq(q, 1, m + 1)
             s == d \o SubSeq(w, 1, m)
  <2>6. r \in Paths /\ s \in Paths /\ Len(r) = Len(s) /\ \A n \in 1..Len(r) : r[n] = s[n]
    BY <2>2, <2>4, <2>5
  <2> HIDE DEF r, s
  <2>7. r = s
    BY <2>6, SamePath
  <2> QED BY <2>7 DEF r, s
<1>6. ASSUME NEW name \in Names PROVE Append(q, name) = d \o Append(w, name)
  <2>1. /\ Append(q, name) \in Paths /\ Len(Append(q, name)) = Len(w) + 2
        /\ Append(q, name)[Len(w) + 2] = name
        /\ \A n \in 1..Len(w) + 1 : Append(q, name)[n] = q[n]
    <3>1. Len(q) + 1 = Len(w) + 2
      BY <1>3
    <3> QED BY <1>3, <3>1, AppendFacts
  <2>2. /\ Append(w, name) \in Paths /\ Len(Append(w, name)) = Len(w) + 1
        /\ Append(w, name)[Len(w) + 1] = name
        /\ \A n \in 1..Len(w) : Append(w, name)[n] = w[n]
    BY AppendFacts
  <2>3. /\ d \o Append(w, name) \in Paths /\ Len(d \o Append(w, name)) = (Len(w) + 1) + 1
        /\ (d \o Append(w, name))[1] = d[1]
        /\ \A m \in 1..Len(w) + 1 : (d \o Append(w, name))[m + 1] = Append(w, name)[m]
    BY <1>1, <2>2
  <2>4. ASSUME NEW n \in 1..Len(w) + 2 PROVE Append(q, name)[n] = (d \o Append(w, name))[n]
    <3>1. CASE n = 1
      BY <1>3, <2>1, <2>3, <3>1
    <3>2. CASE n # 1
      <4>1. n - 1 \in 1..Len(w) + 1 /\ (n - 1) + 1 = n
        BY <1>3, <3>2
      <4>2. (d \o Append(w, name))[n] = Append(w, name)[n - 1]
        BY <2>3, <4>1
      <4>3. CASE n = Len(w) + 2
        <5>1. n - 1 = Len(w) + 1
          BY <1>3, <4>3
        <5> QED BY <2>1, <2>2, <4>2, <4>3, <5>1
      <4>4. CASE n # Len(w) + 2
        <5>1. n - 1 \in 1..Len(w) /\ n \in 1..Len(w) + 1
          BY <1>3, <4>1, <4>4
        <5> QED BY <1>3, <2>1, <2>2, <4>1, <4>2, <5>1
      <4> QED BY <4>3, <4>4
    <3> QED BY <3>1, <3>2
  <2>5. Len(d \o Append(w, name)) = Len(w) + 2
    BY <1>3, <2>3
  <2>6. \A n \in 1..Len(Append(q, name)) : Append(q, name)[n] = (d \o Append(w, name))[n]
    BY <2>1, <2>4
  <2>7. /\ Append(q, name) \in Paths /\ d \o Append(w, name) \in Paths
        /\ Len(Append(q, name)) = Len(d \o Append(w, name))
    BY <2>1, <2>3, <2>5
  <2> QED BY <2>6, <2>7, SamePath, Zenon
<1> QED BY <1>2, <1>3, <1>5, <1>6 DEF q

\* The part of it that is about single names.
LEMMA UnderNames ==
  ASSUME NEW d \in Paths, Len(d) = 1, NEW w \in Paths
  PROVE  /\ d \o w \in Paths \ {<<>>} /\ d \o w \in Paths /\ Len(d \o w) = Len(w) + 1
         /\ (d \o w)[1] = d[1] /\ Len(w) \in Nat
         /\ \A m \in 1..Len(w) : (d \o w)[m + 1] = w[m]
<1>1. Len(w) \in Nat
  BY DEF Paths
<1>2. /\ d \o w \in Paths \ {<<>>} /\ Len(d \o w) = Len(w) + 1 /\ (d \o w)[1] = d[1]
      /\ \A m \in 1..Len(w) : (d \o w)[m + 1] = w[m]
  BY Under, Zenon
<1> QED BY <1>1, <1>2

\* In a new directory the path of the walk is that of the archive.
LEMMA FreshPath ==
  ASSUME TypeInv, TreeInv, Fresh, NewInv, WalkNew
  PROVE  /\ Append(path, Adjusted(Entry)[c]) = unpackdestination \o Walked
         /\ Walked \in Paths \ {<<>>} /\ Walked \notin DOMAIN renames
<1> DEFINE a == Adjusted(Entry)
           d == unpackdestination
<1>1. /\ pc = "walk" /\ c <= Len(Entry.path) /\ ~Known /\ i \in 1..Len(archive)
      /\ c \in 1..Len(Entry.path) + 1 /\ path \in Paths
  BY DEF WalkNew, TypeInv, ControlType
<1>2. /\ Len(Entry.path) \in Nat /\ a \in Paths /\ Len(a) = Len(Entry.path)
      /\ \A k \in 1..Len(a) : a[k] \in Names
  BY <1>1, EntryFacts DEF TypeInv, Entry
<1>3. c \in 1..Len(a) /\ c - 1 \in 0..Len(a) /\ (c - 1) + 1 = c
  BY <1>1, <1>2
<1>4. Walked \in Paths \ {<<>>} /\ Len(Walked) = c /\ Walked = SubSeq(a, 1, c)
  BY <1>1, <1>2, <1>3, WalkFacts DEF TypeInv, Walked
<1>5. Walked \notin DOMAIN renames
  BY <1>1 DEF Known
<1>6. d \in Paths /\ Len(d) = 1
  BY UnpackFacts DEF Fresh
<1> DEFINE v == SubSeq(a, 1, c - 1)
<1>7. v \in Paths /\ Len(v) = c - 1 /\ \A n \in 1..c - 1 : v[n] = a[n]
  BY <1>2, <1>3, SubSeqFacts
<1>8. path = d \o v
  <2>1. CASE c = 1 /\ path = unpackdestination
    <3>1. v = <<>>
      <4>1. v \in Seq(Names) /\ Len(v) = 0
        BY <1>7, <2>1 DEF Paths
      <4> HIDE DEF v
      <4> QED BY <4>1
    <3>2. \A s \in Seq(Names) : s \o <<>> = s
      OBVIOUS
    <3> QED BY <1>6, <2>1, <3>1, <3>2 DEF Paths
  <2>2. CASE /\ SubSeq(Adjusted(Entry), 1, c - 1) \in DOMAIN renames
             /\ path = renames[SubSeq(Adjusted(Entry), 1, c - 1)]
    BY <2>2 DEF NewInv
  <2> QED BY <1>1, <2>1, <2>2 DEF TreeInv, WalkInv
<1> HIDE DEF v
<1>9. Append(v, a[c]) = Walked
  <2>1. a[c] \in Names
    BY <1>2, <1>3
  <2>2. /\ Append(v, a[c]) \in Paths /\ Len(Append(v, a[c])) = (c - 1) + 1
        /\ Append(v, a[c])[(c - 1) + 1] = a[c]
        /\ \A n \in 1..c - 1 : Append(v, a[c])[n] = a[n]
    BY <1>7, <2>1, AppendFacts
  <2>3. \A n \in 1..c : SubSeq(a, 1, c)[n] = a[n]
    BY <1>2, <1>3, SubSeqFacts
  <2>4. \A n \in 1..c : n = c \/ n \in 1..c - 1
    BY <1>3
  <2>5. \A n \in 1..c : Append(v, a[c])[n] = Walked[n]
    BY <1>3, <1>4, <2>2, <2>3, <2>4
  <2>6. Len(Append(v, a[c])) = c /\ Append(v, a[c]) \in Paths /\ Walked \in Paths /\ Len(Walked) = c
    BY <1>3, <1>4, <2>2
  <2> QED BY <2>5, <2>6, SamePath, Zenon
<1>10. Append(path, a[c]) = d \o Append(v, a[c])
  <2>1. a[c] \in Names
    BY <1>2, <1>3
  <2> HIDE DEF a, d
  <2> QED BY <1>6, <1>7, <1>8, <2>1, Under
<1> QED BY <1>4, <1>5, <1>9, <1>10

\* Nothing is in the way in a new directory, so that every answer is the path
\* asked for, and only paths of the archive appear there.
LEMMA NewStep ==
  ASSUME TypeInv, TreeInv, DiskInv, OldInv, FreshInv, NewInv, [Next]_vars
  PROVE  NewInv'
<1> DEFINE d == unpackdestination
           Unpacking == {"next", "walk", "extract", "solo", "replace"}
           New(q) == q[1] = d[1] => q = d \/ \E w \in DOMAIN renames : q = d \o w
<1>1. /\ archive' = archive /\ sub' = sub /\ enclosingdir' = enclosingdir /\ removesolo' = removesolo
      /\ before' = before /\ FreshInv'
  BY ConfigStep, FreshStep DEF configVars
<1>2. SUFFICES ASSUME Fresh'
               PROVE  /\ \A w \in DOMAIN renames' : renames'[w] = unpackdestination' \o w
                      /\ pc' \in Unpacking =>
                           \A q \in DOMAIN disk' :
                             q[1] = unpackdestination'[1] =>
                               q = unpackdestination' \/ \E w \in DOMAIN renames' : q = unpackdestination' \o w
  BY DEF NewInv
<1>3. CASE pc = "begin"
  <2>1. /\ disk' = disk /\ renames' = renames
    BY <1>2, <1>3 DEF Next, vars, Extract, NextEntry, RuleOut, WalkKnown, WalkNew, WalkEnds, ExtractEntry,
       ExtractFails, ExtractStopped, SubFails, EntriesDone, RenameEnclosing, SoloUnknown, PlaceSolo, Replace,
       MoveItem, MoveFails, MovesDone, Moving, Known, BeginRegular, BeginSub
  <2>2. DOMAIN renames = {} /\ disk = before
    BY <1>3 DEF TreeInv, OldInv
  <2>3. \A q \in DOMAIN disk' : q[1] # unpackdestination'[1]
    BY <1>1, <1>2, <2>1, <2>2 DEF FreshInv
  <2> QED BY <2>1, <2>2, <2>3
<1>4. CASE pc # "begin"
  <2>1. Fresh /\ unpackdestination' = d /\ d \in Paths \ {<<>>} /\ Len(d) = 1
    BY <1>1, <1>2, <1>4, OldConfig, UnpackFacts DEF Fresh
  <2>2. /\ \A w \in DOMAIN renames : renames[w] = d \o w
        /\ pc \in Unpacking => \A q \in DOMAIN disk : New(q)
    BY <2>1 DEF NewInv
  <2>3. CASE renames' = renames /\ (pc' \in Unpacking => pc \in Unpacking /\ disk' = disk)
    BY <2>1, <2>2, <2>3
  <2>4. CASE WalkNew
    <3> DEFINE p == Append(path, Adjusted(Entry)[c])
    <3>1. p = d \o Walked /\ Walked \in Paths \ {<<>>} /\ Walked \notin DOMAIN renames
      BY <2>1, <2>4, FreshPath
    <3>2. \E answer \in CheckPath(p) : renames' = Extended(renames, Walked, answer) /\ disk' = disk /\ pc = "walk"
      BY <2>4 DEF WalkNew
    <3>3. PICK answer \in CheckPath(p) : renames' = Extended(renames, Walked, answer) /\ disk' = disk /\ pc = "walk"
      BY <3>2
    <3> HIDE DEF p
    <3>4. ~Exists(p)
      <4> SUFFICES ASSUME Exists(p) PROVE FALSE
        OBVIOUS
      <4>1. p[1] = d[1] /\ p # d
        <5>1. Len(Walked) \in Nat \ {0} /\ Len(p) = Len(Walked) + 1 /\ p[1] = d[1]
          BY <2>1, <3>1, Under, FirstName
        <5>2. Len(p) # 1
          BY <5>1
        <5> QED BY <2>1, <5>1, <5>2
      <4>2. New(p)
        BY <2>2, <3>3 DEF Exists
      <4>3. PICK w \in DOMAIN renames : p = d \o w
        BY <4>1, <4>2
      <4>4. w \in Paths
        BY DEF TypeInv, RenamesType
      <4>6. \A v \in Paths : d \o v = d \o Walked => v = Walked
        BY <2>1, <3>1, Under
      <4>5. w = Walked
        BY <3>1, <4>3, <4>4, <4>6
      <4> QED BY <3>1, <4>5
    <3>5. answer = p
      BY <3>3, <3>4 DEF CheckPath
    <3>6. PICK W : W = Walked
      OBVIOUS
    <3>7. DOMAIN renames' = DOMAIN renames \cup {W} /\ renames'[W] = d \o W
          /\ \A w \in DOMAIN renames : renames'[w] = renames[w]
      BY <3>1, <3>3, <3>5, <3>6 DEF Extended
    <3>8. \A w \in DOMAIN renames' : renames'[w] = d \o w
      BY <2>2, <3>7
    <3>9. \A q \in DOMAIN disk' : q[1] = d[1] => q = d \/ \E w \in DOMAIN renames' : q = d \o w
      BY <2>2, <3>3, <3>7
    <3> QED BY <2>1, <3>8, <3>9
  <2>5. CASE ExtractEntry \/ ExtractFails \/ ExtractStopped
    <3>1. pc = "extract" /\ renames' = renames
      BY <2>5 DEF ExtractEntry, ExtractFails, ExtractStopped
    <3>2. disk' = disk \/ (Writable /\ disk' \in {disk, WithParents(path), Written})
      BY <2>5 DEF ExtractEntry, ExtractFails, ExtractStopped
    <3> DEFINE a == Adjusted(Entry)
    <3>3. /\ a \in DOMAIN renames /\ path = d \o a /\ path \in Paths \ {<<>>} /\ a \in Paths
          /\ Chained(a) /\ renames[a] = path
      <4>1. /\ a \in DOMAIN renames /\ path = renames[a] /\ path \in Paths \ {<<>>}
        BY <3>1, PathPlaced
      <4>2. renames[a] # Skipped
        BY <4>1 DEF Skipped
      <4> QED BY <2>2, <4>1, <4>2 DEF TypeInv, RenamesType, TreeInv, RenamesInv
    <3>4. ASSUME NEW q \in Paths \ {<<>>}, IsPrefix(q, path)
          PROVE  q = d \/ \E w \in DOMAIN renames : q = d \o w
      <4>1. Len(q) \in Nat \ {0} /\ Len(q) <= Len(path) /\ q = SubSeq(path, 1, Len(q))
        <5>1. /\ Len(q) \in Nat \ {0} /\ Len(q) <= Len(path) /\ \A n \in 1..Len(q) : q[n] = path[n]
          <6>1. path \in Paths /\ q \in Paths /\ Len(q) \in Nat \ {0}
            BY <3>3, <3>4, FirstName, Zenon
          <6>2. Len(q) <= Len(path) /\ \A n \in 1..Len(q) : q[n] = path[n]
            BY <3>4, <6>1, PrefixFacts, Zenon
          <6> QED BY <6>1, <6>2
        <5>2. Len(q) \in 0..Len(path)
          BY <5>1, <3>3, FirstName
        <5>3. /\ SubSeq(path, 1, Len(q)) \in Paths /\ Len(SubSeq(path, 1, Len(q))) = Len(q)
              /\ \A n \in 1..Len(q) : SubSeq(path, 1, Len(q))[n] = path[n]
          BY <3>3, <5>2, SubSeqFacts
        <5> QED BY <5>1, <5>3, SamePath
      <4>2. Len(path) = Len(a) + 1 /\ Len(a) \in Nat
            /\ \A m \in 0..Len(a) : SubSeq(path, 1, m + 1) = d \o SubSeq(a, 1, m)
        <5>1. Len(a) \in Nat
          BY <3>3 DEF Paths
        <5> HIDE DEF a
        <5> QED BY <2>1, <3>3, <5>1, Under
      <4>3. PICK m \in 0..Len(a) : Len(q) = m + 1
        <5>1. Len(q) - 1 \in 0..Len(a) /\ Len(q) = (Len(q) - 1) + 1
          BY <4>1, <4>2
        <5> QED BY <5>1
      <4>4. q = d \o SubSeq(a, 1, m)
        BY <4>1, <4>2, <4>3
      <4>5. CASE m = 0
        <5>1. Len(q) = 1
          <6>1. 0 + 1 = 1
            OBVIOUS
          <6> QED BY <4>3, <4>5, <6>1
        <5>2. IsPrefix(d, path) /\ Len(d) <= Len(q)
          <6>3. path[1] = d[1] /\ 1 <= Len(path)
            <7>1. (d \o a)[1] = d[1]
              BY <2>1, <3>3, Under
            <7> QED BY <3>3, <4>1, <5>1, <7>1
          <6>4. \A n \in 1..Len(d) : d[n] = path[n]
            BY <2>1, <6>3
          <6>5. Len(d) = 1 /\ d \in Paths /\ path \in Paths
            BY <2>1, <3>3
          <6>6. IsPrefix(d, path)
            BY <6>3, <6>4, <6>5, PrefixFacts
          <6> QED BY <5>1, <6>5, <6>6
        <5>3. IsPrefix(d, q)
          BY <2>1, <3>3, <3>4, <5>2, PrefixChains
        <5>4. d = q
          BY <2>1, <5>1, <5>3, PrefixFacts, SamePath
        <5> QED BY <5>4
      <4>6. CASE m # 0
        <5>1. m \in 1..Len(a)
          BY <4>2, <4>3, <4>6
        <5>2. SubSeq(a, 1, m) \in DOMAIN renames
          BY <3>3, <5>1 DEF Chained
        <5> QED BY <4>4, <5>2
      <4> QED BY <4>5, <4>6
    <3>5. ASSUME NEW q \in DOMAIN disk', q[1] = d[1]
          PROVE  q = d \/ \E w \in DOMAIN renames : q = d \o w
      <4>1. q \in DOMAIN disk \/ (q \in Paths \ {<<>>} /\ IsPrefix(q, path))
        <5>1. CASE disk' = disk
          BY <5>1
        <5>2. CASE Writable /\ disk' \in {disk, WithParents(path), Written}
          BY <3>3, <5>2, WriteFacts DEF TypeInv, DiskInv
        <5> QED BY <3>2, <5>1, <5>2
      <4> QED BY <2>2, <3>1, <3>4, <3>5, <4>1
    <3> QED BY <2>1, <2>2, <3>1, <3>5
  <2>6. CASE UNCHANGED vars
    <3>1. renames' = renames /\ pc' = pc /\ disk' = disk
      BY <2>6 DEF vars
    <3> QED BY <2>3, <3>1
  <2>7. CASE Next
    <3>1. \/ WalkNew \/ ExtractEntry \/ ExtractFails \/ ExtractStopped
          \/ renames' = renames /\ (pc' \in Unpacking => pc \in Unpacking /\ disk' = disk)
      <4>1. CASE Extract
        BY <4>1 DEF Extract, NextEntry, RuleOut, WalkKnown, WalkEnds, SubFails, PassOver, Return, Known
      <4>2. CASE BeginRegular \/ BeginSub \/ EntriesDone
        BY <1>4, <4>2 DEF BeginRegular, BeginSub, EntriesDone
      <4>3. CASE RenameEnclosing \/ SoloUnknown \/ PlaceSolo \/ Replace \/ MoveItem \/ MoveFails \/ MovesDone
        BY <4>3 DEF RenameEnclosing, SoloUnknown, PlaceSolo, Replace, MoveItem, MoveFails, MovesDone, Moving,
           Return, Finalize
      <4> QED BY <2>7, <4>1, <4>2, <4>3 DEF Next
    <3> QED BY <2>3, <2>4, <2>5, <3>1
  <2> QED BY <2>6, <2>7
<1> QED BY <1>3, <1>4

\* Where an entry has been written in a new directory.
LEMMA FreshWritten ==
  ASSUME TypeInv, TreeInv, Fresh, NewInv, NEW j \in DOMAIN written
  PROVE  /\ written[j] = unpackdestination \o Adjusted(archive[j])
         /\ Adjusted(archive[j]) \in Paths \ {<<>>} /\ Adjusted(archive[j]) \in DOMAIN renames
         /\ \A m \in 1..Len(Adjusted(archive[j])) : Adjusted(archive[j])[m].number = 0
         /\ Chained(Adjusted(archive[j]))
<1>1. j \in 1..Len(archive) /\ Adjusted(archive[j]) \in DOMAIN renames
      /\ written[j] = renames[Adjusted(archive[j])] /\ written[j] # Skipped
  BY DEF TypeInv, RenamesType, TreeInv, WrittenInv
<1>2. Adjusted(archive[j]) \in Paths \ {<<>>} /\ Chained(Adjusted(archive[j]))
  BY <1>1 DEF TypeInv, RenamesType, TreeInv, RenamesInv
<1>3. \A m \in 1..Len(Adjusted(archive[j])) : Adjusted(archive[j])[m].number = 0
  BY <1>1, EntryFacts DEF TypeInv
<1> QED BY <1>1, <1>2, <1>3 DEF NewInv

\* What is in a new directory is plain.
LEMMA NewPlain ==
  ASSUME TypeInv, TreeInv, Fresh, NewInv, pc \in {"solo", "replace"},
         NEW q \in DOMAIN disk, q[1] = unpackdestination[1]
  PROVE  Plain(q)
<1>1. unpackdestination \in Paths /\ Len(unpackdestination) = 1
  BY UnpackFacts DEF Fresh
<1>2. CASE q = unpackdestination
  <2>1. ~ \E m \in 2..Len(q) : TRUE
    BY <1>1, <1>2
  <2> QED BY <2>1 DEF Plain
<1>3. ASSUME NEW w \in DOMAIN renames, q = unpackdestination \o w PROVE Plain(q)
  <2>1. w \in Paths \ {<<>>} /\ Len(w) \in Nat /\ renames[w] = unpackdestination \o w
    BY FirstName DEF TypeInv, RenamesType, NewInv
  <2>2. Len(q) = Len(w) + 1 /\ q # <<>> /\ \A m \in 1..Len(w) : q[m + 1] = w[m]
    BY <1>1, <1>3, <2>1, Under
  <2>3. \A m \in 1..Len(w) : w[m].number = 0
    BY <1>3, <2>1, <2>2 DEF TreeInv, RenamesInv, Placed, Skipped
  <2>4. ASSUME NEW m \in 2..Len(q) PROVE q[m].number = 0
    <3>1. m - 1 \in 1..Len(w) /\ (m - 1) + 1 = m
      BY <2>1, <2>2
    <3>2. q[m] = w[m - 1]
      BY <2>2, <3>1
    <3> QED BY <2>3, <3>1, <3>2
  <2> QED BY <2>4 DEF Plain
<1> QED BY <1>2, <1>3 DEF NewInv

\* Something is moved out of the directory that everything is moved out of.
LEMMA ItemMoved ==
  ASSUME TypeInv, DiskInv, pc = "move", work # <<>>, NEW answer, answer # Skipped,
         Destination(Head(work), answer), ~IsDir(answer), disk' = Moved(Head(work).src, answer)
  PROVE  LET src == Head(work).src
         IN  /\ src \in Paths \ {<<>>} /\ src[1] = FromDir
             /\ answer \in Paths \ {<<>>} /\ answer[1] # FromDir
             /\ \A q \in DOMAIN disk : ~IsPrefix(src, q) /\ q # answer => q \in DOMAIN disk' /\ disk'[q] = disk[q]
             /\ \A q \in DOMAIN disk : IsPrefix(src, q) =>
                  Rebased(src, answer, q) \in DOMAIN disk' /\ disk'[Rebased(src, answer, q)] = disk[q]
             /\ \A q \in DOMAIN disk' : q[1] = FromDir => q \in DOMAIN disk /\ ~IsPrefix(src, q)
             /\ \A q \in DOMAIN disk : q[1] # FromDir => ~IsPrefix(src, q)
<1> DEFINE src == Head(work).src
<1>1. /\ Head(work) \in Jobs /\ Bound(Head(work)) /\ answer \in Paths \ {<<>>}
      /\ answer[1] # FromDir /\ src[1] # answer[1]
  BY AnswerFacts
<1>2. src \in Paths \ {<<>>} /\ src[1] = FromDir
  BY <1>1 DEF Jobs, Bound
<1> HIDE DEF src
<1>3. disk' = Moved(src, answer)
  BY DEF src
<1>4. /\ \A q \in DOMAIN disk : ~IsPrefix(src, q) /\ q # answer => q \in DOMAIN disk' /\ disk'[q] = disk[q]
      /\ \A q \in DOMAIN disk : IsPrefix(src, q) =>
           Rebased(src, answer, q) \in DOMAIN disk' /\ disk'[Rebased(src, answer, q)] = disk[q]
      /\ \A q \in DOMAIN disk' : (q \in DOMAIN disk /\ ~IsPrefix(src, q)) \/ q[1] = answer[1]
      /\ \A q \in DOMAIN disk : q[1] # src[1] => ~IsPrefix(src, q)
  BY <1>1, <1>2, <1>3, MoveFacts DEF TypeInv, DiskInv
<1> QED BY <1>1, <1>2, <1>4 DEF src

\* What has been moved into the temporary directory.
LEMMA EnclosingMoved ==
  ASSUME TypeInv, TreeInv, DiskInv, pc = "solo", disk' = Moved(unpackdestination, <<Temporary>>)
  PROVE  /\ \A q \in DOMAIN disk : IsPrefix(unpackdestination, q) =>
              /\ Rebased(unpackdestination, <<Temporary>>, q) \in DOMAIN disk'
              /\ disk'[Rebased(unpackdestination, <<Temporary>>, q)] = disk[q]
         /\ \A q \in DOMAIN disk' : q[1] = Temporary =>
              \E r \in DOMAIN disk :
                IsPrefix(unpackdestination, r) /\ q = Rebased(unpackdestination, <<Temporary>>, r)
<1>1. sub /\ enclosingdir /\ removesolo
  BY DEF TypeInv, PlaceType
<1>2. unpackdestination \in Paths \ {<<>>} /\ unpackdestination[1] # Temporary
  BY <1>1, UnpackFacts
<1>3. \A q \in DOMAIN disk : q[1] # Temporary
  BY DEF DiskInv, TemporaryInv
<1>4. ~IsDir(<<Temporary>>) /\ <<Temporary>> \in Paths \ {<<>>} /\ <<Temporary>>[1] = Temporary
  BY <1>3, MadeUpPaths DEF IsDir, Exists
<1> QED BY <1>2, <1>3, <1>4, MoveFacts DEF TypeInv, DiskInv

\* What is moved out of a directory is plain.
LEMMA PlainStep ==
  ASSUME TypeInv, TreeInv, DiskInv, NewInv, PlainInv, [Next]_vars
  PROVE  PlainInv'
<1>1. CASE pc' \notin {"place", "move"}
  BY <1>1 DEF PlainInv
<1>2. CASE RenameEnclosing
  <2>1. /\ pc = "solo" /\ lookslikesolo /\ lookslikesolo' = lookslikesolo
        /\ disk' = disk \/ disk' = Moved(unpackdestination, <<Temporary>>)
    BY <1>2 DEF RenameEnclosing, EnclosingRenamed, soloVars, DiskInv, PhaseInv
  <2>2. FromDir' = Temporary /\ Fresh
    BY <2>1 DEF FromDir, Fresh, TypeInv, PlaceType
  <2>3. ASSUME NEW q \in DOMAIN disk', q[1] = Temporary PROVE Plain(q)
    <3>1. disk' = Moved(unpackdestination, <<Temporary>>)
      BY <2>1, <2>3 DEF DiskInv, TemporaryInv
    <3>2. PICK r \in DOMAIN disk : IsPrefix(unpackdestination, r) /\ q = Rebased(unpackdestination, <<Temporary>>, r)
      BY <2>1, <2>3, <3>1, EnclosingMoved
    <3>3. /\ unpackdestination \in Paths \ {<<>>} /\ Len(unpackdestination) = 1 /\ r \in Paths
          /\ <<Temporary>> \in Paths /\ Len(<<Temporary>>) = 1
      BY <2>2, UnpackFacts, MadeUpPaths DEF Fresh, TypeInv, DiskType
    <3>4. r[1] = unpackdestination[1] /\ Len(r) \in Nat
      BY <3>2, <3>3, FirstName DEF Paths
    <3>5. Plain(r)
      BY <2>1, <2>2, <3>4, NewPlain
    <3>6. Len(q) = 1 + (Len(r) - 1) /\ \A n \in 1..Len(r) - 1 : q[1 + n] = r[1 + n]
      <4> DEFINE u == unpackdestination
                 t == <<Temporary>>
      <4>1. /\ Len(Rebased(u, t, r)) = Len(t) + (Len(r) - Len(u))
            /\ \A n \in 1..Len(r) - Len(u) : Rebased(u, t, r)[Len(t) + n] = r[Len(u) + n]
        <5>1. u \in Paths /\ t \in Paths /\ r \in Paths /\ IsPrefix(u, r)
          BY <3>2, <3>3
        <5> HIDE DEF u, t
        <5>2. Len(Rebased(u, t, r)) = Len(t) + (Len(r) - Len(u))
          BY <5>1, RebasedLength, Zenon
        <5>3. \A n \in 1..Len(r) - Len(u) : Rebased(u, t, r)[Len(t) + n] = r[Len(u) + n]
          BY <5>1, RebasedRest, Zenon
        <5> QED BY <5>2, <5>3
      <4>2. q = Rebased(u, t, r) /\ Len(u) = 1 /\ Len(t) = 1
        BY <3>2, <3>3
      <4> HIDE DEF u, t
      <4> QED BY <4>1, <4>2
    <3>7. ASSUME NEW m \in 2..Len(q) PROVE q[m].number = 0
      <4>1. m - 1 \in 1..Len(r) - 1 /\ 1 + (m - 1) = m /\ m \in 2..Len(r)
        BY <3>4, <3>6
      <4>2. q[m] = r[m]
        BY <3>6, <4>1
      <4> QED BY <3>5, <4>1, <4>2 DEF Plain
    <3> QED BY <3>7 DEF Plain
  <2> QED BY <2>2, <2>3 DEF PlainInv
<1>3. CASE PlaceSolo /\ pc' = "move"
  <2>1. pc = "place" /\ disk' = disk /\ soloVars' = soloVars /\ placeVars' = placeVars
    BY <1>3 DEF PlaceSolo, Return
  <2> QED BY <2>1 DEF PlainInv, FromDir, soloVars, placeVars
<1>4. CASE Replace /\ pc' = "move"
  <2>1. pc = "replace" /\ disk' = disk /\ soloVars' = soloVars /\ unpackdestination' = unpackdestination
    BY <1>4 DEF Replace, Return, Finalize
  <2>2. FromDir' = unpackdestination[1] /\ Fresh
    BY <2>1 DEF FromDir, Fresh, soloVars, TypeInv, PlaceType, DiskInv, PhaseInv
  <2>3. \A q \in DOMAIN disk : q[1] = unpackdestination[1] => Plain(q)
    BY <2>1, <2>2, NewPlain
  <2> QED BY <2>1, <2>2, <2>3 DEF PlainInv
<1>5. CASE MoveItem
  <2>1. pc = "move" /\ work # <<>> /\ soloVars' = soloVars /\ placeVars' = placeVars
    BY <1>5 DEF MoveItem, Moving
  <2>2. FromDir' = FromDir /\ \A q \in DOMAIN disk : q[1] = FromDir => Plain(q)
    BY <2>1 DEF FromDir, soloVars, placeVars, PlainInv
  <2>3. \/ disk' = disk
        \/ \E answer \in Answers(Head(work)) :
             /\ answer # Skipped /\ Destination(Head(work), answer) /\ ~IsDir(answer)
             /\ disk' = Moved(Head(work).src, answer)
    BY <1>5, MoveItemSteps DEF IsDir
  <2>4. \A q \in DOMAIN disk' : q[1] = FromDir => q \in DOMAIN disk
    BY <2>1, <2>3, ItemMoved
  <2> QED BY <2>2, <2>4 DEF PlainInv
<1>6. CASE MoveFails \/ UNCHANGED vars
  <2>1. /\ pc' = pc /\ soloVars' = soloVars /\ placeVars' = placeVars
        /\ disk' = disk \/ \E answer : disk' = Removed(answer)
    BY <1>6 DEF MoveFails, vars
  <2>2. \A q \in DOMAIN disk' : q \in DOMAIN disk
    BY <2>1 DEF Removed
  <2> QED BY <2>1, <2>2 DEF PlainInv, FromDir, soloVars, placeVars
<1>7. pc' \notin {"place", "move"} \/ RenameEnclosing \/ (PlaceSolo /\ pc' = "move") \/ (Replace /\ pc' = "move")
      \/ MoveItem \/ MoveFails \/ UNCHANGED vars
  BY DEF Next, Extract, BeginRegular, BeginSub, UnpackChecked, UnpackBeside, UnpackInto, NextEntry, RuleOut,
     WalkKnown, WalkNew, WalkEnds, ExtractEntry, ExtractFails, ExtractStopped, SubFails, EntriesDone, PassOver,
     SoloUnknown, PlaceSolo, Replace, MovesDone, Known, Return, Finalize
<1> QED BY <1>1, <1>2, <1>3, <1>4, <1>5, <1>6, <1>7

\* What is moved from one directory of one name to another.
LEMMA RebasedUnder ==
  ASSUME NEW d \in Paths, Len(d) = 1, NEW e \in Paths, Len(e) = 1, NEW w \in Paths
  PROVE  IsPrefix(d, d \o w) /\ Rebased(d, e, d \o w) = e \o w
<1> DEFINE q == d \o w
           r == e \o w
           s == Rebased(d, e, q)
<1>1. /\ q \in Paths \ {<<>>} /\ Len(q) = Len(w) + 1 /\ q[1] = d[1] /\ Len(w) \in Nat
      /\ \A m \in 1..Len(w) : q[m + 1] = w[m]
  BY UnderNames
<1>2. /\ r \in Paths \ {<<>>} /\ Len(r) = Len(w) + 1 /\ r[1] = e[1]
      /\ \A m \in 1..Len(w) : r[m + 1] = w[m]
  BY Under
<1> HIDE DEF q, r
<1>3. IsPrefix(d, q)
  <2>1. \A n \in 1..Len(d) : d[n] = q[n]
    BY <1>1
  <2>2. Len(d) <= Len(q) /\ q \in Paths
    BY <1>1
  <2> QED BY <2>1, <2>2, PrefixFacts
<1>4. /\ s \in Paths /\ Len(s) = Len(e) + (Len(q) - Len(d)) /\ \A n \in 1..Len(e) : s[n] = e[n]
      /\ \A n \in 1..Len(q) - Len(d) : s[Len(e) + n] = q[Len(d) + n]
  <2>1. q \in Paths
    BY <1>1
  <2>2. s \in Paths /\ Len(s) = Len(e) + (Len(q) - Len(d))
    BY <1>3, <2>1, RebasedLength, Zenon
  <2>3. \A n \in 1..Len(e) : s[n] = e[n]
    BY <1>3, <2>1, RebasedFront, Zenon
  <2>4. \A n \in 1..Len(q) - Len(d) : s[Len(e) + n] = q[Len(d) + n]
    BY <1>3, <2>1, RebasedRest, Zenon
  <2> QED BY <2>2, <2>3, <2>4
<1> HIDE DEF s
<1>5. Len(s) = Len(w) + 1 /\ s[1] = e[1] /\ \A n \in 1..Len(w) : s[1 + n] = q[1 + n]
  BY <1>1, <1>4
<1>6. ASSUME NEW n \in 1..Len(w) + 1 PROVE s[n] = r[n]
  <2>1. CASE n = 1
    BY <1>2, <1>5, <2>1
  <2>2. CASE n # 1
    <3>1. n - 1 \in 1..Len(w) /\ (n - 1) + 1 = n /\ 1 + (n - 1) = n
      BY <1>1, <2>2
    <3>2. s[1 + (n - 1)] = q[1 + (n - 1)]
      BY <1>5, <3>1, Zenon
    <3>3. q[(n - 1) + 1] = w[n - 1] /\ r[(n - 1) + 1] = w[n - 1]
      BY <1>1, <1>2, <3>1, Zenon
    <3> QED BY <3>1, <3>2, <3>3
  <2> QED BY <2>1, <2>2
<1>7. s = r
  BY <1>2, <1>4, <1>5, <1>6, SamePath
<1> QED BY <1>3, <1>7 DEF q, r, s

\* The enclosing directory is moved with the files in it.
LEMMA PlaceStep ==
  ASSUME TypeInv, TreeInv, DiskInv, NewInv, CollectInv, PlaceInv, [Next]_vars
  PROVE  PlaceInv'
<1>1. CASE pc' # "place"
  BY <1>1 DEF PlaceInv
<1>2. archive' = archive
  BY ConfigStep DEF configVars
<1>3. \A j : Superseded(j)' <=> Superseded(j)
  BY <1>2 DEF Superseded
<1>4. CASE UNCHANGED vars
  <2>1. pc' = pc /\ disk' = disk /\ written' = written
    BY <1>4 DEF vars
  <2>2. \A j : Kept(j)' <=> Kept(j)
    BY <1>2, <1>3, <2>1 DEF Kept
  <2> QED BY <1>2, <2>1, <2>2 DEF PlaceInv, FileAt, Exists
<1>5. CASE RenameEnclosing
  <2>1. /\ pc = "solo" /\ written' = written
        /\ disk' = disk \/ disk' = Moved(unpackdestination, <<Temporary>>)
    BY <1>5 DEF RenameEnclosing, EnclosingRenamed
  <2>2. CASE disk' = disk
    BY <2>1, <2>2 DEF PlaceInv, DiskInv, TemporaryInv
  <2>3. CASE disk' = Moved(unpackdestination, <<Temporary>>)
    <3>1. Fresh
      BY <2>1 DEF Fresh, TypeInv, PlaceType
    <3>2. unpackdestination \in Paths /\ Len(unpackdestination) = 1
          /\ <<Temporary>> \in Paths /\ Len(<<Temporary>>) = 1
      BY <3>1, UnpackFacts, MadeUpPaths DEF Fresh
    <3>3. ASSUME NEW j \in DOMAIN written, Kept(j)
          PROVE  LET p == <<Temporary>> \o Adjusted(archive[j]) IN p \in DOMAIN disk' /\ disk'[p] = Node(FALSE, j)
      <4>1. FileAt(written[j], j)
        BY <2>1, <3>3 DEF CollectInv
      <4>2. written[j] = unpackdestination \o Adjusted(archive[j]) /\ Adjusted(archive[j]) \in Paths
        BY <3>1, FreshWritten
      <4>3. /\ IsPrefix(unpackdestination, written[j])
            /\ Rebased(unpackdestination, <<Temporary>>, written[j]) = <<Temporary>> \o Adjusted(archive[j])
        <5>1. PICK t : t = <<Temporary>>
          OBVIOUS
        <5>2. PICK w : w = Adjusted(archive[j])
          OBVIOUS
        <5>3. /\ unpackdestination \in Paths /\ Len(unpackdestination) = 1
              /\ t \in Paths /\ Len(t) = 1 /\ w \in Paths
          BY <3>2, <4>2, <5>1, <5>2
        <5>4. /\ IsPrefix(unpackdestination, unpackdestination \o w)
              /\ Rebased(unpackdestination, t, unpackdestination \o w) = t \o w
          BY <5>3, RebasedUnder, Zenon
        <5> QED BY <4>2, <5>1, <5>2, <5>4
      <4> QED BY <2>1, <2>3, <4>1, <4>3, EnclosingMoved DEF FileAt, Exists
    <3>4. \A j \in DOMAIN written' : Kept(j)' => Kept(j)
      BY <1>2, <1>3, <2>1 DEF Kept
    <3> QED BY <1>2, <2>1, <3>3, <3>4 DEF PlaceInv, FileAt, Exists
  <2> QED BY <2>1, <2>2, <2>3
<1>6. pc' # "place" \/ UNCHANGED vars \/ RenameEnclosing
  BY DEF Next, Extract, BeginRegular, BeginSub, UnpackChecked, UnpackBeside, UnpackInto, NextEntry, RuleOut,
     WalkKnown, WalkNew, WalkEnds, ExtractEntry, ExtractFails, ExtractStopped, SubFails, EntriesDone, PassOver,
     SoloUnknown, PlaceSolo, Replace, MoveItem, MoveFails, MovesDone, Moving, Known, Return, Finalize
<1> QED BY <1>1, <1>4, <1>5, <1>6

\* The path of something below its top-level directory.
LEMMA BelowTop ==
  ASSUME NEW p \in Paths \ {<<>>}
  PROVE  LET w == SubSeq(p, 2, Len(p))
         IN  w \in Paths /\ Len(w) = Len(p) - 1 /\ \A m \in 1..Len(p) - 1 : w[m] = p[m + 1]
<1> DEFINE w == SubSeq(p, 2, Len(p))
<1>1. Len(p) \in Nat \ {0} /\ p \in Seq(Names)
  BY FirstName DEF Paths
<1>2. w \in Seq(Names) /\ Len(w) = Len(p) - 1
  <2>1. w \in Seq(Names)
    BY <1>1
  <2>2. Len(w) = IF 2 <= Len(p) THEN Len(p) - 2 + 1 ELSE 0
    BY <1>1
  <2>3. \A n \in Nat \ {0} : (IF 2 <= n THEN n - 2 + 1 ELSE 0) = n - 1
    OBVIOUS
  <2> QED BY <1>1, <2>1, <2>2, <2>3
<1>3. ASSUME NEW m \in 1..Len(p) - 1 PROVE w[m] = p[m + 1]
  <2>1. 2 + m - 1 = m + 1 /\ m \in 1..Len(p) - 2 + 1
    BY <1>1
  <2> QED BY <1>1, <2>1
<1> QED BY <1>2, <1>3 DEF Paths

\* If there is a solo item, everything in the archive is in it.
LEMMA SoloFirst ==
  ASSUME TypeInv, TreeInv, Fresh, NewInv, SoloKnown, NEW j \in DOMAIN written
  PROVE  Adjusted(archive[j])[1] = SoloName
<1> DEFINE a == Adjusted(archive[j])
<1>1. PICK w \in DOMAIN renames :
        /\ Len(w) = 1 /\ \A v \in DOMAIN renames : Len(v) = 1 => v = w
        /\ SoloName = renames[w][Len(renames[w])]
  BY SoloFacts DEF TypeInv
<1>2. unpackdestination \in Paths /\ Len(unpackdestination) = 1
  BY UnpackFacts DEF Fresh
<1>3. w \in Paths /\ renames[w] = unpackdestination \o w
  BY DEF TypeInv, RenamesType, NewInv
<1>4. SoloName = w[1]
  <2>1. Len(unpackdestination \o w) = Len(w) + 1 /\ \A m \in 1..Len(w) : (unpackdestination \o w)[m + 1] = w[m]
    BY <1>2, <1>3, Under
  <2>2. (unpackdestination \o w)[1 + 1] = w[1]
    BY <1>1, <2>1
  <2>3. Len(unpackdestination \o w) = 1 + 1
    BY <1>1, <2>1
  <2> QED BY <1>1, <1>3, <2>2, <2>3
<1>5. a \in Paths \ {<<>>} /\ Chained(a) /\ Len(a) \in Nat \ {0}
  BY FreshWritten, FirstName
<1> HIDE DEF a
<1>6. SubSeq(a, 1, 1) \in DOMAIN renames
  BY <1>5 DEF Chained
<1>7. Len(SubSeq(a, 1, 1)) = 1 /\ SubSeq(a, 1, 1)[1] = a[1]
  <2>1. 1 \in 0..Len(a)
    BY <1>5
  <2>2. Len(SubSeq(a, 1, 1)) = 1 /\ \A n \in 1..1 : SubSeq(a, 1, 1)[n] = a[n]
    BY <1>5, <2>1, SubSeqFacts
  <2> QED BY <2>2
<1> QED BY <1>1, <1>4, <1>6, <1>7 DEF a

\* The move of a solo item is the move of everything.
LEMMA SoloTransit ==
  ASSUME TypeInv, TreeInv, DiskInv, NewInv, PlaceInv, PlaceSolo, pc' = "move"
  PROVE  TransitInv'
<1>0. PICK src : src = <<Temporary, SoloName>>
  OBVIOUS
<1>1. /\ pc = "place" /\ disk' = disk /\ soloVars' = soloVars /\ archive' = archive /\ written' = written
      /\ \E answer \in CheckPath(<<SoloName>>) : answer # Skipped /\ work' = <<Job(src, answer, TRUE)>>
  BY <1>0 DEF PlaceSolo, Return, configVars
<1>2. PICK answer \in CheckPath(<<SoloName>>) : answer # Skipped /\ work' = <<Job(src, answer, TRUE)>>
  BY <1>1
<1>3. lookslikesolo /\ SoloKnown /\ Fresh
  BY <1>1 DEF DiskInv, PhaseInv, TypeInv, PlaceType, Fresh
<1>4. FromDir' = Temporary /\ Root' = <<>>
  BY <1>1, <1>3 DEF FromDir, Root, soloVars, Nowhere
<1>5. SoloName \in Names
  BY <1>3, SoloNameFacts
<1>6. /\ src \in Paths \ {<<>>} /\ src[1] = Temporary /\ src[2] = SoloName /\ Len(src) = 2
      /\ <<SoloName>> \in Paths \ {<<>>} /\ <<SoloName>>[1] = SoloName /\ Len(<<SoloName>>) = 1
      /\ <<Temporary>> \in Paths /\ Len(<<Temporary>>) = 1 /\ <<Temporary>>[1] = Temporary
  BY <1>0, <1>5, MadeUpPaths
<1>7. Like(answer, <<SoloName>>)
  BY <1>2, <1>6, CheckPathFacts DEF TypeInv, ConfigType, DiskType
<1>14. PICK job : job = Job(src, answer, TRUE)
  OBVIOUS
<1>8. job.src = src /\ job.dest = answer /\ job.checked
  BY <1>14 DEF Job
<1>9. Aimed(job)'
  <2>1. /\ answer \in Paths /\ Len(answer) = 1
        /\ answer[1].text = SoloName.text /\ answer[1].fork = SoloName.fork
    BY <1>6, <1>7 DEF Like
  <2>2. <<>> \in Paths /\ Len(<<>>) = 0
    BY DEF Paths
  <2>3. IsPrefix(<<>>, answer)
    BY <2>1, <2>2, PrefixFacts
  <2>4. Len(SubSeq(src, 2, Len(src))) = 1 /\ SubSeq(src, 2, Len(src))[1] = SoloName
    <3>1. LET w == SubSeq(src, 2, Len(src))
          IN  Len(w) = Len(src) - 1 /\ \A m \in 1..Len(src) - 1 : w[m] = src[m + 1]
      BY <1>6, BelowTop
    <3>2. Len(src) - 1 = 1 /\ 1 + 1 = 2
      BY <1>6
    <3> QED BY <1>6, <3>1, <3>2
  <2> DEFINE w == SubSeq(src, 2, Len(src))
  <2>5. Below(answer, Len(<<>>), w)
    <3> HIDE DEF w
    <3>1. Len(w) = 1 /\ w[1] = SoloName
      BY <2>4 DEF w
    <3>2. \A m \in 1..Len(w) : m = 1
      BY <3>1
    <3>3. Len(<<>>) + 1 = 1
      BY <2>2
    <3> QED BY <2>1, <3>1, <3>2, <3>3 DEF Below
  <2> QED BY <1>4, <1>8, <2>3, <2>5 DEF Aimed
<1>10. \A x : ToSet(<<x>>) = {x}
  BY ListFacts
<1>11. ASSUME NEW other \in ToSet(work') PROVE Aimed(other)'
  <2>1. other = job
    BY <1>2, <1>10, <1>14, <1>11
  <2> QED BY <1>9, <2>1
<1>12. CASE \A q \in DOMAIN disk : q[1] # Temporary
  <2>1. ~Exists(src)'
    BY <1>1, <1>6, <1>12 DEF Exists
  <2>2. \A x : <<x>> # <<>> /\ Head(<<x>>) = x
    OBVIOUS
  <2>3. Head(work') = job /\ work' # <<>>
    BY <1>2, <1>14, <2>2
  <2>4. Doomed'
    BY <1>8, <2>1, <2>3 DEF Doomed
  <2> QED BY <1>11, <2>4 DEF TransitInv
<1>13. CASE \A j \in DOMAIN written : Kept(j) => FileAt(<<Temporary>> \o Adjusted(archive[j]), j)
  <2>1. \A j \in DOMAIN written' : Kept(j)' => Kept(j)
    BY <1>1 DEF Kept, Superseded
  <2>2. ASSUME NEW j \in DOMAIN written', Kept(j)' PROVE ToBeMoved(j)'
    <3>11. PICK a : a = Adjusted(archive[j])
      OBVIOUS
    <3>12. PICK q : q = <<Temporary>> \o a
      OBVIOUS
    <3>1. j \in DOMAIN written /\ Kept(j)
      BY <1>1, <2>1, <2>2
    <3>2. FileAt(q, j)
      BY <1>13, <3>1, <3>11, <3>12
    <3>3. a \in Paths /\ a # <<>> /\ a[1] = SoloName
      BY <1>3, <3>1, <3>11, FreshWritten, SoloFirst
    <3>4. /\ q \in Paths /\ q[1] = Temporary /\ Len(q) = Len(a) + 1 /\ \A m \in 1..Len(a) : q[m + 1] = a[m]
      BY <1>6, <3>3, <3>12, Under
    <3>5. Len(a) \in Nat \ {0}
      BY <3>3, FirstName
    <3>6. q[2] = SoloName /\ Len(src) <= Len(q)
      <4>1. 1 \in 1..Len(a) /\ 1 + 1 = 2
        BY <3>5
      <4>2. q[1 + 1] = a[1]
        BY <3>4, <4>1
      <4> QED BY <1>6, <3>3, <3>4, <3>5, <4>1, <4>2
    <3>7. IsPrefix(src, q)
      <4>1. \A n \in 1..Len(src) : n = 1 \/ n = 2
        BY <1>6
      <4>2. \A n \in 1..Len(src) : src[n] = q[n]
        BY <1>6, <3>4, <3>6, <4>1
      <4> QED BY <1>6, <3>4, <3>6, <4>2, PrefixFacts
    <3>8. Source(j)' = q
      BY <1>1, <1>4, <3>11, <3>12 DEF Source
    <3>9. job \in ToSet(work')
      BY <1>2, <1>10, <1>14
    <3>10. FileAt(q, j)'
      BY <1>1, <3>2 DEF FileAt, Exists
    <3> QED BY <1>8, <3>7, <3>8, <3>9, <3>10 DEF ToBeMoved, FileAt, Exists
  <2> QED BY <1>11, <2>2 DEF TransitInv
<1> QED BY <1>1, <1>12, <1>13 DEF PlaceInv

\* The move of the enclosing directory is the move of everything.
LEMMA ReplaceTransit ==
  ASSUME TypeInv, TreeInv, DiskInv, NewInv, CollectInv, Replace, pc' = "move"
  PROVE  TransitInv'
<1>0. PICK src : src = unpackdestination
  OBVIOUS
<1>1. /\ pc = "replace" /\ disk' = disk /\ soloVars' = soloVars /\ archive' = archive /\ written' = written
      /\ unpackdestination' = src
      /\ \E answer \in CheckPath(originaldest) :
           /\ answer # Skipped /\ finaldestination' = answer
           /\ work' = <<Job(src, answer, TRUE)>>
  BY <1>0 DEF Replace, Return, Finalize, configVars
<1>2. PICK answer \in CheckPath(originaldest) :
        /\ answer # Skipped /\ finaldestination' = answer
        /\ work' = <<Job(src, answer, TRUE)>>
  BY <1>1
<1>3. ~lookslikesolo /\ Fresh /\ originaldest \in Paths \ {<<>>}
  BY <1>1, MadeUpPaths DEF DiskInv, PhaseInv, TypeInv, PlaceType, Fresh
<1>4. src \in Paths \ {<<>>} /\ Len(src) = 1 /\ src[1] \in Names
  BY <1>0, <1>3, UnpackFacts DEF Fresh
<1>5. FromDir' = src[1] /\ Root' = answer
  BY <1>1, <1>2, <1>3 DEF FromDir, Root, soloVars
<1>6. answer \in Paths
  BY <1>2, <1>3, CheckPathFacts DEF TypeInv, ConfigType, DiskType, Like
<1>14. PICK job : job = Job(src, answer, TRUE)
  OBVIOUS
<1>7. job.src = src /\ job.dest = answer /\ job.checked
  BY <1>14 DEF Job
<1>8. Aimed(job)'
  <2>1. IsPrefix(answer, answer) /\ Len(answer) \in Nat
    BY <1>6, PrefixChains DEF Paths
  <2> DEFINE w == SubSeq(src, 2, Len(src))
  <2>2. Len(w) = 0
    <3>1. Len(w) = Len(src) - 1
      BY <1>4, BelowTop
    <3> QED BY <1>4, <3>1
  <2> HIDE DEF w
  <2>3. Len(answer) + 0 = Len(answer) /\ ~ \E m \in 1..0 : TRUE
    BY <2>1
  <2>4. Below(answer, Len(answer), w)
    BY <2>2, <2>3 DEF Below
  <2> QED BY <1>5, <1>7, <2>1, <2>4 DEF Aimed, w
<1>9. \A x : ToSet(<<x>>) = {x}
  BY ListFacts
<1>10. ASSUME NEW other \in ToSet(work') PROVE Aimed(other)'
  <2>1. other = job
    BY <1>2, <1>9, <1>14, <1>10
  <2> QED BY <1>8, <2>1
<1>11. \A j \in DOMAIN written' : Kept(j)' => Kept(j)
  BY <1>1 DEF Kept, Superseded
<1>12. <<src[1]>> = src
  <2>1. <<src[1]>> \in Paths /\ <<src[1]>>[1] = src[1] /\ Len(<<src[1]>>) = 1
    BY <1>4, MadeUpPaths
  <2>2. \A n \in 1..1 : n = 1
    OBVIOUS
  <2> QED BY <1>4, <2>1, <2>2, SamePath
<1>13. ASSUME NEW j \in DOMAIN written', Kept(j)' PROVE ToBeMoved(j)'
  <2>1. j \in DOMAIN written /\ Kept(j)
    BY <1>1, <1>11, <1>13
  <2>2. FileAt(written[j], j)
    BY <1>1, <2>1 DEF CollectInv
  <2>3. written[j] = src \o Adjusted(archive[j]) /\ Adjusted(archive[j]) \in Paths
    BY <1>0, <1>3, <2>1, FreshWritten
  <2>4. IsPrefix(src, written[j])
    BY <1>4, <2>3, RebasedUnder
  <2>5. Source(j)' = written[j]
    BY <1>1, <1>5, <1>12, <2>3 DEF Source
  <2>6. job \in ToSet(work')
    BY <1>2, <1>9, <1>14
  <2> QED BY <1>1, <1>7, <2>2, <2>4, <2>5, <2>6 DEF ToBeMoved, FileAt, Exists
<1> QED BY <1>10, <1>13 DEF TransitInv

\* What it means to be below the first b names what src is below its first.
LEMMA BelowSource ==
  ASSUME NEW src \in Paths \ {<<>>}, NEW p \in Paths, NEW b \in Nat
  PROVE  Below(p, b, SubSeq(src, 2, Len(src))) <=>
           /\ Len(p) = b + (Len(src) - 1)
           /\ \A m \in 1..Len(src) - 1 : p[b + m].text = src[m + 1].text /\ p[b + m].fork = src[m + 1].fork
<1> DEFINE w == SubSeq(src, 2, Len(src))
<1>1. Len(w) = Len(src) - 1 /\ \A m \in 1..Len(src) - 1 : w[m] = src[m + 1]
  BY BelowTop
<1> HIDE DEF w
<1>2. Below(p, b, w) <=>
        /\ Len(p) = b + (Len(src) - 1)
        /\ \A m \in 1..Len(src) - 1 : p[b + m].text = src[m + 1].text /\ p[b + m].fork = src[m + 1].fork
  BY <1>1 DEF Below
<1> QED BY <1>2 DEF w

\* Where everything is moved from and to.
LEMMA RootFacts ==
  ASSUME TypeInv, DiskInv, pc = "move"
  PROVE  /\ Root \in Paths /\ Len(Root) \in {0, 1}
         /\ <<FromDir>> \in Paths /\ Len(<<FromDir>>) = 1 /\ <<FromDir>>[1] = FromDir
<1>1. sub /\ enclosingdir /\ removesolo
  BY DEF DiskInv, PhaseInv
<1>2. FromDir \in Names
  BY <1>1, UnpackFacts, NameFacts DEF FromDir
<1>3. <<>> \in Paths /\ Len(<<>>) = 0
  BY DEF Paths
<1>4. Root = <<>> \/ Root \in EnclosingDirs
  BY DEF Root, TypeInv, PlaceType, Nowhere
<1>5. Root \in Paths /\ Len(Root) \in {0, 1}
  BY <1>3, <1>4, NameFacts
<1> QED BY <1>2, <1>5, MadeUpPaths

\* A job that is aimed is answered with a path that is.
LEMMA AnswerAimed ==
  ASSUME TypeInv, DiskInv, pc = "move", NEW job \in Jobs, Aimed(job), Bound(job),
         NEW answer \in Paths \ {<<>>}, Like(answer, job.dest), job.checked => answer = job.dest
  PROVE  IsPrefix(Root, answer) /\ Below(answer, Len(Root), SubSeq(job.src, 2, Len(job.src)))
<1> DEFINE b == Len(Root)
<1>1. /\ Root \in Paths /\ b \in {0, 1} /\ job.src \in Paths \ {<<>>} /\ job.dest \in Paths \ {<<>>}
      /\ Len(job.src) \in Nat \ {0} /\ Len(job.dest) \in Nat \ {0} /\ b \in Nat
  BY RootFacts, FirstName DEF Jobs
<1>2. /\ IsPrefix(Root, job.dest) /\ Len(job.dest) = b + (Len(job.src) - 1)
      /\ \A m \in 1..Len(job.src) - 1 :
           job.dest[b + m].text = job.src[m + 1].text /\ job.dest[b + m].fork = job.src[m + 1].fork
  <2>1. IsPrefix(Root, job.dest) /\ Below(job.dest, b, SubSeq(job.src, 2, Len(job.src)))
    BY DEF Aimed
  <2>2. PICK s : s = job.src
    OBVIOUS
  <2>3. PICK p : p = job.dest
    OBVIOUS
  <2> HIDE DEF b
  <2>4. s \in Paths \ {<<>>} /\ p \in Paths /\ b \in Nat /\ Below(p, b, SubSeq(s, 2, Len(s)))
    BY <1>1, <2>1, <2>2, <2>3
  <2>5. Len(p) = b + (Len(s) - 1)
        /\ \A m \in 1..Len(s) - 1 : p[b + m].text = s[m + 1].text /\ p[b + m].fork = s[m + 1].fork
    BY <2>4, BelowSource
  <2> QED BY <2>1, <2>2, <2>3, <2>5
<1>3. /\ Len(answer) = Len(job.dest)
      /\ \A m \in 1..Len(job.dest) : answer[m].text = job.dest[m].text /\ answer[m].fork = job.dest[m].fork
      /\ \A m \in 1..Len(job.dest) - 1 : answer[m] = job.dest[m]
  <2>1. \A m \in 1..Len(job.dest) : m = Len(job.dest) \/ m \in 1..Len(job.dest) - 1
    BY <1>1
  <2> QED BY <2>1 DEF Like
<1>4. b <= Len(job.dest) /\ \A m \in 1..b : Root[m] = job.dest[m]
  BY <1>1, <1>2, PrefixFacts
<1>5. IsPrefix(Root, answer)
  <2>1. CASE job.checked
    BY <1>2, <2>1
  <2>2. CASE ~job.checked
    <3>1. Len(job.dest) > 1
      BY <2>2 DEF Bound
    <3>2. \A m \in 1..b : m \in 1..Len(job.dest) - 1
      <4>1. \A l \in {0, 1}, n \in Nat : n > 1 => \A m \in 1..l : m \in 1..n - 1
        OBVIOUS
      <4> QED BY <1>1, <3>1, <4>1
    <3>3. \A m \in 1..b : Root[m] = answer[m]
      BY <1>3, <1>4, <3>2
    <3> QED BY <1>1, <1>3, <1>4, <3>3, PrefixFacts
  <2> QED BY <2>1, <2>2
<1>6. \A m \in 1..Len(job.src) - 1 :
        answer[b + m].text = job.src[m + 1].text /\ answer[b + m].fork = job.src[m + 1].fork
  <2>1. \A m \in 1..Len(job.src) - 1 : b + m \in 1..Len(job.dest)
    BY <1>1, <1>2
  <2> QED BY <1>2, <1>3, <2>1
<1> QED BY <1>1, <1>2, <1>3, <1>5, <1>6, BelowSource

\* So are the jobs of a merge.
LEMMA MergeAimed ==
  ASSUME TypeInv, DiskInv, pc = "move", NEW job \in Jobs, NEW answer \in Paths \ {<<>>},
         IsPrefix(Root, answer), Below(answer, Len(Root), SubSeq(job.src, 2, Len(job.src))),
         NEW new \in Inside(job, answer)
  PROVE  Aimed(new)
<1> DEFINE b == Len(Root)
           src == job.src
<1>1. /\ Root \in Paths /\ b \in Nat /\ src \in Paths \ {<<>>} /\ Len(src) \in Nat \ {0}
  BY RootFacts, FirstName DEF Jobs
<1>2. /\ Len(answer) = b + (Len(src) - 1)
      /\ \A m \in 1..Len(src) - 1 : answer[b + m].text = src[m + 1].text /\ answer[b + m].fork = src[m + 1].fork
  BY <1>1, BelowSource
<1>3. PICK q \in Children(src) : new = Job(q, Append(answer, q[Len(q)]), FALSE)
  BY DEF Inside
<1>4. new.src = q /\ new.dest = Append(answer, q[Len(q)])
  BY <1>3 DEF Job
<1> HIDE DEF src, b
<1>5. q \in Paths \ {<<>>} /\ Len(q) = Len(src) + 1 /\ IsPrefix(src, q)
  BY DEF Children, TypeInv, DiskType
<1>6. q[Len(q)] \in Names
  <2>1. \A r \in Seq(Names) : r # <<>> => r[Len(r)] \in Names
    OBVIOUS
  <2> QED BY <1>5, <2>1 DEF Paths
<1> DEFINE dest == Append(answer, q[Len(q)])
<1>7. /\ dest \in Paths /\ Len(dest) = Len(answer) + 1 /\ dest[Len(answer) + 1] = q[Len(q)]
      /\ \A n \in 1..Len(answer) : dest[n] = answer[n]
  BY <1>6, AppendFacts
<1> HIDE DEF dest
<1>8. IsPrefix(Root, dest)
  <2>1. Len(answer) \in Nat
    BY FirstName
  <2>2. Len(answer) <= Len(dest) /\ \A n \in 1..Len(answer) : answer[n] = dest[n]
    BY <1>7, <2>1
  <2>3. IsPrefix(answer, dest)
    BY <1>7, <2>2, PrefixFacts
  <2> QED BY <1>1, <1>7, <2>3, PrefixChains
<1>9. Len(dest) = b + (Len(q) - 1)
  BY <1>1, <1>2, <1>5, <1>7
<1>10. ASSUME NEW m \in 1..Len(q) - 1
       PROVE  dest[b + m].text = q[m + 1].text /\ dest[b + m].fork = q[m + 1].fork
  <2>1. CASE m = Len(src)
    <3>1. b + m = Len(answer) + 1 /\ m + 1 = Len(q)
      BY <1>1, <1>2, <1>5, <2>1
    <3> QED BY <1>7, <3>1
  <2>2. CASE m # Len(src)
    <3>1. m \in 1..Len(src) - 1 /\ b + m \in 1..Len(answer) /\ m + 1 \in 1..Len(src)
      BY <1>1, <1>2, <1>5, <2>2
    <3>2. src[m + 1] = q[m + 1]
      BY <1>1, <1>5, <3>1, PrefixFacts
    <3> QED BY <1>2, <1>7, <3>1, <3>2
  <2> QED BY <2>1, <2>2
<1>11. Below(dest, b, SubSeq(q, 2, Len(q)))
  BY <1>1, <1>5, <1>7, <1>9, <1>10, BelowSource
<1> QED BY <1>4, <1>8, <1>11 DEF Aimed, dest, b

\* Where the file of an entry goes when something it is in is moved.
LEMMA MovedPlace ==
  ASSUME NEW b \in Nat, NEW src \in Paths \ {<<>>}, NEW answer \in Paths \ {<<>>},
         Below(answer, b, SubSeq(src, 2, Len(src))),
         NEW f \in Paths, Len(f) = 1, NEW w \in Paths, IsPrefix(src, f \o w)
  PROVE  LET p == Rebased(src, answer, f \o w)
         IN  p \in Paths /\ p[1] = answer[1] /\ IsPrefix(answer, p) /\ Below(p, b, w)
<1> DEFINE q == f \o w
           p == Rebased(src, answer, q)
<1>1. /\ q \in Paths /\ Len(q) = Len(w) + 1 /\ Len(w) \in Nat /\ \A m \in 1..Len(w) : q[m + 1] = w[m]
  BY UnderNames
<1>2. /\ Len(answer) = b + (Len(src) - 1) /\ Len(src) \in Nat \ {0} /\ Len(answer) \in Nat \ {0}
      /\ \A m \in 1..Len(src) - 1 : answer[b + m].text = src[m + 1].text /\ answer[b + m].fork = src[m + 1].fork
  BY BelowSource, FirstName
<1>3. Len(src) <= Len(q) /\ \A n \in 1..Len(src) : src[n] = q[n]
  BY <1>1, PrefixFacts DEF q
<1>4. /\ p \in Paths /\ Len(p) = Len(answer) + (Len(q) - Len(src))
      /\ \A n \in 1..Len(answer) : p[n] = answer[n]
      /\ \A n \in 1..Len(q) - Len(src) : p[Len(answer) + n] = q[Len(src) + n]
      /\ IsPrefix(answer, p)
  <2>1. q \in Paths /\ IsPrefix(src, q) /\ src \in Paths /\ answer \in Paths
    BY <1>1
  <2> HIDE DEF q
  <2>2. p \in Paths /\ IsPrefix(answer, p)
    BY <2>1, RebasedLength, RebasedFront, Zenon
  <2>4. \A n \in 1..Len(answer) : p[n] = answer[n]
    <3> HIDE DEF p
    <3> QED BY <2>1, <2>2, PrefixFacts
  <2>5. Len(p) = Len(answer) + (Len(q) - Len(src))
    BY <2>1, RebasedLength, Zenon
  <2>3. \A n \in 1..Len(q) - Len(src) : p[Len(answer) + n] = q[Len(src) + n]
    BY <2>1, RebasedRest, Zenon
  <2> QED BY <2>2, <2>3, <2>4, <2>5
<1> HIDE DEF p, q
<1>5. Len(p) = b + Len(w)
  BY <1>1, <1>2, <1>3, <1>4
<1>6. ASSUME NEW m \in 1..Len(w) PROVE p[b + m].text = w[m].text /\ p[b + m].fork = w[m].fork
  <2>1. CASE m \in 1..Len(src) - 1
    <3>1. b + m \in 1..Len(answer) /\ m + 1 \in 1..Len(src)
      BY <1>2, <2>1
    <3>2. p[b + m] = answer[b + m] /\ src[m + 1] = q[m + 1] /\ q[m + 1] = w[m]
      BY <1>1, <1>3, <1>4, <3>1, Zenon
    <3>3. answer[b + m].text = src[m + 1].text /\ answer[b + m].fork = src[m + 1].fork
      BY <1>2, <2>1, Zenon
    <3> QED BY <3>2, <3>3, Zenon
  <2>2. CASE m \notin 1..Len(src) - 1
    <3> DEFINE n == m - (Len(src) - 1)
    <3>1. n \in 1..Len(q) - Len(src) /\ Len(answer) + n = b + m /\ Len(src) + n = m + 1
      BY <1>1, <1>2, <1>3, <2>2
    <3> HIDE DEF n
    <3>2. p[b + m] = q[m + 1]
      BY <1>4, <3>1
    <3> QED BY <1>1, <3>2
  <2> QED BY <2>1, <2>2
<1>7. p[1] = answer[1]
  BY <1>2, <1>4
<1> QED BY <1>4, <1>5, <1>6, <1>7 DEF Below, p, q

\* Nothing but the file of an entry is moved to where that belongs.
LEMMA SameSource ==
  ASSUME NEW b \in Nat, NEW src \in Paths \ {<<>>}, NEW answer \in Paths,
         Below(answer, b, SubSeq(src, 2, Len(src))), Plain(src),
         NEW f \in Paths, Len(f) = 1, src[1] = f[1], NEW w \in Paths, Below(answer, b, w),
         \A m \in 1..Len(w) : w[m].number = 0
  PROVE  src = f \o w
<1> DEFINE q == f \o w
<1>1. /\ q \in Paths /\ Len(q) = Len(w) + 1 /\ q[1] = f[1] /\ Len(w) \in Nat /\ \A m \in 1..Len(w) : q[m + 1] = w[m]
  BY UnderNames
<1>2. /\ Len(answer) = b + (Len(src) - 1) /\ Len(src) \in Nat \ {0}
      /\ \A m \in 1..Len(src) - 1 : answer[b + m].text = src[m + 1].text /\ answer[b + m].fork = src[m + 1].fork
  BY BelowSource, FirstName
<1>3. Len(w) = Len(src) - 1 /\ \A m \in 1..Len(w) : answer[b + m].text = w[m].text /\ answer[b + m].fork = w[m].fork
  BY <1>1, <1>2 DEF Below
<1> HIDE DEF q
<1>4. Len(src) = Len(q)
  BY <1>1, <1>2, <1>3
<1>5. ASSUME NEW n \in 1..Len(src) PROVE src[n] = q[n]
  <2>1. CASE n = 1
    BY <1>1, <2>1
  <2>2. CASE n # 1
    <3>1. PICK m \in 1..Len(w) : m + 1 = n
      <4>1. n - 1 \in 1..Len(w) /\ (n - 1) + 1 = n
        BY <1>1, <1>2, <1>3, <2>2
      <4> QED BY <4>1
    <3>2. src[n] \in Names /\ w[m] \in Names
      BY DEF Paths
    <3>3. src[n].text = w[m].text /\ src[n].fork = w[m].fork
      BY <1>2, <1>3, <3>1
    <3>4. src[n].number = 0 /\ w[m].number = 0
      <4>1. n \in 2..Len(src)
        BY <1>2, <2>2
      <4> QED BY <4>1 DEF Plain
    <3>5. src[n] = w[m]
      BY <3>2, <3>3, <3>4 DEF Names
    <3> QED BY <1>1, <3>1, <3>5
  <2> QED BY <2>1, <2>2
<1>6. src = q
  BY <1>1, <1>4, <1>5, SamePath
<1> QED BY <1>6 DEF q

\* On the way to what is in a directory there is something directly in it.
LEMMA ChildTowards ==
  ASSUME DiskType, Closed, NEW src \in Paths \ {<<>>}, NEW e \in DOMAIN disk, IsPrefix(src, e), e # src
  PROVE  \E q \in Children(src) : IsPrefix(q, e)
<1> DEFINE q == SubSeq(e, 1, Len(src) + 1)
<1>1. e \in Paths \ {<<>>} /\ Len(e) \in Nat \ {0} /\ Len(src) \in Nat \ {0}
  BY FirstName DEF DiskType
<1>2. Len(src) <= Len(e) /\ \A n \in 1..Len(src) : src[n] = e[n]
  BY <1>1, PrefixFacts
<1>3. Len(src) # Len(e)
  BY <1>1, <1>2, SamePath
<1>4. Len(src) + 1 \in 0..Len(e) /\ Len(src) + 1 \in Nat /\ Len(src) <= Len(src) + 1
  BY <1>1, <1>2, <1>3
<1>5. q \in Paths /\ Len(q) = Len(src) + 1 /\ \A n \in 1..Len(src) + 1 : q[n] = e[n]
  BY <1>1, <1>4, SubSeqFacts
<1> HIDE DEF q
<1>6. IsPrefix(q, e) /\ q # <<>>
  <2>1. Len(q) <= Len(e) /\ Len(q) # 0
    BY <1>1, <1>4, <1>5
  <2>2. Len(<<>>) = 0
    OBVIOUS
  <2> QED BY <1>1, <1>5, <2>1, <2>2, PrefixFacts
<1>7. IsPrefix(src, q)
  <2>1. \A n \in 1..Len(src) : src[n] = q[n]
    BY <1>1, <1>2, <1>5
  <2> QED BY <1>4, <1>5, <2>1, PrefixFacts
<1>8. q \in DOMAIN disk
  <2>1. CASE q = e
    BY <2>1
  <2>2. CASE q # e
    BY <1>1, <1>5, <1>6, <2>2, ParentsArePrefixes DEF Closed, IsDir, Exists
  <2> QED BY <2>1, <2>2
<1> QED BY <1>5, <1>6, <1>7, <1>8 DEF Children

\* Merging a directory into another loses nothing: its contents are put on the
\* list.
LEMMA MergeTransit ==
  ASSUME TypeInv, DiskInv, pc = "move", work # <<>>, NEW answer \in Paths \ {<<>>},
         IsDir(Head(work).src), Head(work) \in Jobs,
         work' = SetToSeq(Inside(Head(work), answer)) \o Tail(work)
  PROVE  /\ ToSet(work') = Inside(Head(work), answer) \cup ToSet(Tail(work))
         /\ \A e \in DOMAIN disk : \A job \in ToSet(work) :
              IsPrefix(job.src, e) /\ ~disk[e].dir => \E other \in ToSet(work') : IsPrefix(other.src, e)
<1> DEFINE new == Inside(Head(work), answer)
<1>1. IsFiniteSet(new) /\ new \subseteq Jobs
  BY InsideFacts DEF TypeInv
<1>2. work \in Seq(Jobs) /\ Tail(work) \in Seq(Jobs)
  BY JobFacts DEF TypeInv, PlaceType
<1>3. ToSet(SetToSeq(new)) = new /\ SetToSeq(new) \in Seq(Jobs)
  <2> HIDE DEF new
  <2>1. SetToSeq(new) \in Seq(new) /\ \A x \in new : \E n \in 1..Len(SetToSeq(new)) : SetToSeq(new)[n] = x
    BY <1>1, SetToSeqFacts
  <2>2. DOMAIN SetToSeq(new) = 1..Len(SetToSeq(new))
    BY <2>1
  <2>3. ToSet(SetToSeq(new)) \subseteq new
    BY <2>1, ListFacts
  <2>4. new \subseteq ToSet(SetToSeq(new))
    BY <2>1, <2>2 DEF ToSet
  <2>5. SetToSeq(new) \in Seq(Jobs)
    BY <1>1, <2>1
  <2> QED BY <2>3, <2>4, <2>5
<1> HIDE DEF new
<1>4. ToSet(work') = new \cup ToSet(Tail(work))
  <2>1. \A s, t \in Seq(Jobs) : ToSet(s \o t) = ToSet(s) \cup ToSet(t)
    BY ListFacts
  <2> QED BY <1>2, <1>3, <2>1 DEF new
<1>5. ASSUME NEW e \in DOMAIN disk, NEW job \in ToSet(work), IsPrefix(job.src, e), ~disk[e].dir
      PROVE  \E other \in ToSet(work') : IsPrefix(other.src, e)
  <2>1. CASE job \in ToSet(Tail(work))
    BY <1>4, <1>5, <2>1
  <2>2. CASE job = Head(work)
    <3>1. job.src \in Paths \ {<<>>} /\ e # job.src
      BY <1>5, <2>2 DEF Jobs, IsDir
    <3>2. PICK q \in Children(job.src) : IsPrefix(q, e)
      BY <1>5, <3>1, ChildTowards DEF TypeInv, DiskInv
    <3>3. Job(q, Append(answer, q[Len(q)]), FALSE) \in new /\ Job(q, Append(answer, q[Len(q)]), FALSE).src = q
      BY <2>2 DEF new, Inside, Job
    <3> QED BY <1>4, <3>2, <3>3
  <2>3. job = Head(work) \/ job \in ToSet(Tail(work))
    BY <1>2, ListFacts
  <2> QED BY <2>1, <2>2, <2>3
<1> QED BY <1>4, <1>5 DEF new

\* One item of the move: what is still to be moved, or has been, stays so.
LEMMA MoveTransit ==
  ASSUME TypeInv, TreeInv, DiskInv, NewInv, PlainInv, TransitInv, MoveItem
  PROVE  TransitInv'
<1>1. /\ pc = "move" /\ pc' = "move" /\ work # <<>> /\ soloVars' = soloVars /\ placeVars' = placeVars
      /\ archive' = archive /\ written' = written
  BY DEF MoveItem, Moving, configVars
<1>2. PICK root, from, job : root = Root /\ from = FromDir /\ job = Head(work)
  OBVIOUS
<1>3. Root' = root /\ FromDir' = from
  BY <1>1, <1>2 DEF Root, FromDir, soloVars, placeVars
<1>4. /\ root \in Paths /\ Len(root) \in Nat
      /\ <<from>> \in Paths /\ Len(<<from>>) = 1 /\ <<from>>[1] = from
  BY <1>1, <1>2, RootFacts
<1>5. Fresh
  BY <1>1 DEF DiskInv, PhaseInv, Fresh
<1>6. /\ work \in Seq(Jobs) /\ Tail(work) \in Seq(Jobs) /\ ToSet(Tail(work)) \subseteq ToSet(work)
      /\ job \in Jobs /\ job \in ToSet(work) /\ Bound(job) /\ Aimed(job)
  <2>1. work \in Seq(Jobs) /\ Tail(work) \in Seq(Jobs) /\ Head(work) \in Jobs
    BY <1>1, JobFacts DEF TypeInv, PlaceType
  <2> QED BY <1>1, <1>2, <2>1, ListFacts DEF DiskInv, MoveInv, TransitInv
<1>7. \A other : Aimed(other) => Aimed(other)'
  BY <1>2, <1>3 DEF Aimed
<1>8. \A other \in ToSet(work) : Aimed(other)'
  <2> SUFFICES ASSUME NEW other \in ToSet(work) PROVE Aimed(other)'
    OBVIOUS
  <2>1. Aimed(other)
    BY <1>1 DEF TransitInv
  <2> QED BY <1>7, <2>1
<1>9. \A j : Kept(j)' <=> Kept(j)
  BY <1>1 DEF Kept, Superseded
<1>10. \E answer \in Answers(job) :
         /\ Destination(job, answer)
         /\ \/ answer = Skipped /\ work' = Tail(work) /\ disk' = disk
            \/ work' = <<>> /\ error' = "fileexists"
            \/ /\ answer # Skipped /\ IsDir(job.src) /\ error' = error
               /\ work' = SetToSeq(Inside(job, answer)) \o Tail(work) /\ disk' = disk
            \/ /\ answer # Skipped /\ ~IsDir(answer) /\ Exists(job.src) /\ ~Clash(job, answer) /\ error' = error
               /\ disk' = Moved(job.src, answer) /\ work' = Tail(work)
  BY <1>2, MoveItemSteps DEF IsDir
<1>11. PICK answer \in Answers(job) :
         /\ Destination(job, answer)
         /\ \/ answer = Skipped /\ work' = Tail(work) /\ disk' = disk
            \/ work' = <<>> /\ error' = "fileexists"
            \/ /\ answer # Skipped /\ IsDir(job.src) /\ error' = error
               /\ work' = SetToSeq(Inside(job, answer)) \o Tail(work) /\ disk' = disk
            \/ /\ answer # Skipped /\ ~IsDir(answer) /\ Exists(job.src) /\ ~Clash(job, answer) /\ error' = error
               /\ disk' = Moved(job.src, answer) /\ work' = Tail(work)
  BY <1>10
<1>12. (skips => skips') /\ (answer = Skipped => skips')
  <2>1. CASE job.checked
    <3>1. answer = job.dest /\ skips' = skips
      BY <1>11, <2>1 DEF Destination, collisionVars
    <3> QED BY <1>6, <3>1 DEF Jobs, Skipped
  <2>2. CASE ~job.checked
    BY <1>11, <2>2 DEF Destination, Answer
  <2> QED BY <2>1, <2>2
<1>13. ASSUME error' = error, Exists(job.src), error' = "none", ~skips', NEW j \in DOMAIN written', Kept(j)'
       PROVE  j \in DOMAIN written /\ Kept(j) /\ (ToBeMoved(j) \/ HasMoved(j))
  <2>1. ~Doomed /\ error = "none" /\ ~skips
    BY <1>2, <1>12, <1>13 DEF Doomed
  <2> QED BY <1>1, <1>9, <1>13, <2>1 DEF TransitInv
<1>14. CASE answer = Skipped /\ work' = Tail(work) /\ disk' = disk
  <2>1. \A other \in ToSet(work') : Aimed(other)'
    BY <1>6, <1>8, <1>14
  <2> QED BY <1>12, <1>14, <2>1 DEF TransitInv
<1>15. CASE work' = <<>> /\ error' = "fileexists"
  <2>1. ToSet(<<>>) = {}
    BY ListFacts
  <2> QED BY <1>15, <2>1 DEF TransitInv
<1>16. ASSUME answer # Skipped
       PROVE  /\ answer \in Paths \ {<<>>} /\ IsPrefix(root, answer)
              /\ Below(answer, Len(root), SubSeq(job.src, 2, Len(job.src)))
  <2>1. answer \in Paths \ {<<>>} /\ Like(answer, job.dest) /\ (job.checked => answer = job.dest)
    BY <1>1, <1>2, <1>11, <1>16, AnswerFacts
  <2> QED BY <1>1, <1>2, <1>6, <2>1, AnswerAimed
<1>17. CASE /\ answer # Skipped /\ IsDir(job.src) /\ error' = error
            /\ work' = SetToSeq(Inside(job, answer)) \o Tail(work) /\ disk' = disk
  <2>1. /\ ToSet(work') = Inside(job, answer) \cup ToSet(Tail(work))
        /\ \A e \in DOMAIN disk : \A other \in ToSet(work) :
             IsPrefix(other.src, e) /\ ~disk[e].dir => \E new \in ToSet(work') : IsPrefix(new.src, e)
    BY <1>1, <1>2, <1>6, <1>16, <1>17, MergeTransit
  <2>2. \A other \in ToSet(work') : Aimed(other)'
    <3> SUFFICES ASSUME NEW other \in ToSet(work') PROVE Aimed(other)'
      OBVIOUS
    <3>1. CASE other \in Inside(job, answer)
      <4>1. Aimed(other)
        BY <1>1, <1>2, <1>6, <1>16, <1>17, <3>1, MergeAimed
      <4> QED BY <1>7, <4>1
    <3>2. CASE other \in ToSet(Tail(work))
      BY <1>6, <1>8, <3>2
    <3> QED BY <2>1, <3>1, <3>2
  <2>3. ASSUME error' = "none", ~skips', NEW j \in DOMAIN written', Kept(j)'
        PROVE  ToBeMoved(j)' \/ HasMoved(j)'
    <3>1. ToBeMoved(j) \/ HasMoved(j)
      BY <1>13, <1>17, <2>3 DEF IsDir
    <3>2. PICK e, a : e = Source(j) /\ a = Adjusted(archive[j])
      OBVIOUS
    <3>3. Source(j)' = e /\ Adjusted(archive'[j]) = a
      BY <1>1, <1>2, <1>3, <3>2 DEF Source
    <3>4. CASE ToBeMoved(j)
      <4>1. e \in DOMAIN disk /\ disk[e] = Node(FALSE, j) /\ \E other \in ToSet(work) : IsPrefix(other.src, e)
        BY <3>2, <3>4 DEF ToBeMoved, FileAt, Exists
      <4>2. ~disk[e].dir
        BY <4>1 DEF Node
      <4>3. \E new \in ToSet(work') : IsPrefix(new.src, e)
        BY <2>1, <4>1, <4>2
      <4>4. e \in DOMAIN disk' /\ disk'[e] = Node(FALSE, j)
        BY <1>17, <4>1
      <4> QED BY <3>3, <4>3, <4>4 DEF ToBeMoved, FileAt, Exists
    <3>5. CASE HasMoved(j)
      <4>1. e \notin DOMAIN disk'
        BY <1>17, <3>2, <3>5 DEF HasMoved, Exists
      <4>2. \E p \in DOMAIN disk' :
              disk'[p] = Node(FALSE, j) /\ p[1] # from /\ IsPrefix(root, p) /\ Below(p, Len(root), a)
        BY <1>2, <1>17, <3>2, <3>5 DEF HasMoved, FileAt
      <4> QED BY <1>3, <3>3, <4>1, <4>2 DEF HasMoved, FileAt, Exists
    <3> QED BY <3>1, <3>4, <3>5
  <2> QED BY <2>2, <2>3 DEF TransitInv
<1>18. CASE /\ answer # Skipped /\ ~IsDir(answer) /\ Exists(job.src) /\ ~Clash(job, answer) /\ error' = error
            /\ disk' = Moved(job.src, answer) /\ work' = Tail(work)
  <2> DEFINE src == job.src
  <2>1. /\ src \in Paths \ {<<>>} /\ src[1] = from /\ answer \in Paths \ {<<>>} /\ answer[1] # from
        /\ \A q \in DOMAIN disk : ~IsPrefix(src, q) /\ q # answer => q \in DOMAIN disk' /\ disk'[q] = disk[q]
        /\ \A q \in DOMAIN disk : IsPrefix(src, q) =>
             Rebased(src, answer, q) \in DOMAIN disk' /\ disk'[Rebased(src, answer, q)] = disk[q]
        /\ \A q \in DOMAIN disk' : q[1] = from => q \in DOMAIN disk /\ ~IsPrefix(src, q)
        /\ \A q \in DOMAIN disk : q[1] # from => ~IsPrefix(src, q)
    BY <1>1, <1>2, <1>11, <1>18, ItemMoved
  <2>2. \A other \in ToSet(work') : Aimed(other)'
    BY <1>6, <1>8, <1>18
  <2>3. IsPrefix(root, answer) /\ Below(answer, Len(root), SubSeq(src, 2, Len(src)))
    BY <1>16, <1>18
  <2> HIDE DEF src
  <2>4. ASSUME error' = "none", ~skips', NEW j \in DOMAIN written', Kept(j)'
        PROVE  ToBeMoved(j)' \/ HasMoved(j)'
    <3>1. j \in DOMAIN written /\ (ToBeMoved(j) \/ HasMoved(j))
      BY <1>13, <1>18, <2>4
    <3>2. PICK e, a : e = Source(j) /\ a = Adjusted(archive[j])
      OBVIOUS
    <3>3. Source(j)' = e /\ Adjusted(archive'[j]) = a
      BY <1>1, <1>2, <1>3, <3>2 DEF Source
    <3>4. /\ a \in Paths /\ e = <<from>> \o a /\ e \in Paths /\ e[1] = from
          /\ \A m \in 1..Len(a) : a[m].number = 0
      <4>1. a \in Paths /\ \A m \in 1..Len(a) : a[m].number = 0
        BY <1>5, <3>1, <3>2, FreshWritten
      <4>2. e = <<from>> \o a
        BY <1>2, <3>2 DEF Source
      <4> QED BY <1>4, <4>1, <4>2, Under
    <3>5. CASE ToBeMoved(j) /\ IsPrefix(src, e)
      <4>1. e \in DOMAIN disk /\ disk[e] = Node(FALSE, j)
        BY <3>2, <3>5 DEF ToBeMoved, FileAt, Exists
      <4> DEFINE p == Rebased(src, answer, e)
      <4>2. p \in DOMAIN disk' /\ disk'[p] = Node(FALSE, j)
        BY <2>1, <3>5, <4>1
      <4>3. p \in Paths /\ p[1] = answer[1] /\ IsPrefix(answer, p) /\ Below(p, Len(root), a)
        BY <1>4, <2>1, <2>3, <3>4, <3>5, MovedPlace
      <4> HIDE DEF p
      <4>4. IsPrefix(root, p) /\ p[1] # from
        BY <1>4, <2>1, <2>3, <4>3, PrefixChains
      <4>5. e \notin DOMAIN disk'
        BY <2>1, <3>4, <3>5
      <4> QED BY <1>3, <3>3, <4>2, <4>3, <4>4, <4>5 DEF HasMoved, FileAt, Exists
    <3>6. CASE ToBeMoved(j) /\ ~IsPrefix(src, e)
      <4>1. e \in DOMAIN disk /\ disk[e] = Node(FALSE, j) /\ \E other \in ToSet(work) : IsPrefix(other.src, e)
        BY <3>2, <3>6 DEF ToBeMoved, FileAt, Exists
      <4>2. PICK other \in ToSet(work) : IsPrefix(other.src, e)
        BY <4>1
      <4>3. other \in ToSet(Tail(work))
        <5>1. other # job
          BY <3>6, <4>2 DEF src
        <5> QED BY <1>1, <1>2, <1>6, <5>1, ListFacts
      <4>4. e \in DOMAIN disk' /\ disk'[e] = Node(FALSE, j)
        BY <2>1, <3>4, <3>6, <4>1
      <4> QED BY <1>18, <3>3, <4>2, <4>3, <4>4 DEF ToBeMoved, FileAt, Exists
    <3>7. CASE HasMoved(j)
      <4>1. e \notin DOMAIN disk /\ \E p \in DOMAIN disk :
              disk[p] = Node(FALSE, j) /\ p[1] # from /\ IsPrefix(root, p) /\ Below(p, Len(root), a)
        BY <1>2, <3>2, <3>7 DEF HasMoved, FileAt, Exists
      <4>2. PICK p \in DOMAIN disk :
              disk[p] = Node(FALSE, j) /\ p[1] # from /\ IsPrefix(root, p) /\ Below(p, Len(root), a)
        BY <4>1
      <4>3. p # answer
        <5> SUFFICES ASSUME p = answer PROVE FALSE
          OBVIOUS
        <5>1. src \in DOMAIN disk /\ Plain(src)
          BY <1>1, <1>2, <1>18, <2>1 DEF src, Exists, PlainInv
        <5>2. Below(answer, Len(root), a)
          BY <4>2
        <5>3. src = <<from>> \o a
          <6>1. PICK f : f = <<from>>
            OBVIOUS
          <6>2. f \in Paths /\ Len(f) = 1 /\ src[1] = f[1] /\ answer \in Paths /\ Len(root) \in Nat
            BY <1>4, <2>1, <6>1
          <6>3. src \in Paths \ {<<>>} /\ Below(answer, Len(root), SubSeq(src, 2, Len(src)))
            BY <2>1, <2>3
          <6>4. a \in Paths /\ \A m \in 1..Len(a) : a[m].number = 0
            BY <3>4
          <6> HIDE DEF src
          <6>5. src = f \o a
            BY <5>1, <5>2, <6>2, <6>3, <6>4, SameSource
          <6> QED BY <6>1, <6>5
        <5> QED BY <3>4, <4>1, <5>1, <5>3
      <4>4. p \in DOMAIN disk' /\ disk'[p] = Node(FALSE, j)
        BY <2>1, <4>2, <4>3
      <4>5. e \notin DOMAIN disk'
        BY <2>1, <3>4, <4>1
      <4> QED BY <1>3, <3>3, <4>2, <4>4, <4>5 DEF HasMoved, FileAt, Exists
    <3> QED BY <3>1, <3>5, <3>6, <3>7
  <2> QED BY <2>2, <2>4 DEF TransitInv
<1> QED BY <1>11, <1>14, <1>15, <1>17, <1>18

\* Every step keeps track of what is moved.
LEMMA TransitStep ==
  ASSUME TypeInv, TreeInv, DiskInv, LostInv, [Next]_vars
  PROVE  TransitInv'
<1>1. CASE pc' # "move"
  BY <1>1 DEF TransitInv
<1>2. CASE PlaceSolo /\ pc' = "move"
  BY <1>2, SoloTransit DEF LostInv
<1>3. CASE Replace /\ pc' = "move"
  BY <1>3, ReplaceTransit DEF LostInv
<1>4. CASE MoveItem
  BY <1>4, MoveTransit DEF LostInv
<1>5. CASE MoveFails
  <2>1. work' = <<>> /\ error' = "fileexists" /\ ToSet(<<>>) = {}
    BY <1>5, ListFacts DEF MoveFails
  <2> QED BY <2>1 DEF TransitInv
<1>6. CASE UNCHANGED vars
  <2>1. /\ pc' = pc /\ work' = work /\ disk' = disk /\ archive' = archive /\ written' = written
        /\ error' = error /\ skips' = skips /\ lookslikesolo' = lookslikesolo
        /\ finaldestination' = finaldestination /\ unpackdestination' = unpackdestination
    BY <1>6 DEF vars, configVars, soloVars, placeVars, collisionVars
  <2>2. Root' = Root /\ FromDir' = FromDir
    BY <2>1 DEF Root, FromDir
  <2>3. \A job : Aimed(job)' <=> Aimed(job)
    BY <2>2 DEF Aimed
  <2>4. \A j : Kept(j)' <=> Kept(j)
    BY <2>1 DEF Kept, Superseded
  <2>5. \A j : ToBeMoved(j)' <=> ToBeMoved(j)
    BY <2>1, <2>2 DEF ToBeMoved, FileAt, Exists, Source
  <2>6. \A j : HasMoved(j)' <=> HasMoved(j)
    BY <2>1, <2>2 DEF HasMoved, FileAt, Exists, Source
  <2>7. Doomed' <=> Doomed
    BY <2>1 DEF Doomed, Exists
  <2> QED BY <1>1, <2>1, <2>3, <2>4, <2>5, <2>6, <2>7 DEF LostInv, TransitInv
<1>7. pc' # "move" \/ (PlaceSolo /\ pc' = "move") \/ (Replace /\ pc' = "move") \/ MoveItem \/ MoveFails
      \/ UNCHANGED vars
  BY DEF Next, Extract, BeginRegular, BeginSub, UnpackChecked, UnpackBeside, UnpackInto, NextEntry, RuleOut,
     WalkKnown, WalkNew, WalkEnds, ExtractEntry, ExtractFails, ExtractStopped, SubFails, EntriesDone, PassOver,
     RenameEnclosing, SoloUnknown, MovesDone, Known, Return, Finalize
<1> QED BY <1>1, <1>2, <1>3, <1>4, <1>5, <1>6, <1>7

\* All of it together.
LEMMA LostStep ==
  ASSUME TypeInv, TreeInv, DiskInv, OldInv, FreshInv, LostInv, [Next]_vars
  PROVE  LostInv'
<1>1. NewInv' /\ CollectInv' /\ PlainInv' /\ PlaceInv'
  BY NewStep, CollectStep, PlainStep, PlaceStep DEF LostInv
<1> QED BY <1>1, TransitStep DEF LostInv

\* What is true of the files when the run returns.
LEMMA ReturnStep ==
  ASSUME TypeInv, TreeInv, DiskInv, LostInv, NothingLost, [Next]_vars
  PROVE  NothingLost'
<1>1. archive' = archive
  BY ConfigStep DEF configVars
<1>2. \A j : Superseded(j)' <=> Superseded(j)
  BY <1>1 DEF Superseded
<1>3. CASE UNCHANGED vars
  <2>1. /\ pc' = pc /\ disk' = disk /\ written' = written /\ result' = result /\ skips' = skips
        /\ finaldestination' = finaldestination
    BY <1>3 DEF vars, placeVars, collisionVars
  <2> QED BY <1>1, <1>2, <2>1 DEF NothingLost
<1>4. CASE ~(pc' = "returned" /\ result' = "none" /\ ~skips')
  BY <1>4 DEF NothingLost
<1>5. CASE DOMAIN written' = {}
  BY <1>5 DEF NothingLost
<1>6. ASSUME written' = written,
             \A j \in DOMAIN written : Kept(j) =>
               \E p \in DOMAIN disk' : disk'[p] = Node(FALSE, j) /\ IsPrefix(finaldestination', p)
      PROVE  NothingLost'
  <2>1. ASSUME NEW j \in DOMAIN written', ~archive'[j].dir, ~Superseded(j)'
        PROVE  \E p \in DOMAIN disk' : disk'[p].by = j /\ IsPrefix(finaldestination', p)
    <3>1. Kept(j)
      BY <1>1, <1>2, <1>6, <2>1 DEF Kept
    <3>2. PICK p \in DOMAIN disk' : disk'[p] = Node(FALSE, j) /\ IsPrefix(finaldestination', p)
      BY <1>6, <3>1 DEF Kept
    <3>3. disk'[p].by = j
      BY <3>2 DEF Node
    <3> QED BY <3>2, <3>3
  <2> QED BY <2>1 DEF NothingLost
<1>7. CASE /\ pc \in {"next", "replace"} /\ disk' = disk /\ written' = written
           /\ finaldestination' = unpackdestination
  <2>1. ASSUME NEW j \in DOMAIN written, Kept(j)
        PROVE  written[j] \in DOMAIN disk /\ disk[written[j]] = Node(FALSE, j)
               /\ IsPrefix(unpackdestination, written[j])
    <3>1. FileAt(written[j], j)
      BY <1>7, <2>1 DEF LostInv, CollectInv
    <3>2. Placed(Adjusted(archive[j]), written[j])
      BY <2>1 DEF TreeInv, WrittenInv, RenamesInv
    <3> QED BY <3>1, <3>2 DEF FileAt, Exists, Placed
  <2> QED BY <1>6, <1>7, <2>1
<1>8. CASE BeginRegular \/ BeginSub
  <2>1. written' = written /\ pc = "begin"
    BY <1>8 DEF BeginRegular, BeginSub
  <2>2. DOMAIN written = {}
    BY <2>1 DEF TreeInv
  <2> QED BY <1>5, <2>1, <2>2
<1>9. CASE EntriesDone
  <2>1. \/ ~(pc' = "returned" /\ result' = "none")
        \/ numextracted = 0 \/ finaldestination' = unpackdestination
    BY <1>9 DEF EntriesDone, Return, Finalize, SettleHere
  <2>2. pc = "next" /\ disk' = disk /\ written' = written
    BY <1>9 DEF EntriesDone
  <2>3. numextracted = 0 => DOMAIN written' = {}
    BY <2>2 DEF LostInv, CollectInv
  <2> QED BY <1>4, <1>5, <1>7, <2>1, <2>2, <2>3
<1>10. CASE Replace
  <2>1. \/ pc' = "move" \/ skips'
        \/ disk' = disk /\ finaldestination' = unpackdestination
    <3>1. \E answer \in CheckPath(originaldest)
                        \cup (IF policy = "ask" THEN {unpackdestination} ELSE {}) :
            /\ skips' = (skips \/ answer = Skipped)
            /\ answer # Skipped =>
                 /\ finaldestination' = answer /\ disk' = disk
                 /\ answer # unpackdestination => pc' = "move"
      BY <1>10 DEF Replace, Answer
    <3>2. PICK answer \in CheckPath(originaldest)
                          \cup (IF policy = "ask" THEN {unpackdestination} ELSE {}) :
            /\ skips' = (skips \/ answer = Skipped)
            /\ answer # Skipped =>
                 /\ finaldestination' = answer /\ disk' = disk
                 /\ answer # unpackdestination => pc' = "move"
      BY <3>1, Zenon
    <3> QED BY <3>2, Zenon
  <2>2. pc = "replace" /\ written' = written
    BY <1>10 DEF Replace
  <2> QED BY <1>4, <1>7, <2>1, <2>2
<1>11. CASE MovesDone
  <2>1. /\ pc = "move" /\ work = <<>> /\ written' = written /\ skips' = skips
        /\ disk' = (IF lookslikesolo THEN Removed(<<Temporary>>) ELSE disk)
        /\ finaldestination' = Root
        /\ error = "none" \/ result' = error
    BY <1>11 DEF MovesDone, Return, Finalize, Root, collisionVars
  <2>2. CASE error = "none" /\ ~skips
    <3>1. ~Doomed /\ ToSet(work) = {}
      BY <2>1, ListFacts DEF Doomed
    <3>2. \A j \in DOMAIN written : Kept(j) => HasMoved(j)
      BY <2>1, <2>2, <3>1 DEF LostInv, TransitInv, ToBeMoved
    <3>3. ASSUME NEW j \in DOMAIN written, Kept(j)
          PROVE  \E p \in DOMAIN disk' : disk'[p] = Node(FALSE, j) /\ IsPrefix(finaldestination', p)
      <4>1. \E p \in DOMAIN disk : disk[p] = Node(FALSE, j) /\ p[1] # FromDir /\ IsPrefix(Root, p)
        BY <3>2, <3>3 DEF HasMoved, FileAt
      <4>2. PICK p \in DOMAIN disk : disk[p] = Node(FALSE, j) /\ p[1] # FromDir /\ IsPrefix(Root, p)
        BY <4>1
      <4>3. p \in DOMAIN disk' /\ disk'[p] = disk[p]
        <5>1. CASE lookslikesolo
          <6>1. p[1] # Temporary /\ p \in Paths
            BY <4>2, <5>1 DEF FromDir, TypeInv, DiskType
          <6>2. ~IsPrefix(<<Temporary>>, p)
            BY <6>1, MadeUpPaths, FirstName
          <6> QED BY <2>1, <5>1, <6>2, MadeUpPaths, RemoveFacts DEF TypeInv, DiskInv
        <5>2. CASE ~lookslikesolo
          BY <2>1, <5>2
        <5> QED BY <5>1, <5>2
      <4> QED BY <2>1, <4>2, <4>3
    <3> QED BY <1>6, <2>1, <3>3
  <2>3. CASE error # "none" \/ skips
    <3>1. result' # "none" \/ skips'
      BY <2>1, <2>3
    <3> QED BY <1>4, <3>1
  <2> QED BY <2>2, <2>3
<1>12. CASE PlaceSolo
  <2>1. pc' # "returned" \/ skips'
    BY <1>12 DEF PlaceSolo, Return, Answer
  <2> QED BY <1>4, <2>1
<1>13. CASE Extract \/ RenameEnclosing \/ SoloUnknown \/ MoveItem \/ MoveFails
  <2>1. pc' # "returned" \/ result' # "none"
    <3>1. CASE Extract
      BY <3>1 DEF Extract, NextEntry, RuleOut, WalkKnown, WalkNew, WalkEnds, ExtractEntry, ExtractFails,
         ExtractStopped, SubFails, PassOver, Known, Return
    <3>2. CASE RenameEnclosing \/ SoloUnknown \/ MoveItem \/ MoveFails
      BY <3>2 DEF RenameEnclosing, SoloUnknown, MoveItem, MoveFails, Moving, Return
    <3> QED BY <1>13, <3>1, <3>2
  <2> QED BY <1>4, <2>1
<1> QED BY <1>3, <1>8, <1>9, <1>10, <1>11, <1>12, <1>13 DEF Next

\* NothingLost: when the caller is told that all went well, and nothing has
\* been skipped, every file extracted is below the destination reported,
\* however often it has been moved.
THEOREM FilesArrive == Spec => []NothingLost
<1>1. Init => LostInv /\ NothingLost
  <2> SUFFICES ASSUME Init PROVE LostInv /\ NothingLost
    OBVIOUS
  <2>1. pc = "begin" /\ written = <<>> /\ renames = <<>>
    BY DEF Init
  <2>2. DOMAIN <<>> = {}
    OBVIOUS
  <2>3. DOMAIN written = {} /\ DOMAIN renames = {}
    BY <2>1, <2>2
  <2> QED BY <2>1, <2>3 DEF LostInv, NewInv, Fresh, CollectInv, PlainInv, PlaceInv, TransitInv, NothingLost
<1>2. /\ TypeInv /\ TreeInv /\ DiskInv /\ OldInv /\ FreshInv /\ LostInv /\ NothingLost
      /\ [Next]_vars
      => LostInv' /\ NothingLost'
  BY LostStep, ReturnStep
<1> QED BY <1>1, <1>2, OldFiles, PTL DEF Spec
==============================================================================
