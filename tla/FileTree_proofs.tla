--------------------------- MODULE FileTree_proofs ---------------------------
(***************************************************************************)
(* Theorems about FileTree: sort.Slice orders the entries of a directory   *)
(* only if what it is given is a strict order, whatever the entries are.   *)
(*                                                                         *)
(* The last section is for recursive definitions, here and in the modules  *)
(* that extend this one.  The induction theorems of the library take a     *)
(* predicate as a parameter; here it is a set of numbers, and a recursion  *)
(* step is a function.                                                     *)
(***************************************************************************)
EXTENDS FileTree, FiniteSetTheorems, SequenceTheorems, WellFoundedInduction, TLAPS

\* The names of the entries are ordered.
LEMMA NamesOrdered ==
  ASSUME NEW m \in Node, NEW n \in Node
  PROVE  Rank[m] \in Int /\ Rank[n] \in Int /\ (Rank[m] = Rank[n] => m = n)
BY TreeAssumption DEF TreeAssumption, IsInjective

\* No entry comes before itself, however its type is known.
LEMMA BeforeIrreflexive ==
  ASSUME NEW n \in Node
  PROVE  ~Before(n, n)
BY NamesOrdered DEF Before, ByName, ByFiles, ByDirs

LEMMA BeforeTransitive ==
  ASSUME NEW k \in Node, NEW m \in Node, NEW n \in Node, Before(k, m), Before(m, n)
  PROVE  Before(k, n)
<1>3a. Rank[k] \in Int /\ Rank[m] \in Int /\ Rank[n] \in Int
  BY NamesOrdered
<1>1. CASE SortMode = "SortFilesFirst"
  BY <1>3a, <1>1 DEF Before, ByName, ByFiles, IsRegular, HasDirBit
<1>2. CASE SortMode = "SortDirsFirst"
  BY <1>3a, <1>2 DEF Before, ByName, ByDirs, IsRegular, HasDirBit
<1>3. CASE SortMode \notin {"SortFilesFirst", "SortDirsFirst"}
  BY <1>3a, <1>3 DEF Before, ByName
<1> QED
  BY <1>1, <1>2, <1>3

LEMMA BeforeTotal ==
  ASSUME NEW m \in Node, NEW n \in Node, m # n
  PROVE  Before(m, n) \/ Before(n, m)
<1>3a. Rank[m] \in Int /\ Rank[n] \in Int /\ Rank[m] # Rank[n]
  BY NamesOrdered
<1>1. CASE SortMode = "SortFilesFirst"
  BY <1>3a, <1>1 DEF Before, ByName, ByFiles, IsRegular, HasDirBit
<1>2. CASE SortMode = "SortDirsFirst"
  BY <1>3a, <1>2 DEF Before, ByName, ByDirs, IsRegular, HasDirBit
<1>3. CASE SortMode \notin {"SortFilesFirst", "SortDirsFirst"}
  BY <1>3a, <1>3 DEF Before, ByName
<1> QED
  BY <1>1, <1>2, <1>3

\* In every build and for every SortMode the comparator given to sort.Slice
\* (dirent_unix.go:94-144, dirent_portable.go:82-132) is a strict total order of the
\* entries of a directory, whatever their types and names: the order in which they are
\* visited is determined by it.
THEOREM BeforeStrict ==
  /\ \A n \in Node : ~Before(n, n)
  /\ \A k, m, n \in Node : Before(k, m) /\ Before(m, n) => Before(k, n)
  /\ \A m, n \in Node : m # n => Before(m, n) \/ Before(n, m)
BY BeforeIrreflexive, BeforeTransitive, BeforeTotal

-----------------------------------------------------------------------------
(* The entries of a directory, in the order they are visited.              *)

\* The position of an entry is its own.
LEMMA PositionFound ==
  ASSUME NEW d \in Node, Kind[d] = "dir", NEW n \in Range(Kids[d])
  PROVE  Position(d, n) \in Nat /\ Kids[d][Position(d, n)] = n
<1>1. Kids[d] \in Seq(Node)
  BY TreeAssumption DEF TreeAssumption
<1>2. DOMAIN Kids[d] \subseteq Nat
  BY <1>1, LenProperties
<1>3. \E i \in DOMAIN Kids[d] : Kids[d][i] = n
  BY DEF Range
<1>4. QED
  BY <1>2, <1>3 DEF Position

\* In directory order and in every sorted order, of two entries one is visited first.
LEMMA PrecedesStrict ==
  ASSUME NEW d \in Node, Kind[d] = "dir"
  PROVE  /\ Range(Kids[d]) \subseteq Node
         /\ \A n \in Range(Kids[d]) : ~Precedes(d, n, n)
         /\ \A k, m, n \in Range(Kids[d]) :
              Precedes(d, k, m) /\ Precedes(d, m, n) => Precedes(d, k, n)
         /\ \A m, n \in Range(Kids[d]) : m # n => Precedes(d, m, n) \/ Precedes(d, n, m)
<1>1. Kids[d] \in Seq(Node)
  BY TreeAssumption DEF TreeAssumption
<1>2. Range(Kids[d]) \subseteq Node
  BY <1>1, LenProperties, ElementOfSeq DEF Range
<1>3. \A n \in Range(Kids[d]) : Position(d, n) \in Nat /\ Kids[d][Position(d, n)] = n
  BY PositionFound
<1>4. CASE SortMode = "SortNone"
  <2>1. \A m, n \in Range(Kids[d]) : Position(d, m) = Position(d, n) => m = n
    BY <1>3
  <2>2. \A m, n : Precedes(d, m, n) <=> Position(d, m) < Position(d, n)
    BY <1>4 DEF Precedes
  <2>3. QED  BY <1>2, <1>3, <2>1, <2>2
<1>5. CASE SortMode # "SortNone"
  <2>1. \A m, n : Precedes(d, m, n) <=> Before(m, n)
    BY <1>5 DEF Precedes
  <2>2. QED  BY <1>2, <2>1, BeforeStrict
<1>6. QED
  BY <1>4, <1>5

\* SortDirents loses no entry, repeats none, and puts each behind those before it.
LEMMA SortDirentsSorts ==
  ASSUME NEW d \in Node, Kind[d] = "dir", NEW S \in SUBSET Range(Kids[d])
  PROVE  /\ SortDirents(d, S) \in Seq(S)
         /\ Range(SortDirents(d, S)) = S
         /\ IsInjective(SortDirents(d, S))
         /\ \A i, j \in DOMAIN SortDirents(d, S) :
              i < j => Precedes(d, SortDirents(d, S)[i], SortDirents(d, S)[j])
<1> DEFINE N == Cardinality(S)
           Ahead(n) == {m \in S : Precedes(d, m, n)}
           rank == [n \in S |-> Cardinality(Ahead(n))]
           s == SortDirents(d, S)
<1>1. IsFiniteSet(S) /\ N \in Nat
  <2>1. Kids[d] \in Seq(Node)
    BY TreeAssumption DEF TreeAssumption
  <2>2. DOMAIN Kids[d] = 1 .. Len(Kids[d]) /\ Len(Kids[d]) \in Nat
    BY <2>1, LenProperties
  <2>3. IsFiniteSet(DOMAIN Kids[d])
    BY <2>2, FS_Interval
  <2>4. Kids[d] \in Surjection(DOMAIN Kids[d], Range(Kids[d]))
    <3>1. Kids[d] = [i \in DOMAIN Kids[d] |-> Kids[d][i]]
      BY <2>1
    <3>2. Kids[d] \in [DOMAIN Kids[d] -> Range(Kids[d])]
      BY <3>1 DEF Range
    <3>3. QED  BY <3>2 DEF Surjection, Range
  <2>5. IsFiniteSet(Range(Kids[d]))
    BY <2>3, <2>4, FS_Surjection
  <2>6. QED  BY <2>5, FS_Subset, FS_CardinalityType
<1>2. /\ \A n \in S : ~Precedes(d, n, n)
      /\ \A k, m, n \in S : Precedes(d, k, m) /\ Precedes(d, m, n) => Precedes(d, k, n)
      /\ \A m, n \in S : m # n => Precedes(d, m, n) \/ Precedes(d, n, m)
  BY PrecedesStrict
<1>3. \A n \in S : IsFiniteSet(Ahead(n)) /\ rank[n] \in 0 .. N - 1
  <2>1. TAKE n \in S
  <2>2. Ahead(n) \in SUBSET (S \ {n})
    BY <1>2
  <2>3. IsFiniteSet(S \ {n}) /\ Cardinality(S \ {n}) = N - 1
    BY <1>1, FS_RemoveElement
  <2>4. /\ IsFiniteSet(Ahead(n)) /\ Cardinality(Ahead(n)) <= N - 1
        /\ Cardinality(Ahead(n)) \in Nat
    BY <2>2, <2>3, FS_Subset, FS_CardinalityType
  <2>5. QED  BY <1>1, <2>4
<1>3a. rank \in [S -> 0 .. N - 1] /\ \A n \in S : rank[n] = Cardinality(Ahead(n))
  BY <1>3
<1> HIDE DEF rank
<1>4. \A m, n \in S : Precedes(d, m, n) => rank[m] < rank[n]
  <2>1. SUFFICES ASSUME NEW m \in S, NEW n \in S, Precedes(d, m, n) PROVE rank[m] < rank[n]
    OBVIOUS
  <2>2. m \notin Ahead(m) /\ Ahead(m) \cup {m} \in SUBSET Ahead(n)
    BY <1>2, <2>1
  <2>3. Cardinality(Ahead(m) \cup {m}) = Cardinality(Ahead(m)) + 1
    BY <1>3, <2>2, FS_AddElement
  <2>4. Cardinality(Ahead(m) \cup {m}) <= Cardinality(Ahead(n))
    BY <1>3, <2>2, FS_Subset
  <2>5. /\ rank[m] = Cardinality(Ahead(m)) /\ rank[m] \in Int
        /\ rank[n] = Cardinality(Ahead(n)) /\ rank[n] \in Int
    BY <1>3a, <1>1
  <2>6. QED  BY <2>3, <2>4, <2>5
<1>5. \A m, n \in S : rank[m] = rank[n] => m = n
  <2>1. \A n \in S : rank[n] \in Int
    BY <1>3a, <1>1
  <2>2. QED  BY <1>2, <1>4, <2>1
<1>6. \A k \in 1 .. N : \E n \in S : rank[n] = k - 1
  <2>1. rank \in Injection(S, 0 .. N - 1)
    BY <1>3a, <1>5 DEF Injection, IsInjective
  <2>2. IsFiniteSet(0 .. N - 1) /\ Cardinality(0 .. N - 1) = N
    BY <1>1, FS_Interval
  <2>3. rank \in Surjection(S, 0 .. N - 1)
    BY <2>1, <2>2, FS_Injection
  <2>4. \A t \in 0 .. N - 1 : \E n \in S : rank[n] = t
    BY <2>3 DEF Surjection
  <2> HIDE DEF N
  <2>5. \A k \in 1 .. N : k - 1 \in 0 .. N - 1
    BY <1>1
  <2>6. QED  BY <2>4, <2>5
<1>7. s = [k \in 1 .. N |-> CHOOSE n \in S : Cardinality(Ahead(n)) = k - 1]
  BY DEF SortDirents
<1> HIDE DEF N, s, Ahead
<1>8. DOMAIN s = 1 .. N /\ \A k \in 1 .. N : s[k] \in S /\ rank[s[k]] = k - 1
  <2>1. \A k \in 1 .. N : \E n \in S : Cardinality(Ahead(n)) = k - 1
    BY <1>3a, <1>6
  <2>2. \A k \in 1 .. N : s[k] \in S /\ Cardinality(Ahead(s[k])) = k - 1
    BY <1>7, <2>1
  <2>3. QED  BY <1>3a, <1>7, <2>2
<1>9. s \in Seq(S)
  BY <1>1, <1>7, <1>8
<1>10. Range(s) = S
  <2>1. \A n \in S : rank[n] \in Int /\ rank[n] + 1 \in 1 .. N /\ (rank[n] + 1) - 1 = rank[n]
    BY <1>3a, <1>1
  <2>2. \A n \in S : s[rank[n] + 1] = n
    <3>1. TAKE n \in S
    <3>2. rank[s[rank[n] + 1]] = rank[n] /\ s[rank[n] + 1] \in S
      BY <1>8, <2>1
    <3>3. QED  BY <1>5, <3>2
  <2>3. QED  BY <1>8, <2>1, <2>2 DEF Range
<1>11. IsInjective(s)
  BY <1>1, <1>8 DEF IsInjective
<1>12. \A i, j \in DOMAIN s : i < j => Precedes(d, s[i], s[j])
  <2>1. SUFFICES ASSUME NEW i \in 1 .. N, NEW j \in 1 .. N, i < j, ~Precedes(d, s[i], s[j])
                 PROVE  FALSE
    BY <1>8
  <2>2. s[i] \in S /\ s[j] \in S /\ rank[s[i]] = i - 1 /\ rank[s[j]] = j - 1
    BY <1>8
  <2>3. s[i] # s[j]
    BY <1>1, <2>1, <2>2
  <2>4. rank[s[j]] < rank[s[i]]
    BY <1>2, <1>4, <2>1, <2>2, <2>3
  <2>5. QED  BY <1>1, <2>1, <2>2, <2>4
<1>13. QED
  BY <1>9, <1>10, <1>11, <1>12 DEF s

\* What readDir delivers is a list of entries of the directory, in the order of
\* SortMode and none of them twice; and if it reports no error, only entries that
\* were deleted meanwhile are missing.
LEMMA ReadingsListEntries ==
  ASSUME NEW d \in Node \cup {NoNode}, NEW nil, nil \notin {"notdir", "permission", "io"},
         NEW r \in Readings(d, nil)
  PROVE  /\ r.entries \in Seq(Node)
         /\ IsInjective(r.entries)
         /\ r.err \in {nil, "notdir", "permission", "io"}
         /\ r.entries = <<>> \/ (d \in Node /\ Kind[d] = "dir")
         /\ \A i \in DOMAIN r.entries : r.entries[i] \in Range(Kids[d])
         /\ \A i, j \in DOMAIN r.entries : i < j => Precedes(d, r.entries[i], r.entries[j])
         /\ r.err = nil =>
              /\ d \in Node /\ Kind[d] = "dir"
              /\ Range(Kids[d]) \ Vanished \subseteq Range(r.entries)
<1>1. <<>> \in Seq(Node) /\ IsInjective(<<>>) /\ DOMAIN <<>> = {}
  BY EmptySeq DEF IsInjective
<1>2. CASE ~IsDirNode(d) \/ d \in Denied
  <2>1. r.entries = <<>> /\ r.err \in {"notdir", "permission"}
    BY <1>2 DEF Readings
  <2>2. QED  BY <1>1, <2>1
<1>3. CASE IsDirNode(d) /\ d \notin Denied
  <2>1. d \in Node /\ Kind[d] = "dir" /\ Kids[d] \in Seq(Node)
    BY <1>3, TreeAssumption DEF IsDirNode, TreeAssumption
  <2>2. DOMAIN Kids[d] = 1 .. Len(Kids[d]) /\ Len(Kids[d]) \in Nat
    BY <2>1, LenProperties
  <2>3. Range(Kids[d]) \subseteq Node
    BY <2>1, PrecedesStrict
  <2>4. \A k \in 0 .. Len(Kids[d]) : \A gone : Entries(d, k, gone) \in SUBSET Range(Kids[d])
    BY <2>2 DEF Entries, Range
  <2>5. ASSUME NEW k \in 0 .. Len(Kids[d]), NEW gone
        PROVE  LET s == SortDirents(d, Entries(d, k, gone))
               IN  /\ s \in Seq(Node) /\ IsInjective(s)
                   /\ Range(s) = Entries(d, k, gone)
                   /\ \A i \in DOMAIN s : s[i] \in Range(Kids[d])
                   /\ \A i, j \in DOMAIN s : i < j => Precedes(d, s[i], s[j])
    <3> DEFINE S == Entries(d, k, gone)
               s == SortDirents(d, S)
    <3>1. S \in SUBSET Range(Kids[d])
      BY <2>4
    <3> HIDE DEF S
    <3>2. /\ s \in Seq(S) /\ Range(s) = S /\ IsInjective(s)
          /\ \A i, j \in DOMAIN s : i < j => Precedes(d, s[i], s[j])
      BY <2>1, <3>1, SortDirentsSorts
    <3> HIDE DEF s
    <3>3. s \in Seq(Node) /\ \A i \in DOMAIN s : s[i] \in Range(Kids[d])
      <4>1. DOMAIN s = 1 .. Len(s) /\ Len(s) \in Nat /\ \A i \in 1 .. Len(s) : s[i] \in S
        BY <3>2, LenProperties, ElementOfSeq
      <4>2. S \subseteq Node
        BY <2>3, <3>1
      <4>3. s \in Seq(Node)
        BY <3>2, <4>1, <4>2, SeqDef
      <4>4. QED  BY <3>1, <4>1, <4>3
    <3>4. QED  BY <3>2, <3>3 DEF s, S
  <2>6. CASE \E gone \in SUBSET Vanished :
               r = [entries |-> SortDirents(d, Entries(d, Len(Kids[d]), gone)), err |-> nil]
    <3>1. PICK gone \in SUBSET Vanished :
               r = [entries |-> SortDirents(d, Entries(d, Len(Kids[d]), gone)), err |-> nil]
      BY <2>6
    <3>2. Range(Kids[d]) \ Vanished \subseteq Entries(d, Len(Kids[d]), gone)
      BY <2>2, <3>1 DEF Entries, Range
    <3>3. Len(Kids[d]) \in 0 .. Len(Kids[d])
      BY <2>2
    <3>4. r.entries = SortDirents(d, Entries(d, Len(Kids[d]), gone)) /\ r.err = nil
      BY <3>1
    <3>5. QED  BY <2>1, <2>5, <3>2, <3>3, <3>4
  <2>7. CASE \E k \in 0 .. Len(Kids[d]), gone \in SUBSET Vanished :
               r = [entries |-> BeforeError(d, k, gone), err |-> "io"]
    <3>1. PICK k \in 0 .. Len(Kids[d]), gone \in SUBSET Vanished :
               r = [entries |-> BeforeError(d, k, gone), err |-> "io"]
      BY <2>7
    <3>2. /\ r.entries \in {<<>>, SortDirents(d, Entries(d, k, gone))}
          /\ r.err = "io" /\ r.err # nil
      BY <3>1 DEF BeforeError
    <3>3. QED  BY <1>1, <2>1, <2>5, <3>2
  <2>8. QED  BY <1>3, <2>6, <2>7 DEF Readings
<1>4. QED
  BY <1>2, <1>3

-----------------------------------------------------------------------------
(* Induction and recursion over the natural numbers.                       *)

\* From the library's fact that strict inclusion is well founded on finite sets.
LEMMA LeastNumber ==
  ASSUME NEW A \in SUBSET Nat, A # {}
  PROVE  \E m \in A : \A k \in A : m <= k
<1> DEFINE T == {0 .. n : n \in A}
           R == StrictSubsetOrdering(Nat)
<1>1. IsWellFoundedOn(R, FiniteSubsetsOf(Nat))
  BY FS_StrictSubsetOrderingWellFounded
<1>2. T \subseteq FiniteSubsetsOf(Nat) /\ T # {}
  <2>1. \A n \in A : 0 .. n \in SUBSET Nat /\ IsFiniteSet(0 .. n)
    BY FS_Interval
  <2>2. QED  BY <2>1 DEF FiniteSubsetsOf
<1>3. PICK x \in T : \A y \in T : ~ (<<y, x>> \in R)
  <2> HIDE DEF T, R
  <2>1. QED  BY <1>1, <1>2, WFMin
<1>4. PICK m \in A : x = 0 .. m
  OBVIOUS
<1>5. \A k \in A : m <= k
  <2>1. SUFFICES ASSUME NEW k \in A, k < m PROVE FALSE
    OBVIOUS
  <2>2. 0 .. k \subseteq 0 .. m /\ 0 .. k # 0 .. m
    <3>1. m \in 0 .. m /\ m \notin 0 .. k
      BY <2>1
    <3>2. QED  BY <2>1, <3>1
  <2>3. <<0 .. k, 0 .. m>> \in R
    BY <2>2 DEF StrictSubsetOrdering
  <2>4. QED  BY <1>3, <1>4, <2>3
<1>6. QED
  BY <1>5

LEMMA SetInduction ==
  ASSUME NEW A, 0 \in A, \A n \in Nat : n \in A => n + 1 \in A
  PROVE  Nat \subseteq A
<1> DEFINE B == Nat \ A
<1>1. SUFFICES ASSUME B # {} PROVE FALSE
  OBVIOUS
<1>2. PICK m \in B : \A k \in B : m <= k
  <2> HIDE DEF B
  <2>1. B \in SUBSET Nat
    BY DEF B
  <2>2. QED  BY <1>1, <2>1, LeastNumber
<1>3. m # 0 /\ m - 1 \in Nat /\ m - 1 \notin B
  BY <1>2
<1>4. QED
  BY <1>2, <1>3

\* The values a recursive function takes up to n.
Begun(n, T, base, g) ==
  {f \in [0 .. n -> T] : f[0] = base /\ \A i \in 1 .. n : f[i] = g[<<i, f[i - 1]>>]}

LEMMA BegunExists ==
  ASSUME NEW T, NEW base \in T, NEW g \in [(Nat \X T) -> T]
  PROVE  \A n \in Nat : Begun(n, T, base, g) # {}
<1> DEFINE A == {n \in Nat : Begun(n, T, base, g) # {}}
<1>1. 0 \in A
  <2>1. [i \in 0 .. 0 |-> base] \in Begun(0, T, base, g)
    BY DEF Begun
  <2>2. QED  BY <2>1
<1>2. ASSUME NEW n \in Nat, n \in A PROVE n + 1 \in A
  <2>1. PICK f \in [0 .. n -> T] :
          f[0] = base /\ \A i \in 1 .. n : f[i] = g[<<i, f[i - 1]>>]
    BY <1>2 DEF Begun
  <2> DEFINE h == [i \in 0 .. n + 1 |-> IF i = n + 1 THEN g[<<n + 1, f[n]>>] ELSE f[i]]
  <2>2. h \in [0 .. n + 1 -> T]
    <3>1. f[n] \in T /\ <<n + 1, f[n]>> \in Nat \X T
      BY <2>1
    <3>2. g[<<n + 1, f[n]>>] \in T
      BY <3>1
    <3>3. \A i \in 0 .. n + 1 : i # n + 1 => f[i] \in T
      BY <2>1
    <3>4. QED  BY <3>2, <3>3
  <2>3. h[0] = base
    BY <2>1
  <2>4. ASSUME NEW i \in 1 .. n + 1 PROVE h[i] = g[<<i, h[i - 1]>>]
    <3>1. h[i - 1] = f[i - 1]
      OBVIOUS
    <3>2. CASE i = n + 1
      <4>1. h[n + 1] = g[<<n + 1, f[n]>>] /\ i - 1 = n
        BY <3>2
      <4>2. QED  BY <3>1, <3>2, <4>1
    <3>3. CASE i # n + 1
      <4>1. i \in 1 .. n /\ h[i] = f[i]
        BY <3>3
      <4>2. QED  BY <2>1, <3>1, <4>1
    <3>4. QED  BY <3>2, <3>3
  <2> HIDE DEF h
  <2>5. h \in Begun(n + 1, T, base, g)
    BY <2>2, <2>3, <2>4 DEF Begun
  <2>6. QED  BY <2>5
<1> HIDE DEF A
<1>3. Nat \subseteq A
  BY <1>1, <1>2, SetInduction
<1>4. QED
  BY <1>3 DEF A

LEMMA BegunAgree ==
  ASSUME NEW T, NEW base \in T, NEW g \in [(Nat \X T) -> T],
         NEW m \in Nat, NEW n \in Nat, m <= n,
         NEW f \in Begun(m, T, base, g), NEW h \in Begun(n, T, base, g)
  PROVE  \A i \in 0 .. m : f[i] = h[i]
<1> DEFINE A == {i \in Nat : i <= m => f[i] = h[i]}
<1>1. 0 \in A
  BY DEF Begun
<1>2. ASSUME NEW i \in Nat, i \in A PROVE i + 1 \in A
  <2>1. SUFFICES ASSUME i + 1 <= m PROVE f[i + 1] = h[i + 1]
    OBVIOUS
  <2>2. f[i] = h[i] /\ i + 1 \in 1 .. m /\ i + 1 \in 1 .. n /\ (i + 1) - 1 = i
    BY <1>2, <2>1
  <2>3. f[i + 1] = g[<<i + 1, f[i]>>] /\ h[i + 1] = g[<<i + 1, h[i]>>]
    BY <2>2 DEF Begun
  <2>4. QED  BY <2>2, <2>3
<1> HIDE DEF A
<1>3. Nat \subseteq A
  BY <1>1, <1>2, SetInduction
<1>4. QED
  BY <1>3 DEF A

\* The functions that step g defines from base.
Iterates(T, base, g) ==
  {f \in [Nat -> T] : f[0] = base /\ \A i \in Nat \ {0} : f[i] = g[<<i, f[i - 1]>>]}

LEMMA Recursion ==
  ASSUME NEW T, NEW base \in T, NEW g \in [(Nat \X T) -> T]
  PROVE  \E f : f \in Iterates(T, base, g)
<1> DEFINE part(n) == CHOOSE f : f \in Begun(n, T, base, g)
           f == [n \in Nat |-> part(n)[n]]
<1>1. \A n \in Nat : part(n) \in Begun(n, T, base, g)
  BY BegunExists
<1> HIDE DEF part
<1>2. f \in [Nat -> T]
  <2>1. \A n \in Nat : part(n)[n] \in T
    BY <1>1 DEF Begun
  <2>2. QED  BY <2>1
<1>3. f[0] = base
  BY <1>1 DEF Begun
<1>4. ASSUME NEW i \in Nat \ {0} PROVE f[i] = g[<<i, f[i - 1]>>]
  <2>1. i - 1 \in Nat /\ i - 1 <= i /\ i - 1 \in 0 .. i - 1 /\ i \in 1 .. i
    OBVIOUS
  <2>2. part(i)[i] = g[<<i, part(i)[i - 1]>>]
    BY <1>1, <2>1 DEF Begun
  <2>3. part(i - 1)[i - 1] = part(i)[i - 1]
    BY <1>1, <2>1, BegunAgree
  <2>4. QED  BY <2>1, <2>2, <2>3
<1> HIDE DEF f
<1>5. f \in Iterates(T, base, g)
  BY <1>2, <1>3, <1>4 DEF Iterates
<1>6. QED
  BY <1>5
=============================================================================
