-------------------------- MODULE WalkPaths_proofs --------------------------
(***************************************************************************)
(* Proofs about WalkPaths, for any roots, names, depth and bound LongPath: *)
(* the path of an entry names it, the way up from it meets the way down,   *)
(* and the extended-length form fits its buffer and names the same file.   *)
(* FileTree_proofs is extended for its section on induction and recursion. *)
(***************************************************************************)
EXTENDS WalkPaths, FileTree_proofs

-----------------------------------------------------------------------------
(* Folds.                                                                  *)

LEMMA SeqInduction ==
  ASSUME NEW E, NEW A, <<>> \in A,
         \A s \in Seq(E), e \in E : s \in A => Append(s, e) \in A
  PROVE  Seq(E) \subseteq A
<1> DEFINE N == {n \in Nat : \A s \in Seq(E) : Len(s) = n => s \in A}
<1>1. 0 \in N
  <2>1. \A s \in Seq(E) : Len(s) = 0 => s = <<>>
    BY EmptySeq
  <2>2. QED  BY <2>1
<1>2. ASSUME NEW n \in Nat, n \in N PROVE n + 1 \in N
  <2>1. ASSUME NEW s \in Seq(E), Len(s) = n + 1 PROVE s \in A
    <3>1. s # <<>>
      BY <2>1, EmptySeq
    <3>2. PICK t \in Seq(E), e \in E : s = Append(t, e)
      BY <3>1, SequenceEmptyOrAppend
    <3>3. Len(t) = n
      BY <2>1, <3>2, AppendProperties, LenProperties
    <3>4. QED  BY <1>2, <3>2, <3>3
  <2>2. QED  BY <2>1
<1> HIDE DEF N
<1>3. Nat \subseteq N
  BY <1>1, <1>2, SetInduction
<1>4. QED
  BY <1>3, LenProperties DEF N

LEMMA MaxFound ==
  ASSUME NEW n \in Nat, NEW S \in SUBSET (1 .. n), S # {}
  PROVE  Max(S) \in S /\ \A i \in S : i <= Max(S)
<1> DEFINE Greatest(R, m) == m \in R /\ \A i \in R : m >= i
           A == {k \in Nat : \A R \in SUBSET (1 .. k) : R # {} => \E m \in R : Greatest(R, m)}
<1>1. 0 \in A
  <2>1. 1 .. 0 = {}
    OBVIOUS
  <2>2. QED  BY <2>1
<1>2. ASSUME NEW k \in Nat, k \in A PROVE k + 1 \in A
  <2>1. ASSUME NEW R \in SUBSET (1 .. k + 1), R # {} PROVE \E m \in R : Greatest(R, m)
    <3>1. CASE k + 1 \in R
      BY <3>1
    <3>2. CASE k + 1 \notin R
      <4>1. R \in SUBSET (1 .. k)
        BY <3>2
      <4>2. QED  BY <1>2, <2>1, <4>1
    <3>3. QED  BY <3>1, <3>2
  <2>2. QED  BY <2>1
<1> HIDE DEF A
<1>3. Nat \subseteq A
  BY <1>1, <1>2, SetInduction
<1>4. \E m \in S : \A i \in S : m >= i
  BY <1>3 DEF A
<1>5. Max(S) \in S /\ \A i \in S : Max(S) >= i
  BY <1>4 DEF Max
<1>6. QED
  BY <1>5

LEMMA MaxOfPrefix ==
  ASSUME NEW k \in Nat
  PROVE  Max(1 .. k + 1) = k + 1 /\ (1 .. k + 1) \ {k + 1} = 1 .. k
<1> DEFINE S == 1 .. k + 1
<1>1. Max(1 .. k + 1) \in 1 .. k + 1 /\ \A i \in 1 .. k + 1 : i <= Max(1 .. k + 1)
  <2>1. S \in SUBSET (1 .. k + 1) /\ S # {} /\ k + 1 \in Nat
    OBVIOUS
  <2> HIDE DEF S
  <2>2. Max(S) \in S /\ \A i \in S : i <= Max(S)
    BY <2>1, MaxFound
  <2>3. QED  BY <2>2 DEF S
<1>2. Max(1 .. k + 1) = k + 1
  BY <1>1
<1>3. \A i : i \in (1 .. k + 1) \ {k + 1} <=> i \in 1 .. k
  OBVIOUS
<1>4. QED
  BY <1>2, <1>3

\* What folds from the left compute: the value for a set of positions.
Foldings(n, T, base, g) ==
  {h \in [SUBSET (1 .. n) -> T] :
     \A S \in SUBSET (1 .. n) :
       h[S] = IF S = {} THEN base ELSE g[<<Max(S), h[S \ {Max(S)}]>>]}

LEMMA FoldingExists ==
  ASSUME NEW n \in Nat, NEW T, NEW base \in T, NEW g \in [(Nat \X T) -> T]
  PROVE  \E h : h \in Foldings(n, T, base, g)
<1> DEFINE D == SUBSET (1 .. n)
           H == [D -> T]
           Next1(h) == [S \in D |-> IF S = {} THEN base ELSE g[<<Max(S), h[S \ {Max(S)}]>>]]
           none == [S \in D |-> base]
           G == [p \in Nat \X H |-> Next1(p[2])]
<1>1. ASSUME NEW S \in D, S # {}
      PROVE  /\ Max(S) \in Nat /\ S \ {Max(S)} \in D
             /\ Cardinality(S \ {Max(S)}) = Cardinality(S) - 1
             /\ Cardinality(S) \in Nat /\ Cardinality(S \ {Max(S)}) \in Nat
  <2>1. Max(S) \in S
    BY <1>1, MaxFound
  <2>2. IsFiniteSet(1 .. n)
    BY FS_Interval
  <2>3. IsFiniteSet(S)
    BY <2>2, FS_Subset
  <2>4. /\ IsFiniteSet(S \ {Max(S)}) /\ Cardinality(S \ {Max(S)}) = Cardinality(S) - 1
    BY <2>1, <2>3, FS_RemoveElement
  <2>5. Cardinality(S) \in Nat /\ Cardinality(S \ {Max(S)}) \in Nat
    BY <2>3, <2>4, FS_CardinalityType
  <2>6. Max(S) \in Nat /\ S \ {Max(S)} \in D
    <3>1. Max(S) \in 1 .. n
      BY <1>1, <2>1
    <3>2. Max(S) \in Nat
      BY <3>1
    <3>3. S \ {Max(S)} \subseteq 1 .. n
      BY <1>1
    <3>4. QED  BY <3>2, <3>3
  <2>7. QED  BY <2>4, <2>5, <2>6
<1>2. ASSUME NEW h \in H PROVE Next1(h) \in H
  <2>1. ASSUME NEW S \in D, S # {} PROVE g[<<Max(S), h[S \ {Max(S)}]>>] \in T
    BY <1>1, <2>1
  <2>2. QED  BY <2>1
<1>13. \A h, S : S \in D =>
         Next1(h)[S] = IF S = {} THEN base ELSE g[<<Max(S), h[S \ {Max(S)}]>>]
  OBVIOUS
<1>3. G \in [(Nat \X H) -> H] /\ none \in H
  <2> HIDE DEF H, Next1
  <2>1. G \in [(Nat \X H) -> H]
    BY <1>2
  <2>2. none \in H
    BY DEF H
  <2>3. QED  BY <2>1, <2>2
<1>4. PICK F : F \in Iterates(H, none, G)
  <2> HIDE DEF H, none, G
  <2>1. QED  BY <1>3, Recursion
<1>5. \A k \in Nat : F[k] \in H /\ F[k + 1] = Next1(F[k])
  <2> HIDE DEF H, Next1, none
  <2>1. ASSUME NEW k \in Nat PROVE F[k] \in H /\ F[k + 1] = Next1(F[k])
    <3>1. k + 1 \in Nat \ {0} /\ (k + 1) - 1 = k
      OBVIOUS
    <3>2. F[k] \in H /\ F[k + 1] = G[<<k + 1, F[k]>>]
      BY <1>4, <3>1 DEF Iterates
    <3>3. QED  BY <3>1, <3>2
  <2>2. QED  BY <2>1
<1>6. \A S \in D : F[0][S] = base
  BY <1>4 DEF Iterates
<1> HIDE DEF G, Next1, D, H, none
<1> DEFINE A == {k \in Nat : \A S \in D : Cardinality(S) <= k => F[k + 1][S] = F[k][S]}
<1>7. 0 \in A
  <2>1. ASSUME NEW S \in D, Cardinality(S) <= 0 PROVE F[0 + 1][S] = F[0][S]
    <3>1. S = {}
      <4>1. S # {} => ~(Cardinality(S) <= 0)
        <5>1. SUFFICES ASSUME S # {} PROVE ~(Cardinality(S) <= 0)
          OBVIOUS
        <5>2. PICK c \in Nat : c = Cardinality(S \ {Max(S)})
          BY <1>1, <5>1
        <5>3. PICK e \in Nat : e = Cardinality(S)
          BY <1>1, <5>1
        <5>4. c = e - 1
          BY <1>1, <5>1, <5>2, <5>3
        <5>5. QED  BY <5>3, <5>4
      <4>2. QED  BY <2>1, <4>1
    <3>2. F[0 + 1] = Next1(F[0])
      BY <1>5
    <3>3. F[0 + 1][S] = base
      BY <1>13, <3>1, <3>2
    <3>4. QED  BY <1>6, <3>3
  <2>2. QED  BY <2>1
<1>8. ASSUME NEW k \in Nat, k \in A PROVE k + 1 \in A
  <2>1. ASSUME NEW S \in D, Cardinality(S) <= k + 1 PROVE F[(k + 1) + 1][S] = F[k + 1][S]
    <3>5. F[(k + 1) + 1] = Next1(F[k + 1]) /\ F[k + 1] = Next1(F[k])
      BY <1>5
    <3>1. F[(k + 1) + 1][S] = IF S = {} THEN base ELSE g[<<Max(S), F[k + 1][S \ {Max(S)}]>>]
      BY <1>13, <3>5
    <3>2. F[k + 1][S] = IF S = {} THEN base ELSE g[<<Max(S), F[k][S \ {Max(S)}]>>]
      BY <1>13, <3>5
    <3>3. S # {} => F[k + 1][S \ {Max(S)}] = F[k][S \ {Max(S)}]
      BY <1>1, <1>8, <2>1
    <3>4. QED  BY <3>1, <3>2, <3>3
  <2>2. QED  BY <2>1
<1> HIDE DEF A
<1>9. n \in A
  BY <1>7, <1>8, SetInduction
<1>10. ASSUME NEW S \in D
       PROVE  F[n + 1][S] = IF S = {} THEN base ELSE g[<<Max(S), F[n + 1][S \ {Max(S)}]>>]
  <2>1. F[n + 1][S] = IF S = {} THEN base ELSE g[<<Max(S), F[n][S \ {Max(S)}]>>]
    BY <1>5, <1>13
  <2>2. IsFiniteSet(1 .. n) /\ Cardinality(1 .. n) = n
    BY FS_Interval
  <2>3. \A R \in D : Cardinality(R) <= n
    <3>1. ASSUME NEW R \in D PROVE Cardinality(R) <= n
      <4>1. R \in SUBSET (1 .. n)
        BY DEF D
      <4>2. Cardinality(R) <= Cardinality(1 .. n)
        BY <2>2, <4>1, FS_Subset
      <4>3. QED  BY <2>2, <4>2
    <3>2. QED  BY <3>1
  <2>4. S # {} => F[n + 1][S \ {Max(S)}] = F[n][S \ {Max(S)}]
    BY <1>1, <1>9, <2>3 DEF A
  <2>5. QED  BY <2>1, <2>4
<1>11. F[n + 1] \in Foldings(n, T, base, g)
  <2>1. F[n + 1] \in H
    BY <1>5
  <2>2. QED  BY <1>10, <2>1 DEF Foldings, D, H
<1>12. QED
  BY <1>11

\* v is what a fold of n elements computes, if g is its step on T.
Folds(v, n, T, base, g) ==
  \A S \in SUBSET (1 .. n) :
    IF S = {} THEN v[S] = base
    ELSE v[S \ {Max(S)}] \in T => v[S] = g[<<Max(S), v[S \ {Max(S)}]>>]

FoldRun(n, T, base, g, f, v) ==
  /\ n \in Nat /\ base \in T /\ g \in [(Nat \X T) -> T]
  /\ f \in Iterates(T, base, g) /\ Folds(v, n, T, base, g)

LEMMA FoldIsIteration ==
  ASSUME NEW n, NEW T, NEW base, NEW g, NEW f, NEW v, FoldRun(n, T, base, g, f, v)
  PROVE  v[1 .. n] = f[n]
<1> USE DEF FoldRun
<1> DEFINE A == {k \in Nat : k <= n => v[1 .. k] = f[k]}
<1>1. 0 \in A
  <2>1. 1 .. 0 = {}
    OBVIOUS
  <2>2. QED  BY <2>1 DEF Folds, Iterates
<1>2. ASSUME NEW k \in Nat, k \in A PROVE k + 1 \in A
  <2>1. SUFFICES ASSUME k + 1 <= n PROVE v[1 .. k + 1] = f[k + 1]
    OBVIOUS
  <2>2. PICK S : S = 1 .. k + 1
    OBVIOUS
  <2>3. S \in SUBSET (1 .. n) /\ S # {}
    <3>1. \A i \in 1 .. k + 1 : i \in 1 .. n
      BY <2>1
    <3>2. 1 \in 1 .. k + 1
      OBVIOUS
    <3>3. QED  BY <2>2, <3>1, <3>2
  <2>4. Max(S) = k + 1 /\ S \ {Max(S)} = 1 .. k
    BY <2>2, MaxOfPrefix
  <2>5. v[1 .. k] = f[k] /\ f[k] \in T
    BY <1>2, <2>1 DEF Iterates
  <2>6. v[S] = g[<<k + 1, f[k]>>]
    BY <2>3, <2>4, <2>5 DEF Folds
  <2>7. k + 1 \in Nat \ {0} /\ (k + 1) - 1 = k
    OBVIOUS
  <2>8. f[k + 1] = g[<<k + 1, f[k]>>]
    BY <2>7 DEF Iterates
  <2>9. QED  BY <2>2, <2>6, <2>8
<1> HIDE DEF A
<1>3. Nat \subseteq A
  BY <1>1, <1>2, SetInduction
<1>4. QED
  BY <1>3 DEF A

\* One element more is one step more.
TwoRuns(n, k, T, base, g, h, e, f) ==
  /\ n \in Nat /\ k = n + 1 /\ base \in T /\ g \in [(Nat \X T) -> T] /\ h \in [(Nat \X T) -> T]
  /\ \A i \in 1 .. n, x \in T : g[<<i, x>>] = h[<<i, x>>]
  /\ e \in Iterates(T, base, g) /\ f \in Iterates(T, base, h)

LEMMA OneStepMore ==
  ASSUME NEW n, NEW k, NEW T, NEW base, NEW g, NEW h, NEW e, NEW f, TwoRuns(n, k, T, base, g, h, e, f)
  PROVE  e[n] \in T /\ f[k] = h[<<k, e[n]>>]
<1> USE DEF TwoRuns
<1> DEFINE A == {i \in Nat : i <= n => e[i] = f[i]}
<1>1. 0 \in A
  BY DEF Iterates
<1>2. ASSUME NEW i \in Nat, i \in A PROVE i + 1 \in A
  <2>1. SUFFICES ASSUME i + 1 <= n PROVE e[i + 1] = f[i + 1]
    OBVIOUS
  <2>2. e[i] = f[i] /\ e[i] \in T /\ i + 1 \in 1 .. n /\ i + 1 \in Nat \ {0} /\ (i + 1) - 1 = i
    BY <1>2, <2>1 DEF Iterates
  <2>3. e[i + 1] = g[<<i + 1, e[i]>>] /\ f[i + 1] = h[<<i + 1, f[i]>>]
    BY <2>2 DEF Iterates
  <2>4. QED  BY <2>2, <2>3
<1> HIDE DEF A
<1>3. n \in A
  BY <1>1, <1>2, SetInduction
<1>4. n + 1 \in Nat \ {0} /\ (n + 1) - 1 = n
  OBVIOUS
<1>5. e[n] \in T /\ f[n + 1] = h[<<n + 1, f[n]>>]
  BY <1>4 DEF Iterates
<1>6. QED
  BY <1>3, <1>5 DEF A

\* A character is a string of its own.  (That a string is in STRING, the provers do not
\* know.)
Char  == STRING \cup {"/", "\\", "?", "."}
Word  == Seq(Char)
Words == Seq(Word)

SplitStep(seps, T, s) ==
  [q \in Nat \X T |-> IF q[1] \in DOMAIN s THEN AddTo(seps, q[2], s[q[1]]) ELSE q[2]]

SplitType(seps, T) == <<<<>>>> \in T /\ \A x \in T, c \in Char : AddTo(seps, x, c) \in T

SplitRun(seps, T, s, f) ==
  /\ SplitType(seps, T) /\ s \in Word
  /\ f \in Iterates(T, <<<<>>>>, SplitStep(seps, T, s))

LEMMA SplitIteration ==
  ASSUME NEW seps, NEW T, NEW s, NEW f, SplitRun(seps, T, s, f)
  PROVE  /\ SplitStep(seps, T, s) \in [(Nat \X T) -> T]
         /\ Split(seps, s) = f[Len(s)]
<1> DEFINE n == Len(s)
           base == <<<<>>>>
           Op(i, x) == AddTo(seps, x, s[i])
           Value(h) == h = [S \in SUBSET (1 .. n) |->
                              IF S = {} THEN base ELSE Op(Max(S), h[S \ {Max(S)}])]
           value == CHOOSE h : Value(h)
           g == SplitStep(seps, T, s)
<1>1. n \in Nat /\ DOMAIN s = 1 .. n /\ \A i \in 1 .. n : s[i] \in Char
  BY LenProperties, ElementOfSeq DEF Word, SplitRun
<1>2. Split(seps, s) = value[1 .. n]
  BY <1>1 DEF Split, FoldLeft, MapThenFoldSet
<1>3. base \in T /\ \A i \in 1 .. n, x \in T : Op(i, x) \in T
  BY <1>1 DEF SplitRun, SplitType
<1>4. g \in [(Nat \X T) -> T] /\ \A i \in 1 .. n, x \in T : g[<<i, x>>] = Op(i, x)
  BY <1>1, <1>3 DEF SplitStep
<1> HIDE DEF Op, n, base, g
<1>5. \E h : Value(h)
  <2>1. PICK h : h \in Foldings(n, T, base, g)
    BY <1>1, <1>3, <1>4, FoldingExists
  <2>2. ASSUME NEW S \in SUBSET (1 .. n), S # {}
        PROVE  g[<<Max(S), h[S \ {Max(S)}]>>] = Op(Max(S), h[S \ {Max(S)}])
    <3>1. Max(S) \in 1 .. n /\ h[S \ {Max(S)}] \in T
      BY <1>1, <2>1, <2>2, MaxFound DEF Foldings
    <3>2. QED  BY <1>4, <3>1
  <2>3. \A S \in SUBSET (1 .. n) : h[S] = IF S = {} THEN base ELSE Op(Max(S), h[S \ {Max(S)}])
    BY <2>1, <2>2 DEF Foldings
  <2>4. h = [S \in SUBSET (1 .. n) |-> h[S]]
    BY <2>1 DEF Foldings
  <2>5. Value(h)
    BY <2>3, <2>4
  <2>6. QED  BY <2>5
<1>6. Value(value)
  <2> HIDE DEF Value
  <2>1. QED  BY <1>5
<1> HIDE DEF value
<1>7. \A S \in SUBSET (1 .. n) :
        value[S] = IF S = {} THEN base ELSE Op(Max(S), value[S \ {Max(S)}])
  BY <1>6
<1>8. Folds(value, n, T, base, g)
  BY <1>1, <1>4, <1>7, MaxFound DEF Folds
<1>9. value[1 .. n] = f[n]
  <2>1. f \in Iterates(T, base, g)
    BY DEF g, base, SplitRun
  <2>2. FoldRun(n, T, base, g, f, value)
    BY <1>1, <1>3, <1>4, <1>8, <2>1 DEF FoldRun
  <2>3. QED  BY <2>2, FoldIsIteration
<1>10. QED
  BY <1>2, <1>4, <1>9 DEF n, g

LEMMA SplitAppend ==
  ASSUME NEW seps, NEW T, SplitType(seps, T), NEW s \in Word, NEW c \in Char
  PROVE  /\ Split(seps, <<>>) = <<<<>>>>
         /\ Split(seps, s) \in T
         /\ Split(seps, Append(s, c)) = AddTo(seps, Split(seps, s), c)
<1> DEFINE n == Len(s)
           r == Append(s, c)
           base == <<<<>>>>
           G(t) == SplitStep(seps, T, t)
<1>1. ASSUME NEW t \in Word PROVE \E f : f \in Iterates(T, base, G(t))
  <2>1. \A i \in DOMAIN t : t[i] \in Char
    BY <1>1, LenProperties, ElementOfSeq DEF Word
  <2>2. G(t) \in [(Nat \X T) -> T] /\ base \in T
    BY <2>1 DEF SplitStep, SplitType
  <2> HIDE DEF G, base
  <2>3. QED  BY <2>2, Recursion
<1>2. n \in Nat /\ DOMAIN s = 1 .. n
  BY LenProperties DEF Word
<1>3. /\ r \in Word /\ Len(r) = n + 1 /\ r[n + 1] = c
      /\ \A i \in 1 .. n : r[i] = s[i]
  <2>1. r \in Word /\ Len(r) = n + 1
    BY AppendProperties DEF Word
  <2>2. r[n + 1] = c
    BY AppendProperties DEF Word
  <2>3. ASSUME NEW i \in 1 .. n PROVE r[i] = s[i]
    BY AppendProperties DEF Word
  <2>4. QED  BY <2>1, <2>2, <2>3
<1>4. <<>> \in Word /\ Len(<<>>) = 0
  BY EmptySeq DEF Word
<1> HIDE DEF G, n, r, base
<1>5. PICK d : d \in Iterates(T, base, G(<<>>))
  BY <1>1, <1>4
<1>6. PICK e : e \in Iterates(T, base, G(s))
  BY <1>1
<1>7. PICK f : f \in Iterates(T, base, G(r))
  BY <1>1, <1>3
<1>8. Split(seps, <<>>) = d[0] /\ d[0] = base
  <2>1. SplitRun(seps, T, <<>>, d)
    BY <1>4, <1>5 DEF G, base, SplitRun
  <2>2. Split(seps, <<>>) = d[0]
    BY <1>4, <2>1, SplitIteration
  <2>3. QED  BY <1>5, <2>2 DEF Iterates
<1>9. G(s) \in [(Nat \X T) -> T] /\ Split(seps, s) = e[n]
  <2>1. SplitRun(seps, T, s, e)
    BY <1>6 DEF G, base, SplitRun
  <2>2. QED  BY <2>1, SplitIteration DEF G, n
<1>10. G(r) \in [(Nat \X T) -> T] /\ Split(seps, r) = f[n + 1]
  <2>1. SplitRun(seps, T, r, f)
    BY <1>3, <1>7 DEF G, base, SplitRun
  <2>2. SplitStep(seps, T, r) \in [(Nat \X T) -> T] /\ Split(seps, r) = f[Len(r)]
    BY <2>1, SplitIteration
  <2>3. QED  BY <1>3, <2>2 DEF G
<1>11. base \in T
  BY DEF base, SplitType
<1>12. \A i \in 1 .. n, x \in T : G(s)[<<i, x>>] = G(r)[<<i, x>>]
  <2>1. DOMAIN r = 1 .. n + 1
    BY <1>3, LenProperties DEF Word
  <2>2. QED  BY <1>2, <1>3, <2>1 DEF G, SplitStep
<1>13. e[n] \in T /\ f[n + 1] = G(r)[<<n + 1, e[n]>>]
  <2>1. PICK u, v, m, k, b : u = G(s) /\ v = G(r) /\ m = n /\ k = n + 1 /\ b = base
    OBVIOUS
  <2>2. TwoRuns(m, k, T, b, u, v, e, f)
    BY <1>2, <1>6, <1>7, <1>9, <1>10, <1>11, <1>12, <2>1 DEF TwoRuns
  <2>3. e[m] \in T /\ f[k] = v[<<k, e[m]>>]
    BY <2>2, OneStepMore
  <2>4. QED  BY <2>1, <2>3
<1>14. \A x \in T : G(r)[<<n + 1, x>>] = AddTo(seps, x, c)
  <2>1. DOMAIN r = 1 .. n + 1
    BY <1>3, LenProperties DEF Word
  <2>2. n + 1 \in Nat /\ n + 1 \in DOMAIN r
    BY <1>2, <2>1
  <2>3. \A x \in T : <<n + 1, x>> \in Nat \X T
    BY <2>2
  <2>4. QED  BY <1>3, <2>2, <2>3 DEF G, SplitStep
<1>15. QED
  BY <1>8, <1>9, <1>10, <1>13, <1>14 DEF base, r

WithoutStep(drop, T, s) ==
  [q \in Nat \X T |-> IF q[1] \in DOMAIN s THEN Keep(drop, q[2], s[q[1]]) ELSE q[2]]

WithoutType(drop, T) == <<>> \in T /\ \A x \in T, c \in Word : Keep(drop, x, c) \in T

WithoutRun(drop, T, s, f) ==
  /\ WithoutType(drop, T) /\ s \in Words
  /\ f \in Iterates(T, <<>>, WithoutStep(drop, T, s))

LEMMA WithoutIteration ==
  ASSUME NEW drop, NEW T, NEW s, NEW f, WithoutRun(drop, T, s, f)
  PROVE  /\ WithoutStep(drop, T, s) \in [(Nat \X T) -> T]
         /\ Without(drop, s) = f[Len(s)]
<1> DEFINE n == Len(s)
           base == <<>>
           Op(i, x) == Keep(drop, x, s[i])
           Value(h) == h = [S \in SUBSET (1 .. n) |->
                              IF S = {} THEN base ELSE Op(Max(S), h[S \ {Max(S)}])]
           value == CHOOSE h : Value(h)
           g == WithoutStep(drop, T, s)
<1>1. n \in Nat /\ DOMAIN s = 1 .. n /\ \A i \in 1 .. n : s[i] \in Word
  BY LenProperties, ElementOfSeq DEF Words, WithoutRun
<1>2. Without(drop, s) = value[1 .. n]
  BY <1>1 DEF Without, FoldLeft, MapThenFoldSet
<1>3. base \in T /\ \A i \in 1 .. n, x \in T : Op(i, x) \in T
  BY <1>1 DEF WithoutRun, WithoutType
<1>4. g \in [(Nat \X T) -> T] /\ \A i \in 1 .. n, x \in T : g[<<i, x>>] = Op(i, x)
  BY <1>1, <1>3 DEF WithoutStep
<1> HIDE DEF Op, n, base, g
<1>5. \E h : Value(h)
  <2>1. PICK h : h \in Foldings(n, T, base, g)
    BY <1>1, <1>3, <1>4, FoldingExists
  <2>2. ASSUME NEW S \in SUBSET (1 .. n), S # {}
        PROVE  g[<<Max(S), h[S \ {Max(S)}]>>] = Op(Max(S), h[S \ {Max(S)}])
    <3>1. Max(S) \in 1 .. n /\ h[S \ {Max(S)}] \in T
      BY <1>1, <2>1, <2>2, MaxFound DEF Foldings
    <3>2. QED  BY <1>4, <3>1
  <2>3. \A S \in SUBSET (1 .. n) : h[S] = IF S = {} THEN base ELSE Op(Max(S), h[S \ {Max(S)}])
    BY <2>1, <2>2 DEF Foldings
  <2>4. h = [S \in SUBSET (1 .. n) |-> h[S]]
    BY <2>1 DEF Foldings
  <2>5. Value(h)
    BY <2>3, <2>4
  <2>6. QED  BY <2>5
<1>6. Value(value)
  <2> HIDE DEF Value
  <2>1. QED  BY <1>5
<1> HIDE DEF value
<1>7. \A S \in SUBSET (1 .. n) :
        value[S] = IF S = {} THEN base ELSE Op(Max(S), value[S \ {Max(S)}])
  BY <1>6
<1>8. Folds(value, n, T, base, g)
  BY <1>1, <1>4, <1>7, MaxFound DEF Folds
<1>9. value[1 .. n] = f[n]
  <2>1. f \in Iterates(T, base, g)
    BY DEF g, base, WithoutRun
  <2>2. FoldRun(n, T, base, g, f, value)
    BY <1>1, <1>3, <1>4, <1>8, <2>1 DEF FoldRun
  <2>3. QED  BY <2>2, FoldIsIteration
<1>10. QED
  BY <1>2, <1>4, <1>9 DEF n, g

LEMMA WithoutAppend ==
  ASSUME NEW drop, NEW T, WithoutType(drop, T), NEW s \in Words, NEW c \in Word
  PROVE  /\ Without(drop, <<>>) = <<>>
         /\ Without(drop, s) \in T
         /\ Without(drop, Append(s, c)) = Keep(drop, Without(drop, s), c)
<1> DEFINE n == Len(s)
           r == Append(s, c)
           base == <<>>
           G(t) == WithoutStep(drop, T, t)
<1>1. ASSUME NEW t \in Words PROVE \E f : f \in Iterates(T, base, G(t))
  <2>1. \A i \in DOMAIN t : t[i] \in Word
    BY <1>1, LenProperties, ElementOfSeq DEF Words
  <2>2. G(t) \in [(Nat \X T) -> T] /\ base \in T
    BY <2>1 DEF WithoutStep, WithoutType
  <2> HIDE DEF G, base
  <2>3. QED  BY <2>2, Recursion
<1>2. n \in Nat /\ DOMAIN s = 1 .. n
  BY LenProperties DEF Words
<1>3. /\ r \in Words /\ Len(r) = n + 1 /\ r[n + 1] = c
      /\ \A i \in 1 .. n : r[i] = s[i]
  <2>1. r \in Words /\ Len(r) = n + 1
    BY AppendProperties DEF Words
  <2>2. r[n + 1] = c
    BY AppendProperties DEF Words
  <2>3. ASSUME NEW i \in 1 .. n PROVE r[i] = s[i]
    BY AppendProperties DEF Words
  <2>4. QED  BY <2>1, <2>2, <2>3
<1>4. <<>> \in Words /\ Len(<<>>) = 0
  BY EmptySeq DEF Words
<1> HIDE DEF G, n, r, base
<1>5. PICK d : d \in Iterates(T, base, G(<<>>))
  BY <1>1, <1>4
<1>6. PICK e : e \in Iterates(T, base, G(s))
  BY <1>1
<1>7. PICK f : f \in Iterates(T, base, G(r))
  BY <1>1, <1>3
<1>8. Without(drop, <<>>) = d[0] /\ d[0] = base
  <2>1. WithoutRun(drop, T, <<>>, d)
    BY <1>4, <1>5 DEF G, base, WithoutRun
  <2>2. Without(drop, <<>>) = d[0]
    BY <1>4, <2>1, WithoutIteration
  <2>3. QED  BY <1>5, <2>2 DEF Iterates
<1>9. G(s) \in [(Nat \X T) -> T] /\ Without(drop, s) = e[n]
  <2>1. WithoutRun(drop, T, s, e)
    BY <1>6 DEF G, base, WithoutRun
  <2>2. QED  BY <2>1, WithoutIteration DEF G, n
<1>10. G(r) \in [(Nat \X T) -> T] /\ Without(drop, r) = f[n + 1]
  <2>1. WithoutRun(drop, T, r, f)
    BY <1>3, <1>7 DEF G, base, WithoutRun
  <2>2. WithoutStep(drop, T, r) \in [(Nat \X T) -> T] /\ Without(drop, r) = f[Len(r)]
    BY <2>1, WithoutIteration
  <2>3. QED  BY <1>3, <2>2 DEF G
<1>11. base \in T
  BY DEF base, WithoutType
<1>12. \A i \in 1 .. n, x \in T : G(s)[<<i, x>>] = G(r)[<<i, x>>]
  <2>1. DOMAIN r = 1 .. n + 1
    BY <1>3, LenProperties DEF Words
  <2>2. QED  BY <1>2, <1>3, <2>1 DEF G, WithoutStep
<1>13. e[n] \in T /\ f[n + 1] = G(r)[<<n + 1, e[n]>>]
  <2>1. PICK u, v, m, k, b : u = G(s) /\ v = G(r) /\ m = n /\ k = n + 1 /\ b = base
    OBVIOUS
  <2>2. TwoRuns(m, k, T, b, u, v, e, f)
    BY <1>2, <1>6, <1>7, <1>9, <1>10, <1>11, <1>12, <2>1 DEF TwoRuns
  <2>3. e[m] \in T /\ f[k] = v[<<k, e[m]>>]
    BY <2>2, OneStepMore
  <2>4. QED  BY <2>1, <2>3
<1>14. \A x \in T : G(r)[<<n + 1, x>>] = Keep(drop, x, c)
  <2>1. DOMAIN r = 1 .. n + 1
    BY <1>3, LenProperties DEF Words
  <2>2. n + 1 \in Nat /\ n + 1 \in DOMAIN r
    BY <1>2, <2>1
  <2>3. \A x \in T : <<n + 1, x>> \in Nat \X T
    BY <2>2
  <2>4. QED  BY <1>3, <2>2, <2>3 DEF G, WithoutStep
<1>15. QED
  BY <1>8, <1>9, <1>10, <1>13, <1>14 DEF base, r

CleanStep(abs, T, s) ==
  [q \in Nat \X T |-> IF q[1] \in DOMAIN s THEN Step(abs, q[2], s[q[1]]) ELSE q[2]]

CleanType(abs, T) == <<>> \in T /\ \A x \in T, c \in Word : Step(abs, x, c) \in T

CleanRun(abs, T, s, f) ==
  /\ CleanType(abs, T) /\ s \in Words
  /\ f \in Iterates(T, <<>>, CleanStep(abs, T, s))

LEMMA CleanIteration ==
  ASSUME NEW abs, NEW T, NEW s, NEW f, CleanRun(abs, T, s, f)
  PROVE  /\ CleanStep(abs, T, s) \in [(Nat \X T) -> T]
         /\ Clean(abs, s) = f[Len(s)]
<1> DEFINE n == Len(s)
           base == <<>>
           Op(i, x) == Step(abs, x, s[i])
           Value(h) == h = [S \in SUBSET (1 .. n) |->
                              IF S = {} THEN base ELSE Op(Max(S), h[S \ {Max(S)}])]
           value == CHOOSE h : Value(h)
           g == CleanStep(abs, T, s)
<1>1. n \in Nat /\ DOMAIN s = 1 .. n /\ \A i \in 1 .. n : s[i] \in Word
  BY LenProperties, ElementOfSeq DEF Words, CleanRun
<1>2. Clean(abs, s) = value[1 .. n]
  BY <1>1 DEF Clean, FoldLeft, MapThenFoldSet
<1>3. base \in T /\ \A i \in 1 .. n, x \in T : Op(i, x) \in T
  BY <1>1 DEF CleanRun, CleanType
<1>4. g \in [(Nat \X T) -> T] /\ \A i \in 1 .. n, x \in T : g[<<i, x>>] = Op(i, x)
  BY <1>1, <1>3 DEF CleanStep
<1> HIDE DEF Op, n, base, g
<1>5. \E h : Value(h)
  <2>1. PICK h : h \in Foldings(n, T, base, g)
    BY <1>1, <1>3, <1>4, FoldingExists
  <2>2. ASSUME NEW S \in SUBSET (1 .. n), S # {}
        PROVE  g[<<Max(S), h[S \ {Max(S)}]>>] = Op(Max(S), h[S \ {Max(S)}])
    <3>1. Max(S) \in 1 .. n /\ h[S \ {Max(S)}] \in T
      BY <1>1, <2>1, <2>2, MaxFound DEF Foldings
    <3>2. QED  BY <1>4, <3>1
  <2>3. \A S \in SUBSET (1 .. n) : h[S] = IF S = {} THEN base ELSE Op(Max(S), h[S \ {Max(S)}])
    BY <2>1, <2>2 DEF Foldings
  <2>4. h = [S \in SUBSET (1 .. n) |-> h[S]]
    BY <2>1 DEF Foldings
  <2>5. Value(h)
    BY <2>3, <2>4
  <2>6. QED  BY <2>5
<1>6. Value(value)
  <2> HIDE DEF Value
  <2>1. QED  BY <1>5
<1> HIDE DEF value
<1>7. \A S \in SUBSET (1 .. n) :
        value[S] = IF S = {} THEN base ELSE Op(Max(S), value[S \ {Max(S)}])
  BY <1>6
<1>8. Folds(value, n, T, base, g)
  BY <1>1, <1>4, <1>7, MaxFound DEF Folds
<1>9. value[1 .. n] = f[n]
  <2>1. f \in Iterates(T, base, g)
    BY DEF g, base, CleanRun
  <2>2. FoldRun(n, T, base, g, f, value)
    BY <1>1, <1>3, <1>4, <1>8, <2>1 DEF FoldRun
  <2>3. QED  BY <2>2, FoldIsIteration
<1>10. QED
  BY <1>2, <1>4, <1>9 DEF n, g

LEMMA CleanAppend ==
  ASSUME NEW abs, NEW T, CleanType(abs, T), NEW s \in Words, NEW c \in Word
  PROVE  /\ Clean(abs, <<>>) = <<>>
         /\ Clean(abs, s) \in T
         /\ Clean(abs, Append(s, c)) = Step(abs, Clean(abs, s), c)
<1> DEFINE n == Len(s)
           r == Append(s, c)
           base == <<>>
           G(t) == CleanStep(abs, T, t)
<1>1. ASSUME NEW t \in Words PROVE \E f : f \in Iterates(T, base, G(t))
  <2>1. \A i \in DOMAIN t : t[i] \in Word
    BY <1>1, LenProperties, ElementOfSeq DEF Words
  <2>2. G(t) \in [(Nat \X T) -> T] /\ base \in T
    BY <2>1 DEF CleanStep, CleanType
  <2> HIDE DEF G, base
  <2>3. QED  BY <2>2, Recursion
<1>2. n \in Nat /\ DOMAIN s = 1 .. n
  BY LenProperties DEF Words
<1>3. /\ r \in Words /\ Len(r) = n + 1 /\ r[n + 1] = c
      /\ \A i \in 1 .. n : r[i] = s[i]
  <2>1. r \in Words /\ Len(r) = n + 1
    BY AppendProperties DEF Words
  <2>2. r[n + 1] = c
    BY AppendProperties DEF Words
  <2>3. ASSUME NEW i \in 1 .. n PROVE r[i] = s[i]
    BY AppendProperties DEF Words
  <2>4. QED  BY <2>1, <2>2, <2>3
<1>4. <<>> \in Words /\ Len(<<>>) = 0
  BY EmptySeq DEF Words
<1> HIDE DEF G, n, r, base
<1>5. PICK d : d \in Iterates(T, base, G(<<>>))
  BY <1>1, <1>4
<1>6. PICK e : e \in Iterates(T, base, G(s))
  BY <1>1
<1>7. PICK f : f \in Iterates(T, base, G(r))
  BY <1>1, <1>3
<1>8. Clean(abs, <<>>) = d[0] /\ d[0] = base
  <2>1. CleanRun(abs, T, <<>>, d)
    BY <1>4, <1>5 DEF G, base, CleanRun
  <2>2. Clean(abs, <<>>) = d[0]
    BY <1>4, <2>1, CleanIteration
  <2>3. QED  BY <1>5, <2>2 DEF Iterates
<1>9. G(s) \in [(Nat \X T) -> T] /\ Clean(abs, s) = e[n]
  <2>1. CleanRun(abs, T, s, e)
    BY <1>6 DEF G, base, CleanRun
  <2>2. QED  BY <2>1, CleanIteration DEF G, n
<1>10. G(r) \in [(Nat \X T) -> T] /\ Clean(abs, r) = f[n + 1]
  <2>1. CleanRun(abs, T, r, f)
    BY <1>3, <1>7 DEF G, base, CleanRun
  <2>2. CleanStep(abs, T, r) \in [(Nat \X T) -> T] /\ Clean(abs, r) = f[Len(r)]
    BY <2>1, CleanIteration
  <2>3. QED  BY <1>3, <2>2 DEF G
<1>11. base \in T
  BY DEF base, CleanType
<1>12. \A i \in 1 .. n, x \in T : G(s)[<<i, x>>] = G(r)[<<i, x>>]
  <2>1. DOMAIN r = 1 .. n + 1
    BY <1>3, LenProperties DEF Words
  <2>2. QED  BY <1>2, <1>3, <2>1 DEF G, CleanStep
<1>13. e[n] \in T /\ f[n + 1] = G(r)[<<n + 1, e[n]>>]
  <2>1. PICK u, v, m, k, b : u = G(s) /\ v = G(r) /\ m = n /\ k = n + 1 /\ b = base
    OBVIOUS
  <2>2. TwoRuns(m, k, T, b, u, v, e, f)
    BY <1>2, <1>6, <1>7, <1>9, <1>10, <1>11, <1>12, <2>1 DEF TwoRuns
  <2>3. e[m] \in T /\ f[k] = v[<<k, e[m]>>]
    BY <2>2, OneStepMore
  <2>4. QED  BY <2>1, <2>3
<1>14. \A x \in T : G(r)[<<n + 1, x>>] = Step(abs, x, c)
  <2>1. DOMAIN r = 1 .. n + 1
    BY <1>3, LenProperties DEF Words
  <2>2. n + 1 \in Nat /\ n + 1 \in DOMAIN r
    BY <1>2, <2>1
  <2>3. \A x \in T : <<n + 1, x>> \in Nat \X T
    BY <2>2
  <2>4. QED  BY <1>3, <2>2, <2>3 DEF G, CleanStep
<1>15. QED
  BY <1>8, <1>9, <1>10, <1>13, <1>14 DEF base, r

LengthenStep(T, s) ==
  [q \in Nat \X T |-> IF q[1] \in DOMAIN s THEN Write(q[2], s[q[1]]) ELSE q[2]]

LengthenType(T) == Prefix \in T /\ \A x \in T, c \in Word : Write(x, c) \in T

LengthenRun(T, s, f) ==
  /\ LengthenType(T) /\ s \in Words
  /\ f \in Iterates(T, Prefix, LengthenStep(T, s))

LEMMA LengthenIteration ==
  ASSUME NEW T, NEW s, NEW f, LengthenRun(T, s, f)
  PROVE  /\ LengthenStep(T, s) \in [(Nat \X T) -> T]
         /\ Lengthen(s) = f[Len(s)]
<1> DEFINE n == Len(s)
           base == Prefix
           Op(i, x) == Write(x, s[i])
           Value(h) == h = [S \in SUBSET (1 .. n) |->
                              IF S = {} THEN base ELSE Op(Max(S), h[S \ {Max(S)}])]
           value == CHOOSE h : Value(h)
           g == LengthenStep(T, s)
<1>1. n \in Nat /\ DOMAIN s = 1 .. n /\ \A i \in 1 .. n : s[i] \in Word
  BY LenProperties, ElementOfSeq DEF Words, LengthenRun
<1>2. Lengthen(s) = value[1 .. n]
  BY <1>1 DEF Lengthen, FoldLeft, MapThenFoldSet
<1>3. base \in T /\ \A i \in 1 .. n, x \in T : Op(i, x) \in T
  BY <1>1 DEF LengthenRun, LengthenType
<1>4. g \in [(Nat \X T) -> T] /\ \A i \in 1 .. n, x \in T : g[<<i, x>>] = Op(i, x)
  BY <1>1, <1>3 DEF LengthenStep
<1> HIDE DEF Op, n, base, g
<1>5. \E h : Value(h)
  <2>1. PICK h : h \in Foldings(n, T, base, g)
    BY <1>1, <1>3, <1>4, FoldingExists
  <2>2. ASSUME NEW S \in SUBSET (1 .. n), S # {}
        PROVE  g[<<Max(S), h[S \ {Max(S)}]>>] = Op(Max(S), h[S \ {Max(S)}])
    <3>1. Max(S) \in 1 .. n /\ h[S \ {Max(S)}] \in T
      BY <1>1, <2>1, <2>2, MaxFound DEF Foldings
    <3>2. QED  BY <1>4, <3>1
  <2>3. \A S \in SUBSET (1 .. n) : h[S] = IF S = {} THEN base ELSE Op(Max(S), h[S \ {Max(S)}])
    BY <2>1, <2>2 DEF Foldings
  <2>4. h = [S \in SUBSET (1 .. n) |-> h[S]]
    BY <2>1 DEF Foldings
  <2>5. Value(h)
    BY <2>3, <2>4
  <2>6. QED  BY <2>5
<1>6. Value(value)
  <2> HIDE DEF Value
  <2>1. QED  BY <1>5
<1> HIDE DEF value
<1>7. \A S \in SUBSET (1 .. n) :
        value[S] = IF S = {} THEN base ELSE Op(Max(S), value[S \ {Max(S)}])
  BY <1>6
<1>8. Folds(value, n, T, base, g)
  BY <1>1, <1>4, <1>7, MaxFound DEF Folds
<1>9. value[1 .. n] = f[n]
  <2>1. f \in Iterates(T, base, g)
    BY DEF g, base, LengthenRun
  <2>2. FoldRun(n, T, base, g, f, value)
    BY <1>1, <1>3, <1>4, <1>8, <2>1 DEF FoldRun
  <2>3. QED  BY <2>2, FoldIsIteration
<1>10. QED
  BY <1>2, <1>4, <1>9 DEF n, g

LEMMA LengthenAppend ==
  ASSUME NEW T, LengthenType(T), NEW s \in Words, NEW c \in Word
  PROVE  /\ Lengthen(<<>>) = Prefix
         /\ Lengthen(s) \in T
         /\ Lengthen(Append(s, c)) = Write(Lengthen(s), c)
<1> DEFINE n == Len(s)
           r == Append(s, c)
           base == Prefix
           G(t) == LengthenStep(T, t)
<1>1. ASSUME NEW t \in Words PROVE \E f : f \in Iterates(T, base, G(t))
  <2>1. \A i \in DOMAIN t : t[i] \in Word
    BY <1>1, LenProperties, ElementOfSeq DEF Words
  <2>2. G(t) \in [(Nat \X T) -> T] /\ base \in T
    BY <2>1 DEF LengthenStep, LengthenType
  <2> HIDE DEF G, base
  <2>3. QED  BY <2>2, Recursion
<1>2. n \in Nat /\ DOMAIN s = 1 .. n
  BY LenProperties DEF Words
<1>3. /\ r \in Words /\ Len(r) = n + 1 /\ r[n + 1] = c
      /\ \A i \in 1 .. n : r[i] = s[i]
  <2>1. r \in Words /\ Len(r) = n + 1
    BY AppendProperties DEF Words
  <2>2. r[n + 1] = c
    BY AppendProperties DEF Words
  <2>3. ASSUME NEW i \in 1 .. n PROVE r[i] = s[i]
    BY AppendProperties DEF Words
  <2>4. QED  BY <2>1, <2>2, <2>3
<1>4. <<>> \in Words /\ Len(<<>>) = 0
  BY EmptySeq DEF Words
<1> HIDE DEF G, n, r, base
<1>5. PICK d : d \in Iterates(T, base, G(<<>>))
  BY <1>1, <1>4
<1>6. PICK e : e \in Iterates(T, base, G(s))
  BY <1>1
<1>7. PICK f : f \in Iterates(T, base, G(r))
  BY <1>1, <1>3
<1>8. Lengthen(<<>>) = d[0] /\ d[0] = base
  <2>1. LengthenRun(T, <<>>, d)
    BY <1>4, <1>5 DEF G, base, LengthenRun
  <2>2. Lengthen(<<>>) = d[0]
    BY <1>4, <2>1, LengthenIteration
  <2>3. QED  BY <1>5, <2>2 DEF Iterates
<1>9. G(s) \in [(Nat \X T) -> T] /\ Lengthen(s) = e[n]
  <2>1. LengthenRun(T, s, e)
    BY <1>6 DEF G, base, LengthenRun
  <2>2. QED  BY <2>1, LengthenIteration DEF G, n
<1>10. G(r) \in [(Nat \X T) -> T] /\ Lengthen(r) = f[n + 1]
  <2>1. LengthenRun(T, r, f)
    BY <1>3, <1>7 DEF G, base, LengthenRun
  <2>2. LengthenStep(T, r) \in [(Nat \X T) -> T] /\ Lengthen(r) = f[Len(r)]
    BY <2>1, LengthenIteration
  <2>3. QED  BY <1>3, <2>2 DEF G
<1>11. base \in T
  BY DEF base, LengthenType
<1>12. \A i \in 1 .. n, x \in T : G(s)[<<i, x>>] = G(r)[<<i, x>>]
  <2>1. DOMAIN r = 1 .. n + 1
    BY <1>3, LenProperties DEF Words
  <2>2. QED  BY <1>2, <1>3, <2>1 DEF G, LengthenStep
<1>13. e[n] \in T /\ f[n + 1] = G(r)[<<n + 1, e[n]>>]
  <2>1. PICK u, v, m, k, b : u = G(s) /\ v = G(r) /\ m = n /\ k = n + 1 /\ b = base
    OBVIOUS
  <2>2. TwoRuns(m, k, T, b, u, v, e, f)
    BY <1>2, <1>6, <1>7, <1>9, <1>10, <1>11, <1>12, <2>1 DEF TwoRuns
  <2>3. e[m] \in T /\ f[k] = v[<<k, e[m]>>]
    BY <2>2, OneStepMore
  <2>4. QED  BY <2>1, <2>3
<1>14. \A x \in T : G(r)[<<n + 1, x>>] = Write(x, c)
  <2>1. DOMAIN r = 1 .. n + 1
    BY <1>3, LenProperties DEF Words
  <2>2. n + 1 \in Nat /\ n + 1 \in DOMAIN r
    BY <1>2, <2>1
  <2>3. \A x \in T : <<n + 1, x>> \in Nat \X T
    BY <2>2
  <2>4. QED  BY <1>3, <2>2, <2>3 DEF G, LengthenStep
<1>15. QED
  BY <1>8, <1>9, <1>10, <1>13, <1>14 DEF base, r

-----------------------------------------------------------------------------
(* The folds of WalkPaths on words.                                        *)

LEMMA FrontLastAppend ==
  ASSUME NEW E, NEW x \in Seq(E), NEW e \in E
  PROVE  Front(Append(x, e)) = x /\ Last(Append(x, e)) = e
<1> DEFINE y == Append(x, e)
<1>1. Len(x) \in Nat /\ Len(y) = Len(x) + 1 /\ y[Len(x) + 1] = e
  BY AppendProperties, LenProperties
<1>2. \A i \in 1 .. Len(x) : y[i] = x[i] /\ x[i] \in E
  BY AppendProperties, ElementOfSeq
<1> HIDE DEF y
<1>3. PICK z : z = SubSeq(y, 1, Len(x))
  OBVIOUS
<1>4. z \in Seq(E) /\ Len(z) = Len(x) /\ \A i \in 1 .. Len(x) : z[i] = y[i]
  <2>1. \A i \in 1 .. Len(x) : y[i] \in E
    BY <1>2
  <2>2. PICK n : n = Len(x)
    OBVIOUS
  <2>3. z \in Seq(E) /\ Len(z) = n /\ \A i \in 1 .. n - 1 + 1 : z[i] = y[1 + i - 1]
    BY <1>1, <1>3, <2>1, <2>2, SubSeqProperties
  <2>4. QED  BY <1>1, <2>2, <2>3
<1>5. z = x
  BY <1>2, <1>4, SeqEqual
<1>6. QED
  BY <1>1, <1>3, <1>5 DEF y, Front, Last

LEMMA AddToAppend ==
  ASSUME NEW S, NEW E, NEW y \in Seq(E), NEW e \in E, NEW c
  PROVE  AddTo(S, Append(y, e), c) =
           IF c \in S THEN Append(Append(y, e), <<>>) ELSE Append(y, Append(e, c))
BY FrontLastAppend DEF AddTo

\* The stretches of a text have no separators, and there is always one.
Stretches(S) == Seq(Seq(Char \ S)) \ {<<>>}

LEMMA SplitAppends ==
  ASSUME NEW S, NEW s \in Word, NEW c \in Char
  PROVE  /\ Split(S, <<>>) = <<<<>>>>
         /\ Split(S, s) \in Stretches(S)
         /\ Split(S, Append(s, c)) = AddTo(S, Split(S, s), c)
<1> DEFINE E == Seq(Char \ S)
           T == Stretches(S)
<1>1. <<>> \in E
  BY EmptySeq
<1>2. <<<<>>>> \in T
  <2>1. <<>> \in Seq(E) /\ Append(<<>>, <<>>) = <<<<>>>>
    BY EmptySeq
  <2>2. QED  BY <1>1, <2>1, AppendProperties DEF Stretches
<1>3. ASSUME NEW x \in T, NEW d \in Char PROVE AddTo(S, x, d) \in T
  <2>1. x \in Seq(E) /\ x # <<>>
    BY DEF Stretches
  <2> HIDE DEF E
  <2>2. PICK y \in Seq(E), e \in E : x = Append(y, e)
    BY <2>1, SequenceEmptyOrAppend
  <2>3. AddTo(S, x, d) = IF d \in S THEN Append(x, <<>>) ELSE Append(y, Append(e, d))
    <3>1. Front(x) = y /\ Last(x) = e
      BY <2>2, FrontLastAppend
    <3>2. QED  BY <3>1 DEF AddTo
  <2>4. d \notin S => Append(e, d) \in E
    BY AppendProperties DEF E
  <2>5. \A k \in E : /\ Append(x, k) \in Seq(E) /\ Append(x, k) # <<>>
                     /\ Append(y, k) \in Seq(E) /\ Append(y, k) # <<>>
    BY <2>1, AppendProperties
  <2>6. AddTo(S, x, d) \in Seq(E) /\ AddTo(S, x, d) # <<>>
    BY <1>1, <2>3, <2>4, <2>5
  <2>7. QED  BY <2>6 DEF E, Stretches
<1>4. SplitType(S, T)
  BY <1>2, <1>3 DEF SplitType
<1> HIDE DEF T
<1>5. QED
  <2>1. Split(S, s) \in T
    BY <1>4, SplitAppend
  <2>2. QED  BY <1>4, <2>1, SplitAppend DEF T

LEMMA WithoutAppends ==
  ASSUME NEW w, NEW bs \in Words, NEW b \in Word
  PROVE  /\ Without(w, <<>>) = <<>>
         /\ Without(w, bs) \in Words
         /\ Without(w, Append(bs, b)) = Keep(w, Without(w, bs), b)
<1>1. WithoutType(w, Words)
  BY EmptySeq, AppendProperties DEF WithoutType, Words, Keep
<1>2. QED
  BY <1>1, WithoutAppend

LEMMA CleanAppends ==
  ASSUME NEW abs, NEW bs \in Words, NEW b \in Word
  PROVE  /\ Clean(abs, <<>>) = <<>>
         /\ Clean(abs, bs) \in Words
         /\ Clean(abs, Append(bs, b)) = Step(abs, Clean(abs, bs), b)
<1>1. ASSUME NEW x \in Words, NEW c \in Word PROVE Step(abs, x, c) \in Words
  <2>1. x # <<>> => Front(x) \in Words
    <3>1. SUFFICES ASSUME x # <<>> PROVE Front(x) \in Words
      OBVIOUS
    <3>2. PICK y \in Words, e \in Word : x = Append(y, e)
      BY <3>1, SequenceEmptyOrAppend DEF Words
    <3>3. QED  BY <3>2, FrontLastAppend DEF Words
  <2>2. Append(x, c) \in Words
    BY AppendProperties DEF Words
  <2>3. QED  BY <2>1, <2>2 DEF Step
<1>2. CleanType(abs, Words)
  BY <1>1, EmptySeq DEF CleanType, Words
<1>3. QED
  BY <1>2, CleanAppend

LEMMA LengthenAppends ==
  ASSUME NEW bs \in Words, NEW b \in Word
  PROVE  /\ Lengthen(<<>>) = Prefix
         /\ Lengthen(bs) \in Word
         /\ Lengthen(Append(bs, b)) = Write(Lengthen(bs), b)
<1>1. Prefix \in Word
  <2>1. "\\" \in Char /\ "?" \in Char
    BY DEF Char
  <2>2. Prefix = Append(Append(Append(<<>>, "\\"), "\\"), "?")
    BY DEF Prefix
  <2>3. QED  BY <2>1, <2>2, EmptySeq, AppendProperties DEF Word
<1>2. ASSUME NEW x \in Word, NEW c \in Word PROVE Write(x, c) \in Word
  <2>1. <<"\\">> \in Word
    <3>1. "\\" \in Char
      BY DEF Char
    <3>2. <<"\\">> = Append(<<>>, "\\")
      OBVIOUS
    <3>3. QED  BY <3>1, <3>2, EmptySeq, AppendProperties DEF Word
  <2>2. x \o <<"\\">> \in Word
    BY <2>1, ConcatProperties DEF Word
  <2>3. QED  BY <2>2, ConcatProperties DEF Word, Write
<1>3. LengthenType(Word)
  BY <1>1, <1>2 DEF LengthenType
<1>4. QED
  BY <1>3, LengthenAppend

-----------------------------------------------------------------------------
(* Separators divide a text: what is before and behind one can be split on *)
(* its own.                                                                *)

LEMMA ConcatAppend ==
  ASSUME NEW E, NEW x \in Seq(E), NEW y \in Seq(E), NEW e \in E
  PROVE  x \o Append(y, e) = Append(x \o y, e)
<1> DEFINE z == <<e>>
<1>1. z \in Seq(E)
  <2>1. z = Append(<<>>, e) /\ <<>> \in Seq(E)
    BY EmptySeq
  <2> HIDE DEF z
  <2>2. QED  BY <2>1, AppendProperties
<1>2. Append(y, e) = y \o z
  BY AppendIsConcat
<1>3. x \o y \in Seq(E)
  BY ConcatProperties
<1>4. Append(x \o y, e) = (x \o y) \o z
  BY <1>3, AppendIsConcat
<1> HIDE DEF z
<1>5. QED
  BY <1>1, <1>2, <1>4, ConcatAssociative

LEMMA SplitConcat ==
  ASSUME NEW S, NEW p \in Word, NEW c \in Char, c \in S
  PROVE  \A r \in Word : Split(S, Append(p, c) \o r) = Split(S, p) \o Split(S, r)
<1> DEFINE q == Append(p, c)
           E == Seq(Char \ S)
           A == {r \in Word : Split(S, q \o r) = Split(S, p) \o Split(S, r)}
<1>1. q \in Word /\ Split(S, q) = Append(Split(S, p), <<>>)
  BY SplitAppends, AppendProperties DEF Word, AddTo
<1>2. \A r \in Word : Split(S, r) \in Seq(E) /\ Split(S, r) # <<>>
  BY SplitAppends DEF Stretches
<1> HIDE DEF q, E
<1>3. <<>> \in A
  <2>1. <<>> \in Word /\ q \o <<>> = q
    BY <1>1, EmptySeq, ConcatEmptySeq DEF Word
  <2>2. Split(S, <<>>) = <<<<>>>>
    BY <2>1, SplitAppends
  <2>3. <<>> \in E
    BY EmptySeq DEF E
  <2>4. Append(Split(S, p), <<>>) = Split(S, p) \o <<<<>>>>
    BY <1>2, <2>3, AppendIsConcat
  <2>5. QED  BY <1>1, <2>1, <2>2, <2>4
<1>4. ASSUME NEW r \in Seq(Char), NEW d \in Char, r \in A PROVE Append(r, d) \in A
  <2>1. r \in Word /\ Append(r, d) \in Word /\ q \o r \in Word
    BY <1>1, AppendProperties, ConcatProperties DEF Word
  <2>2. q \o Append(r, d) = Append(q \o r, d)
    BY <1>1, <2>1, ConcatAppend DEF Word
  <2>3. Split(S, q \o Append(r, d)) = AddTo(S, Split(S, q \o r), d)
    BY <2>1, <2>2, SplitAppends
  <2>4. PICK x, y : x = Split(S, p) /\ y = Split(S, r)
    OBVIOUS
  <2>5. x \in Seq(E) /\ y \in Seq(E) /\ y # <<>>
    BY <1>2, <2>1, <2>4
  <2>6. PICK f \in Seq(E), k \in E : y = Append(f, k)
    BY <2>5, SequenceEmptyOrAppend
  <2>7. x \o f \in Seq(E) /\ x \o y = Append(x \o f, k)
    BY <2>5, <2>6, ConcatAppend, ConcatProperties
  <2>8. /\ Front(y) = f /\ Last(y) = k
        /\ Front(x \o y) = x \o f /\ Last(x \o y) = k
    <3>1. Front(y) = f /\ Last(y) = k
      BY <2>6, FrontLastAppend
    <3>2. PICK z \in Seq(E) : z = x \o f
      BY <2>7
    <3>3. Front(Append(z, k)) = z /\ Last(Append(z, k)) = k
      BY <2>6, FrontLastAppend
    <3>4. QED  BY <2>7, <3>1, <3>2, <3>3
  <2>9. Split(S, Append(r, d)) = AddTo(S, y, d)
    BY <2>1, <2>4, SplitAppends
  <2>10. AddTo(S, x \o y, d) = x \o AddTo(S, y, d)
    <3>1. CASE d \in S
      <4>1. <<>> \in E
        BY EmptySeq DEF E
      <4>2. x \o Append(y, <<>>) = Append(x \o y, <<>>)
        BY <2>5, <4>1, ConcatAppend
      <4>3. QED  BY <3>1, <4>2 DEF AddTo
    <3>2. CASE d \notin S
      <4>1. Append(k, d) \in E
        BY <3>2, AppendProperties DEF E
      <4>2. x \o Append(f, Append(k, d)) = Append(x \o f, Append(k, d))
        BY <2>5, <2>6, <4>1, ConcatAppend
      <4>3. QED  BY <2>8, <3>2, <4>2 DEF AddTo
    <3>3. QED  BY <3>1, <3>2
  <2>11. Split(S, q \o r) = x \o y
    BY <1>4, <2>4
  <2>12. QED  BY <2>1, <2>3, <2>4, <2>9, <2>10, <2>11
<1> HIDE DEF A
<1>5. Seq(Char) \subseteq A
  BY <1>3, <1>4, SeqInduction
<1>6. QED
  BY <1>5 DEF A, q, Word

\* What has no separators is one stretch.
LEMMA SplitWord ==
  ASSUME NEW S
  PROVE  \A w \in Seq(Char \ S) : w \in Word /\ Split(S, w) = <<w>>
<1> DEFINE A == {w \in Word : Split(S, w) = <<w>>}
           E == Char \ S
<1>1. <<>> \in A
  <2>1. <<>> \in Word
    BY EmptySeq DEF Word
  <2>2. "?" \in Char
    BY DEF Char
  <2>3. QED  BY <2>1, <2>2, SplitAppends
<1>2. ASSUME NEW w \in Seq(E), NEW c \in E, w \in A PROVE Append(w, c) \in A
  <2>1. w \in Word /\ c \in Char /\ Append(w, c) \in Word
    BY <1>2, AppendProperties DEF Word
  <2>2. Split(S, Append(w, c)) = AddTo(S, <<w>>, c)
    BY <1>2, <2>1, SplitAppends
  <2>3. <<w>> = Append(<<>>, w) /\ <<>> \in Words
    BY EmptySeq DEF Words
  <2>4. Front(<<w>>) = <<>> /\ Last(<<w>>) = w
    <3>1. Front(Append(<<>>, w)) = <<>> /\ Last(Append(<<>>, w)) = w
      BY <2>1, <2>3, FrontLastAppend DEF Words
    <3>2. QED  BY <2>3, <3>1
  <2>5. AddTo(S, <<w>>, c) = Append(<<>>, Append(w, c))
    BY <2>4 DEF AddTo
  <2>6. QED  BY <2>1, <2>2, <2>5
<1> HIDE DEF A, E
<1>3. Seq(E) \subseteq A
  BY <1>1, <1>2, SeqInduction
<1>4. QED
  BY <1>3 DEF A, E

LEMMA WithoutConcat ==
  ASSUME NEW w, NEW x \in Words
  PROVE  \A y \in Words : Without(w, x \o y) = Without(w, x) \o Without(w, y)
<1> DEFINE A == {y \in Words : Without(w, x \o y) = Without(w, x) \o Without(w, y)}
<1>1. <<>> \in A
  <2>1. <<>> \in Words /\ <<>> \in Word
    BY EmptySeq DEF Words, Word
  <2>2. Without(w, <<>>) = <<>> /\ Without(w, x) \in Words
    BY <2>1, WithoutAppends
  <2>3. QED  BY <2>1, <2>2, ConcatEmptySeq DEF Words
<1>2. ASSUME NEW y \in Seq(Word), NEW b \in Word, y \in A PROVE Append(y, b) \in A
  <2>1. y \in Words /\ Append(y, b) \in Words /\ x \o y \in Words
    BY AppendProperties, ConcatProperties DEF Words
  <2>2. x \o Append(y, b) = Append(x \o y, b)
    BY <2>1, ConcatAppend DEF Words
  <2>3. Without(w, x \o Append(y, b)) = Keep(w, Without(w, x \o y), b)
    BY <2>1, <2>2, WithoutAppends
  <2>4. /\ Without(w, Append(y, b)) = Keep(w, Without(w, y), b)
        /\ Without(w, x) \in Words /\ Without(w, y) \in Words
    BY <2>1, WithoutAppends
  <2>5. Without(w, x) \o Append(Without(w, y), b) = Append(Without(w, x) \o Without(w, y), b)
    BY <2>4, ConcatAppend DEF Words
  <2>6. QED  BY <1>2, <2>1, <2>3, <2>4, <2>5 DEF Keep
<1> HIDE DEF A
<1>3. Seq(Word) \subseteq A
  BY <1>1, <1>2, SeqInduction
<1>4. QED
  BY <1>3 DEF A, Words

LEMMA WithoutIn ==
  ASSUME NEW w, NEW E \in SUBSET Word
  PROVE  \A bs \in Seq(E) : bs \in Words /\ Without(w, bs) \in Seq(E \ {w})
<1> DEFINE D == E \ {w}
           A == {bs \in Words : Without(w, bs) \in Seq(D)}
<1>1. <<>> \in A
  <2>1. <<>> \in Words /\ <<>> \in Word /\ <<>> \in Seq(D)
    BY EmptySeq DEF Words, Word
  <2>2. QED  BY <2>1, WithoutAppends
<1>2. ASSUME NEW bs \in Seq(E), NEW b \in E, bs \in A PROVE Append(bs, b) \in A
  <2>1. bs \in Words /\ b \in Word /\ Append(bs, b) \in Words
    BY <1>2, AppendProperties DEF Words
  <2>2. Without(w, Append(bs, b)) = Keep(w, Without(w, bs), b)
    BY <2>1, WithoutAppends
  <2>3. b # w => Append(Without(w, bs), b) \in Seq(D)
    BY <1>2, AppendProperties
  <2>4. QED  BY <1>2, <2>1, <2>2, <2>3 DEF Keep
<1> HIDE DEF A, D
<1>3. Seq(E) \subseteq A
  BY <1>1, <1>2, SeqInduction
<1>4. QED
  BY <1>3 DEF A, D

\* The blocks of a text, for the separators S.
BlocksAt(S, p) == Without(<<>>, Split(S, p))

\* Names as elements of a path.
Elements(S) == Seq(Char \ S) \ {<<>>}

LEMMA ElementsAreWords ==
  ASSUME NEW S
  PROVE  Elements(S) \subseteq Word /\ Seq(Char \ S) \subseteq Word
BY SplitWord DEF Elements

LEMMA BlocksType ==
  ASSUME NEW S, NEW p \in Word
  PROVE  BlocksAt(S, p) \in Words /\ BlocksAt(S, p) \in Seq(Elements(S))
<1> DEFINE E == Seq(Char \ S)
<1>1. Split(S, p) \in Seq(E)
  BY SplitAppends DEF Stretches, Char
<1>2. E \in SUBSET Word
  BY ElementsAreWords
<1> HIDE DEF E
<1>3. Split(S, p) \in Words /\ BlocksAt(S, p) \in Seq(E \ {<<>>})
  BY <1>1, <1>2, WithoutIn DEF BlocksAt
<1>4. BlocksAt(S, p) \in Words
  <2>1. "?" \in Char /\ <<>> \in Word
    BY EmptySeq DEF Char, Word
  <2>2. QED  BY <1>3, <2>1, WithoutAppends DEF BlocksAt
<1>5. QED
  BY <1>3, <1>4 DEF E, Elements

LEMMA BlocksConcat ==
  ASSUME NEW S, NEW p \in Word, NEW c \in Char, c \in S, NEW r \in Word
  PROVE  BlocksAt(S, Append(p, c) \o r) = BlocksAt(S, p) \o BlocksAt(S, r)
<1>1. Split(S, Append(p, c) \o r) = Split(S, p) \o Split(S, r)
  BY SplitConcat
<1>2. \A q \in Word : Split(S, q) \in Words
  <2>1. \A q \in Word : Split(S, q) \in Seq(Seq(Char \ S))
    BY SplitAppends DEF Stretches
  <2>2. Seq(Char \ S) \subseteq Word
    BY ElementsAreWords
  <2>3. QED  BY <2>1, <2>2, SeqMonotonic DEF Words
<1>3. QED
  BY <1>1, <1>2, WithoutConcat DEF BlocksAt

LEMMA BlocksOfElement ==
  ASSUME NEW S
  PROVE  BlocksAt(S, <<>>) = <<>> /\ \A w \in Elements(S) : BlocksAt(S, w) = <<w>>
<1>1. <<>> \in Word /\ <<>> \in Words /\ <<>> \in Seq(Char \ S)
  BY EmptySeq DEF Word, Words
<1>2. \A w \in Word : Without(<<>>, Append(<<>>, w)) = Keep(<<>>, <<>>, w)
  <2>1. PICK none : none = <<>>
    OBVIOUS
  <2>2. none \in Words
    BY <1>1, <2>1
  <2>3. ASSUME NEW w \in Word PROVE Without(none, Append(none, w)) = Keep(none, none, w)
    <3>1. Without(none, none) = none
      BY <2>1, <2>2, <2>3, WithoutAppends
    <3>2. Without(none, Append(none, w)) = Keep(none, Without(none, none), w)
      BY <2>2, <2>3, WithoutAppends
    <3>3. QED  BY <3>1, <3>2
  <2>4. QED  BY <2>1, <2>3
<1>3. \A w : <<w>> = Append(<<>>, w)
  OBVIOUS
<1>4. ASSUME NEW w \in Seq(Char \ S) PROVE BlocksAt(S, w) = Keep(<<>>, <<>>, w)
  BY <1>2, <1>3, SplitWord DEF BlocksAt
<1>5. QED
  BY <1>1, <1>3, <1>4 DEF Keep, Elements

-----------------------------------------------------------------------------
(* Prefixes, and texts that differ only in their separators.               *)

LEMMA PrefixOf ==
  ASSUME NEW E, NEW x \in Seq(E), NEW k \in Nat, k <= Len(x)
  PROVE  /\ SubSeq(x, 1, k) \in Seq(E) /\ Len(SubSeq(x, 1, k)) = k
         /\ \A i \in 1 .. k : SubSeq(x, 1, k)[i] = x[i]
<1>1. \A i \in 1 .. k : x[i] \in E
  <2>1. \A i \in 1 .. k : i \in 1 .. Len(x)
    BY LenProperties
  <2>2. QED  BY <2>1, ElementOfSeq
<1>2. PICK y : y = SubSeq(x, 1, k)
  OBVIOUS
<1>3. y \in Seq(E) /\ Len(y) = (IF 1 <= k THEN k - 1 + 1 ELSE 0)
  BY <1>1, <1>2, SubSeqProperties
<1>4. \A i \in 1 .. k - 1 + 1 : y[i] = x[1 + i - 1]
  BY <1>1, <1>2, SubSeqProperties
<1>5. \A i \in 1 .. k : i \in 1 .. k - 1 + 1 /\ 1 + i - 1 = i
  OBVIOUS
<1>6. \A i \in 1 .. k : y[i] = x[i]
  BY <1>4, <1>5
<1>7. Len(y) = k
  BY <1>3
<1>8. QED
  BY <1>2, <1>3, <1>6, <1>7

LEMMA SamePrefix ==
  ASSUME NEW E, NEW x \in Seq(E), NEW y \in Seq(E), NEW k \in Nat,
         k <= Len(x), k <= Len(y), \A i \in 1 .. k : x[i] = y[i]
  PROVE  SubSeq(x, 1, k) = SubSeq(y, 1, k)
<1>1. PICK a, b : a = SubSeq(x, 1, k) /\ b = SubSeq(y, 1, k)
  OBVIOUS
<1>2. a \in Seq(E) /\ Len(a) = k /\ \A i \in 1 .. k : a[i] = x[i]
  BY <1>1, PrefixOf
<1>3. b \in Seq(E) /\ Len(b) = k /\ \A i \in 1 .. k : b[i] = y[i]
  BY <1>1, PrefixOf
<1>4. a = b
  <2>1. Len(a) = Len(b) /\ \A i \in 1 .. Len(a) : a[i] = b[i]
    BY <1>2, <1>3
  <2>2. QED  BY <1>2, <1>3, <2>1, SeqEqual
<1>5. QED
  BY <1>1, <1>4

\* A whole text is a prefix of what it begins.
LEMMA WholePrefix ==
  ASSUME NEW E, NEW x \in Seq(E), NEW y \in Seq(E), NEW k \in Nat, k <= Len(x)
  PROVE  /\ SubSeq(x \o y, 1, k) = SubSeq(x, 1, k)
         /\ SubSeq(x \o y, 1, Len(x)) = x
<1>1. PICK z : z = x \o y
  OBVIOUS
<1>2. z \in Seq(E) /\ Len(z) = Len(x) + Len(y) /\ Len(x) \in Nat /\ Len(y) \in Nat
  BY <1>1, ConcatProperties, LenProperties
<1>3. \A i \in 1 .. Len(x) : z[i] = x[i]
  <2>1. \A i \in 1 .. Len(x) + Len(y) : z[i] = IF i <= Len(x) THEN x[i] ELSE y[i - Len(x)]
    BY <1>1, ConcatProperties
  <2>2. QED  BY <1>2, <2>1
<1>4. SubSeq(z, 1, k) = SubSeq(x, 1, k)
  BY <1>2, <1>3, SamePrefix
<1>5. SubSeq(z, 1, Len(x)) = x
  <2>1. PICK n : n = Len(x)
    OBVIOUS
  <2>2. SubSeq(z, 1, n) = SubSeq(x, 1, n)
    BY <1>2, <1>3, <2>1, SamePrefix
  <2>3. SubSeq(x, 1, n) = x
    BY <2>1, SubSeqFull
  <2>4. QED  BY <2>1, <2>2, <2>3
<1>6. QED
  BY <1>1, <1>4, <1>5

LEMMA BlocksSeparator ==
  ASSUME NEW S, NEW p \in Word, NEW c \in Char, c \in S
  PROVE  BlocksAt(S, Append(p, c)) = BlocksAt(S, p)
<1>1. <<>> \in Word /\ Append(p, c) \in Word
  BY EmptySeq, AppendProperties DEF Word
<1>2. BlocksAt(S, Append(p, c) \o <<>>) = BlocksAt(S, p) \o BlocksAt(S, <<>>)
  BY <1>1, BlocksConcat
<1>3. Append(p, c) \o <<>> = Append(p, c)
  BY <1>1, ConcatEmptySeq DEF Word
<1>4. BlocksAt(S, p) \o <<>> = BlocksAt(S, p)
  BY BlocksType, ConcatEmptySeq DEF Words
<1>5. QED
  BY <1>2, <1>3, <1>4, BlocksOfElement

\* Separators at the end of a text do not matter.
LEMMA TrailingSeparators ==
  ASSUME NEW S
  PROVE  \A p \in Word : \A k \in 0 .. Len(p) :
           (\A j \in k + 1 .. Len(p) : p[j] \in S) =>
              BlocksAt(S, SubSeq(p, 1, k)) = BlocksAt(S, p)
<1> DEFINE Good(p) == \A k \in 0 .. Len(p) :
                        (\A j \in k + 1 .. Len(p) : p[j] \in S) =>
                           BlocksAt(S, SubSeq(p, 1, k)) = BlocksAt(S, p)
           A == {p \in Word : Good(p)}
<1>1. <<>> \in A
  <2>1. <<>> \in Word /\ Len(<<>>) = 0
    BY EmptySeq DEF Word
  <2>2. SubSeq(<<>>, 1, 0) = <<>>
    BY SubSeqEmpty
  <2>3. \A k \in 0 .. Len(<<>>) : k = 0
    BY <2>1
  <2>4. QED  BY <2>1, <2>2, <2>3
<1>2. ASSUME NEW p \in Seq(Char), NEW c \in Char, p \in A PROVE Append(p, c) \in A
  <2>1. PICK q : q = Append(p, c)
    OBVIOUS
  <2>2. /\ p \in Word /\ q \in Word /\ Len(q) = Len(p) + 1 /\ Len(p) \in Nat
        /\ q[Len(p) + 1] = c
    BY <2>1, AppendProperties, LenProperties DEF Word
  <2>3. \A i \in 1 .. Len(p) : q[i] = p[i]
    BY <2>1, AppendProperties
  <2>4. ASSUME NEW k \in 0 .. Len(q), \A j \in k + 1 .. Len(q) : q[j] \in S
        PROVE  BlocksAt(S, SubSeq(q, 1, k)) = BlocksAt(S, q)
    <3>1. CASE k = Len(q)
      BY <2>2, <3>1, SubSeqFull DEF Word
    <3>2. CASE k # Len(q)
      <4>1. k \in Nat /\ k <= Len(p) /\ k <= Len(q)
        BY <2>2, <3>2
      <4>2. c \in S
        <5>1. Len(p) + 1 \in k + 1 .. Len(q)
          BY <2>2, <4>1
        <5>2. QED  BY <2>2, <2>4, <5>1
      <4>3. \A j \in k + 1 .. Len(p) : p[j] \in S
        <5>1. ASSUME NEW j \in k + 1 .. Len(p) PROVE p[j] \in S
          <6>1. j \in k + 1 .. Len(q) /\ j \in 1 .. Len(p)
            BY <2>2, <4>1
          <6>2. QED  BY <2>3, <2>4, <6>1
        <5>2. QED  BY <5>1
      <4>4. BlocksAt(S, SubSeq(p, 1, k)) = BlocksAt(S, p)
        <5>1. k \in 0 .. Len(p)
          BY <2>2, <4>1
        <5>2. QED  BY <1>2, <4>3, <5>1
      <4>5. SubSeq(q, 1, k) = SubSeq(p, 1, k)
        <5>1. \A i \in 1 .. k : q[i] = p[i]
          <6>1. \A i \in 1 .. k : i \in 1 .. Len(p)
            BY <2>2, <4>1
          <6>2. QED  BY <2>3, <6>1
        <5>2. QED  BY <2>2, <4>1, <5>1, SamePrefix DEF Word
      <4>6. BlocksAt(S, q) = BlocksAt(S, p)
        BY <2>1, <2>2, <4>2, BlocksSeparator
      <4>7. QED  BY <4>4, <4>5, <4>6
    <3>3. QED  BY <3>1, <3>2
  <2>5. QED  BY <2>1, <2>2, <2>4
<1> HIDE DEF A
<1>3. Seq(Char) \subseteq A
  BY <1>1, <1>2, SeqInduction
<1>4. QED
  BY <1>3 DEF A, Word

\* filepath.ToSlash, for the separators S.
SlashAt(S, p) == [i \in DOMAIN p |-> IF p[i] \in S THEN "/" ELSE p[i]]

LEMMA SlashType ==
  ASSUME NEW S, NEW p \in Word
  PROVE  /\ SlashAt(S, p) \in Word /\ Len(SlashAt(S, p)) = Len(p)
         /\ \A i \in 1 .. Len(p) : SlashAt(S, p)[i] = IF p[i] \in S THEN "/" ELSE p[i]
<1>1. Len(p) \in Nat /\ DOMAIN p = 1 .. Len(p) /\ \A i \in 1 .. Len(p) : p[i] \in Char
  BY LenProperties, ElementOfSeq DEF Word
<1>2. "/" \in Char
  BY DEF Char
<1>3. SlashAt(S, p) \in [1 .. Len(p) -> Char]
  BY <1>1, <1>2 DEF SlashAt
<1>4. QED
  BY <1>1, <1>3 DEF SlashAt, Word

\* Which separators divide a text does not matter.
LEMMA BlocksSlash ==
  ASSUME NEW S, "/" \in S
  PROVE  \A p \in Word : BlocksAt(S, SlashAt(S, p)) = BlocksAt(S, p)
<1> DEFINE A == {p \in Word : Split(S, SlashAt(S, p)) = Split(S, p)}
<1>1. <<>> \in A
  <2>1. <<>> \in Word /\ Len(<<>>) = 0
    BY EmptySeq DEF Word
  <2>2. SlashAt(S, <<>>) = <<>>
    <3>1. PICK s : s = SlashAt(S, <<>>)
      OBVIOUS
    <3>2. s \in Word /\ Len(s) = 0
      BY <2>1, <3>1, SlashType
    <3>3. QED  BY <3>1, <3>2, EmptySeq DEF Word
  <2>3. QED  BY <2>1, <2>2
<1>2. ASSUME NEW p \in Seq(Char), NEW c \in Char, p \in A PROVE Append(p, c) \in A
  <2>1. PICK q, s, d : q = Append(p, c) /\ s = SlashAt(S, p) /\ d = IF c \in S THEN "/" ELSE c
    OBVIOUS
  <2>2. /\ p \in Word /\ q \in Word /\ Len(q) = Len(p) + 1 /\ Len(p) \in Nat
        /\ q[Len(p) + 1] = c
    BY <2>1, AppendProperties, LenProperties DEF Word
  <2>3. \A i \in 1 .. Len(p) : q[i] = p[i]
    BY <2>1, AppendProperties
  <2>4. s \in Word /\ Len(s) = Len(p) /\ d \in Char
    BY <2>1, <2>2, SlashType DEF Char
  <2>5. \A i \in 1 .. Len(p) : s[i] = IF p[i] \in S THEN "/" ELSE p[i]
    BY <2>1, <2>2, SlashType
  <2>6. PICK t, u : t = SlashAt(S, q) /\ u = Append(s, d)
    OBVIOUS
  <2>7. t \in Word /\ Len(t) = Len(q) /\ u \in Word /\ Len(u) = Len(q) /\ u[Len(p) + 1] = d
    BY <2>2, <2>4, <2>6, SlashType, AppendProperties DEF Word
  <2>8. \A i \in 1 .. Len(q) : t[i] = IF q[i] \in S THEN "/" ELSE q[i]
    BY <2>2, <2>6, SlashType
  <2>9. \A i \in 1 .. Len(p) : u[i] = s[i]
    BY <2>4, <2>6, AppendProperties DEF Word
  <2>10. ASSUME NEW i \in 1 .. Len(q) PROVE t[i] = u[i]
    <3>1. CASE i \in 1 .. Len(p)
      BY <2>3, <2>5, <2>8, <2>9, <3>1
    <3>2. CASE i = Len(p) + 1
      BY <2>1, <2>2, <2>7, <2>8, <3>2
    <3>3. QED  BY <2>2, <3>1, <3>2
  <2>11. t = u
    BY <2>7, <2>10, SeqEqual DEF Word
  <2>12. /\ Split(S, u) = AddTo(S, Split(S, s), d)
         /\ Split(S, q) = AddTo(S, Split(S, p), c)
    BY <2>1, <2>2, <2>4, <2>6, SplitAppends
  <2>13. AddTo(S, Split(S, p), c) = AddTo(S, Split(S, p), d)
    BY <2>1 DEF AddTo
  <2>14. Split(S, s) = Split(S, p)
    BY <1>2, <2>1
  <2>15. QED  BY <2>1, <2>2, <2>6, <2>11, <2>12, <2>13, <2>14
<1> HIDE DEF A
<1>3. Seq(Char) \subseteq A
  BY <1>1, <1>2, SeqInduction
<1>4. QED
  BY <1>3 DEF A, Word, BlocksAt

-----------------------------------------------------------------------------
(* Package filepath, for the system o.                                     *)

Systems == {"unix", "windows"}

VolumeAt(o, p) ==
  IF o = "windows" /\ Len(p) >= 2 /\ p[2] = ":" THEN SubSeq(p, 1, 2) ELSE <<>>

RestAt(o, p) == SubSeq(p, Len(VolumeAt(o, p)) + 1, Len(p))

AbsAt(o, r) == r # <<>> /\ Head(r) \in Separators(o)

FileAt(o, p) ==
  [volume |-> VolumeAt(o, p), abs |-> AbsAt(o, RestAt(o, p)),
   elems  |-> Clean(AbsAt(o, RestAt(o, p)), BlocksAt(Separators(o), RestAt(o, p)))]

SeparatorsOf(o, p) == {i \in DOMAIN p : i > Len(VolumeAt(o, p)) /\ p[i] \in Separators(o)}

DirAt(o, p) ==
  FileAt(o, IF SeparatorsOf(o, p) = {} THEN VolumeAt(o, p)
            ELSE SubSeq(p, 1, Max(SeparatorsOf(o, p))))

LEMMA PathsOfSystem ==
  \A p : /\ VolumeName(p) = VolumeAt(os, p) /\ Rest(p) = RestAt(os, p)
         /\ Blocks(p) = BlocksAt(Separators(os), p)
         /\ File(p) = FileAt(os, p) /\ DirOf(p) = DirAt(os, p)
<1>1. \A p : VolumeName(p) = VolumeAt(os, p)
  BY DEF VolumeName, VolumeAt
<1>2. \A p : Rest(p) = RestAt(os, p)
  BY <1>1 DEF Rest, RestAt
<1>3. \A p : Blocks(p) = BlocksAt(Separators(os), p)
  BY DEF Blocks, BlocksAt
<1>4. \A p : File(p) = FileAt(os, p)
  BY <1>1, <1>2, <1>3 DEF File, FileAt, AbsAt, IsPathSeparator
<1>5. ASSUME NEW p PROVE DirOf(p) = DirAt(os, p)
  <2>1. {i \in DOMAIN p : i > Len(VolumeName(p)) /\ IsPathSeparator(p[i])} = SeparatorsOf(os, p)
    BY <1>1 DEF SeparatorsOf, IsPathSeparator
  <2>2. QED  BY <1>1, <1>4, <2>1 DEF DirOf, DirAt
<1>6. QED
  BY <1>1, <1>2, <1>3, <1>4, <1>5

LEMMA SeparatorsAre ==
  ASSUME NEW o \in Systems
  PROVE  /\ "/" \in Separators(o) /\ Separators(o) \subseteq Char
         /\ ":" \notin Separators(o) /\ "." \notin Separators(o)
         /\ o = "windows" => "\\" \in Separators(o)
         /\ o # "windows" => Separators(o) = {"/"}
BY DEF Systems, Separators, Char

\* What Text says of a path, as far as it is kept further down.
Plain(o) ==
  {p \in Word \ {<<>>} :
     o = "windows" /\ Len(p) >= 2 /\ p[2] = ":" => Len(p) > 2 /\ p[1] \notin Separators(o)}

LEMMA TextIsPlain ==
  ASSUME NEW o \in Systems
  PROVE  Text(o) \subseteq Plain(o)
<1>1. Seq(STRING) \subseteq Word
  BY SeqMonotonic DEF Word, Char
<1>2. QED
  BY <1>1 DEF Text, Plain, Separators

LEMMA SuffixOf ==
  ASSUME NEW E, NEW x \in Seq(E), NEW k \in Nat, k <= Len(x)
  PROVE  /\ SubSeq(x, k + 1, Len(x)) \in Seq(E)
         /\ Len(SubSeq(x, k + 1, Len(x))) = Len(x) - k
         /\ \A i \in 1 .. Len(x) - k : SubSeq(x, k + 1, Len(x))[i] = x[i + k]
<1>1. PICK n \in Nat : n = Len(x)
  BY LenProperties
<1>2. \A i \in k + 1 .. n : x[i] \in E
  <2>1. \A i \in k + 1 .. n : i \in 1 .. Len(x)
    BY <1>1
  <2>2. QED  BY <2>1, ElementOfSeq
<1>3. PICK y, m : y = SubSeq(x, m, n) /\ m = k + 1
  OBVIOUS
<1>4. y \in Seq(E) /\ Len(y) = (IF m <= n THEN n - m + 1 ELSE 0)
  BY <1>1, <1>2, <1>3, SubSeqProperties
<1>5. \A i \in 1 .. n - m + 1 : y[i] = x[m + i - 1]
  BY <1>1, <1>2, <1>3, SubSeqProperties
<1>6. Len(y) = n - k
  BY <1>1, <1>3, <1>4
<1>7. \A i \in 1 .. n - k : i \in 1 .. n - m + 1 /\ m + i - 1 = i + k
  BY <1>1, <1>3
<1>8. \A i \in 1 .. n - k : y[i] = x[i + k]
  BY <1>5, <1>7
<1>9. QED
  BY <1>1, <1>3, <1>4, <1>6, <1>8

\* A path is its volume and the rest.
VolumeParts(p, v, r) ==
  /\ v \in Word /\ Len(v) \in {0, 2} /\ Len(v) < Len(p) /\ Len(p) \in Nat
  /\ r \in Word /\ r # <<>> /\ Len(r) = Len(p) - Len(v)
  /\ \A i \in 1 .. Len(p) - Len(v) : r[i] = p[i + Len(v)]

LEMMA VolumeRest ==
  ASSUME NEW o \in Systems, NEW p \in Plain(o)
  PROVE  VolumeParts(p, VolumeAt(o, p), RestAt(o, p))
<1>1. p \in Word /\ Len(p) \in Nat \ {0}
  BY EmptySeq DEF Plain, Word
<1>2. PICK v : v = VolumeAt(o, p)
  OBVIOUS
<1>3. v \in Word /\ Len(v) \in {0, 2} /\ Len(v) < Len(p)
  <2>1. CASE o = "windows" /\ Len(p) >= 2 /\ p[2] = ":"
    <3>1. v = SubSeq(p, 1, 2) /\ Len(p) > 2
      BY <1>2, <2>1 DEF VolumeAt, Plain
    <3>2. SubSeq(p, 1, 2) \in Seq(Char) /\ Len(SubSeq(p, 1, 2)) = 2
      BY <1>1, <2>1, PrefixOf DEF Word
    <3>3. QED  BY <3>1, <3>2 DEF Word
  <2>2. CASE ~(o = "windows" /\ Len(p) >= 2 /\ p[2] = ":")
    <3>1. v = <<>>
      BY <1>2, <2>2 DEF VolumeAt
    <3>2. QED  BY <1>1, <3>1, EmptySeq DEF Word
  <2>3. QED  BY <2>1, <2>2
<1>4. PICK r, k : r = SubSeq(p, k + 1, Len(p)) /\ k = Len(v)
  OBVIOUS
<1>5. k \in Nat /\ k <= Len(p)
  BY <1>1, <1>3, <1>4
<1>6. /\ r \in Seq(Char) /\ Len(r) = Len(p) - k
      /\ \A i \in 1 .. Len(p) - k : r[i] = p[i + k]
  BY <1>1, <1>4, <1>5, SuffixOf DEF Word
<1>7. r # <<>>
  BY <1>1, <1>3, <1>4, <1>6, EmptySeq
<1>8. r = RestAt(o, p)
  BY <1>2, <1>4 DEF RestAt
<1>9. QED
  BY <1>1, <1>2, <1>3, <1>4, <1>6, <1>7, <1>8 DEF VolumeParts, Word

\* What is appended to a path belongs to the rest.
LEMMA VolumeExtend ==
  ASSUME NEW o \in Systems, NEW p \in Plain(o), NEW t \in Word, t # <<>>,
         o = "windows" => t[1] # ":"
  PROVE  /\ p \o t \in Plain(o)
         /\ VolumeAt(o, p \o t) = VolumeAt(o, p)
         /\ RestAt(o, p \o t) = RestAt(o, p) \o t
<1>1. p \in Word /\ Len(p) \in Nat \ {0} /\ Len(t) \in Nat \ {0}
  BY EmptySeq DEF Plain, Word
<1>2. PICK q : q = p \o t
  OBVIOUS
<1>3. q \in Word /\ Len(q) = Len(p) + Len(t)
  BY <1>1, <1>2, ConcatProperties DEF Word
<1>4. \A i \in 1 .. Len(p) + Len(t) : q[i] = IF i <= Len(p) THEN p[i] ELSE t[i - Len(p)]
  BY <1>1, <1>2, ConcatProperties DEF Word
<1>5. q[1] = p[1] /\ (Len(p) >= 2 => q[2] = p[2]) /\ (Len(p) < 2 => q[2] = t[1])
  <2>1. 1 \in 1 .. Len(p) + Len(t) /\ 2 \in 1 .. Len(p) + Len(t)
    BY <1>1
  <2>2. Len(p) < 2 => 2 - Len(p) = 1
    BY <1>1
  <2>3. QED  BY <1>1, <1>4, <2>1, <2>2
<1>6. q \in Plain(o)
  <2>1. q # <<>>
    BY <1>1, <1>3, EmptySeq DEF Word
  <2>2. o = "windows" /\ Len(q) >= 2 /\ q[2] = ":" => Len(q) > 2 /\ q[1] \notin Separators(o)
    BY <1>1, <1>3, <1>5 DEF Plain
  <2>3. QED  BY <1>3, <2>1, <2>2 DEF Plain
<1>7. VolumeAt(o, q) = VolumeAt(o, p)
  <2>1. o = "windows" => (Len(q) >= 2 /\ q[2] = ":" <=> Len(p) >= 2 /\ p[2] = ":")
    BY <1>1, <1>3, <1>5
  <2>2. Len(p) >= 2 => SubSeq(q, 1, 2) = SubSeq(p, 1, 2)
    BY <1>1, <1>2, WholePrefix DEF Word
  <2>3. QED  BY <2>1, <2>2 DEF VolumeAt
<1>8. RestAt(o, q) = RestAt(o, p) \o t
  <2>1. PICK v, r, s, k : v = VolumeAt(o, p) /\ r = RestAt(o, p) /\ s = RestAt(o, q) /\ k = Len(v)
    OBVIOUS
  <2>2. VolumeParts(p, v, r)
    BY <2>1, VolumeRest
  <2>3. VolumeParts(q, v, s)
    BY <1>6, <1>7, <2>1, VolumeRest
  <2>4. /\ k \in Nat /\ k < Len(p) /\ r \in Word /\ Len(r) = Len(p) - k
        /\ s \in Word /\ Len(s) = Len(q) - k
        /\ \A i \in 1 .. Len(p) - k : r[i] = p[i + k]
        /\ \A i \in 1 .. Len(q) - k : s[i] = q[i + k]
    BY <2>1, <2>2, <2>3 DEF VolumeParts
  <2>5. PICK u : u = r \o t
    OBVIOUS
  <2>6. u \in Word /\ Len(u) = Len(r) + Len(t)
    BY <2>4, <2>5, ConcatProperties DEF Word
  <2>7. \A i \in 1 .. Len(r) + Len(t) : u[i] = IF i <= Len(r) THEN r[i] ELSE t[i - Len(r)]
    BY <2>4, <2>5, ConcatProperties DEF Word
  <2>8. Len(s) = Len(u)
    BY <1>1, <1>3, <2>4, <2>6
  <2>9. ASSUME NEW i \in 1 .. Len(u) PROVE s[i] = u[i]
    <3>1. /\ i \in 1 .. Len(q) - k /\ i + k \in 1 .. Len(p) + Len(t) /\ i \in 1 .. Len(r) + Len(t)
          /\ (i <= Len(r) <=> i + k <= Len(p)) /\ (i + k) - Len(p) = i - Len(r)
          /\ (i <= Len(r) => i \in 1 .. Len(p) - k)
      BY <1>1, <1>3, <2>4, <2>6
    <3>2. s[i] = q[i + k]
      BY <2>4, <3>1
    <3>3. CASE i <= Len(r)
      BY <1>4, <2>4, <2>7, <3>1, <3>2, <3>3
    <3>4. CASE ~(i <= Len(r))
      BY <1>4, <2>7, <3>1, <3>2, <3>4
    <3>5. QED  BY <3>3, <3>4
  <2>10. s = u
    BY <2>4, <2>6, <2>8, <2>9, SeqEqual DEF Word
  <2>11. QED  BY <2>1, <2>5, <2>10
<1>9. QED
  BY <1>2, <1>6, <1>7, <1>8

-----------------------------------------------------------------------------
(* The root, as Walk prepares it, and an entry further down.               *)

LEMMA SlashNamesSame ==
  ASSUME NEW o \in Systems, NEW p \in Plain(o)
  PROVE  /\ SlashAt(Separators(o), p) \in Plain(o)
         /\ FileAt(o, SlashAt(Separators(o), p)) = FileAt(o, p)
         /\ o = "windows" => "\\" \notin Range(SlashAt(Separators(o), p))
<1>1. PICK S, q : S = Separators(o) /\ q = SlashAt(S, p)
  OBVIOUS
<1>2. /\ "/" \in S /\ ":" \notin S
      /\ o = "windows" => "\\" \in S
      /\ o # "windows" => S = {"/"}
  BY <1>1, SeparatorsAre
<1>3. p \in Word /\ p # <<>> /\ Len(p) \in Nat \ {0}
  BY EmptySeq DEF Plain, Word
<1>4. /\ q \in Word /\ Len(q) = Len(p)
      /\ \A i \in 1 .. Len(p) : q[i] = IF p[i] \in S THEN "/" ELSE p[i]
  BY <1>1, <1>3, SlashType
<1>5. o = "windows" => "\\" \notin Range(q)
  <2>1. DOMAIN q = 1 .. Len(p)
    BY <1>4, LenProperties DEF Word
  <2>2. o = "windows" => \A i \in DOMAIN q : q[i] # "\\"
    BY <1>2, <1>4, <2>1
  <2>3. QED  BY <2>2 DEF Range
<1>6. CASE o # "windows"
  <2>1. \A i \in 1 .. Len(q) : q[i] = p[i]
    BY <1>2, <1>4, <1>6
  <2>2. q = p
    BY <1>3, <1>4, <2>1, SeqEqual DEF Word
  <2>3. QED  BY <1>1, <1>5, <2>2
<1>7. CASE o = "windows"
  <2>1. 1 \in 1 .. Len(p) /\ (Len(p) >= 2 => 2 \in 1 .. Len(p))
    BY <1>3
  <2>2. Len(p) >= 2 => (q[2] = ":" <=> p[2] = ":")
    BY <1>2, <1>4, <2>1
  <2>3. p[1] \notin S => q[1] = p[1]
    BY <1>4, <2>1
  <2>4. q \in Plain(o)
    <3>1. q # <<>>
      BY <1>3, <1>4, EmptySeq DEF Word
    <3>2. Len(q) >= 2 /\ q[2] = ":" => Len(q) > 2 /\ q[1] \notin S
      BY <1>1, <1>4, <1>7, <2>2, <2>3 DEF Plain
    <3>3. QED  BY <1>1, <1>4, <3>1, <3>2 DEF Plain
  <2>5. PICK v : v = VolumeAt(o, p)
    OBVIOUS
  <2>6. VolumeAt(o, q) = v
    <3>1. Len(p) >= 2 /\ p[2] = ":" => SubSeq(q, 1, 2) = SubSeq(p, 1, 2)
      <4>1. SUFFICES ASSUME Len(p) >= 2, p[2] = ":" PROVE SubSeq(q, 1, 2) = SubSeq(p, 1, 2)
        OBVIOUS
      <4>2. p[1] \notin S
        BY <1>1, <1>7, <4>1 DEF Plain
      <4>3. \A i \in 1 .. 2 : q[i] = p[i]
        BY <2>2, <2>3, <4>1, <4>2
      <4>4. QED  BY <1>3, <1>4, <4>1, <4>3, SamePrefix DEF Word
    <3>2. QED  BY <1>4, <2>2, <2>5, <3>1 DEF VolumeAt
  <2>7. PICK r, s : r = RestAt(o, p) /\ s = RestAt(o, q)
    OBVIOUS
  <2>8. VolumeParts(p, v, r)
    BY <2>5, <2>7, VolumeRest
  <2>9. VolumeParts(q, v, s)
    BY <2>4, <2>6, <2>7, VolumeRest
  <2>10. PICK k \in Nat : k = Len(v) /\ k < Len(p)
    BY <1>3, <2>8 DEF VolumeParts
  <2>11. /\ r \in Word /\ r # <<>> /\ Len(r) = Len(p) - k
         /\ \A i \in 1 .. Len(p) - k : r[i] = p[i + k]
    BY <2>8, <2>10 DEF VolumeParts
  <2>12. /\ s \in Word /\ s # <<>> /\ Len(s) = Len(p) - k
         /\ \A i \in 1 .. Len(p) - k : s[i] = q[i + k]
    BY <1>4, <2>9, <2>10 DEF VolumeParts
  <2>13. PICK t : t = SlashAt(S, r)
    OBVIOUS
  <2>14. /\ t \in Word /\ Len(t) = Len(r)
         /\ \A i \in 1 .. Len(r) : t[i] = IF r[i] \in S THEN "/" ELSE r[i]
    <3>1. r \in Word
      BY <2>11
    <3>2. QED  BY <2>13, <3>1, SlashType
  <2>15. ASSUME NEW i \in 1 .. Len(s) PROVE s[i] = t[i]
    <3>1. i + k \in 1 .. Len(p) /\ i \in 1 .. Len(p) - k /\ i \in 1 .. Len(r)
      BY <1>3, <2>10, <2>11, <2>12
    <3>2. s[i] = q[i + k] /\ r[i] = p[i + k]
      BY <2>11, <2>12, <3>1
    <3>3. QED  BY <1>4, <2>14, <3>1, <3>2
  <2>16. s = t
    BY <2>11, <2>12, <2>14, <2>15, SeqEqual DEF Word
  <2>17. BlocksAt(S, s) = BlocksAt(S, r)
    BY <1>2, <2>11, <2>13, <2>16, BlocksSlash
  <2>18. AbsAt(o, s) = AbsAt(o, r)
    <3>1. Head(s) = s[1] /\ Head(r) = r[1] /\ 1 \in 1 .. Len(r)
      BY <1>3, <2>10, <2>11, <2>12
    <3>2. s[1] \in S <=> r[1] \in S
      BY <1>2, <2>14, <2>16, <3>1
    <3>3. QED  BY <1>1, <2>11, <2>12, <3>1, <3>2 DEF AbsAt
  <2>19. FileAt(o, q) = FileAt(o, p)
    BY <1>1, <2>5, <2>6, <2>7, <2>17, <2>18 DEF FileAt
  <2>20. QED  BY <1>1, <1>5, <2>4, <2>19
<1>8. QED
  BY <1>6, <1>7

LEMMA TrimmedNamesSame ==
  ASSUME NEW o \in Systems, o # "windows", NEW p \in Plain(o), NEW k \in 1 .. Len(p),
         \A j \in k + 1 .. Len(p) : p[j] \in Separators(o)
  PROVE  SubSeq(p, 1, k) \in Plain(o) /\ FileAt(o, SubSeq(p, 1, k)) = FileAt(o, p)
<1>1. p \in Word /\ p # <<>> /\ Len(p) \in Nat \ {0} /\ k \in Nat \ {0} /\ k <= Len(p)
  BY EmptySeq DEF Plain, Word
<1>2. PICK q : q = SubSeq(p, 1, k)
  OBVIOUS
<1>3. q \in Word /\ Len(q) = k /\ \A i \in 1 .. k : q[i] = p[i]
  BY <1>1, <1>2, PrefixOf DEF Word
<1>4. q # <<>>
  BY <1>1, <1>3, EmptySeq DEF Word
<1>5. ASSUME NEW x \in Word PROVE VolumeAt(o, x) = <<>> /\ RestAt(o, x) = x
  <2>1. VolumeAt(o, x) = <<>> /\ Len(<<>>) + 1 = 1
    BY EmptySeq DEF VolumeAt
  <2>2. SubSeq(x, 1, Len(x)) = x
    BY SubSeqFull DEF Word
  <2>3. QED  BY <2>1, <2>2 DEF RestAt
<1>6. BlocksAt(Separators(o), q) = BlocksAt(Separators(o), p)
  <2>1. k \in 0 .. Len(p)
    BY <1>1
  <2>2. QED  BY <1>1, <1>2, <2>1, TrailingSeparators
<1>7. AbsAt(o, q) = AbsAt(o, p)
  <2>1. Head(q) = q[1] /\ Head(p) = p[1] /\ 1 \in 1 .. k
    BY <1>1, <1>3, <1>4
  <2>2. QED  BY <1>1, <1>3, <1>4, <2>1 DEF AbsAt
<1>8. FileAt(o, q) = FileAt(o, p)
  BY <1>1, <1>3, <1>5, <1>6, <1>7 DEF FileAt
<1>9. QED
  BY <1>2, <1>3, <1>4, <1>8 DEF Plain

\* Walk prepares the root, and it still names the same file.
LEMMA StartNamesRoot ==
  ASSUME os \in Systems, NEW p \in Plain(os)
  PROVE  LET q == CleanRootPath(IF toSlash THEN ToSlash(p) ELSE p)
         IN  /\ q \in Plain(os) /\ FileAt(os, q) = FileAt(os, p)
             /\ os = "windows" /\ toSlash => "\\" \notin Range(q)
<1>1. PICK t : t = IF toSlash THEN ToSlash(p) ELSE p
  OBVIOUS
<1>2. ToSlash(p) = SlashAt(Separators(os), p)
  BY DEF ToSlash, SlashAt, IsPathSeparator
<1>3. t \in Plain(os) /\ FileAt(os, t) = FileAt(os, p)
  BY <1>1, <1>2, SlashNamesSame
<1>4. os = "windows" /\ toSlash => "\\" \notin Range(t)
  BY <1>1, <1>2, SlashNamesSame
<1>5. CASE os = "windows"
  <2>1. CleanRootPath(t) = t
    BY <1>5 DEF CleanRootPath
  <2>2. QED  BY <1>1, <1>3, <1>4, <2>1
<1>6. CASE os # "windows"
  <2>1. t \in Word /\ Len(t) \in Nat \ {0} /\ DOMAIN t = 1 .. Len(t)
    BY <1>3, EmptySeq, LenProperties DEF Plain, Word
  <2>2. PICK text : text = {i \in DOMAIN t : ~IsPathSeparator(t[i])}
    OBVIOUS
  <2>3. CleanRootPath(t) = IF text = {} THEN SubSeq(t, 1, 1) ELSE SubSeq(t, 1, Max(text))
    BY <1>6, <2>2 DEF CleanRootPath, VolumeName
  <2>4. PICK n \in Nat : n = Len(t) /\ n # 0
    BY <2>1
  <2>5. text \in SUBSET (1 .. n) /\ \A i \in 1 .. n : i \notin text => t[i] \in Separators(os)
    BY <2>1, <2>2, <2>4 DEF IsPathSeparator
  <2>6. PICK k \in 1 .. n : /\ CleanRootPath(t) = SubSeq(t, 1, k)
                            /\ \A j \in k + 1 .. n : j \notin text
    <3>1. CASE text = {}
      <4>1. 1 \in 1 .. n
        BY <2>4
      <4>2. QED  BY <2>3, <3>1, <4>1
    <3>2. CASE text # {}
      <4>1. Max(text) \in 1 .. n /\ \A i \in text : i <= Max(text)
        BY <2>5, <3>2, MaxFound
      <4>2. PICK m \in 1 .. n : m = Max(text)
        BY <4>1
      <4>3. \A j \in m + 1 .. n : j \notin text
        BY <4>1, <4>2
      <4>4. QED  BY <2>3, <3>2, <4>2, <4>3
    <3>3. QED  BY <3>1, <3>2
  <2>7. \A j \in k + 1 .. Len(t) : t[j] \in Separators(os)
    BY <2>4, <2>5, <2>6
  <2>8. PICK q : q = SubSeq(t, 1, k)
    OBVIOUS
  <2>9. q \in Plain(os) /\ FileAt(os, q) = FileAt(os, t)
    BY <1>3, <1>6, <2>4, <2>7, <2>8, TrimmedNamesSame
  <2>10. QED  BY <1>1, <1>3, <1>6, <2>6, <2>8, <2>9
<1>7. QED
  BY <1>5, <1>6

\* The path of a directory, as its entries continue it.
LEMMA SeparatorNamesSame ==
  ASSUME NEW o \in Systems, NEW p \in Plain(o), NEW c \in Separators(o)
  PROVE  Append(p, c) \in Plain(o) /\ FileAt(o, Append(p, c)) = FileAt(o, p)
<1>1. PICK t : t = <<c>>
  OBVIOUS
<1>2. c \in Char /\ c # ":"
  BY SeparatorsAre
<1>3. t \in Word /\ t # <<>> /\ t[1] = c
  <2>1. t = Append(<<>>, c)
    BY <1>1
  <2>2. QED  BY <1>1, <1>2, <2>1, EmptySeq, AppendProperties DEF Word
<1>4. PICK r, q : r = RestAt(o, p) /\ q = Append(p, c)
  OBVIOUS
<1>5. p \in Word /\ r \in Word /\ r # <<>>
  BY <1>4, VolumeRest DEF VolumeParts, Plain
<1>6. q = p \o t /\ r \o t = Append(r, c)
  BY <1>1, <1>2, <1>4, <1>5, AppendIsConcat DEF Word
<1>7. q \in Plain(o) /\ VolumeAt(o, q) = VolumeAt(o, p) /\ RestAt(o, q) = Append(r, c)
  BY <1>2, <1>3, <1>4, <1>6, VolumeExtend
<1>8. BlocksAt(Separators(o), Append(r, c)) = BlocksAt(Separators(o), r)
  BY <1>2, <1>5, BlocksSeparator
<1>9. AbsAt(o, Append(r, c)) = AbsAt(o, r)
  <2>1. Head(Append(r, c)) = Head(r)
    BY <1>5, HeadTailAppend DEF Word
  <2>2. Append(r, c) # <<>>
    BY <1>2, <1>5, AppendProperties DEF Word
  <2>3. QED  BY <1>5, <2>1, <2>2 DEF AbsAt
<1>10. FileAt(o, q) = FileAt(o, p)
  BY <1>4, <1>7, <1>8, <1>9 DEF FileAt
<1>11. QED
  BY <1>4, <1>7, <1>10

LEMMA SeqNarrow ==
  ASSUME NEW E, NEW D, NEW x \in Seq(E), \A i \in DOMAIN x : x[i] \in D
  PROVE  x \in Seq(D)
<1>1. Len(x) \in Nat /\ x \in [1 .. Len(x) -> E] /\ DOMAIN x = 1 .. Len(x)
  BY LenProperties
<1>2. x \in [1 .. Len(x) -> D]
  BY <1>1
<1>3. QED
  BY <1>1, <1>2

\* A file name is one element of a path.
LEMMA NameIsElement ==
  ASSUME NEW o \in Systems, NEW n \in Name(o)
  PROVE  /\ n \in Elements(Separators(o)) /\ n \in Word /\ n # <<>>
         /\ n # Here /\ n # Up
         /\ o = "windows" => n[1] # ":"
         /\ \A i \in DOMAIN n : n[i] \notin Separators(o)
<1>1. n \in Seq(STRING) /\ n # <<>> /\ n # Here /\ n # Up
  BY DEF Name, Here, Up
<1>2. \A i \in DOMAIN n : n[i] # "/" /\ (o = "windows" => n[i] \notin {"\\", ":", "?"})
  BY DEF Name
<1>3. n \in Word
  BY <1>1, SeqMonotonic DEF Word, Char
<1>4. DOMAIN n = 1 .. Len(n) /\ Len(n) \in Nat \ {0} /\ \A i \in 1 .. Len(n) : n[i] \in Char
  BY <1>1, <1>3, EmptySeq, LenProperties, ElementOfSeq DEF Word
<1>5. \A i \in DOMAIN n : n[i] \notin Separators(o)
  BY <1>2 DEF Systems, Separators
<1>6. n \in Seq(Char \ Separators(o))
  <2>1. \A i \in DOMAIN n : n[i] \in Char \ Separators(o)
    BY <1>4, <1>5
  <2>2. QED  BY <1>3, <2>1, SeqNarrow DEF Word
<1>7. o = "windows" => n[1] # ":"
  BY <1>2, <1>4
<1>8. QED
  BY <1>1, <1>3, <1>5, <1>6, <1>7 DEF Elements

\* The path of an entry names what its directory has under that name, and Dir leads back.
LEMMA EntryNamed ==
  ASSUME NEW o \in Systems, NEW q \in Plain(o), Last(q) \in Separators(o), NEW n \in Name(o)
  PROVE  /\ q \o n \in Plain(o)
         /\ FileAt(o, q \o n) = [FileAt(o, q) EXCEPT !.elems = Append(@, n)]
         /\ DirAt(o, q \o n) = FileAt(o, q)
<1>1. PICK S, v, r, p : S = Separators(o) /\ v = VolumeAt(o, q) /\ r = RestAt(o, q) /\ p = q \o n
  OBVIOUS
<1>2. /\ n \in Elements(S) /\ n \in Word /\ n # <<>> /\ n # Here /\ n # Up
      /\ o = "windows" => n[1] # ":"
      /\ \A i \in DOMAIN n : n[i] \notin S
  BY <1>1, NameIsElement
<1>3. p \in Plain(o) /\ VolumeAt(o, p) = v /\ RestAt(o, p) = r \o n
  BY <1>1, <1>2, VolumeExtend
<1>4. VolumeParts(q, v, r)
  BY <1>1, VolumeRest
<1>5. /\ q \in Word /\ q # <<>> /\ Len(q) \in Nat \ {0} /\ Len(n) \in Nat \ {0}
      /\ DOMAIN n = 1 .. Len(n)
  BY <1>2, EmptySeq, LenProperties DEF Plain, Word
<1>6. PICK u \in Word, c \in Char : r = Append(u, c)
  BY <1>4, SequenceEmptyOrAppend DEF VolumeParts, Word
<1>7. c \in S
  <2>1. Len(r) = Len(u) + 1 /\ r[Len(u) + 1] = c /\ Len(u) \in Nat
    BY <1>6, AppendProperties, LenProperties DEF Word
  <2>2. Len(r) \in 1 .. Len(q) - Len(v) /\ Len(r) + Len(v) = Len(q)
    BY <1>4, <1>5, <2>1 DEF VolumeParts
  <2>3. r[Len(r)] = q[Len(r) + Len(v)]
    BY <1>4, <2>2 DEF VolumeParts
  <2>4. QED  BY <1>1, <2>1, <2>2, <2>3 DEF Last
<1>8. PICK bs : bs = BlocksAt(S, u)
  OBVIOUS
<1>9. bs \in Words /\ BlocksAt(S, r) = bs /\ BlocksAt(S, r \o n) = Append(bs, n)
  <2>1. bs \in Words
    BY <1>8, BlocksType
  <2>2. BlocksAt(S, r) = bs
    BY <1>6, <1>7, <1>8, BlocksSeparator
  <2>3. BlocksAt(S, r \o n) = bs \o BlocksAt(S, n)
    BY <1>2, <1>6, <1>7, <1>8, BlocksConcat
  <2>4. BlocksAt(S, n) = <<n>>
    BY <1>2, BlocksOfElement
  <2>5. Append(bs, n) = bs \o <<n>>
    BY <1>2, <2>1, AppendIsConcat DEF Words
  <2>6. QED  BY <2>1, <2>2, <2>3, <2>4, <2>5
<1>10. AbsAt(o, r \o n) = AbsAt(o, r)
  <2>1. r \in Word /\ r # <<>> /\ Len(r) \in Nat \ {0}
    BY <1>4, EmptySeq DEF VolumeParts, Word
  <2>2. r \o n \in Word /\ r \o n # <<>>
    BY <1>2, <2>1, ConcatProperties, ConcatEqualIffEmpty DEF Word
  <2>3. (r \o n)[1] = r[1]
    <3>1. 1 \in 1 .. Len(r) + Len(n) /\ 1 <= Len(r)
      BY <1>5, <2>1
    <3>2. QED  BY <1>2, <2>1, <3>1, ConcatProperties DEF Word
  <2>4. Head(r \o n) = (r \o n)[1] /\ Head(r) = r[1]
    BY <2>1, <2>2
  <2>5. QED  BY <2>1, <2>2, <2>3, <2>4 DEF AbsAt
<1>11. \A abs : Clean(abs, Append(bs, n)) = Append(Clean(abs, bs), n)
  BY <1>2, <1>9, CleanAppends DEF Step
<1>12. FileAt(o, p) = [FileAt(o, q) EXCEPT !.elems = Append(@, n)]
  <2>1. PICK abs, es : abs = AbsAt(o, r) /\ es = Clean(abs, bs)
    OBVIOUS
  <2>2. FileAt(o, q) = [volume |-> v, abs |-> abs, elems |-> es]
    BY <1>1, <1>9, <2>1 DEF FileAt
  <2>3. FileAt(o, p) = [volume |-> v, abs |-> abs, elems |-> Append(es, n)]
    BY <1>1, <1>3, <1>9, <1>10, <1>11, <2>1 DEF FileAt
  <2>4. PICK f : f = FileAt(o, q)
    OBVIOUS
  <2>5. f = [volume |-> v, abs |-> abs, elems |-> es]
    BY <2>2, <2>4
  <2>6. [f EXCEPT !.elems = Append(@, n)] = [volume |-> v, abs |-> abs, elems |-> Append(es, n)]
    BY <2>5
  <2>7. QED  BY <2>3, <2>4, <2>6
<1>13. DirAt(o, p) = FileAt(o, q)
  <2>1. PICK X : X = SeparatorsOf(o, p)
    OBVIOUS
  <2>2. p \in Word /\ Len(p) = Len(q) + Len(n) /\ DOMAIN p = 1 .. Len(p)
    BY <1>1, <1>2, <1>5, ConcatProperties, LenProperties DEF Word
  <2>3. \A i \in 1 .. Len(q) + Len(n) : p[i] = IF i <= Len(q) THEN q[i] ELSE n[i - Len(q)]
    BY <1>1, <1>2, <1>5, ConcatProperties DEF Word
  <2>4. Len(v) < Len(q) /\ Len(v) \in Nat
    BY <1>4 DEF VolumeParts
  <2>5. Len(q) \in X
    <3>1. Len(q) \in 1 .. Len(q) + Len(n)
      BY <1>5
    <3>2. p[Len(q)] = q[Len(q)]
      BY <1>5, <2>3, <3>1
    <3>3. QED  BY <1>1, <1>3, <2>1, <2>2, <2>4, <3>1, <3>2 DEF SeparatorsOf, Last
  <2>6. \A i \in X : i \in 1 .. Len(q)
    <3>1. ASSUME NEW i \in X, ~(i <= Len(q)) PROVE FALSE
      <4>1. i \in 1 .. Len(q) + Len(n) /\ p[i] \in S
        BY <1>1, <2>1, <2>2 DEF SeparatorsOf
      <4>2. i - Len(q) \in DOMAIN n
        BY <1>5, <3>1, <4>1
      <4>3. p[i] = n[i - Len(q)]
        BY <2>3, <3>1, <4>1
      <4>4. QED  BY <1>2, <4>1, <4>2, <4>3
    <3>2. X \subseteq 1 .. Len(q) + Len(n)
      BY <2>1, <2>2 DEF SeparatorsOf
    <3>3. QED  BY <1>5, <3>1, <3>2
  <2>7. X # {} /\ Max(X) = Len(q)
    <3>1. X \in SUBSET (1 .. Len(q)) /\ X # {} /\ Len(q) \in Nat
      BY <1>5, <2>5, <2>6
    <3>2. Max(X) \in X /\ \A i \in X : i <= Max(X)
      BY <3>1, MaxFound
    <3>3. PICK m \in 1 .. Len(q) : m = Max(X)
      BY <2>6, <3>2
    <3>4. Len(q) <= m
      BY <2>5, <3>2, <3>3
    <3>5. QED  BY <1>5, <3>1, <3>3, <3>4
  <2>8. SubSeq(p, 1, Len(q)) = q
    BY <1>1, <1>2, <1>5, WholePrefix DEF Word
  <2>9. QED  BY <2>1, <2>7, <2>8 DEF DirAt
<1>14. QED
  BY <1>1, <1>3, <1>12, <1>13

\* onDirEnt goes on to an entry of the directory at p.
LEMMA JoinNamesEntry ==
  ASSUME os \in Systems, NEW p \in Plain(os), NEW n \in Name(os)
  PROVE  /\ JoinPaths(p, n) \in Plain(os)
         /\ FileAt(os, JoinPaths(p, n)) = [FileAt(os, p) EXCEPT !.elems = Append(@, n)]
         /\ DirAt(os, JoinPaths(p, n)) = FileAt(os, p)
<1>1. PICK c : c = IF toSlash THEN "/" ELSE PathSeparator
  OBVIOUS
<1>2. c \in Separators(os)
  BY <1>1 DEF PathSeparator, Separators, Systems
<1>3. PICK q : q = IF p # <<>> /\ IsPathSeparator(Last(p)) THEN p ELSE Append(p, c)
  OBVIOUS
<1>4. JoinPaths(p, n) = q \o n
  BY <1>1, <1>3 DEF JoinPaths
<1>5. q \in Plain(os) /\ FileAt(os, q) = FileAt(os, p) /\ Last(q) \in Separators(os)
  <2>1. CASE q = p /\ Last(p) \in Separators(os)
    BY <2>1
  <2>2. CASE q = Append(p, c)
    <3>1. p \in Word /\ c \in Char
      BY <1>2, SeparatorsAre DEF Plain
    <3>2. Last(q) = c
      BY <2>2, <3>1, FrontLastAppend DEF Word
    <3>3. QED  BY <1>2, <2>2, <3>2, SeparatorNamesSame
  <2>3. QED  BY <1>3, <2>1, <2>2 DEF IsPathSeparator
<1>6. QED
  BY <1>4, <1>5, EntryNamed

-----------------------------------------------------------------------------
(* The walk.                                                               *)

LEMMA FileType ==
  ASSUME NEW o \in Systems, NEW p \in Plain(o)
  PROVE  /\ FileAt(o, p) = [volume |-> FileAt(o, p).volume, abs |-> FileAt(o, p).abs,
                            elems |-> FileAt(o, p).elems]
         /\ FileAt(o, p).elems \in Words
<1>1. RestAt(o, p) \in Word
  BY VolumeRest DEF VolumeParts
<1>2. BlocksAt(Separators(o), RestAt(o, p)) \in Words
  BY <1>1, BlocksType
<1>3. <<>> \in Word
  BY EmptySeq DEF Word
<1>4. \A abs : Clean(abs, BlocksAt(Separators(o), RestAt(o, p))) \in Words
  BY <1>2, <1>3, CleanAppends
<1>5. QED
  BY <1>4 DEF FileAt

LEMMA OtherElements ==
  ASSUME NEW f, NEW v, NEW a, NEW es, NEW fs, f = [volume |-> v, abs |-> a, elems |-> es]
  PROVE  f.elems = es /\ [f EXCEPT !.elems = fs] = [volume |-> v, abs |-> a, elems |-> fs]
OBVIOUS

\* What is at ns below the file r names.
Rooted(o, r, ns) == [FileAt(o, r) EXCEPT !.elems = @ \o ns]

LEMMA RootedIs ==
  ASSUME NEW o \in Systems, NEW r \in Plain(o), NEW ns \in Words, NEW n \in Word
  PROVE  /\ Rooted(o, r, <<>>) = FileAt(o, r)
         /\ Rooted(o, r, Append(ns, n)) = [Rooted(o, r, ns) EXCEPT !.elems = Append(@, n)]
<1>1. PICK f : f = FileAt(o, r)
  OBVIOUS
<1>2. PICK v, a, es : f = [volume |-> v, abs |-> a, elems |-> es] /\ es \in Words
  BY <1>1, FileType
<1>3. ASSUME NEW x
      PROVE  [f EXCEPT !.elems = @ \o x] = [volume |-> v, abs |-> a, elems |-> es \o x]
  <2>1. PICK y : y = f.elems \o x
    OBVIOUS
  <2>2. f.elems = es /\ [f EXCEPT !.elems = y] = [volume |-> v, abs |-> a, elems |-> y]
    BY <1>2, OtherElements
  <2>3. QED  BY <2>1, <2>2
<1>4. es \o <<>> = es /\ es \o Append(ns, n) = Append(es \o ns, n)
  BY <1>2, ConcatEmptySeq, ConcatAppend DEF Words
<1>5. Rooted(o, r, <<>>) = f
  BY <1>1, <1>2, <1>3, <1>4 DEF Rooted
<1>6. PICK g : g = Rooted(o, r, ns)
  OBVIOUS
<1>7. g = [volume |-> v, abs |-> a, elems |-> es \o ns]
  BY <1>1, <1>3, <1>6 DEF Rooted
<1>8. [g EXCEPT !.elems = Append(@, n)] = [volume |-> v, abs |-> a, elems |-> Append(es \o ns, n)]
  <2>1. PICK x, y : x = es \o ns /\ y = Append(x, n)
    OBVIOUS
  <2>2. g.elems = x /\ [g EXCEPT !.elems = y] = [volume |-> v, abs |-> a, elems |-> y]
    <3>1. g = [volume |-> v, abs |-> a, elems |-> x]
      BY <1>7, <2>1
    <3>2. QED  BY <3>1, OtherElements
  <2>3. QED  BY <2>1, <2>2
<1>9. Rooted(o, r, Append(ns, n)) = [volume |-> v, abs |-> a, elems |-> Append(es \o ns, n)]
  BY <1>1, <1>3, <1>4 DEF Rooted
<1>10. QED
  BY <1>1, <1>5, <1>6, <1>8, <1>9

\* The path has no backslash, if it must not have one.
Slashed == os = "windows" /\ toSlash => "\\" \notin Range(path)

PathInv ==
  /\ os \in Systems /\ root \in Plain(os) /\ names \in Seq(Name(os))
  /\ path = <<>> => names = <<>>
  /\ path # <<>> => path \in Plain(os) /\ FileAt(os, path) = Rooted(os, root, names) /\ Slashed
  /\ names # <<>> => DirAt(os, path) = Rooted(os, root, Front(names))

LEMMA JoinSlashed ==
  ASSUME os = "windows", toSlash, NEW p \in Plain(os), "\\" \notin Range(p), NEW n \in Name(os)
  PROVE  "\\" \notin Range(JoinPaths(p, n))
<1>1. n \in Word /\ \A i \in DOMAIN n : n[i] \notin Separators(os)
  BY NameIsElement DEF Systems
<1>2. "\\" \notin Range(n)
  BY <1>1 DEF Range, Separators
<1>3. PICK t : t = <<"/">>
  OBVIOUS
<1>4. t \in Word /\ "\\" \notin Range(t)
  <2>1. t = Append(<<>>, "/") /\ "/" \in Char
    BY <1>3 DEF Char
  <2>2. t \in Word
    BY <2>1, EmptySeq, AppendProperties DEF Word
  <2>3. DOMAIN t = 1 .. 1 /\ t[1] = "/"
    BY <1>3
  <2>4. QED  BY <2>2, <2>3 DEF Range
<1>5. p \in Word /\ "/" \in Char
  BY DEF Plain, Char
<1>6. p \o t \in Word /\ "\\" \notin Range(p \o t)
  BY <1>4, <1>5, ConcatProperties, RangeConcatenation DEF Word
<1>7. Append(p, "/") = p \o t
  BY <1>3, <1>5, AppendIsConcat DEF Word
<1>8. PICK q \in Word : JoinPaths(p, n) = q \o n /\ "\\" \notin Range(q)
  BY <1>5, <1>6, <1>7 DEF JoinPaths
<1>9. Range(q \o n) = Range(q) \cup Range(n)
  BY <1>1, <1>8, RangeConcatenation DEF Word
<1>10. QED
  BY <1>2, <1>8, <1>9

LEMMA PathInvInit == PathInit => PathInv
<1>1. SUFFICES ASSUME PathInit PROVE PathInv
  OBVIOUS
<1>2. os \in Systems /\ root \in Roots[os] /\ names = <<>> /\ path = <<>>
  BY <1>1 DEF PathInit, Systems
<1>3. root \in Plain(os)
  BY <1>2, TextIsPlain, PathAssumption DEF PathAssumption, Systems
<1>4. names \in Seq(Name(os))
  BY <1>2, EmptySeq
<1>5. QED
  BY <1>2, <1>3, <1>4 DEF PathInv

LEMMA PathInvNext == PathInv /\ [PathNext]_pathVars => PathInv'
<1>1. SUFFICES ASSUME PathInv, [PathNext]_pathVars PROVE PathInv'
  OBVIOUS
<1>2. os \in Systems /\ root \in Plain(os) /\ names \in Seq(Name(os))
  BY <1>1 DEF PathInv
<1>3. CASE Start
  <2>1. /\ path = <<>> /\ names = <<>> /\ os' = os /\ toSlash' = toSlash
        /\ root' = root /\ names' = names
        /\ path' = CleanRootPath(IF toSlash THEN ToSlash(root) ELSE root)
    BY <1>1, <1>3 DEF Start, PathInv
  <2>2. /\ path' \in Plain(os) /\ FileAt(os, path') = FileAt(os, root)
        /\ os = "windows" /\ toSlash => "\\" \notin Range(path')
    BY <1>2, <2>1, StartNamesRoot
  <2>3. Rooted(os, root, <<>>) = FileAt(os, root)
    <3>1. <<>> \in Word /\ <<>> \in Words
      BY EmptySeq DEF Word, Words
    <3>2. QED  BY <1>2, <3>1, RootedIs
  <2>4. path' # <<>>
    BY <2>2 DEF Plain
  <2>5. QED  BY <1>2, <2>1, <2>2, <2>3, <2>4 DEF PathInv, Slashed
<1>4. CASE Descend
  <2>1. PICK n \in Names[os] : names' = Append(names, n) /\ path' = JoinPaths(path, n)
    BY <1>4 DEF Descend
  <2>2. path # <<>> /\ os' = os /\ toSlash' = toSlash /\ root' = root
    BY <1>4 DEF Descend
  <2>3. n \in Name(os)
    BY <1>2, <2>1, PathAssumption DEF PathAssumption, Systems
  <2>4. path \in Plain(os) /\ FileAt(os, path) = Rooted(os, root, names) /\ Slashed
    BY <1>1, <2>2 DEF PathInv
  <2>5. /\ path' \in Plain(os)
        /\ FileAt(os, path') = [FileAt(os, path) EXCEPT !.elems = Append(@, n)]
        /\ DirAt(os, path') = FileAt(os, path)
    BY <1>2, <2>1, <2>3, <2>4, JoinNamesEntry
  <2>6. names' \in Seq(Name(os)) /\ names' # <<>> /\ Front(names') = names
    BY <1>2, <2>1, <2>3, AppendProperties, FrontLastAppend
  <2>7. FileAt(os, path') = Rooted(os, root, names')
    <3>1. n \in Word /\ names \in Words
      <4>1. Name(os) \subseteq Word
        BY <1>2, NameIsElement
      <4>2. QED  BY <1>2, <2>3, <4>1, SeqMonotonic DEF Words
    <3>2. Rooted(os, root, Append(names, n)) = [Rooted(os, root, names) EXCEPT !.elems = Append(@, n)]
      BY <1>2, <3>1, RootedIs
    <3>3. QED  BY <2>1, <2>4, <2>5, <3>2
  <2>8. os = "windows" /\ toSlash => "\\" \notin Range(path')
    BY <2>1, <2>3, <2>4, JoinSlashed DEF Slashed
  <2>9. path' # <<>>
    BY <2>5 DEF Plain
  <2>10. QED  BY <1>2, <2>2, <2>4, <2>5, <2>6, <2>7, <2>8, <2>9 DEF PathInv, Slashed
<1>5. CASE UNCHANGED pathVars
  BY <1>1, <1>5 DEF pathVars, PathInv, Slashed
<1>6. QED
  BY <1>1, <1>3, <1>4, <1>5 DEF PathNext

LEMMA PathInvAlways == PathSpec => []PathInv
BY PathInvInit, PathInvNext, PTL DEF PathSpec

LEMMA NamesEntryHolds == PathInv => PathNamesEntry
<1>1. SUFFICES ASSUME PathInv, path # <<>> PROVE File(path) = Below(Len(names)) /\ Slashed
  BY DEF PathNamesEntry, Slashed
<1>2. SubSeq(names, 1, Len(names)) = names
  BY <1>1, SubSeqFull DEF PathInv
<1>3. Below(Len(names)) = Rooted(os, root, names)
  BY <1>2, PathsOfSystem DEF Below, Rooted
<1>4. QED
  BY <1>1, <1>3, PathsOfSystem DEF PathInv

\* From any root and through any entries, joinPaths makes paths that name the entries
\* walked to (fastwalk.go:593-608, 665-685), and with ToSlash there is no backslash in
\* them on Windows (fastwalk.go:282).
THEOREM PathNamesEntryAlways == PathSpec => []PathNamesEntry
BY PathInvAlways, NamesEntryHolds, PTL

LEMMA ClimbHolds == PathInv => ClimbMeetsWay
<1>1. SUFFICES ASSUME PathInv, NEW k \in 0 .. Len(names) - 1 PROVE Below(k) \in Climbed(path)
  BY DEF ClimbMeetsWay
<1>2. os \in Systems /\ root \in Plain(os) /\ names \in Seq(Name(os)) /\ Len(names) \in Nat
  BY <1>1, LenProperties DEF PathInv
<1>3. names # <<>>
  BY <1>1, <1>2, EmptySeq
<1>4. PICK ns \in Seq(Name(os)), n \in Name(os) : names = Append(ns, n)
  BY <1>2, <1>3, SequenceEmptyOrAppend
<1>5. Front(names) = ns /\ Len(names) = Len(ns) + 1 /\ Len(ns) \in Nat
  BY <1>4, FrontLastAppend, AppendProperties, LenProperties
<1>6. k \in Nat /\ k <= Len(ns) /\ k <= Len(names)
  BY <1>1, <1>5
<1>7. SubSeq(names, 1, k) = SubSeq(ns, 1, k)
  <2>1. \A i \in 1 .. k : i \in 1 .. Len(ns)
    BY <1>5, <1>6
  <2>2. \A i \in 1 .. k : names[i] = ns[i]
    BY <1>4, <2>1, AppendProperties
  <2>3. QED  BY <1>2, <1>6, <2>2, SamePrefix
<1>8. ns \in Words
  <2>1. Name(os) \subseteq Word
    BY <1>2, NameIsElement
  <2>2. QED  BY <2>1, SeqMonotonic DEF Words
<1>9. PICK f : f = FileAt(os, root)
  OBVIOUS
<1>10. PICK v, a, es : f = [volume |-> v, abs |-> a, elems |-> es] /\ es \in Words
  BY <1>2, <1>9, FileType
<1>11. ASSUME NEW x
      PROVE  [f EXCEPT !.elems = @ \o x] = [volume |-> v, abs |-> a, elems |-> es \o x]
  <2>1. PICK y : y = f.elems \o x
    OBVIOUS
  <2>2. f.elems = es /\ [f EXCEPT !.elems = y] = [volume |-> v, abs |-> a, elems |-> y]
    BY <1>10, OtherElements
  <2>3. QED  BY <2>1, <2>2
<1>12. PICK d : d = DirOf(path)
  OBVIOUS
<1>13. d = [volume |-> v, abs |-> a, elems |-> es \o ns]
  <2>1. d = Rooted(os, root, ns)
    BY <1>1, <1>3, <1>5, <1>12, PathsOfSystem DEF PathInv
  <2>2. QED  BY <1>9, <1>11, <2>1 DEF Rooted
<1>14. PICK ms : ms = SubSeq(ns, 1, k)
  OBVIOUS
<1>15. Below(k) = [volume |-> v, abs |-> a, elems |-> es \o ms]
  BY <1>7, <1>9, <1>11, <1>14, PathsOfSystem DEF Below
<1>16. PICK j : j = Len(es) + k
  OBVIOUS
<1>17. /\ j \in 0 .. Len(d.elems) /\ Len(es) \in Nat /\ Len(es \o ns) = Len(es) + Len(ns)
       /\ d.elems = es \o ns
  <2>1. Len(es \o ns) = Len(es) + Len(ns) /\ Len(es) \in Nat
    BY <1>8, <1>10, ConcatProperties, LenProperties DEF Words
  <2>2. d.elems = es \o ns
    BY <1>13
  <2>3. QED  BY <1>5, <1>6, <1>16, <2>1, <2>2
<1>18. SubSeq(es \o ns, 1, j) = es \o ms
  <2>1. ms \in Words /\ Len(ms) = k /\ \A i \in 1 .. k : ms[i] = ns[i]
    BY <1>6, <1>8, <1>14, PrefixOf DEF Words
  <2>2. PICK x, y : x = es \o ns /\ y = es \o ms
    OBVIOUS
  <2>3. /\ x \in Words /\ y \in Words /\ Len(x) = Len(es) + Len(ns) /\ Len(y) = j
    BY <1>8, <1>10, <1>16, <2>1, <2>2, ConcatProperties DEF Words
  <2>4. \A i \in 1 .. Len(es) + Len(ns) : x[i] = IF i <= Len(es) THEN es[i] ELSE ns[i - Len(es)]
    BY <1>8, <1>10, <2>2, ConcatProperties DEF Words
  <2>5. \A i \in 1 .. Len(es) + Len(ms) : y[i] = IF i <= Len(es) THEN es[i] ELSE ms[i - Len(es)]
    BY <1>10, <2>1, <2>2, ConcatProperties DEF Words
  <2>6. ASSUME NEW i \in 1 .. j PROVE x[i] = y[i]
    <3>1. /\ i \in 1 .. Len(es) + Len(ns) /\ i \in 1 .. Len(es) + Len(ms)
          /\ ~(i <= Len(es)) => i - Len(es) \in 1 .. k
      BY <1>5, <1>6, <1>16, <1>17, <2>1
    <3>2. QED  BY <2>1, <2>4, <2>5, <3>1
  <2>7. SubSeq(x, 1, j) = SubSeq(y, 1, j)
    BY <1>5, <1>6, <1>16, <1>17, <2>3, <2>6, SamePrefix DEF Words
  <2>8. SubSeq(y, 1, j) = y
    BY <2>3, SubSeqFull DEF Words
  <2>9. QED  BY <2>2, <2>7, <2>8
<1>19. [d EXCEPT !.elems = SubSeq(@, 1, j)] = [volume |-> v, abs |-> a, elems |-> es \o ms]
  <2>1. PICK x, y : x = es \o ns /\ y = es \o ms
    OBVIOUS
  <2>2. d.elems = x /\ [d EXCEPT !.elems = y] = [volume |-> v, abs |-> a, elems |-> y]
    <3>1. d = [volume |-> v, abs |-> a, elems |-> x]
      BY <1>13, <2>1
    <3>2. QED  BY <3>1, OtherElements
  <2>3. QED  BY <1>18, <2>1, <2>2
<1>20. QED
  BY <1>12, <1>15, <1>17, <1>19 DEF Climbed

\* From any root and through any entries, shouldTraverse climbs through every directory
\* the walk has come through (fastwalk.go:577-590).
THEOREM ClimbMeetsWayAlways == PathSpec => []ClimbMeetsWay
BY PathInvAlways, ClimbHolds, PTL

-----------------------------------------------------------------------------
(* The extended-length form: how long it is.                               *)

LEMMA WriteLonger ==
  ASSUME NEW x \in Word, NEW b \in Word
  PROVE  /\ <<"\\">> \in Word /\ Write(x, b) \in Word
         /\ Len(Write(x, b)) = Len(x) + 1 + Len(b)
<1>1. PICK s : s = <<"\\">>
  OBVIOUS
<1>2. s \in Word /\ Len(s) = 1
  <2>1. s = Append(<<>>, "\\") /\ "\\" \in Char
    BY <1>1 DEF Char
  <2>2. Len(<<>>) = 0 /\ <<>> \in Word
    BY EmptySeq DEF Word
  <2>3. QED  BY <2>1, <2>2, AppendProperties DEF Word
<1>3. PICK y, z : y = x \o s /\ z = y \o b
  OBVIOUS
<1>4. y \in Word /\ Len(y) = Len(x) + Len(s)
  BY <1>2, <1>3, ConcatProperties DEF Word
<1>5. z \in Word /\ Len(z) = Len(y) + Len(b)
  BY <1>3, <1>4, ConcatProperties DEF Word
<1>6. z = Write(x, b)
  BY <1>1, <1>3 DEF Write
<1>7. QED
  BY <1>1, <1>2, <1>4, <1>5, <1>6

Length(bs) == Len(Lengthen(bs))

LEMMA LengthOf ==
  ASSUME NEW bs \in Words, NEW b \in Word
  PROVE  /\ Length(bs) \in Nat /\ Len(b) \in Nat
         /\ Length(Append(bs, b)) = Length(bs) + 1 + Len(b)
<1>1. Lengthen(bs) \in Word /\ Lengthen(Append(bs, b)) = Write(Lengthen(bs), b)
  BY LengthenAppends
<1>2. Len(Write(Lengthen(bs), b)) = Len(Lengthen(bs)) + 1 + Len(b)
  BY <1>1, WriteLonger
<1>3. Len(Lengthen(bs)) \in Nat /\ Len(b) \in Nat
  BY <1>1, LenProperties DEF Word
<1>4. QED
  BY <1>1, <1>2, <1>3 DEF Length

LEMMA LengthOfPrefix ==
  <<>> \in Word /\ <<>> \in Words /\ Length(<<>>) = 3 /\ Len(Prefix) = 3
<1>1. <<>> \in Word /\ <<>> \in Words
  BY EmptySeq DEF Word, Words
<1>2. Lengthen(<<>>) = Prefix
  BY <1>1, LengthenAppends
<1>3. Len(Prefix) = 3
  BY DEF Prefix
<1>4. QED
  BY <1>1, <1>2, <1>3 DEF Length

\* A block left out makes it no longer.
LEMMA WithoutShorter ==
  ASSUME NEW w
  PROVE  \A bs \in Words : Length(Without(w, bs)) <= Length(bs)
<1> DEFINE A == {bs \in Words : Length(Without(w, bs)) <= Length(bs)}
<1>1. <<>> \in A
  BY LengthOfPrefix, WithoutAppends
<1>2. ASSUME NEW bs \in Seq(Word), NEW b \in Word, bs \in A PROVE Append(bs, b) \in A
  <2>1. PICK ks : ks = Without(w, bs)
    OBVIOUS
  <2>2. /\ bs \in Words /\ ks \in Words /\ Append(bs, b) \in Words
        /\ Without(w, Append(bs, b)) = Keep(w, ks, b)
    BY <2>1, WithoutAppends, AppendProperties DEF Words
  <2>3. /\ Length(bs) \in Nat /\ Len(b) \in Nat
        /\ Length(Append(bs, b)) = Length(bs) + 1 + Len(b)
    BY <2>2, LengthOf
  <2>4. Length(ks) \in Nat /\ Length(Append(ks, b)) = Length(ks) + 1 + Len(b)
    BY <2>2, LengthOf
  <2>5. Length(ks) <= Length(bs)
    BY <1>2, <2>1
  <2>6. Length(Keep(w, ks, b)) <= Length(Append(bs, b))
    BY <2>3, <2>4, <2>5 DEF Keep
  <2>7. QED  BY <2>2, <2>6
<1> HIDE DEF A
<1>3. Seq(Word) \subseteq A
  BY <1>1, <1>2, SeqInduction
<1>4. QED
  BY <1>3 DEF A, Words

\* Every separator of p is written once at most, and a block has one in front of it or is
\* the first.
LEMMA BlocksFit ==
  ASSUME NEW S
  PROVE  \A p \in Word : Length(BlocksAt(S, p)) <= Len(p) + 4
<1> DEFINE Fits(p, bs, b) == /\ bs \in Words /\ b \in Word /\ Split(S, p) = Append(bs, b)
                             /\ Length(Without(<<>>, bs)) + Len(b) <= Len(p) + 3
           A == {p \in Word : \E bs, b : Fits(p, bs, b)}
<1>1. <<>> \in A
  <2>1. Split(S, <<>>) = Append(<<>>, <<>>)
    <3>1. "?" \in Char
      BY DEF Char
    <3>2. QED  BY <3>1, LengthOfPrefix, SplitAppends
  <2>2. Without(<<>>, <<>>) = <<>> /\ Len(<<>>) = 0
    BY LengthOfPrefix, WithoutAppends, EmptySeq
  <2>3. Fits(<<>>, <<>>, <<>>)
    BY <2>1, <2>2, LengthOfPrefix
  <2>4. QED  BY <2>3, LengthOfPrefix
<1>2. ASSUME NEW p \in Seq(Char), NEW c \in Char, p \in A PROVE Append(p, c) \in A
  <2>1. PICK bs \in Words, b \in Word :
          /\ Split(S, p) = Append(bs, b)
          /\ Length(Without(<<>>, bs)) + Len(b) <= Len(p) + 3
    BY <1>2
  <2>2. PICK q : q = Append(p, c)
    OBVIOUS
  <2>3. q \in Word /\ p \in Word /\ Len(q) = Len(p) + 1 /\ Len(p) \in Nat
    BY <2>2, AppendProperties, LenProperties DEF Word
  <2>4. Split(S, q) = AddTo(S, Append(bs, b), c)
    <3>1. Split(S, q) = AddTo(S, Split(S, p), c)
      BY <2>2, <2>3, SplitAppends
    <3>2. QED  BY <2>1, <3>1
  <2>5. Front(Append(bs, b)) = bs /\ Last(Append(bs, b)) = b
    BY FrontLastAppend DEF Words
  <2>6. PICK ks : ks = Without(<<>>, bs)
    OBVIOUS
  <2>7. ks \in Words /\ Without(<<>>, Append(bs, b)) = Keep(<<>>, ks, b)
    BY <2>6, WithoutAppends
  <2>8. Length(ks) \in Nat /\ Len(b) \in Nat /\ Length(Append(ks, b)) = Length(ks) + 1 + Len(b)
    BY <2>7, LengthOf
  <2>9. CASE c \in S
    <3>1. Split(S, q) = Append(Append(bs, b), <<>>) /\ Append(bs, b) \in Words
      BY <2>4, <2>9, AppendProperties DEF AddTo, Words
    <3>2. Length(Keep(<<>>, ks, b)) <= Len(q) + 3
      BY <2>1, <2>3, <2>6, <2>8 DEF Keep
    <3>3. Length(Keep(<<>>, ks, b)) + Len(<<>>) <= Len(q) + 3
      <4>1. Len(<<>>) = 0 /\ (Keep(<<>>, ks, b) = ks \/ Keep(<<>>, ks, b) = Append(ks, b))
        BY EmptySeq DEF Keep
      <4>2. Length(Append(ks, b)) \in Nat
        BY <2>8
      <4>3. Length(Keep(<<>>, ks, b)) \in Nat
        BY <2>8, <4>1, <4>2
      <4>4. QED  BY <3>2, <4>1, <4>3
    <3>4. Fits(q, Append(bs, b), <<>>)
      BY <2>7, <3>1, <3>3, LengthOfPrefix
    <3>5. QED  BY <2>2, <2>3, <3>4
  <2>10. CASE c \notin S
    <3>1. Split(S, q) = Append(bs, Append(b, c))
      BY <2>4, <2>5, <2>10 DEF AddTo
    <3>2. Append(b, c) \in Word /\ Len(Append(b, c)) = Len(b) + 1
      BY AppendProperties DEF Word
    <3>3. Fits(q, bs, Append(b, c))
      BY <2>1, <2>3, <2>6, <2>8, <3>1, <3>2
    <3>4. QED  BY <2>2, <2>3, <3>3
  <2>11. QED  BY <2>9, <2>10
<1> HIDE DEF A
<1>3. Seq(Char) \subseteq A
  BY <1>1, <1>2, SeqInduction
<1>4. ASSUME NEW p \in Word PROVE Length(BlocksAt(S, p)) <= Len(p) + 4
  <2>1. PICK bs \in Words, b \in Word :
          /\ Split(S, p) = Append(bs, b)
          /\ Length(Without(<<>>, bs)) + Len(b) <= Len(p) + 3
    BY <1>3 DEF A, Word
  <2>2. PICK ks : ks = Without(<<>>, bs)
    OBVIOUS
  <2>3. ks \in Words /\ BlocksAt(S, p) = Keep(<<>>, ks, b)
    BY <2>1, <2>2, WithoutAppends DEF BlocksAt
  <2>4. Length(ks) \in Nat /\ Len(b) \in Nat /\ Length(Append(ks, b)) = Length(ks) + 1 + Len(b)
    BY <2>3, LengthOf
  <2>5. Len(p) \in Nat
    BY LenProperties DEF Word
  <2>6. QED  BY <2>1, <2>2, <2>3, <2>4, <2>5 DEF Keep
<1>5. QED
  BY <1>4

LEMMA PathIsWord == PathInv => path \in Word
BY LengthOfPrefix DEF PathInv, Plain

\* An absolute path has a volume, and a separator behind it.
LEMMA AbsIsLong ==
  ASSUME PathInv, IsAbs(path)
  PROVE  /\ path \in Plain(os) /\ VolumeParts(path, VolumeAt(os, path), RestAt(os, path))
         /\ Len(VolumeAt(os, path)) = 2 /\ Len(path) >= 3
<1>1. VolumeAt(os, path) # <<>>
  BY PathsOfSystem DEF IsAbs
<1>2. path # <<>>
  <2>1. Len(<<>>) = 0
    BY EmptySeq
  <2>2. QED  BY <1>1, <2>1 DEF VolumeAt
<1>3. path \in Plain(os) /\ os \in Systems
  BY <1>2 DEF PathInv
<1>4. VolumeParts(path, VolumeAt(os, path), RestAt(os, path))
  BY <1>3, VolumeRest
<1>5. Len(VolumeAt(os, path)) # 0
  BY <1>1, <1>4, EmptySeq DEF VolumeParts, Word
<1>6. QED
  <2>1. PICK k, n \in Nat : k = Len(VolumeAt(os, path)) /\ n = Len(path)
    BY <1>4 DEF VolumeParts
  <2>2. k \in {0, 2} /\ k < n
    BY <1>4, <2>1 DEF VolumeParts
  <2>3. k = 2 /\ n >= 3
    <3>1. k # 0
      BY <1>5, <2>1
    <3>2. k \in Nat /\ n \in Nat /\ k = 2 /\ k < n
      BY <2>1, <2>2, <3>1
    <3>3. QED  BY <3>2
  <2>4. QED  BY <1>3, <1>4, <2>1, <2>3

LEMMA FitsHolds == PathInv => LongPathFits
<1>1. SUFFICES ASSUME PathInv PROVE Len(FixLongPath(path)) <= Len(Prefix) + Len(path) + 1
  BY DEF LongPathFits
<1>2. path \in Word /\ Len(path) \in Nat /\ Len(Prefix) = 3
  BY <1>1, PathIsWord, LenProperties, LengthOfPrefix DEF Word
<1>3. CASE FixLongPath(path) = path
  BY <1>2, <1>3
<1>4. CASE FixLongPath(path) # path
  <2>1. PICK bs, long : bs = Blocks(path) /\ long = Lengthen(Without(Here, bs))
    OBVIOUS
  <2>2. /\ IsAbs(path)
        /\ FixLongPath(path) = IF Len(long) = Len(Prefix) + 3 THEN Append(long, "\\") ELSE long
    BY <1>4, <2>1 DEF FixLongPath
  <2>3. bs \in Words /\ Length(bs) <= Len(path) + 4
    BY <1>2, <2>1, PathsOfSystem, BlocksType, BlocksFit
  <2>4. Without(Here, bs) \in Words /\ Length(Without(Here, bs)) <= Length(bs)
    BY <2>3, LengthOfPrefix, WithoutAppends, WithoutShorter
  <2>5. long \in Word /\ Len(long) \in Nat /\ Length(bs) \in Nat /\ Len(long) = Length(Without(Here, bs))
    <3>1. long \in Word
      BY <2>1, <2>4, LengthOfPrefix, LengthenAppends
    <3>2. Length(bs) \in Nat
      BY <2>3, LengthOfPrefix, LengthOf
    <3>3. QED  BY <2>1, <3>1, <3>2, LenProperties DEF Word, Length
  <2>6. Len(long) <= Len(path) + 4
    BY <1>2, <2>3, <2>4, <2>5
  <2>7. Len(Append(long, "\\")) = Len(long) + 1
    <3>1. "\\" \in Char
      BY DEF Char
    <3>2. QED  BY <2>5, <3>1, AppendProperties DEF Word
  <2>8. Len(path) >= 3
    BY <1>1, <2>2, AbsIsLong
  <2>9. QED  BY <1>2, <2>2, <2>5, <2>6, <2>7, <2>8
<1>5. QED
  BY <1>3, <1>4

\* fixLongPath never writes past the end of its buffer (entry_filter_windows.go:126).
THEOREM LongPathFitsAlways == PathSpec => []LongPathFits
BY PathInvAlways, FitsHolds, PTL

-----------------------------------------------------------------------------
(* The extended-length form: what it means.                                *)

\* Without "..", a path is cleaned by leaving "." out.
LEMMA CleanPlain ==
  ASSUME NEW abs
  PROVE  \A bs \in Seq(Word \ {Up}) : Clean(abs, bs) = Without(Here, bs)
<1> DEFINE E == Word \ {Up}
           A == {bs \in Words : Clean(abs, bs) = Without(Here, bs)}
<1>1. <<>> \in A
  BY LengthOfPrefix, CleanAppends, WithoutAppends
<1>2. ASSUME NEW bs \in Seq(E), NEW b \in E, bs \in A PROVE Append(bs, b) \in A
  <2>1. bs \in Words /\ b \in Word /\ b # Up /\ Append(bs, b) \in Words
    BY <1>2, AppendProperties DEF Words
  <2>2. Clean(abs, Append(bs, b)) = Step(abs, Clean(abs, bs), b)
    BY <2>1, CleanAppends
  <2>3. Without(Here, Append(bs, b)) = Keep(Here, Without(Here, bs), b)
    BY <2>1, WithoutAppends
  <2>4. QED  BY <1>2, <2>1, <2>2, <2>3 DEF Step, Keep
<1> HIDE DEF A, E
<1>3. Seq(E) \subseteq A
  BY <1>1, <1>2, SeqInduction
<1>4. QED
  BY <1>3 DEF A, E

LEMMA OneWord ==
  ASSUME NEW E, NEW e \in E
  PROVE  <<e>> \in Seq(E) /\ <<e>> = Append(<<>>, e) /\ Len(<<e>>) = 1 /\ <<e>>[1] = e
<1>1. <<e>> = Append(<<>>, e) /\ <<>> \in Seq(E)
  BY EmptySeq
<1>2. Append(<<>>, e) \in Seq(E)
  BY <1>1, AppendProperties
<1>3. QED
  BY <1>1, <1>2

\* The prefix and the "\" behind it.
Lead == Prefix \o <<"\\">>

LEMMA LeadIs == Lead \in Word /\ Len(Lead) = 4 /\ <<"\\">> \in Word
<1>1. Prefix \in Word
  BY LengthOfPrefix, LengthenAppends
<1>2. <<"\\">> \in Word /\ Len(<<"\\">>) = 1
  BY OneWord DEF Word, Char
<1>3. PICK s : s = <<"\\">>
  OBVIOUS
<1>4. Prefix \o s \in Word /\ Len(Prefix \o s) = Len(Prefix) + Len(s)
  BY <1>1, <1>2, <1>3, ConcatProperties DEF Word
<1>5. QED
  BY <1>2, <1>3, <1>4, LengthOfPrefix DEF Lead

\* What t is, if Lengthen writes v and ks as t.
Written(v, ks, t) ==
  /\ t \in Word /\ Lengthen(<<v>> \o ks) = Lead \o t
  /\ Split({"\\"}, t) = <<v>> \o ks
  /\ ks = <<>> => t = v
  /\ ks # <<>> => Len(t) > Len(v)

LEMMA WrittenBack ==
  ASSUME NEW v \in Elements({"\\"})
  PROVE  \A ks \in Seq(Elements({"\\"})) : \E t : Written(v, ks, t)
<1> DEFINE E == Elements({"\\"})
           A == {ks \in Words : \E t : Written(v, ks, t)}
<1>1. E \subseteq Word /\ v \in Word /\ <<v>> \in Words /\ "\\" \in Char
  BY ElementsAreWords, OneWord DEF Words, Char
<1>2. \A w \in E : Split({"\\"}, w) = <<w>>
  BY SplitWord DEF Elements
<1>3. <<>> \in A
  <2>1. <<v>> \o <<>> = <<v>>
    BY <1>1, ConcatEmptySeq DEF Words
  <2>2. Lengthen(<<v>>) = Write(Prefix, v)
    <3>1. Lengthen(Append(<<>>, v)) = Write(Lengthen(<<>>), v) /\ Lengthen(<<>>) = Prefix
      BY <1>1, LengthOfPrefix, LengthenAppends
    <3>2. <<v>> = Append(<<>>, v)
      BY OneWord
    <3>3. QED  BY <3>1, <3>2
  <2>3. Write(Prefix, v) = Lead \o v
    BY DEF Write, Lead
  <2>4. Split({"\\"}, v) = <<v>>
    BY <1>2
  <2>5. Written(v, <<>>, v)
    BY <1>1, <2>1, <2>2, <2>3, <2>4 DEF Written
  <2>6. QED  BY <2>5, LengthOfPrefix
<1>4. ASSUME NEW ks \in Seq(E), NEW k \in E, ks \in A PROVE Append(ks, k) \in A
  <2>1. PICK t : Written(v, ks, t)
    BY <1>4
  <2>2. ks \in Words /\ k \in Word /\ t \in Word /\ Append(ks, k) \in Words
    BY <1>1, <1>4, <2>1, AppendProperties DEF Written, Words
  <2>3. PICK all : all = <<v>> \o ks
    OBVIOUS
  <2>4. all \in Words /\ <<v>> \o Append(ks, k) = Append(all, k)
    BY <1>1, <2>2, <2>3, ConcatProperties, ConcatAppend DEF Words
  <2>5. PICK s, u : s = Append(t, "\\") /\ u = s \o k
    OBVIOUS
  <2>6. s \in Word /\ Len(s) = Len(t) + 1
    BY <1>1, <2>2, <2>5, AppendProperties DEF Word
  <2>7. u \in Word /\ Len(u) = Len(s) + Len(k)
    BY <2>2, <2>5, <2>6, ConcatProperties DEF Word
  <2>8. Lengthen(Append(all, k)) = Lead \o u
    <3>1. Lengthen(Append(all, k)) = Write(Lead \o t, k)
      BY <2>1, <2>2, <2>3, <2>4, LengthenAppends DEF Written
    <3>2. PICK l \in Word : l = Lead
      BY LeadIs
    <3>3. PICK x \in Word : x = l \o t
      BY <2>2, ConcatProperties DEF Word
    <3>4. x \o <<"\\">> = Append(x, "\\")
      BY <1>1, AppendIsConcat DEF Word
    <3>5. l \o Append(t, "\\") = Append(x, "\\")
      BY <1>1, <2>2, <3>3, ConcatAppend DEF Word
    <3>6. (l \o s) \o k = l \o (s \o k)
      <4>1. l \in Seq(Char) /\ s \in Seq(Char) /\ k \in Seq(Char)
        BY <2>2, <2>6 DEF Word
      <4>2. QED  BY <4>1, ConcatAssociative
    <3>7. Write(Lead \o t, k) = (l \o s) \o k
      BY <2>5, <3>2, <3>3, <3>4, <3>5 DEF Write
    <3>8. QED  BY <2>5, <3>1, <3>2, <3>6, <3>7
  <2>9. Split({"\\"}, u) = Append(all, k)
    <3>1. Split({"\\"}, u) = Split({"\\"}, t) \o Split({"\\"}, k)
      BY <1>1, <2>2, <2>5, SplitConcat
    <3>2. Split({"\\"}, t) = all /\ Split({"\\"}, k) = <<k>>
      BY <1>2, <2>1, <2>3 DEF Written
    <3>3. Append(all, k) = all \o <<k>>
      BY <2>2, <2>4, AppendIsConcat DEF Words
    <3>4. QED  BY <3>1, <3>2, <3>3
  <2>10. Len(u) > Len(v)
    <3>1. Len(v) \in Nat /\ Len(k) \in Nat /\ Len(t) \in Nat
      BY <1>1, <2>2, LenProperties DEF Word
    <3>2. Len(t) >= Len(v)
      BY <2>1, <3>1 DEF Written
    <3>3. QED  BY <2>6, <2>7, <3>1, <3>2
  <2>11. Append(ks, k) # <<>>
    BY <2>2, AppendProperties DEF Words
  <2>12. Written(v, Append(ks, k), u)
    BY <2>4, <2>7, <2>8, <2>9, <2>10, <2>11 DEF Written
  <2>13. QED  BY <2>2, <2>12
<1> HIDE DEF A, E
<1>5. Seq(E) \subseteq A
  BY <1>3, <1>4, SeqInduction
<1>6. QED
  BY <1>5 DEF A, E

\* Windows reads what comes behind the prefix.
LEMMA ExtendedRead ==
  ASSUME NEW t \in Word, t # <<>>, NEW p, p = Lead \o t, NEW es, es = Split({"\\"}, t)
  PROVE  /\ SubSeq(p, 1, 4) = Prefix \o <<"\\">>
         /\ Extended(p) = [volume |-> Head(es), abs |-> Len(es) > 1,
                           elems |-> IF es = <<Head(es), <<>>>> THEN <<>> ELSE Tail(es)]
<1>1. /\ Lead \in Word /\ Len(Lead) = 4 /\ Len(t) \in Nat \ {0}
      /\ p \in Word /\ Len(p) = 4 + Len(t)
  <2>1. Lead \in Word /\ Len(Lead) = 4
    BY LeadIs
  <2>2. Len(t) \in Nat \ {0}
    BY EmptySeq DEF Word
  <2>3. p \in Word /\ Len(p) = Len(Lead) + Len(t)
    BY <2>1, ConcatProperties DEF Word
  <2>4. QED  BY <2>1, <2>2, <2>3
<1>2. SubSeq(p, 1, 4) = Lead
  <2>1. SubSeq(Lead \o t, 1, Len(Lead)) = Lead
    <3>1. 4 \in Nat /\ 4 <= Len(Lead)
      BY <1>1
    <3>2. QED  BY <1>1, <3>1, WholePrefix DEF Word
  <2>2. QED  BY <1>1, <2>1
<1>3. SubSeq(p, 5, Len(p)) = t
  <2>1. PICK m, n \in Int : m = 5 /\ n = Len(p)
    BY <1>1
  <2>2. m \in Len(Lead) + 1 .. Len(Lead) + Len(t) /\ n \in Len(Lead) + 1 .. Len(Lead) + Len(t)
    BY <1>1, <2>1
  <2>3. SubSeq(p, m, n) = SubSeq(t, m - Len(Lead), n - Len(Lead))
    BY <1>1, <2>2, SubSeqOfConcat2 DEF Word
  <2>4. m - Len(Lead) = 1 /\ n - Len(Lead) = Len(t)
    BY <1>1, <2>1
  <2>5. SubSeq(t, 1, Len(t)) = t
    BY SubSeqFull DEF Word
  <2>6. QED  BY <2>1, <2>3, <2>4, <2>5
<1>4. Len(Prefix) + 2 = 5
  BY LengthOfPrefix
<1>5. QED
  BY <1>2, <1>3, <1>4 DEF Extended, Lead

\* A path with a drive and a separator behind it, and its parts.
DriveParts(p, v, c, t, r) ==
  /\ v \in Elements(Separators("windows")) /\ Len(v) = 2 /\ v[2] = ":" /\ v = SubSeq(p, 1, 2)
  /\ c \in Separators("windows") /\ t \in Word
  /\ p = Append(v, c) \o t /\ r = <<c>> \o t

LEMMA DriveSplit ==
  ASSUME NEW p \in Plain("windows"), VolumeAt("windows", p) # <<>>,
         AbsAt("windows", RestAt("windows", p))
  PROVE  \E c, t : DriveParts(p, VolumeAt("windows", p), c, t, RestAt("windows", p))
<1>1. PICK o, v, r, S : /\ o = "windows" /\ v = VolumeAt(o, p) /\ r = RestAt(o, p)
                        /\ S = Separators(o)
  OBVIOUS
<1>2. o \in Systems /\ p \in Plain(o) /\ p \in Word /\ p # <<>>
  BY <1>1 DEF Systems, Plain
<1>3. /\ v = SubSeq(p, 1, 2) /\ p[2] = ":" /\ Len(p) >= 2 /\ p[1] \notin S
      /\ r = SubSeq(p, Len(v) + 1, Len(p))
  BY <1>1, <1>2 DEF VolumeAt, RestAt, Plain
<1>4. VolumeParts(p, v, r)
  BY <1>1, <1>2, VolumeRest
<1>5. v \in Word /\ Len(v) = 2 /\ v[1] = p[1] /\ v[2] = ":"
  <2>1. /\ SubSeq(p, 1, 2) \in Seq(Char) /\ Len(SubSeq(p, 1, 2)) = 2
        /\ \A i \in 1 .. 2 : SubSeq(p, 1, 2)[i] = p[i]
    BY <1>2, <1>3, PrefixOf DEF Word
  <2>2. QED  BY <1>3, <2>1 DEF Word
<1>6. v \in Elements(S)
  <2>1. DOMAIN v = 1 .. 2 /\ \A i \in 1 .. 2 : v[i] \in Char
    BY <1>5, LenProperties, ElementOfSeq DEF Word
  <2>2. ":" \notin S
    BY <1>1, <1>2, SeparatorsAre
  <2>3. \A i \in DOMAIN v : v[i] \in Char \ S
    <3>1. v[1] \in Char /\ v[2] \in Char
      BY <2>1
    <3>2. v[1] \notin S /\ v[2] \notin S
      BY <1>3, <1>5, <2>2
    <3>3. \A i \in 1 .. 2 : i = 1 \/ i = 2
      OBVIOUS
    <3>4. QED  BY <2>1, <3>1, <3>2, <3>3
  <2>4. v \in Seq(Char \ S)
    BY <1>5, <2>3, SeqNarrow DEF Word
  <2>5. v # <<>>
    BY <1>5, EmptySeq DEF Word
  <2>6. QED  BY <2>4, <2>5 DEF Elements
<1>7. r \in Word /\ r # <<>> /\ Len(r) \in Nat \ {0}
  BY <1>4, EmptySeq DEF VolumeParts, Word
<1>8. PICK c, t : c = r[1] /\ t = SubSeq(r, 2, Len(r))
  OBVIOUS
<1>9. c \in S
  <2>1. Head(r) = r[1]
    BY <1>7
  <2>2. QED  BY <1>1, <1>8, <2>1 DEF AbsAt
<1>10. r = <<c>> \o t
  <2>1. PICK n : n = Len(r)
    OBVIOUS
  <2>2. 1 \in 1 .. Len(r) /\ n \in 1 .. Len(r)
    BY <1>7, <2>1
  <2>3. SubSeq(r, 1, n) = <<r[1]>> \o SubSeq(r, 1 + 1, n)
    BY <1>7, <2>2, SubSeqRecursiveFirst DEF Word
  <2>4. SubSeq(r, 1, n) = r
    BY <1>7, <2>1, SubSeqFull DEF Word
  <2>5. 1 + 1 = 2
    OBVIOUS
  <2>6. QED  BY <1>8, <2>1, <2>3, <2>4, <2>5
<1>11. t \in Word
  <2>1. \A i \in 2 .. Len(r) : r[i] \in Char
    BY <1>7, ElementOfSeq DEF Word
  <2>2. QED  BY <1>7, <1>8, <2>1, SubSeqProperties DEF Word
<1>12. p = v \o r
  <2>1. PICK n \in Nat : n = Len(p)
    BY <1>4 DEF VolumeParts
  <2>2. 1 \in 1 .. Len(p) + 1 /\ 2 \in 1 - 1 .. Len(p) /\ n \in 2 .. Len(p)
    BY <1>3, <2>1
  <2>3. SubSeq(p, 1, 2) \o SubSeq(p, 2 + 1, n) = SubSeq(p, 1, n)
    BY <1>2, <2>2, ConcatAdjacentSubSeq DEF Word
  <2>4. SubSeq(p, 1, n) = p
    BY <1>2, <2>1, SubSeqFull DEF Word
  <2>5. QED  BY <1>3, <1>5, <2>1, <2>3, <2>4
<1>13. p = Append(v, c) \o t
  <2>1. c \in Char
    BY <1>1, <1>2, <1>9, SeparatorsAre
  <2>2. <<c>> \in Word
    BY <2>1, OneWord DEF Word
  <2>3. (v \o <<c>>) \o t = v \o (<<c>> \o t)
    <3>1. PICK s : s = <<c>>
      OBVIOUS
    <3>2. v \in Seq(Char) /\ s \in Seq(Char) /\ t \in Seq(Char)
      BY <1>5, <1>11, <2>2, <3>1 DEF Word
    <3>3. (v \o s) \o t = v \o (s \o t)
      BY <3>2, ConcatAssociative
    <3>4. QED  BY <3>1, <3>3
  <2>4. Append(v, c) = v \o <<c>>
    BY <1>5, <2>1, AppendIsConcat DEF Word
  <2>5. QED  BY <1>10, <1>12, <2>3, <2>4
<1>14. DriveParts(p, v, c, t, r)
  BY <1>1, <1>3, <1>5, <1>6, <1>9, <1>10, <1>11, <1>13 DEF DriveParts
<1>15. QED
  BY <1>1, <1>14

\* Without "..", the blocks of such a path are the drive and what is below its root.
DriveBlocks(v, r, bs, ks) ==
  LET S == Separators("windows")
  IN  /\ ks \in Seq(Elements(S)) /\ Without(Here, bs) = <<v>> \o ks
      /\ Clean(TRUE, BlocksAt(S, r)) = ks

LEMMA DriveBlocksFound ==
  ASSUME NEW p, NEW v, NEW c, NEW t, NEW r, DriveParts(p, v, c, t, r),
         NEW bs, bs = BlocksAt(Separators("windows"), p), Up \notin Range(bs)
  PROVE  \E ks : DriveBlocks(v, r, bs, ks)
<1>1. PICK S : S = Separators("windows")
  OBVIOUS
<1>2. /\ v \in Elements(S) /\ Len(v) = 2 /\ c \in S /\ c \in Char /\ t \in Word
      /\ p = Append(v, c) \o t /\ r = <<c>> \o t
  <2>1. S \subseteq Char
    BY <1>1, SeparatorsAre DEF Systems
  <2>2. QED  BY <1>1, <2>1 DEF DriveParts
<1>3. v \in Word /\ <<v>> \in Words
  BY <1>2, ElementsAreWords, OneWord DEF Words
<1>4. PICK cs : cs = BlocksAt(S, t)
  OBVIOUS
<1>5. cs \in Words /\ cs \in Seq(Elements(S))
  BY <1>2, <1>4, BlocksType
<1>6. bs = <<v>> \o cs
  <2>1. BlocksAt(S, Append(v, c) \o t) = BlocksAt(S, v) \o BlocksAt(S, t)
    BY <1>2, <1>3, BlocksConcat
  <2>2. BlocksAt(S, v) = <<v>>
    BY <1>2, BlocksOfElement
  <2>3. QED  BY <1>1, <1>2, <1>4, <2>1, <2>2
<1>7. BlocksAt(S, r) = cs
  <2>1. <<c>> = Append(<<>>, c)
    BY <1>2, OneWord
  <2>2. BlocksAt(S, Append(<<>>, c) \o t) = BlocksAt(S, <<>>) \o BlocksAt(S, t)
    BY <1>2, LengthOfPrefix, BlocksConcat
  <2>3. BlocksAt(S, <<>>) = <<>> /\ <<>> \o cs = cs
    BY <1>5, BlocksOfElement, ConcatEmptySeq DEF Words
  <2>4. QED  BY <1>2, <1>4, <2>1, <2>2, <2>3
<1>8. PICK ks : ks = Without(Here, cs)
  OBVIOUS
<1>9. ks \in Seq(Elements(S))
  <2>1. Elements(S) \in SUBSET Word
    BY ElementsAreWords
  <2>2. ks \in Seq(Elements(S) \ {Here})
    BY <1>5, <1>8, <2>1, WithoutIn
  <2>3. Elements(S) \ {Here} \subseteq Elements(S)
    OBVIOUS
  <2>4. QED  BY <2>2, <2>3, SeqMonotonic
<1>10. Without(Here, bs) = <<v>> \o ks
  <2>1. Without(Here, bs) = Without(Here, <<v>>) \o ks
    BY <1>3, <1>5, <1>6, <1>8, WithoutConcat
  <2>2. v # Here
    <3>1. Len(Here) = 1
      BY DEF Here
    <3>2. Len(v) = 2
      BY <1>2
    <3>3. Len(v) # Len(Here)
      BY <3>1, <3>2
    <3>4. QED  BY <3>3
  <2>3. Without(Here, Append(<<>>, v)) = Keep(Here, <<>>, v)
    <3>1. <<>> \in Words /\ v \in Word
      BY <1>3, LengthOfPrefix
    <3>2. Without(Here, <<>>) = <<>>
      BY <3>1, WithoutAppends
    <3>3. Without(Here, Append(<<>>, v)) = Keep(Here, Without(Here, <<>>), v)
      BY <3>1, WithoutAppends
    <3>4. QED  BY <3>2, <3>3
  <2>4. <<v>> = Append(<<>>, v)
    BY <1>3, OneWord
  <2>5. QED  BY <2>1, <2>2, <2>3, <2>4 DEF Keep
<1>11. Clean(TRUE, cs) = ks
  <2>1. Range(bs) = Range(<<v>>) \cup Range(cs)
    <3>1. PICK y : y = <<v>>
      OBVIOUS
    <3>2. y \in Seq(Word) /\ cs \in Seq(Word) /\ bs = y \o cs
      BY <1>3, <1>5, <1>6, <3>1 DEF Words
    <3>3. Range(y \o cs) = Range(y) \cup Range(cs)
      BY <3>2, RangeConcatenation
    <3>4. QED  BY <3>1, <3>2, <3>3
  <2>2. Up \notin Range(cs)
    BY <2>1
  <2>3. DOMAIN cs = 1 .. Len(cs) /\ \A i \in 1 .. Len(cs) : cs[i] \in Word
    BY <1>5, LenProperties, ElementOfSeq DEF Words
  <2>4. \A i \in DOMAIN cs : cs[i] \in Word \ {Up}
    BY <2>2, <2>3 DEF Range
  <2>5. cs \in Seq(Word \ {Up})
    BY <1>5, <2>4, SeqNarrow DEF Words
  <2>6. QED  BY <1>8, <2>5, CleanPlain
<1>12. DriveBlocks(v, r, bs, ks)
  BY <1>1, <1>7, <1>9, <1>10, <1>11 DEF DriveBlocks
<1>13. QED
  BY <1>12

\* What fixLongPath converts, and what it leaves alone.
Converted ==
  /\ os = "windows" /\ Len(path) >= LongPath /\ File(path).abs /\ VolumeName(path) # <<>>
  /\ Up \notin Range(Blocks(path))

LEMMA OthersKept ==
  ASSUME PathInv, ~Converted
  PROVE  FixLongPath(path) = path
<1>1. Len(path) \in Nat /\ LongPath \in Nat
  BY PathIsWord, LenProperties, PathAssumption DEF PathAssumption, Word
<1>2. IsAbs(path) => File(path).abs /\ VolumeName(path) # <<>>
  BY DEF File, IsAbs
<1>3. \/ os # "windows"
      \/ Len(path) < LongPath
      \/ ~IsAbs(path)
      \/ Up \in Range(Blocks(path))
  <2>1. Len(path) >= LongPath \/ Len(path) < LongPath
    BY <1>1
  <2>2. QED  BY <1>2, <2>1 DEF Converted
<1>4. QED
  BY <1>3 DEF FixLongPath

LEMMA ConvertedNamesSame ==
  ASSUME PathInv, Converted
  PROVE  /\ SubSeq(FixLongPath(path), 1, 4) = Prefix \o <<"\\">>
         /\ Extended(FixLongPath(path)) = File(path)
<1>1. PICK o, S, p, v, r, bs : /\ o = "windows" /\ S = Separators(o) /\ p = path
                               /\ v = VolumeAt(o, p) /\ r = RestAt(o, p) /\ bs = BlocksAt(S, p)
  OBVIOUS
<1>2. os = o /\ o \in Systems /\ v # <<>> /\ AbsAt(o, r) /\ Up \notin Range(bs)
  <2>1. os = o /\ v # <<>> /\ Up \notin Range(bs)
    BY <1>1, PathsOfSystem DEF Converted
  <2>2. File(path).abs = AbsAt(o, r)
    BY <1>1, <2>1, PathsOfSystem DEF FileAt
  <2>3. QED  BY <1>1, <2>1, <2>2 DEF Converted, Systems
<1>3. p \in Plain(o)
  <2>1. path # <<>>
    <3>1. v = <<>> \/ Len(p) >= 2
      BY <1>1 DEF VolumeAt
    <3>2. Len(<<>>) = 0
      BY EmptySeq
    <3>3. QED  BY <1>1, <1>2, <3>1, <3>2
  <2>2. QED  BY <1>1, <1>2, <2>1 DEF PathInv
<1>4. PICK c, t : DriveParts(p, v, c, t, r)
  BY <1>1, <1>2, <1>3, DriveSplit
<1>5. PICK ks : DriveBlocks(v, r, bs, ks)
  BY <1>1, <1>2, <1>4, DriveBlocksFound
<1>6. /\ v \in Elements(S) /\ Len(v) = 2 /\ v[2] = ":" /\ v = SubSeq(p, 1, 2)
      /\ ks \in Seq(Elements(S)) /\ Without(Here, bs) = <<v>> \o ks
  BY <1>1, <1>4, <1>5 DEF DriveParts, DriveBlocks
<1>7. File(path) = [volume |-> v, abs |-> TRUE, elems |-> ks]
  <2>1. AbsAt(o, r) = TRUE
    BY <1>2 DEF AbsAt
  <2>2. Clean(AbsAt(o, r), BlocksAt(S, r)) = ks
    BY <1>1, <1>5, <2>1 DEF DriveBlocks
  <2>3. FileAt(o, p) = [volume |-> v, abs |-> TRUE, elems |-> ks]
    BY <1>1, <2>1, <2>2 DEF FileAt
  <2>4. QED  BY <1>1, <1>2, <2>3, PathsOfSystem
<1>8. PICK long : long = Lengthen(<<v>> \o ks)
  OBVIOUS
<1>9. FixLongPath(path) = IF Len(long) = Len(Prefix) + 3 THEN Append(long, "\\") ELSE long
  <2>1. IsAbs(path) /\ Up \notin Range(Blocks(path)) /\ Blocks(path) = bs
    BY <1>1, <1>2, PathsOfSystem DEF Converted, IsAbs, File
  <2>2. ~(Len(path) < LongPath)
    BY PathIsWord, LenProperties, PathAssumption DEF Converted, PathAssumption, Word
  <2>3. SubSeq(path, 1, 2) # <<"\\", "\\">>
    <3>1. SubSeq(path, 1, 2)[2] = ":"
      BY <1>1, <1>6
    <3>2. <<"\\", "\\">>[2] = "\\"
      OBVIOUS
    <3>3. QED  BY <3>1, <3>2
  <2>4. Lengthen(Without(Here, Blocks(path))) = long
    BY <1>6, <1>8, <2>1
  <2>5. QED  BY <1>1, <1>2, <2>1, <2>2, <2>3, <2>4 DEF FixLongPath
<1>10. v \in Elements({"\\"}) /\ ks \in Seq(Elements({"\\"}))
  <2>1. Char \ S \subseteq Char \ {"\\"}
    BY <1>1, <1>2, SeparatorsAre
  <2>2. Seq(Char \ S) \subseteq Seq(Char \ {"\\"})
    BY <2>1, SeqMonotonic
  <2>3. Elements(S) \subseteq Elements({"\\"})
    BY <2>2 DEF Elements
  <2>4. QED  BY <1>6, <2>3, SeqMonotonic
<1>11. PICK w : Written(v, ks, w)
  BY <1>10, WrittenBack
<1>12. w \in Word /\ long = Lead \o w /\ Split({"\\"}, w) = <<v>> \o ks
  BY <1>8, <1>11 DEF Written
<1>13. Len(w) \in Nat /\ Len(long) = 4 + Len(w) /\ v \in Word /\ long \in Word
  <2>1. Len(w) \in Nat /\ v \in Word
    BY <1>6, <1>12, ElementsAreWords, LenProperties DEF Word
  <2>2. PICK l \in Word : l = Lead /\ Len(l) = 4
    BY LeadIs
  <2>3. l \o w \in Word /\ Len(l \o w) = Len(l) + Len(w)
    BY <1>12, ConcatProperties DEF Word
  <2>4. QED  BY <1>12, <2>1, <2>2, <2>3
<1>14. "\\" \in Char /\ <<>> \in Words /\ <<>> \in Word
  BY LengthOfPrefix DEF Char
<1>15. CASE ks = <<>>
  <2>1. w = v
    BY <1>11, <1>15 DEF Written
  <2>2. FixLongPath(path) = Append(long, "\\")
    <3>1. Len(long) = Len(Prefix) + 3
      BY <1>6, <1>13, <2>1, LengthOfPrefix
    <3>2. QED  BY <1>9, <3>1
  <2>3. PICK u : u = Append(v, "\\")
    OBVIOUS
  <2>4. u \in Word /\ u # <<>>
    BY <1>13, <1>14, <2>3, AppendProperties DEF Word
  <2>5. Append(long, "\\") = Lead \o u
    <3>1. PICK l \in Word : l = Lead
      BY LeadIs
    <3>2. l \o Append(v, "\\") = Append(l \o v, "\\")
      BY <1>13, <1>14, ConcatAppend DEF Word
    <3>3. QED  BY <1>12, <2>1, <2>3, <3>1, <3>2
  <2>6. Split({"\\"}, u) = <<v, <<>>>>
    <3>1. Split({"\\"}, u) = AddTo({"\\"}, Split({"\\"}, v), "\\")
      BY <1>13, <1>14, <2>3, SplitAppends
    <3>2. Split({"\\"}, v) = <<v>>
      BY <1>10, SplitWord DEF Elements
    <3>3. AddTo({"\\"}, <<v>>, "\\") = Append(<<v>>, <<>>)
      BY DEF AddTo
    <3>4. QED  BY <3>1, <3>2, <3>3
  <2>7. PICK es : es = Split({"\\"}, u)
    OBVIOUS
  <2>8. Head(es) = v /\ Len(es) > 1 /\ es = <<Head(es), <<>>>>
    BY <2>6, <2>7
  <2>9. PICK q : q = FixLongPath(path)
    OBVIOUS
  <2>10. q = Lead \o u
    BY <2>2, <2>5, <2>9
  <2>11. /\ SubSeq(q, 1, 4) = Prefix \o <<"\\">>
         /\ Extended(q) = [volume |-> Head(es), abs |-> Len(es) > 1,
                           elems |-> IF es = <<Head(es), <<>>>> THEN <<>> ELSE Tail(es)]
    BY <2>4, <2>7, <2>10, ExtendedRead
  <2>12. Extended(q) = [volume |-> v, abs |-> TRUE, elems |-> ks]
    BY <1>15, <2>8, <2>11
  <2>13. QED  BY <1>7, <2>9, <2>11, <2>12
<1>16. CASE ks # <<>>
  <2>1. Len(w) > 2
    BY <1>6, <1>11, <1>16 DEF Written
  <2>2. FixLongPath(path) = long
    <3>1. Len(long) # Len(Prefix) + 3
      BY <1>13, <2>1, LengthOfPrefix
    <3>2. QED  BY <1>9, <3>1
  <2>3. w # <<>>
    BY <1>12, <2>1, EmptySeq DEF Word
  <2>4. PICK es : es = <<v>> \o ks
    OBVIOUS
  <2>5. ks \in Words /\ Len(ks) \in Nat \ {0} /\ ks[1] \in Elements(S) /\ <<v>> \in Words
    <3>1. ks \in Words
      BY <1>6, ElementsAreWords, SeqMonotonic DEF Words
    <3>2. Len(ks) \in Nat \ {0}
      BY <1>16, <3>1, EmptySeq DEF Words
    <3>3. 1 \in 1 .. Len(ks)
      BY <3>2
    <3>4. ks[1] \in Elements(S)
      BY <1>6, <3>3, ElementOfSeq
    <3>5. QED  BY <1>13, <3>1, <3>2, <3>4, OneWord DEF Words
  <2>6. /\ es \in Words /\ Len(es) = 1 + Len(ks) /\ es[1] = v
        /\ \A i \in 1 .. Len(ks) : es[i + 1] = ks[i]
    <3>1. PICK y : y = <<v>>
      OBVIOUS
    <3>2. y \in Words /\ Len(y) = 1 /\ y[1] = v
      BY <1>13, <2>5, <3>1, OneWord
    <3>3. y \o ks \in Words /\ Len(y \o ks) = Len(y) + Len(ks)
      BY <2>5, <3>2, ConcatProperties DEF Words
    <3>4. \A i \in 1 .. Len(y) + Len(ks) : (y \o ks)[i] = IF i <= Len(y) THEN y[i] ELSE ks[i - Len(y)]
      BY <2>5, <3>2, ConcatProperties DEF Words
    <3>5. es[1] = v
      <4>1. 1 \in 1 .. Len(y) + Len(ks) /\ 1 <= Len(y)
        BY <2>5, <3>2
      <4>2. QED  BY <2>4, <3>1, <3>2, <3>4, <4>1
    <3>6. ASSUME NEW i \in 1 .. Len(ks) PROVE es[i + 1] = ks[i]
      <4>1. i + 1 \in 1 .. Len(y) + Len(ks) /\ ~(i + 1 <= Len(y)) /\ (i + 1) - Len(y) = i
        BY <2>5, <3>2
      <4>2. QED  BY <2>4, <3>1, <3>4, <4>1
    <3>7. QED  BY <2>4, <3>1, <3>2, <3>3, <3>5, <3>6
  <2>7. Head(es) = v /\ Len(es) > 1
    <3>1. es # <<>>
      BY <2>5, <2>6, EmptySeq DEF Words
    <3>2. QED  BY <2>5, <2>6, <3>1
  <2>8. Tail(es) = ks
    <3>1. es # <<>>
      BY <2>5, <2>6, EmptySeq DEF Words
    <3>2. PICK x : x = Tail(es)
      OBVIOUS
    <3>3. x \in Words /\ Len(x) = Len(es) - 1 /\ \A i \in 1 .. Len(x) : x[i] = es[i + 1]
      BY <2>6, <3>1, <3>2, HeadTailProperties DEF Words
    <3>4. Len(x) = Len(ks)
      BY <2>5, <2>6, <3>3
    <3>5. \A i \in 1 .. Len(x) : x[i] = ks[i]
      BY <2>6, <3>3, <3>4
    <3>6. x = ks
      BY <2>5, <3>3, <3>4, <3>5, SeqEqual DEF Words
    <3>7. QED  BY <3>2, <3>6
  <2>9. es # <<Head(es), <<>>>>
    <3>1. es[2] = ks[1]
      <4>1. 1 \in 1 .. Len(ks) /\ 1 + 1 = 2
        BY <2>5
      <4>2. QED  BY <2>6, <4>1
    <3>2. ks[1] # <<>>
      BY <2>5 DEF Elements
    <3>3. \A x : <<x, <<>>>>[2] = <<>>
      OBVIOUS
    <3>4. QED  BY <3>1, <3>2, <3>3
  <2>10. /\ SubSeq(long, 1, 4) = Prefix \o <<"\\">>
         /\ Extended(long) = [volume |-> Head(es), abs |-> Len(es) > 1,
                              elems |-> IF es = <<Head(es), <<>>>> THEN <<>> ELSE Tail(es)]
    <3>1. es = Split({"\\"}, w)
      BY <1>12, <2>4
    <3>2. QED  BY <1>12, <2>3, <3>1, ExtendedRead
  <2>11. Extended(long) = [volume |-> v, abs |-> TRUE, elems |-> ks]
    BY <2>7, <2>8, <2>9, <2>10
  <2>12. QED  BY <1>7, <2>2, <2>10, <2>11
<1>17. QED
  BY <1>15, <1>16

LEMMA LongNamesHolds == PathInv => LongPathNamesEntry
<1>1. SUFFICES ASSUME PathInv PROVE LongPathNamesEntry
  OBVIOUS
<1>2. CASE Converted
  BY <1>1, <1>2, ConvertedNamesSame DEF LongPathNamesEntry, Converted
<1>3. CASE ~Converted
  BY <1>1, <1>3, OthersKept DEF LongPathNamesEntry, Converted
<1>4. QED
  BY <1>2, <1>3

\* Whatever its length, fixLongPath converts an absolute path without ".." to one that
\* names the same file, and leaves every other path alone
\* (entry_filter_windows.go:78-155).
THEOREM LongPathNamesEntryAlways == PathSpec => []LongPathNamesEntry
BY PathInvAlways, LongNamesHolds, PTL
=============================================================================
