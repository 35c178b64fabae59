------------------------ MODULE FastWalkCalls_proofs -------------------------
(***************************************************************************)
(* Proofs about what walkFn is told and what its answers lead to.  What is *)
(* said of the order of calls holds with any list of adapters around       *)
(* walkFn; what is said of their completeness holds while no adapter with  *)
(* a filter is among them, which keeps calls from walkFn on purpose.       *)
(*                                                                         *)
(* The wrapped function is a recursive function over the list of adapters, *)
(* so what it does is proved by induction (SetInduction) over the adapters *)
(* from the innermost outwards.                                            *)
(***************************************************************************)
EXTENDS FastWalk_proofs

-----------------------------------------------------------------------------
(* A call of the wrapped function.                                         *)

LEMMA WrapType ==
  ASSUME setup \in Setups
  PROVE  /\ Len(wrap) \in Nat
         /\ DOMAIN wrap = 1 .. Len(wrap)
         /\ \A i \in DOMAIN wrap :
              wrap[i] \in {"IgnoreDuplicateDirs", "IgnoreDuplicateFiles",
                           "IgnorePermissionErrors"}
<1>1. wrap \in Seq({"IgnoreDuplicateDirs", "IgnoreDuplicateFiles", "IgnorePermissionErrors"})
  BY TreeAssumption DEF TreeAssumption, wrap
<1>2. QED
  BY <1>1, LenProperties, ElementOfSeq

\* The outcomes at each adapter, from the user's function outwards.
IsOutcome(f, n, e, a, s, nil) ==
  /\ f[Len(wrap) + 1] = [ret |-> a, seen |-> s, told |-> TRUE]
  /\ \A i \in 1 .. Len(wrap) : f[i] = Adapter(i, n, e, s, nil, f[i + 1])

LEMMA CallOutcome ==
  ASSUME setup \in Setups, NEW n, NEW e, NEW a, NEW s, NEW nil
  PROVE  \E f : IsOutcome(f, n, e, a, s, nil) /\ Call(n, e, a, s, nil) = f[1]
<1> DEFINE L == Len(wrap)
           X == [ret |-> a, seen |-> s, told |-> TRUE]
           AdapterOf(i, x) == Adapter(i, n, e, s, nil, x)
           From(k, f) == f = [i \in k .. L + 1 |->
                                IF i = L + 1 THEN X ELSE AdapterOf(i, f[i + 1])]
           Is(f) == f = [i \in 1 .. L + 1 |->
                           IF i = L + 1 THEN X ELSE AdapterOf(i, f[i + 1])]
           A == {k \in Nat : k <= L => \E f : From(L + 1 - k, f)}
<1>1. L \in Nat
  BY WrapType
<1>2. Call(n, e, a, s, nil) = (CHOOSE f : Is(f))[1]
  BY DEF Call
<1> HIDE DEF L, X, AdapterOf
<1>3. 0 \in A
  <2>1. From(L + 1, [i \in L + 1 .. L + 1 |-> X])
    BY <1>1
  <2>2. L + 1 - 0 = L + 1
    BY <1>1
  <2>3. \E f : From(L + 1 - 0, f)
    BY <2>1, <2>2
  <2>4. QED  BY <2>3
<1>4. ASSUME NEW k \in Nat, k \in A PROVE k + 1 \in A
  <2>1. SUFFICES ASSUME k + 1 <= L PROVE \E f : From(L - k, f)
    BY <1>1
  <2>2. PICK g : From(L + 1 - k, g)
    BY <1>1, <1>4, <2>1
  <2> DEFINE h == [i \in L - k .. L + 1 |->
                     IF i = L - k THEN AdapterOf(i, g[i + 1]) ELSE g[i]]
  <2>3. L - k \in Int /\ L - k < L + 1 /\ L + 1 - k = (L - k) + 1
    BY <1>1, <2>1
  <2>4. \A i \in L - k .. L + 1 : i # L - k => i \in L + 1 - k .. L + 1 /\ h[i] = g[i]
    BY <1>1, <2>3
  <2>5. \A i \in L - k .. L + 1 :
          h[i] = IF i = L + 1 THEN X ELSE AdapterOf(i, h[i + 1])
    <3>1. TAKE i \in L - k .. L + 1
    <3>2. CASE i = L + 1
      BY <1>1, <2>2, <2>3, <2>4, <3>2
    <3>3. CASE i # L + 1
      <4>1. i + 1 \in L - k .. L + 1 /\ i + 1 # L - k
        BY <1>1, <2>3, <3>3
      <4>2. h[i + 1] = g[i + 1]
        BY <2>4, <4>1
      <4>3. h[i] = AdapterOf(i, g[i + 1])
        BY <1>1, <2>2, <2>3, <2>4, <3>3
      <4>4. QED  BY <3>3, <4>2, <4>3
    <3>4. QED  BY <3>2, <3>3
  <2>6. h = [i \in L - k .. L + 1 |-> h[i]]
    OBVIOUS
  <2> HIDE DEF h
  <2>7. From(L - k, h)
    BY <2>5, <2>6
  <2>8. QED  BY <2>7
<1>5. L \in A
  <2> HIDE DEF A
  <2>1. QED  BY <1>1, <1>3, <1>4, SetInduction
<1>6. PICK f : From(1, f)
  BY <1>1, <1>5
<1>7. Is(f)
  BY <1>6
<1>8. Is(CHOOSE g : Is(g))
  BY <1>7
<1> DEFINE c == CHOOSE g : Is(g)
<1>9. c = [i \in 1 .. L + 1 |-> IF i = L + 1 THEN X ELSE AdapterOf(i, c[i + 1])]
  BY <1>8
<1>10. Call(n, e, a, s, nil) = c[1]
  BY <1>2
<1> HIDE DEF c
<1>11. c[L + 1] = X /\ \A i \in 1 .. L : c[i] = AdapterOf(i, c[i + 1])
  BY <1>1, <1>9
<1>12. IsOutcome(c, n, e, a, s, nil)
  BY <1>11 DEF IsOutcome, L, X, AdapterOf
<1>13. QED
  BY <1>10, <1>12

\* What holds at one adapter, and passes from each to the one around it.
LEMMA CallOutward ==
  ASSUME setup \in Setups, NEW n, NEW e, NEW a, NEW s, NEW nil, NEW f,
         IsOutcome(f, n, e, a, s, nil),
         NEW j \in 1 .. Len(wrap) + 1, NEW l \in 1 .. j, NEW O, f[j] \in O,
         \A i \in l .. j - 1, x \in O : Adapter(i, n, e, s, nil, x) \in O
  PROVE  f[l] \in O
<1> DEFINE A == {k \in Nat : k <= j - l => f[j - k] \in O}
<1>1. j \in Nat /\ l \in Nat /\ l <= j /\ Len(wrap) \in Nat
  BY WrapType
<1>2. 0 \in A
  BY <1>1
<1>3. ASSUME NEW k \in Nat, k \in A PROVE k + 1 \in A
  <2>1. SUFFICES ASSUME k + 1 <= j - l PROVE f[j - (k + 1)] \in O
    OBVIOUS
  <2> DEFINE i == j - (k + 1)
  <2>2. i \in l .. j - 1 /\ i \in 1 .. Len(wrap) /\ i + 1 = j - k
    BY <1>1, <2>1
  <2>3. f[i + 1] \in O
    BY <1>1, <1>3, <2>1, <2>2
  <2>4. f[i] = Adapter(i, n, e, s, nil, f[i + 1])
    BY <2>2 DEF IsOutcome
  <2>5. QED  BY <2>2, <2>3, <2>4
<1>4. j - l \in A
  <2> HIDE DEF A
  <2>1. j - l \in Nat
    BY <1>1
  <2>2. QED  BY <1>2, <1>3, <2>1, SetInduction
<1>5. j - (j - l) = l /\ j - l <= j - l
  BY <1>1
<1>6. QED
  BY <1>4, <1>5

Seen == [DOMAIN wrap -> SUBSET Node]

\* What a call may come to: the filters forget nothing, and what the user's function
\* answers is passed on unless it is nil.
Outcome(a, s) ==
  {x \in [ret : Result, seen : Seen, told : BOOLEAN] :
     /\ \A i \in DOMAIN wrap : s[i] \subseteq x.seen[i]
     /\ x.told /\ a # Nil => x.ret = a}

LEMMA ResultNames ==
  /\ Nil \in Result
  /\ {"SkipDir", "SkipFiles", "TraverseLink", "permission", "io", "notdir"} \subseteq Result \ {Nil}
  BY PoolAssumption, WalkAssumption DEF PoolAssumption, WalkAssumption, Result

LEMMA RecordType ==
  ASSUME NEW n \in Node, NEW t \in SUBSET Node
  PROVE  /\ StatNode(n) \in Node \cup {NoNode}
         /\ Record(n, t) \in SUBSET Node /\ t \subseteq Record(n, t)
<1>1. StatNode(n) \in Node \cup {NoNode}
  BY ResolveType DEF StatNode
<1>2. QED
  BY <1>1 DEF Record

\* The filter of one adapter takes in another node.
LEMMA SeenMore ==
  ASSUME NEW s \in Seen, NEW i \in DOMAIN wrap, NEW n \in Node
  PROVE  /\ [s EXCEPT ![i] = Record(n, @)] \in Seen
         /\ \A j \in DOMAIN wrap : s[j] \subseteq [s EXCEPT ![i] = Record(n, @)][j]
<1>1. Record(n, s[i]) \in SUBSET Node /\ s[i] \subseteq Record(n, s[i])
  BY RecordType DEF Seen
<1>2. QED
  BY <1>1 DEF Seen

LEMMA AdapterOutcome ==
  ASSUME setup \in Setups, NEW n \in Node, NEW e, NEW a \in Result, NEW s \in Seen,
         NEW i \in 1 .. Len(wrap), NEW x \in Outcome(a, s)
  PROVE  Adapter(i, n, e, s, Nil, x) \in Outcome(a, s)
<1> DEFINE t == [x.seen EXCEPT ![i] = Record(n, @)]
<1>1. /\ i \in DOMAIN wrap /\ x.ret \in Result /\ x.seen \in Seen /\ x.told \in BOOLEAN
      /\ x = [ret |-> x.ret, seen |-> x.seen, told |-> x.told]
      /\ \A j \in DOMAIN wrap : s[j] \subseteq x.seen[j]
      /\ x.told /\ a # Nil => x.ret = a
  BY WrapType DEF Outcome
<1>2. t \in Seen /\ \A j \in DOMAIN wrap : s[j] \subseteq t[j]
  <2>1. t \in Seen /\ \A j \in DOMAIN wrap : x.seen[j] \subseteq t[j]
    BY <1>1, SeenMore
  <2>2. QED  BY <1>1, <2>1
<1> HIDE DEF t
<1>3. [ret |-> Nil, seen |-> s, told |-> FALSE] \in Outcome(a, s)
      /\ [ret |-> "SkipDir", seen |-> s, told |-> FALSE] \in Outcome(a, s)
  BY ResultNames DEF Outcome
<1>4. ASSUME NEW r \in Result, x.ret # Nil => r = x.ret
      PROVE  [ret |-> r, seen |-> t, told |-> x.told] \in Outcome(a, s)
  BY <1>1, <1>2, <1>4 DEF Outcome
<1>5. IgnorePermissionErrors(e, s, Nil, x) \in Outcome(a, s)
  BY <1>3 DEF IgnorePermissionErrors
<1>6. IgnoreDuplicateDirs(i, n, s, Nil, x) \in Outcome(a, s)
  <2>1. CASE ~IsDirEntry(n) \/ x.ret = "SkipDir"
    BY <2>1 DEF IgnoreDuplicateDirs
  <2>2. CASE IsDirEntry(n) /\ x.ret # "SkipDir"
    <3> DEFINE r == IF x.ret # Nil THEN x.ret
                    ELSE IF FilterEntry(n, s[i]) THEN "SkipDir"
                    ELSE IF EntryType(n) = "link" THEN "TraverseLink"
                    ELSE Nil
    <3>1. IgnoreDuplicateDirs(i, n, s, Nil, x) = [ret |-> r, seen |-> t, told |-> x.told]
      BY <2>2 DEF IgnoreDuplicateDirs, t
    <3>2. r \in Result /\ (x.ret # Nil => r = x.ret)
      BY <1>1, ResultNames
    <3> HIDE DEF r
    <3>3. QED  BY <1>4, <3>1, <3>2
  <2>3. QED  BY <2>1, <2>2
<1>7. IgnoreDuplicateFiles(i, n, s, Nil, x) \in Outcome(a, s)
  <2>1. CASE FilterEntry(n, s[i])
    BY <1>3, <2>1 DEF IgnoreDuplicateFiles
  <2>2. CASE ~FilterEntry(n, s[i])
    <3> DEFINE r == IF x.ret = Nil /\ EntryType(n) = "link" /\ IsDirEntry(n)
                    THEN "TraverseLink" ELSE x.ret
    <3>1. IgnoreDuplicateFiles(i, n, s, Nil, x) = [ret |-> r, seen |-> t, told |-> x.told]
      BY <2>2 DEF IgnoreDuplicateFiles, t
    <3>2. r \in Result /\ (x.ret # Nil => r = x.ret)
      BY <1>1, ResultNames
    <3> HIDE DEF r
    <3>3. QED  BY <1>4, <3>1, <3>2
  <2>3. QED  BY <2>1, <2>2
<1>8. QED
  BY <1>5, <1>6, <1>7 DEF Adapter

LEMMA CallTyped ==
  ASSUME setup \in Setups, NEW n \in Node, NEW e, NEW a \in Result, NEW s \in Seen
  PROVE  Call(n, e, a, s, Nil) \in Outcome(a, s)
<1>1. PICK f : IsOutcome(f, n, e, a, s, Nil) /\ Call(n, e, a, s, Nil) = f[1]
  BY CallOutcome
<1>2. Len(wrap) \in Nat /\ Len(wrap) + 1 \in 1 .. Len(wrap) + 1 /\ 1 \in 1 .. Len(wrap) + 1
      /\ (Len(wrap) + 1) - 1 = Len(wrap)
  BY WrapType
<1>3. f[Len(wrap) + 1] \in Outcome(a, s)
  BY <1>1 DEF IsOutcome, Outcome
<1>4. \A i \in 1 .. (Len(wrap) + 1) - 1, x \in Outcome(a, s) :
        Adapter(i, n, e, s, Nil, x) \in Outcome(a, s)
  BY <1>2, AdapterOutcome
<1>5. f[1] \in Outcome(a, s)
  BY <1>1, <1>2, <1>3, <1>4, CallOutward
<1>6. QED
  BY <1>1, <1>5

\* What comes back from adapters that kept the call from the user's function, or whose
\* user's function had nothing to say.
Reply(n, e, a, s) ==
  {x \in Outcome(a, s) :
     /\ ~x.told \/ a = Nil => x.ret \in {Nil, "SkipDir", "TraverseLink"}
     /\ ~x.told /\ e # "permission" => x.ret = IF IsDirEntry(n) THEN "SkipDir" ELSE Nil}

LEMMA AdapterReply ==
  ASSUME setup \in Setups, NEW n \in Node, NEW e, NEW a \in Result, NEW s \in Seen,
         NEW i \in 1 .. Len(wrap), NEW x \in Reply(n, e, a, s)
  PROVE  Adapter(i, n, e, s, Nil, x) \in Reply(n, e, a, s)
<1> DEFINE y == Adapter(i, n, e, s, Nil, x)
<1>1. /\ x \in Outcome(a, s) /\ x.ret \in Result /\ x.told \in BOOLEAN
      /\ ~x.told \/ a = Nil => x.ret \in {Nil, "SkipDir", "TraverseLink"}
      /\ ~x.told /\ e # "permission" => x.ret = IF IsDirEntry(n) THEN "SkipDir" ELSE Nil
  BY DEF Reply, Outcome
<1>2. y \in Outcome(a, s)
  BY <1>1, AdapterOutcome
<1>3. Nil # "SkipDir"
  BY ResultNames
<1>4. \/ y = x
      \/ y.told = FALSE /\ e = "permission" /\ y.ret = Nil
      \/ y.told = FALSE /\ y.ret = IF IsDirEntry(n) THEN "SkipDir" ELSE Nil
      \/ y.told = x.told /\ y.ret = x.ret
      \/ y.told = x.told /\ IsDirEntry(n) /\ x.ret = Nil /\ y.ret \in {Nil, "SkipDir", "TraverseLink"}
  <2>1. CASE wrap[i] = "IgnorePermissionErrors"
    BY <2>1 DEF Adapter, IgnorePermissionErrors
  <2>2. CASE wrap[i] = "IgnoreDuplicateDirs"
    BY <2>2 DEF Adapter, IgnoreDuplicateDirs
  <2>3. CASE wrap[i] \notin {"IgnorePermissionErrors", "IgnoreDuplicateDirs"}
    BY <2>3 DEF Adapter, IgnoreDuplicateFiles
  <2>4. QED  BY <2>1, <2>2, <2>3
<1> HIDE DEF y
<1>5. y \in Reply(n, e, a, s)
  BY <1>1, <1>2, <1>3, <1>4 DEF Reply
<1>6. QED
  BY <1>5 DEF y

LEMMA CallReply ==
  ASSUME setup \in Setups, NEW n \in Node, NEW e, NEW a \in Result, NEW s \in Seen
  PROVE  Call(n, e, a, s, Nil) \in Reply(n, e, a, s)
<1>1. PICK f : IsOutcome(f, n, e, a, s, Nil) /\ Call(n, e, a, s, Nil) = f[1]
  BY CallOutcome
<1>2. Len(wrap) \in Nat /\ Len(wrap) + 1 \in 1 .. Len(wrap) + 1 /\ 1 \in 1 .. Len(wrap) + 1
      /\ (Len(wrap) + 1) - 1 = Len(wrap)
  BY WrapType
<1>3. f[Len(wrap) + 1] \in Reply(n, e, a, s)
  BY <1>1 DEF IsOutcome, Outcome, Reply
<1>4. \A i \in 1 .. (Len(wrap) + 1) - 1, x \in Reply(n, e, a, s) :
        Adapter(i, n, e, s, Nil, x) \in Reply(n, e, a, s)
  BY <1>2, AdapterReply
<1>5. f[1] \in Reply(n, e, a, s)
  BY <1>1, <1>2, <1>3, <1>4, CallOutward
<1>6. QED
  BY <1>1, <1>5

\* While the filters are empty nothing is taken for a duplicate.
LEMMA FirstCallTold ==
  ASSUME setup \in Setups, NEW n \in Node, StatNode(n) # NoNode, NEW a \in Result
  PROVE  Call(n, Nil, a, NoneSeen, Nil).told
<1> DEFINE O == {x \in Outcome(a, NoneSeen) : x.told}
<1>1. NoneSeen \in Seen
  BY DEF NoneSeen, Seen
<1>2. PICK f : IsOutcome(f, n, Nil, a, NoneSeen, Nil) /\ Call(n, Nil, a, NoneSeen, Nil) = f[1]
  BY CallOutcome
<1>3. Len(wrap) \in Nat /\ Len(wrap) + 1 \in 1 .. Len(wrap) + 1 /\ 1 \in 1 .. Len(wrap) + 1
      /\ (Len(wrap) + 1) - 1 = Len(wrap) /\ DOMAIN wrap = 1 .. Len(wrap)
  BY WrapType
<1>4. f[Len(wrap) + 1] \in O
  BY <1>1, <1>2 DEF IsOutcome, Outcome
<1>5. ASSUME NEW i \in 1 .. (Len(wrap) + 1) - 1, NEW x \in O
      PROVE  Adapter(i, n, Nil, NoneSeen, Nil, x) \in O
  <2> DEFINE y == Adapter(i, n, Nil, NoneSeen, Nil, x)
  <2>1. y \in Outcome(a, NoneSeen)
    BY <1>1, <1>3, AdapterOutcome
  <2>2. ~FilterEntry(n, NoneSeen[i]) /\ Nil # "permission"
    BY <1>3, ResultNames DEF FilterEntry, NoneSeen
  <2>3. y.told = x.told
    BY <2>2 DEF Adapter, IgnorePermissionErrors, IgnoreDuplicateDirs, IgnoreDuplicateFiles
  <2> HIDE DEF y
  <2>4. y \in O
    BY <2>1, <2>3
  <2>5. QED  BY <2>4 DEF y
<1>6. f[1] \in O
  <2> HIDE DEF O
  <2>1. \A i \in 1 .. (Len(wrap) + 1) - 1, x \in O : Adapter(i, n, Nil, NoneSeen, Nil, x) \in O
    BY <1>5
  <2>2. QED  BY <1>2, <1>3, <1>4, <2>1, CallOutward
<1>7. QED
  BY <1>2, <1>6

\* No adapter has a filter: walkFn is bare, or within IgnorePermissionErrors.
Unfiltered == \A i \in DOMAIN wrap : wrap[i] = "IgnorePermissionErrors"

\* Then it gets every call, except one for an error of that kind.
LEMMA UnfilteredCall ==
  ASSUME setup \in Setups, Unfiltered, NEW n, NEW e, NEW a, NEW s
  PROVE  LET x == Call(n, e, a, s, Nil)
         IN  \/ x = [ret |-> a, seen |-> s, told |-> TRUE]
             \/ x.ret = Nil /\ ~x.told /\ e = "permission" /\ wrap # <<>>
<1> DEFINE X == [ret |-> a, seen |-> s, told |-> TRUE]
           Hushed == [ret |-> Nil, seen |-> s, told |-> FALSE]
<1>1. PICK f : IsOutcome(f, n, e, a, s, Nil) /\ Call(n, e, a, s, Nil) = f[1]
  BY CallOutcome
<1>2. /\ Len(wrap) \in Nat /\ DOMAIN wrap = 1 .. Len(wrap) /\ Len(<<>>) = 0
      /\ Len(wrap) + 1 \in 1 .. Len(wrap) + 1 /\ 1 \in 1 .. Len(wrap) + 1
      /\ (Len(wrap) + 1) - 1 = Len(wrap)
  BY WrapType
<1>3. /\ f[Len(wrap) + 1] = X
      /\ \A i \in 1 .. Len(wrap) : f[i] = Adapter(i, n, e, s, Nil, f[i + 1])
  BY <1>1 DEF IsOutcome
<1>4. \A i \in 1 .. Len(wrap) : wrap[i] = "IgnorePermissionErrors"
  BY <1>2 DEF Unfiltered
<1> HIDE DEF X
<1>5. CASE e = "permission" /\ Len(wrap) > 0
  <2>1. 1 \in 1 .. Len(wrap)
    BY <1>2, <1>5
  <2>2. f[1] = Adapter(1, n, e, s, Nil, f[1 + 1]) /\ wrap[1] = "IgnorePermissionErrors"
    BY <1>3, <1>4, <2>1
  <2>3. f[1] = Hushed
    BY <1>5, <2>2 DEF Adapter, IgnorePermissionErrors
  <2>4. QED  BY <1>1, <1>2, <1>5, <2>3
<1>6. CASE e # "permission" \/ Len(wrap) = 0
  <2> DEFINE O == {X}
  <2>1. \A i \in 1 .. (Len(wrap) + 1) - 1, x \in O : Adapter(i, n, e, s, Nil, x) \in O
    BY <1>2, <1>4, <1>6 DEF Adapter, IgnorePermissionErrors
  <2>2. f[Len(wrap) + 1] \in O
    BY <1>3
  <2> HIDE DEF O
  <2>3. f[1] \in O
    BY <1>1, <1>2, <2>1, <2>2, CallOutward
  <2>4. QED  BY <1>1, <2>3 DEF O, X
<1>7. QED
  BY <1>2, <1>5, <1>6

\* walkFn was to be called for path p with error e and would answer a; walk() gets r.
Answered(p, e, a, r) ==
  \/ /\ Made' = Made \cup {[path |-> p, err |-> e, ret |-> a]}
     /\ a # Nil \/ Unfiltered => r = a
     /\ a = Nil => r \in {Nil, "SkipDir", "TraverseLink"}
  \/ /\ Made' = Made
     /\ r \in {Nil, "SkipDir", "TraverseLink"}
     /\ Unfiltered => r = Nil /\ e = "permission" /\ wrap # <<>>
     /\ e = Nil => /\ r = IF IsDirEntry(Last(p)) THEN "SkipDir" ELSE Nil
                   /\ seen # NoneSeen \/ StatNode(Last(p)) = NoNode

LEMMA CallAnswered ==
  ASSUME setup \in Setups, seen \in Seen, NEW p \in Path, NEW e, NEW a \in Result, NEW r,
         CallFn(p, e, a, r)
  PROVE  Answered(p, e, a, r)
<1> DEFINE x == Call(Last(p), e, a, seen, Nil)
<1>1. Last(p) \in Node
  BY PathLast
<1>2. x \in Reply(Last(p), e, a, seen)
  BY <1>1, CallReply
<1>3. Unfiltered => \/ x.ret = a /\ x.told
                    \/ x.ret = Nil /\ ~x.told /\ e = "permission" /\ wrap # <<>>
  BY UnfilteredCall
<1>4. e = Nil /\ seen = NoneSeen /\ StatNode(Last(p)) # NoNode => x.told
  BY <1>1, FirstCallTold
<1>5. /\ r = x.ret
      /\ calls' = IF x.told THEN calls (+) SetToBag({[path |-> p, err |-> e, ret |-> a]})
                  ELSE calls
  BY DEF CallFn
<1> HIDE DEF x
<1>6. /\ x.told \in BOOLEAN
      /\ x.told /\ a # Nil => x.ret = a
      /\ ~x.told \/ a = Nil => x.ret \in {Nil, "SkipDir", "TraverseLink"}
      /\ ~x.told /\ e # "permission" =>
           x.ret = IF IsDirEntry(Last(p)) THEN "SkipDir" ELSE Nil
  BY <1>2 DEF Reply, Outcome
<1>7. CASE x.told
  <2>1. Made' = Made \cup {[path |-> p, err |-> e, ret |-> a]}
    BY <1>5, <1>7, CallsGrow DEF Made, BagToSet
  <2>2. QED  BY <1>3, <1>5, <1>6, <1>7, <2>1 DEF Answered
<1>8. CASE ~x.told
  <2>1. Made' = Made /\ Nil # "permission"
    BY <1>5, <1>8, ResultNames DEF Made
  <2>2. QED  BY <1>3, <1>4, <1>5, <1>6, <1>8, <2>1 DEF Answered
<1>9. QED
  BY <1>6, <1>7, <1>8

\* Without a filter, walk() goes by what walkFn answers.
LEMMA DirectAnswer ==
  ASSUME Unfiltered, NEW p, NEW a, NEW r, Answered(p, Nil, a, r)
  PROVE  r = a /\ Made' = Made \cup {[path |-> p, err |-> Nil, ret |-> a]}
  BY ResultNames DEF Answered

-----------------------------------------------------------------------------
(* What each step of a walk does.                                          *)

\* w stays in walk(), with t as what it has to do next, or leaves it with error r.
Stays(w, t) ==
  /\ Walking' = Walking /\ walked' = walked /\ failed' = failed
  /\ task'[w] = t

Leaves(w, r) ==
  /\ Walking' = Walking \ {w} /\ walked' = walked \cup {held[w]}
  /\ failed' = failed \cup ({r} \ {Nil})

LEMMA VisitEffect ==
  ASSUME PoolInv, WalkInv, seen \in Seen, NEW w \in Worker, Visit(w)
  PROVE  /\ task[w].stage = "visit" /\ UNCHANGED <<setup, opened, broken, found>>
         /\ \E a \in Result, r \in Result :
              /\ Answered(Dir(w), Nil, a, r)
              /\ \/ r = Nil /\ Stays(w, [task[w] EXCEPT !.stage = "descend"])
                 \/ r = "SkipDir" /\ Leaves(w, Nil)
                 \/ r \notin {Nil, "SkipDir"} /\ Leaves(w, r)
<1>1. TypeOK /\ TaskInv /\ w \in Walking /\ setup \in Setups /\ Nil \in Result
  BY ResultNames DEF PoolInv, IInv, WalkInv, TaskInv, Visit, InStage, Walking
<1>2. Dir(w) \in Path
  BY <1>1, HeldItemFacts DEF PoolInv, IInv, WalkInv
<1>3. PICK a \in UserAnswers(Dir(w), Nil), r \in Result :
        /\ CallFn(Dir(w), Nil, a, r)
        /\ \/ r = Nil /\ Continue(w, [task[w] EXCEPT !.stage = "descend"])
           \/ r = "SkipDir" /\ Return(w, Nil)
           \/ r \notin {Nil, "SkipDir"} /\ Return(w, r)
  BY DEF Visit
<1>4. a \in Result /\ Answered(Dir(w), Nil, a, r)
  BY <1>1, <1>2, <1>3, AnswerType, CallAnswered
<1>5. task[w].stage = "visit" /\ UNCHANGED <<setup, opened, broken>>
  BY DEF Visit, InStage
<1>6. found' = found
  BY StageEffect
<1>7. \/ r = Nil /\ Stays(w, [task[w] EXCEPT !.stage = "descend"])
      \/ r = "SkipDir" /\ Leaves(w, Nil)
      \/ r \notin {Nil, "SkipDir"} /\ Leaves(w, r)
  <2>1. CASE r = Nil /\ Continue(w, [task[w] EXCEPT !.stage = "descend"])
    BY <1>1, <2>1, ContinueEffect DEF Stays
  <2>2. CASE r = "SkipDir" /\ Return(w, Nil)
    BY <1>1, <2>2, ReturnEffect DEF Leaves
  <2>3. CASE r \notin {Nil, "SkipDir"} /\ Return(w, r)
    BY <1>1, <2>3, ReturnEffect DEF Leaves
  <2>4. QED  BY <1>3, <2>1, <2>2, <2>3
<1>8. QED
  BY <1>4, <1>5, <1>6, <1>7

LEMMA DirectVisit ==
  ASSUME PoolInv, WalkInv, seen \in Seen, Unfiltered, NEW w \in Worker, Visit(w)
  PROVE  \E a \in Result :
           /\ Made' = Made \cup {[path |-> Dir(w), err |-> Nil, ret |-> a]}
           /\ \/ a = Nil /\ Stays(w, [task[w] EXCEPT !.stage = "descend"])
              \/ a = "SkipDir" /\ Leaves(w, Nil)
              \/ a \notin {Nil, "SkipDir"} /\ Leaves(w, a)
<1>1. PICK a \in Result, r \in Result :
        /\ Answered(Dir(w), Nil, a, r)
        /\ \/ r = Nil /\ Stays(w, [task[w] EXCEPT !.stage = "descend"])
           \/ r = "SkipDir" /\ Leaves(w, Nil)
           \/ r \notin {Nil, "SkipDir"} /\ Leaves(w, r)
  BY VisitEffect
<1>2. r = a /\ Made' = Made \cup {[path |-> Dir(w), err |-> Nil, ret |-> a]}
  BY <1>1, DirectAnswer
<1>3. QED
  BY <1>1, <1>2

LEMMA StopEffect ==
  ASSUME PoolInv, WalkInv, NEW w \in Worker, StopAtMaxDepth(w)
  PROVE  /\ task[w].stage = "descend" /\ TooDeep(held[w]) /\ Leaves(w, Nil)
         /\ UNCHANGED <<setup, seen, calls, opened, broken, found>> /\ Made' = Made
<1>1. TypeOK /\ TaskInv
  BY DEF PoolInv, IInv, WalkInv
<1>2. /\ task[w].stage = "descend" /\ TooDeep(held[w]) /\ Return(w, Nil)
      /\ UNCHANGED <<setup, seen, calls, opened, broken>>
  BY DEF StopAtMaxDepth, InStage
<1>3. QED
  BY <1>1, <1>2, ReturnEffect DEF Leaves, Made

LEMMA ReadEffect ==
  ASSUME PoolInv, WalkInv, NEW w \in Worker, ReadDir(w)
  PROVE  /\ task[w].stage = "descend" /\ ~TooDeep(held[w])
         /\ UNCHANGED <<setup, seen, calls, broken, found>> /\ Made' = Made
         /\ \E r \in Readings(Resolve(Last(Dir(w))), Nil) :
              /\ Stays(w, [NoTask EXCEPT !.stage = "entries", !.rest = r.entries, !.err = r.err])
              /\ opened' = IF r.err = Nil THEN opened \cup {Dir(w)} ELSE opened
<1>1. TypeOK /\ TaskInv
  BY DEF PoolInv, IInv, WalkInv
<1>2. PICK r \in Readings(Resolve(Last(Dir(w))), Nil) :
        /\ Continue(w, [NoTask EXCEPT !.stage = "entries", !.rest = r.entries, !.err = r.err])
        /\ opened' = IF r.err = Nil THEN opened \cup {Dir(w)} ELSE opened
  BY DEF ReadDir
<1>3. Stays(w, [NoTask EXCEPT !.stage = "entries", !.rest = r.entries, !.err = r.err])
  BY <1>1, <1>2, ContinueEffect DEF Stays
<1>4. /\ task[w].stage = "descend" /\ ~TooDeep(held[w])
      /\ UNCHANGED <<setup, seen, calls, broken>> /\ Made' = Made
  BY DEF ReadDir, InStage, Made
<1>5. found' = found
  BY StageEffect
<1>6. QED
  BY <1>2, <1>3, <1>4, <1>5

LEMMA EndEffect ==
  ASSUME PoolInv, WalkInv, NEW w \in Worker, EndDir(w)
  PROVE  /\ task[w].stage = "entries" /\ task[w].rest = <<>>
         /\ UNCHANGED <<setup, seen, calls, opened, found>> /\ Made' = Made
         /\ \/ task[w].err = Nil /\ Leaves(w, Nil) /\ UNCHANGED broken
            \/ /\ task[w].err # Nil /\ Stays(w, [task[w] EXCEPT !.stage = "report"])
               /\ broken' = broken \cup {Dir(w)}
<1>1. TypeOK /\ TaskInv
  BY DEF PoolInv, IInv, WalkInv
<1>2. /\ task[w].stage = "entries" /\ task[w].rest = <<>>
      /\ UNCHANGED <<setup, seen, calls, opened>> /\ Made' = Made
  BY DEF EndDir, InStage, Made
<1>3. found' = found
  BY StageEffect
<1>4. CASE task[w].err = Nil /\ Return(w, Nil) /\ UNCHANGED broken
  BY <1>1, <1>2, <1>3, <1>4, ReturnEffect DEF Leaves
<1>5. CASE /\ task[w].err # Nil /\ Continue(w, [task[w] EXCEPT !.stage = "report"])
           /\ broken' = broken \cup {Dir(w)}
  BY <1>1, <1>2, <1>3, <1>5, ContinueEffect DEF Stays
<1>6. QED
  BY <1>4, <1>5 DEF EndDir

LEMMA ReportEffect ==
  ASSUME PoolInv, WalkInv, seen \in Seen, NEW w \in Worker, ReportError(w)
  PROVE  /\ task[w].stage = "report" /\ UNCHANGED <<setup, opened, broken, found>>
         /\ \E a \in Result, r \in Result :
              Answered(Dir(w), task[w].err, a, r) /\ Leaves(w, r)
<1>1. TypeOK /\ TaskInv /\ setup \in Setups /\ w \in Walking
  BY DEF PoolInv, IInv, WalkInv, TaskInv, ReportError, InStage, Walking
<1>2. Dir(w) \in Path /\ task[w].err \in Result
  BY <1>1, HeldItemFacts DEF PoolInv, IInv, WalkInv, TaskInv, Task
<1>3. PICK a \in UserAnswers(Dir(w), task[w].err), r \in Result :
        CallFn(Dir(w), task[w].err, a, r) /\ Return(w, r)
  BY DEF ReportError
<1>4. a \in Result /\ Answered(Dir(w), task[w].err, a, r)
  BY <1>1, <1>2, <1>3, AnswerType, CallAnswered
<1>5. task[w].stage = "report" /\ UNCHANGED <<setup, opened, broken>>
  BY DEF ReportError, InStage
<1>6. Leaves(w, r) /\ found' = found
  BY <1>1, <1>3, ReturnEffect DEF Leaves
<1>7. QED
  BY <1>4, <1>5, <1>6

LEMMA SkipEffect ==
  ASSUME PoolInv, WalkInv, NEW w \in Worker, SkipEntry(w)
  PROVE  /\ AtEntry(w) /\ Skipped(w) /\ Stays(w, NextEntry(w))
         /\ UNCHANGED <<setup, seen, calls, opened, broken, found>> /\ Made' = Made
<1>1. TypeOK /\ TaskInv
  BY DEF PoolInv, IInv, WalkInv
<1>2. QED
  BY <1>1, ContinueEffect DEF SkipEntry, Stays, Made

LEMMA EnqueueDirEffect ==
  ASSUME PoolInv, WalkInv, NEW w \in Worker, EnqueueDir(w)
  PROVE  /\ AtEntry(w) /\ ~Skipped(w) /\ EntryType(Entry(w)) = "dir" /\ Stays(w, NextEntry(w))
         /\ found' = found \cup {[path |-> EntryPath(w), callbackDone |-> FALSE]}
         /\ UNCHANGED <<setup, seen, calls, opened, broken>> /\ Made' = Made
<1>1. TypeOK /\ TaskInv
  BY DEF PoolInv, IInv, WalkInv
<1>2. QED
  BY <1>1, EnqueueEffect DEF EnqueueDir, Stays, Made

LEMMA VisitEntryEffect ==
  ASSUME PoolInv, WalkInv, seen \in Seen, NEW w \in Worker, VisitEntry(w)
  PROVE  /\ AtEntry(w) /\ ~Skipped(w) /\ EntryType(Entry(w)) # "dir"
         /\ UNCHANGED <<setup, opened, broken>>
         /\ \E a \in Result, r \in Result :
              LET e == EntryError(Entry(w), r)
              IN  /\ Answered(EntryPath(w), Nil, a, r)
                  /\ \/ /\ Traversed(EntryPath(w), r) /\ Stays(w, NextEntry(w))
                        /\ found' = found \cup {[path |-> EntryPath(w), callbackDone |-> TRUE]}
                     \/ /\ ~Traversed(EntryPath(w), r) /\ found' = found
                        /\ \/ e = Nil /\ Stays(w, NextEntry(w))
                           \/ /\ e = "SkipFiles"
                              /\ Stays(w, [NextEntry(w) EXCEPT !.skipFiles = TRUE])
                           \/ e \notin {Nil, "SkipFiles"} /\ Stays(w, LeaveLoop(w, e))
<1>1. TypeOK /\ TaskInv /\ setup \in Setups /\ Nil \in Result
  BY ResultNames DEF PoolInv, IInv, WalkInv, TaskInv
<1>2. /\ AtEntry(w) /\ ~Skipped(w) /\ EntryType(Entry(w)) # "dir"
      /\ UNCHANGED <<setup, opened, broken>>
  BY DEF VisitEntry
<1>3. EntryPath(w) \in Path
  BY <1>2, EntryIsNew
<1>4. PICK a \in UserAnswers(EntryPath(w), Nil), r \in Result :
        LET e == EntryError(Entry(w), r)
        IN  /\ CallFn(EntryPath(w), Nil, a, r)
            /\ \/ /\ Traversed(EntryPath(w), r)
                  /\ Enqueue(w, [path |-> EntryPath(w), callbackDone |-> TRUE], NextEntry(w))
               \/ /\ ~Traversed(EntryPath(w), r)
                  /\ \/ e = Nil /\ Continue(w, NextEntry(w))
                     \/ e = "SkipFiles" /\ Continue(w, [NextEntry(w) EXCEPT !.skipFiles = TRUE])
                     \/ e \notin {Nil, "SkipFiles"} /\ Continue(w, LeaveLoop(w, e))
  BY DEF VisitEntry
<1>5. a \in Result /\ Answered(EntryPath(w), Nil, a, r)
  BY <1>1, <1>3, <1>4, AnswerType, CallAnswered
<1>6. ASSUME NEW t, Continue(w, t) PROVE Stays(w, t) /\ found' = found
  BY <1>1, <1>6, ContinueEffect DEF Stays
<1>7. ASSUME NEW it, NEW t, Enqueue(w, it, t) PROVE Stays(w, t) /\ found' = found \cup {it}
  BY <1>1, <1>7, EnqueueEffect DEF Stays
<1>8. QED
  BY <1>2, <1>4, <1>5, <1>6, <1>7

LEMMA DirectVisitEntry ==
  ASSUME PoolInv, WalkInv, seen \in Seen, Unfiltered, NEW w \in Worker, VisitEntry(w)
  PROVE  \E a \in Result :
           LET e == EntryError(Entry(w), a)
           IN  /\ Made' = Made \cup {[path |-> EntryPath(w), err |-> Nil, ret |-> a]}
               /\ \/ /\ Traversed(EntryPath(w), a) /\ Stays(w, NextEntry(w))
                     /\ found' = found \cup {[path |-> EntryPath(w), callbackDone |-> TRUE]}
                  \/ /\ ~Traversed(EntryPath(w), a) /\ found' = found
                     /\ \/ e = Nil /\ Stays(w, NextEntry(w))
                        \/ /\ e = "SkipFiles"
                           /\ Stays(w, [NextEntry(w) EXCEPT !.skipFiles = TRUE])
                        \/ e \notin {Nil, "SkipFiles"} /\ Stays(w, LeaveLoop(w, e))
<1>1. PICK a \in Result, r \in Result :
        LET e == EntryError(Entry(w), r)
        IN  /\ Answered(EntryPath(w), Nil, a, r)
            /\ \/ /\ Traversed(EntryPath(w), r) /\ Stays(w, NextEntry(w))
                  /\ found' = found \cup {[path |-> EntryPath(w), callbackDone |-> TRUE]}
               \/ /\ ~Traversed(EntryPath(w), r) /\ found' = found
                  /\ \/ e = Nil /\ Stays(w, NextEntry(w))
                     \/ e = "SkipFiles" /\ Stays(w, [NextEntry(w) EXCEPT !.skipFiles = TRUE])
                     \/ e \notin {Nil, "SkipFiles"} /\ Stays(w, LeaveLoop(w, e))
  BY VisitEntryEffect
<1>2. r = a /\ Made' = Made \cup {[path |-> EntryPath(w), err |-> Nil, ret |-> a]}
  BY <1>1, DirectAnswer
<1>3. QED
  BY <1>1, <1>2

\* The histories only grow, and the configuration stays.
LEMMA HistoryGrows ==
  ASSUME PoolInv, WalkInv, [WalkNext]_walkVars
  PROVE  /\ Made \subseteq Made' /\ found \subseteq found' /\ walked \subseteq walked'
         /\ opened \subseteq opened' /\ broken \subseteq broken' /\ failed \subseteq failed'
         /\ Reached \subseteq Reached' /\ setup' = setup
<1>1. TypeOK /\ TaskInv /\ ItemsFound
  BY DEF PoolInv, IInv, WalkInv
<1>2. CASE (QuietPool /\ UNCHANGED detail) \/ \E w \in Worker : Take(w)
  <2>1. opened' = opened /\ broken' = broken /\ failed' = failed
    BY <1>1, <1>2, QuietEffect, TakeEffect DEF detail
  <2>2. QED  BY <1>1, <1>2, <2>1, QuietReached
<1>3. ASSUME NEW w \in Worker,
             Visit(w) \/ StopAtMaxDepth(w) \/ ReadDir(w) \/ EndDir(w) \/ ReportError(w)
      PROVE  /\ opened \subseteq opened' /\ broken \subseteq broken' /\ failed \subseteq failed'
             /\ walked \subseteq walked'
  <2>1. opened \subseteq opened' /\ broken \subseteq broken'
    BY <1>3 DEF Visit, StopAtMaxDepth, ReadDir, EndDir, ReportError
  <2>2. (\E t : Continue(w, t)) \/ (\E r : Return(w, r))
    BY <1>3 DEF Visit, StopAtMaxDepth, ReadDir, EndDir, ReportError
  <2>3. failed \subseteq failed' /\ walked \subseteq walked'
    BY <1>1, <2>2, ContinueEffect, ReturnEffect
  <2>4. QED  BY <2>1, <2>3
<1>4. QED
  BY <1>2, <1>3, StepKinds, StageEffect, StageReached, EntryEffect, EntryReached

\* Only the worker that takes a step changes what it does.
LEMMA OthersStay ==
  ASSUME PoolInv, WalkInv, NEW w \in Worker,
         Visit(w) \/ StopAtMaxDepth(w) \/ ReadDir(w) \/ EndDir(w) \/ ReportError(w)
         \/ SkipEntry(w) \/ EnqueueDir(w) \/ VisitEntry(w)
  PROVE  /\ w \in Walking /\ held' = held /\ Walking' \subseteq Walking
         /\ \A v \in Walking' \ {w} : v \in Walking /\ task'[v] = task[v]
         /\ \A v \in Walking \ {w} : v \in Walking'
         /\ \A v : Dir(v)' = Dir(v)
<1>1. /\ w \in Walking /\ held' = held /\ Walking' \subseteq Walking
      /\ \A v \in Worker \ {w} : task'[v] = task[v]
      /\ \A v \in Walking \ {w} : v \in Walking'
  BY StageEffect, EntryEffect, EntryReached, EntryIsNew
<1>2. Walking' \subseteq Worker
  BY <1>1 DEF Walking
<1>3. QED
  BY <1>1, <1>2 DEF Dir

-----------------------------------------------------------------------------
(* The filters and the calls of a walk have their types.                   *)

\* A step that touches the filters or the calls is one call of walkFn.
LEMMA SeenStep ==
  ASSUME PoolInv, WalkInv, [WalkNext]_walkVars
  PROVE  \/ seen' = seen /\ calls' = calls
         \/ \E p \in Path, e \in Result, a \in Result, r \in Result : CallFn(p, e, a, r)
<1>1. TypeOK /\ ItemsFound /\ TaskInv /\ Nil \in Result
  BY ResultNames DEF PoolInv, IInv, WalkInv
<1>2. CASE (QuietPool /\ UNCHANGED detail) \/ \E w \in Worker : Take(w)
  BY <1>2 DEF detail, Take
<1>3. ASSUME NEW w \in Worker, Visit(w)
      PROVE  \E p \in Path, e \in Result, a \in Result, r \in Result : CallFn(p, e, a, r)
  <2>1. Dir(w) \in Path
    BY <1>3, OthersStay, HeldItemFacts DEF PoolInv, IInv, WalkInv
  <2>2. PICK a \in UserAnswers(Dir(w), Nil), r \in Result : CallFn(Dir(w), Nil, a, r)
    BY <1>3 DEF Visit
  <2>3. a \in Result
    BY <1>1, <2>1, AnswerType
  <2>4. QED  BY <1>1, <2>1, <2>2, <2>3
<1>4. ASSUME NEW w \in Worker, ReportError(w)
      PROVE  \E p \in Path, e \in Result, a \in Result, r \in Result : CallFn(p, e, a, r)
  <2>1. Dir(w) \in Path /\ task[w].err \in Result
    BY <1>1, <1>4, OthersStay, HeldItemFacts DEF PoolInv, IInv, WalkInv, TaskInv, Task
  <2>2. PICK a \in UserAnswers(Dir(w), task[w].err), r \in Result :
           CallFn(Dir(w), task[w].err, a, r)
    BY <1>4 DEF ReportError
  <2>3. a \in Result
    BY <2>1, AnswerType
  <2>4. QED  BY <2>1, <2>2, <2>3
<1>5. ASSUME NEW w \in Worker, VisitEntry(w)
      PROVE  \E p \in Path, e \in Result, a \in Result, r \in Result : CallFn(p, e, a, r)
  <2>1. EntryPath(w) \in Path
    BY <1>5, EntryIsNew DEF VisitEntry
  <2>2. PICK a \in UserAnswers(EntryPath(w), Nil), r \in Result :
           CallFn(EntryPath(w), Nil, a, r)
    BY <1>5 DEF VisitEntry
  <2>3. a \in Result
    BY <1>1, <2>1, AnswerType
  <2>4. QED  BY <1>1, <2>1, <2>2, <2>3
<1>6. ASSUME NEW w \in Worker,
             StopAtMaxDepth(w) \/ ReadDir(w) \/ EndDir(w) \/ SkipEntry(w) \/ EnqueueDir(w)
      PROVE  seen' = seen /\ calls' = calls
  BY <1>6 DEF StopAtMaxDepth, ReadDir, EndDir, SkipEntry, EnqueueDir
<1>7. QED
  BY <1>2, <1>3, <1>4, <1>5, <1>6, StepKinds

SeenInv ==
  /\ seen \in Seen
  /\ \A c \in Made : c.err \in Result /\ c.ret \in Result

LEMMA SeenInvInit == WalkInit => SeenInv
<1>1. SUFFICES ASSUME WalkInit PROVE SeenInv
  OBVIOUS
<1>2. Made = {}
  BY <1>1, NoCalls DEF WalkInit, Made, BagToSet
<1>3. QED
  BY <1>1, <1>2 DEF WalkInit, SeenInv, Seen, NoneSeen

LEMMA SeenInvStep ==
  ASSUME PoolInv, WalkInv, SeenInv, [WalkNext]_walkVars
  PROVE  /\ SeenInv'
         /\ \A i \in DOMAIN wrap : seen[i] \subseteq seen'[i]
<1>1. setup' = setup /\ setup \in Setups
  BY HistoryGrows DEF WalkInv, TaskInv
<1>2. DOMAIN wrap' = DOMAIN wrap /\ Seen' = Seen
  BY <1>1 DEF wrap, Seen
<1>3. seen' \in Seen /\ \A i \in DOMAIN wrap : seen[i] \subseteq seen'[i]
  <2>1. CASE seen' = seen /\ calls' = calls
    BY <2>1 DEF SeenInv
  <2>2. ASSUME NEW p \in Path, NEW e \in Result, NEW a \in Result, NEW r \in Result,
               CallFn(p, e, a, r)
        PROVE  seen' \in Seen /\ \A i \in DOMAIN wrap : seen[i] \subseteq seen'[i]
    <3>1. Call(Last(p), e, a, seen, Nil) \in Outcome(a, seen)
      BY <1>1, PathLast, CallTyped DEF SeenInv
    <3>2. seen' = Call(Last(p), e, a, seen, Nil).seen
      BY <2>2 DEF CallFn
    <3>3. QED  BY <3>1, <3>2 DEF Outcome
  <2>3. QED  BY <2>1, <2>2, SeenStep
<1>4. \A c \in Made' \ Made : c.err \in Result /\ c.ret \in Result
  <2>1. Nil \in Result
    BY ResultNames
  <2>2. CASE (QuietPool /\ UNCHANGED detail) \/ \E w \in Worker : Take(w)
    BY <2>2, QuietReached DEF PoolInv, IInv, WalkInv
  <2>3. QED  BY <2>1, <2>2, StepKinds, StageReached, EntryReached
<1>5. QED
  BY <1>2, <1>3, <1>4 DEF SeenInv

LEMMA SeenInvariant ==
  ASSUME AnyPath
  PROVE  WalkSafety => [](PoolInv /\ WalkInv /\ SeenInv)
<1>1. PoolInv /\ WalkInv /\ SeenInv /\ [WalkNext]_walkVars => SeenInv'
  BY SeenInvStep
<1>2. QED
  BY <1>1, SeenInvInit, WalkInvariant, PTL DEF WalkSafety

-----------------------------------------------------------------------------
(* What walk() has done before it comes to read a directory: walkFn was    *)
(* called for it and did not skip it.  No adapter can make walk() go on    *)
(* without that: a filter that keeps the call of a directory from walkFn   *)
(* answers SkipDir for it.  Only the root may be something else than a     *)
(* directory, and when it is called the filters are still empty.           *)

\* walkFn was called for the directory or link at path p, and did not skip it.
Descended(p) == \E c \in Made : c.path = p /\ c.err = Nil /\ c.ret # "SkipDir"

\* The root is called before anything else.
RootFirst == VisitDone(Root) \/ (found = {Root} /\ seen = NoneSeen)

FollowInv ==
  /\ \A w \in Walking : task[w].stage # "visit" => Descended(Dir(w))
  /\ \A x \in found : x.callbackDone => Descended(x.path)
  /\ \A x \in found : x = Root \/ x.callbackDone \/ IsDirEntry(Last(x.path))
  /\ \A w \in Walking : task[w].stage = "report" => Dir(w) \in broken
  /\ ErrorCallFollows
  /\ RootFirst

LEMMA DescendedBy ==
  ASSUME NEW p, NEW a, a # "SkipDir", [path |-> p, err |-> Nil, ret |-> a] \in Made'
  PROVE  Descended(p)'
<1> DEFINE c == [path |-> p, err |-> Nil, ret |-> a]
<1>1. c \in Made' /\ c.path = p /\ c.err = Nil /\ c.ret # "SkipDir"
  OBVIOUS
<1> HIDE DEF c
<1>2. QED
  BY <1>1 DEF Descended

\* walk() goes by an answer that does not skip only after walkFn gave it.
LEMMA AnsweredTold ==
  ASSUME NEW p, NEW a, NEW r, Answered(p, Nil, a, r), r # "SkipDir",
         ~ /\ ~IsDirEntry(Last(p)) /\ r = Nil
           /\ seen # NoneSeen \/ StatNode(Last(p)) = NoNode
  PROVE  Descended(p)'
<1>1. Made' = Made \cup {[path |-> p, err |-> Nil, ret |-> a]} /\ (a # Nil => r = a)
  BY DEF Answered
<1>2. a # "SkipDir"
  BY <1>1, ResultNames
<1>3. QED
  BY <1>1, <1>2, DescendedBy

LEMMA RootFirstStep ==
  ASSUME PoolInv, WalkInv, RootFirst, [WalkNext]_walkVars
  PROVE  RootFirst'
<1>1. TypeOK /\ TaskInv /\ ItemsFound /\ setup' = setup
  BY HistoryGrows DEF PoolInv, IInv, WalkInv
<1>2. VisitDone(Root) => RootFirst'
  BY BegunStays DEF RootFirst
<1>3. SUFFICES ASSUME ~VisitDone(Root), found = {Root}, seen = NoneSeen PROVE RootFirst'
  BY <1>2 DEF RootFirst
<1>4. \A w \in Walking : held[w] = Root /\ task[w].stage = "visit"
  <2>1. \A w \in Walking : held[w] \in found
    BY HeldItemFacts DEF PoolInv, IInv, WalkInv
  <2>2. QED  BY <1>3, <2>1 DEF VisitDone
<1>5. NoneSeen' = NoneSeen
  BY <1>1 DEF NoneSeen, wrap
<1>6. CASE (QuietPool /\ UNCHANGED detail) \/ \E w \in Worker : Take(w)
  <2>1. found' = found /\ seen' = seen
    BY <1>1, <1>6, QuietReached DEF detail, Take
  <2>2. QED  BY <1>3, <1>5, <2>1 DEF RootFirst
<1>7. ASSUME NEW w \in Worker,
             Visit(w) \/ StopAtMaxDepth(w) \/ ReadDir(w) \/ EndDir(w) \/ ReportError(w)
      PROVE  RootFirst'
  <2>1. w \in Walking /\ held' = held /\ held[w] = Root /\ task[w].stage = "visit"
    BY <1>4, <1>7, StageEffect
  <2>2. VisitDone(Root)'
    <3>1. \/ w \in Walking' /\ task'[w].stage = "descend"
          \/ held[w] \in walked'
      BY <1>7, <2>1, StageEffect
    <3>2. QED  BY <2>1, <3>1 DEF VisitDone
  <2>3. QED  BY <2>2 DEF RootFirst
<1>8. ASSUME NEW w \in Worker, SkipEntry(w) \/ EnqueueDir(w) \/ VisitEntry(w)
      PROVE  FALSE
  BY <1>4, <1>8, EntryReached, EntryIsNew
<1>9. QED
  BY <1>6, <1>7, <1>8, StepKinds

\* The call for a directory that is held as not yet visited is not kept from walkFn, if
\* walk() goes on after it.
LEMMA VisitTold ==
  ASSUME PoolInv, WalkInv, FollowInv, NEW w \in Walking, task[w].stage = "visit",
         NEW a, NEW r, Answered(Dir(w), Nil, a, r), r # "SkipDir", Dir(w)' = Dir(w)
  PROVE  Descended(Dir(w))'
<1>1. held[w] \in found /\ held[w] \notin walked /\ ~held[w].callbackDone
      /\ \A v \in Walking : held[v] = held[w] => v = w
  BY HeldItemFacts DEF PoolInv, IInv, WalkInv, TaskInv
<1>2. PICK p : p = Dir(w)
  OBVIOUS
<1> SUFFICES Descended(p)'
  BY <1>2
<1>3. CASE held[w] = Root
  <2>1. seen = NoneSeen
    BY <1>1, <1>3 DEF FollowInv, RootFirst, VisitDone
  <2>2. Last(p) = Top
    BY <1>2, <1>3, TopPath DEF Dir
  <2>3. Kind[Top] \in {"dir", "file", "other"} /\ Top \in Node /\ Top \notin Untyped /\ NoNode \notin Node
    BY TreeAssumption, WalkAssumption DEF TreeAssumption, WalkAssumption
  <2>4. StatNode(Top) # NoNode
    BY <2>3 DEF StatNode, HasLinkBit, EntryType
  <2>5. QED  BY <1>2, <2>1, <2>2, <2>4, AnsweredTold
<1>4. CASE held[w] # Root
  <2>1. IsDirEntry(Last(p))
    BY <1>1, <1>2, <1>4 DEF FollowInv, Dir
  <2>2. QED  BY <1>2, <2>1, AnsweredTold
<1>5. QED
  BY <1>3, <1>4

LEMMA FollowInvStep ==
  ASSUME PoolInv, WalkInv, seen \in Seen, FollowInv, [WalkNext]_walkVars
  PROVE  FollowInv'
<1>1. TypeOK /\ TaskInv /\ ItemsFound /\ Walking \subseteq Worker
  BY DEF PoolInv, IInv, WalkInv, Walking
<1>2. /\ Made \subseteq Made' /\ broken \subseteq broken' /\ found \subseteq found'
      /\ setup' = setup
  BY HistoryGrows
<1>3. \A p : Descended(p) => Descended(p)'
  BY <1>2 DEF Descended
<1>4. \A n : IsDirEntry(n)' <=> IsDirEntry(n)
  BY <1>2 DEF IsDirEntry, HasDirBit, HasLinkBit, StatNode, EntryType, Impl
<1>5. RootFirst'
  BY RootFirstStep DEF FollowInv
<1>6. CASE QuietPool /\ UNCHANGED detail
  <2>1. /\ Made' = Made /\ found' = found /\ broken' = broken
        /\ Walking' = Walking /\ task' = task /\ \A w \in Walking : Dir(w)' = Dir(w)
    BY <1>1, <1>6, QuietEffect, QuietReached DEF detail, Dir
  <2>2. ErrorCallFollows'
    BY <2>1 DEF FollowInv, ErrorCallFollows
  <2>3. QED  BY <1>3, <1>4, <1>5, <2>1, <2>2 DEF FollowInv
<1>7. ASSUME NEW w \in Worker, Take(w) PROVE FollowInv'
  <2>1. /\ Made' = Made /\ found' = found /\ broken' = broken
        /\ Walking' = Walking \cup {w} /\ w \notin Walking /\ held'[w] \in found
        /\ task'[w].stage = IF held'[w].callbackDone THEN "descend" ELSE "visit"
        /\ \A v \in Walking : v # w /\ v \in Worker /\ task'[v] = task[v] /\ Dir(v)' = Dir(v)
    BY <1>1, <1>7, TakeEffect, QuietReached DEF NoTask, Dir
  <2>2. ErrorCallFollows'
    BY <2>1 DEF FollowInv, ErrorCallFollows
  <2>3. task'[w].stage # "visit" => Descended(Dir(w)')
    BY <2>1 DEF FollowInv, Dir
  <2>4. QED  BY <1>3, <1>4, <1>5, <2>1, <2>2, <2>3 DEF FollowInv
<1>8. ASSUME NEW w \in Worker,
             Visit(w) \/ StopAtMaxDepth(w) \/ ReadDir(w) \/ EndDir(w) \/ ReportError(w)
             \/ SkipEntry(w) \/ EnqueueDir(w) \/ VisitEntry(w),
             w \in Walking' /\ task'[w].stage # "visit" => Descended(Dir(w))',
             \A x \in found' \ found : x.callbackDone => Descended(x.path)',
             \A x \in found' \ found : x.callbackDone \/ IsDirEntry(Last(x.path)),
             w \in Walking' /\ task'[w].stage = "report" => Dir(w) \in broken',
             \A c \in Made' \ Made : c.err # Nil => c.path \in broken /\ Descended(c.path)
      PROVE  FollowInv'
  <2>1. /\ w \in Walking /\ \A v \in Walking' \ {w} : v \in Walking /\ task'[v] = task[v]
        /\ \A v \in Walking \ {w} : v \in Walking' /\ task'[v] = task[v]
        /\ \A v : Dir(v)' = Dir(v)
    BY <1>8, OthersStay
  <2>2. \A v \in Walking' : task'[v].stage # "visit" => Descended(Dir(v))'
    BY <1>3, <1>8, <2>1 DEF FollowInv
  <2>3. \A x \in found' : x.callbackDone => Descended(x.path)'
    BY <1>3, <1>8 DEF FollowInv
  <2>4. \A x \in found' : x = Root \/ x.callbackDone \/ IsDirEntry(Last(x.path))'
    BY <1>4, <1>8 DEF FollowInv
  <2>5. \A v \in Walking' : task'[v].stage = "report" => Dir(v)' \in broken'
    BY <1>2, <1>8, <2>1 DEF FollowInv
  <2>6. ErrorCallFollows'
    <3>1. \A c \in Made' : c.err # Nil => c.path \in broken' /\ Descended(c.path)'
      BY <1>2, <1>3, <1>8 DEF FollowInv, ErrorCallFollows, Descended
    <3>2. QED  BY <3>1 DEF ErrorCallFollows, Descended
  <2>7. QED  BY <1>5, <2>2, <2>3, <2>4, <2>5, <2>6 DEF FollowInv
<1>9. ASSUME NEW w \in Walking
      PROVE  task[w] \in Task /\ DOMAIN task[w] = {"stage", "rest", "skipFiles", "err"}
  BY <1>1, <1>9 DEF TaskInv, Task
<1>10. ASSUME NEW w \in Worker, Visit(w) PROVE FollowInv'
  <2>1. /\ task[w].stage = "visit" /\ broken' = broken /\ found' = found
        /\ \E a \in Result, r \in Result :
             /\ Answered(Dir(w), Nil, a, r)
             /\ \/ r = Nil /\ Stays(w, [task[w] EXCEPT !.stage = "descend"])
                \/ r = "SkipDir" /\ Leaves(w, Nil)
                \/ r \notin {Nil, "SkipDir"} /\ Leaves(w, r)
    BY <1>10, VisitEffect
  <2>2. w \in Walking /\ Dir(w)' = Dir(w)
    BY <1>10, OthersStay
  <2>3. \A c \in Made' \ Made : c.err = Nil
    BY <1>10, <2>1, StageReached
  <2>4. PICK a \in Result, r \in Result :
          /\ Answered(Dir(w), Nil, a, r)
          /\ \/ r = Nil /\ Stays(w, [task[w] EXCEPT !.stage = "descend"])
             \/ Leaves(w, Nil)
             \/ Leaves(w, r)
    BY <2>1
  <2>5. CASE r = Nil /\ Stays(w, [task[w] EXCEPT !.stage = "descend"])
    <3>1. task'[w].stage = "descend"
      BY <1>9, <2>2, <2>5 DEF Stays
    <3>2. Descended(Dir(w))'
      BY <2>1, <2>2, <2>4, <2>5, ResultNames, VisitTold
    <3>3. QED  BY <1>8, <1>10, <2>1, <2>3, <3>1, <3>2
  <2>6. CASE Leaves(w, Nil) \/ Leaves(w, r)
    <3>1. w \notin Walking'
      BY <2>6 DEF Leaves
    <3>2. QED  BY <1>8, <1>10, <2>1, <2>3, <3>1
  <2>7. QED  BY <2>4, <2>5, <2>6
<1>11. ASSUME NEW w \in Worker, StopAtMaxDepth(w) PROVE FollowInv'
  <2>1. w \notin Walking' /\ Made' = Made /\ found' = found
    BY <1>11, StopEffect DEF Leaves
  <2>2. QED  BY <1>8, <1>11, <2>1
<1>12. ASSUME NEW w \in Worker, ReadDir(w) PROVE FollowInv'
  <2>1. /\ task[w].stage = "descend" /\ task'[w].stage = "entries"
        /\ Made' = Made /\ found' = found
    BY <1>12, ReadEffect DEF Stays, NoTask
  <2>2. w \in Walking /\ Dir(w)' = Dir(w)
    BY <1>12, OthersStay
  <2>3. Descended(Dir(w))'
    BY <1>3, <2>1, <2>2 DEF FollowInv
  <2>4. QED  BY <1>8, <1>12, <2>1, <2>2, <2>3
<1>13. ASSUME NEW w \in Worker, EndDir(w) PROVE FollowInv'
  <2>1. task[w].stage = "entries" /\ Made' = Made /\ found' = found
    BY <1>13, EndEffect
  <2>2. w \in Walking /\ Dir(w)' = Dir(w)
    BY <1>13, OthersStay
  <2>3. Descended(Dir(w))'
    BY <1>3, <2>1, <2>2 DEF FollowInv
  <2>4. CASE Leaves(w, Nil)
    <3>1. w \notin Walking'
      BY <2>4 DEF Leaves
    <3>2. QED  BY <1>8, <1>13, <2>1, <3>1
  <2>5. CASE broken' = broken \cup {Dir(w)}
    BY <1>8, <1>13, <2>1, <2>2, <2>3, <2>5
  <2>6. QED  BY <1>13, <2>4, <2>5, EndEffect
<1>14. ASSUME NEW w \in Worker, ReportError(w) PROVE FollowInv'
  <2>1. task[w].stage = "report" /\ found' = found /\ w \notin Walking'
    BY <1>14, ReportEffect DEF Leaves
  <2>2. Dir(w) \in broken /\ Descended(Dir(w))
    BY <1>14, <2>1, OthersStay DEF FollowInv
  <2>3. \A c \in Made' \ Made : c.path = Dir(w)
    BY <1>14, StageReached
  <2>4. QED  BY <1>8, <1>14, <2>1, <2>2, <2>3
<1>15. ASSUME NEW w \in Worker, SkipEntry(w) \/ EnqueueDir(w) \/ VisitEntry(w)
       PROVE  FollowInv'
  <2>1. /\ w \in Walking /\ Walking' = Walking /\ task[w].stage = "entries"
        /\ task'[w].stage = "entries" /\ Last(EntryPath(w)) = Entry(w)
    BY <1>15, EntryEffect, EntryReached, EntryIsNew
  <2>2. Descended(Dir(w))' /\ Dir(w)' = Dir(w)
    <3>1. Dir(w)' = Dir(w)
      BY <1>15, OthersStay
    <3>2. QED  BY <1>3, <2>1, <3>1 DEF FollowInv
  <2>3. \A c \in Made' \ Made : c.err = Nil
    BY <1>15, EntryReached
  <2>4. /\ \A x \in found' \ found : x.callbackDone => Descended(x.path)'
        /\ \A x \in found' \ found : x.callbackDone \/ IsDirEntry(Last(x.path))
    <3>1. CASE SkipEntry(w)
      BY <3>1, SkipEffect
    <3>2. CASE EnqueueDir(w)
      <4>1. IsDirEntry(Entry(w))
        BY <3>2, EnqueueDirEffect DEF IsDirEntry, HasDirBit
      <4>2. \A x \in found' \ found : x.path = EntryPath(w) /\ ~x.callbackDone
        BY <3>2, EnqueueDirEffect
      <4>3. QED  BY <2>1, <4>1, <4>2
    <3>3. CASE VisitEntry(w)
      <4>1. PICK a \in Result, r \in Result :
              /\ Answered(EntryPath(w), Nil, a, r)
              /\ \/ /\ Traversed(EntryPath(w), r)
                    /\ found' = found \cup {[path |-> EntryPath(w), callbackDone |-> TRUE]}
                 \/ found' = found
        BY <3>3, VisitEntryEffect
      <4>2. PICK p : p = EntryPath(w)
        OBVIOUS
      <4>3. CASE found' = found
        BY <4>3
      <4>4. CASE found' # found
        <5>1. \A x \in found' \ found : x.path = p /\ x.callbackDone
          BY <4>1, <4>2, <4>4
        <5>2. EntryType(Last(p)) = "link" /\ r # "SkipDir"
              /\ (r = Nil => ShouldTraverse(p))
          BY <4>1, <4>2, <4>4, ResultNames DEF Traversed
        <5>3. r = Nil => IsDirEntry(Last(p))
          BY <5>2 DEF ShouldTraverse, IsDirEntry, HasLinkBit, StatNode
        <5>4. Descended(p)'
          BY <4>1, <4>2, <5>2, <5>3, AnsweredTold
        <5>5. QED  BY <5>1, <5>4
      <4>5. QED  BY <4>3, <4>4
    <3>4. QED  BY <1>15, <3>1, <3>2, <3>3
  <2>5. QED  BY <1>8, <1>15, <2>1, <2>2, <2>3, <2>4
<1>16. QED
  BY <1>6, <1>7, <1>10, <1>11, <1>12, <1>13, <1>14, <1>15, StepKinds

-----------------------------------------------------------------------------
(* Errors.  Every error on its way from a failed readDir to the result of  *)
(* Walk is accounted for by a call: broken by the call that reports it, or *)
(* by the worker that is about to make it; failed by what walkFn answered. *)

AnswerInv ==
  /\ \A p \in broken :
       \/ wrap # <<>>     \* the adapter may know the error, and keep it from walkFn
       \/ \E c \in Made : c.path = p /\ c.err # Nil
       \/ \E w \in Walking : task[w].stage = "report" /\ Dir(w) = p
  /\ \A e \in failed : \E c \in Made : c.ret = e

LEMMA AnswerInvStep ==
  ASSUME PoolInv, WalkInv, seen \in Seen, Unfiltered, AnswerInv, [WalkNext]_walkVars
  PROVE  AnswerInv'
<1>1. TypeOK /\ TaskInv /\ ItemsFound /\ Walking \subseteq Worker
  BY DEF PoolInv, IInv, WalkInv, Walking
<1>2. Made \subseteq Made' /\ setup' = setup
  BY HistoryGrows
<1>3. CASE (QuietPool /\ UNCHANGED detail) \/ \E w \in Worker : Take(w)
  <2>1. /\ Made' = Made /\ broken' = broken /\ failed' = failed /\ setup' = setup
        /\ \A v \in Walking : v \in Walking' /\ task'[v] = task[v] /\ Dir(v)' = Dir(v)
    BY <1>1, <1>3, QuietEffect, TakeEffect, QuietReached DEF detail, Dir
  <2>2. QED  BY <2>1 DEF AnswerInv, wrap
<1>4. ASSUME NEW w \in Worker,
             Visit(w) \/ StopAtMaxDepth(w) \/ ReadDir(w) \/ EndDir(w) \/ ReportError(w)
             \/ SkipEntry(w) \/ EnqueueDir(w) \/ VisitEntry(w),
             \A p \in broken' \ broken : w \in Walking' /\ task'[w].stage = "report" /\ Dir(w) = p,
             task[w].stage = "report" =>
               wrap # <<>> \/ \E c \in Made' : c.path = Dir(w) /\ c.err # Nil,
             \A e \in failed' \ failed : \E c \in Made' : c.ret = e
      PROVE  AnswerInv'
  <2>1. /\ \A v \in Walking \ {w} : v \in Walking' /\ task'[v] = task[v]
        /\ \A v : Dir(v)' = Dir(v)
    <3>1. \A v \in Walking \ {w} : v \in Walking' \ {w}
      BY <1>4, OthersStay
    <3>2. QED  BY <1>4, <3>1, OthersStay
  <2>2. ASSUME NEW p \in broken', wrap = <<>>
        PROVE  \/ \E c \in Made' : c.path = p /\ c.err # Nil
               \/ \E v \in Walking' : task'[v].stage = "report" /\ Dir(v)' = p
    <3>1. CASE p \notin broken
      BY <1>4, <2>1, <3>1
    <3>2. CASE \E c \in Made : c.path = p /\ c.err # Nil
      BY <1>2, <3>2
    <3>3. ASSUME NEW v \in Walking, task[v].stage = "report", Dir(v) = p
          PROVE  \/ \E c \in Made' : c.path = p /\ c.err # Nil
                 \/ \E u \in Walking' : task'[u].stage = "report" /\ Dir(u)' = p
      BY <1>4, <2>1, <2>2, <3>3
    <3>4. QED  BY <2>2, <3>1, <3>2, <3>3 DEF AnswerInv
  <2>3. \A e \in failed' : \E c \in Made' : c.ret = e
    BY <1>2, <1>4 DEF AnswerInv
  <2>4. wrap' = wrap
    BY <1>2 DEF wrap
  <2>5. QED  BY <2>2, <2>3, <2>4 DEF AnswerInv
<1>5. ASSUME NEW p, NEW e, NEW a, NEW r \in Result, Answered(p, e, a, r), r # Nil
      PROVE  \E c \in Made' : c.ret = r
  <2> DEFINE c == [path |-> p, err |-> e, ret |-> a]
  <2>1. c \in Made' /\ c.ret = r
    BY <1>5 DEF Answered
  <2> HIDE DEF c
  <2>2. QED  BY <2>1
<1>6. ASSUME NEW w \in Worker, Visit(w) PROVE AnswerInv'
  <2>1. /\ task[w].stage = "visit" /\ broken' = broken
        /\ \E a \in Result, r \in Result :
             /\ Answered(Dir(w), Nil, a, r)
             /\ \/ Stays(w, [task[w] EXCEPT !.stage = "descend"])
                \/ Leaves(w, Nil)
                \/ r \notin {Nil, "SkipDir"} /\ Leaves(w, r)
    BY <1>6, VisitEffect
  <2>2. ASSUME NEW e \in failed' \ failed PROVE \E c \in Made' : c.ret = e
    BY <1>5, <2>1 DEF Stays, Leaves
  <2>3. QED  BY <1>4, <1>6, <2>1, <2>2
<1>7. ASSUME NEW w \in Worker, StopAtMaxDepth(w) \/ ReadDir(w) PROVE AnswerInv'
  <2>1. /\ task[w].stage = "descend" /\ failed' = failed
        /\ Made' = Made /\ broken' = broken
    BY <1>7, StopEffect, ReadEffect DEF Leaves, Stays
  <2>2. QED  BY <1>4, <1>7, <2>1
<1>8. ASSUME NEW w \in Worker, EndDir(w) PROVE AnswerInv'
  <2>1. task[w].stage = "entries" /\ w \in Walking
    BY <1>8, EndEffect, OthersStay
  <2>2. CASE Leaves(w, Nil) /\ UNCHANGED broken
    <3>1. failed' = failed /\ broken' = broken
      BY <2>2 DEF Leaves
    <3>2. QED  BY <1>4, <1>8, <2>1, <3>1
  <2>3. CASE Stays(w, [task[w] EXCEPT !.stage = "report"]) /\ broken' = broken \cup {Dir(w)}
    <3>1. DOMAIN task[w] = {"stage", "rest", "skipFiles", "err"}
      BY <1>1, <2>1 DEF TaskInv, Task
    <3>2. w \in Walking' /\ failed' = failed /\ task'[w].stage = "report"
      BY <2>1, <2>3, <3>1 DEF Stays
    <3>3. QED  BY <1>4, <1>8, <2>1, <2>3, <3>2
  <2>4. QED  BY <1>8, <2>2, <2>3, EndEffect
<1>9. ASSUME NEW w \in Worker, ReportError(w) PROVE AnswerInv'
  <2>1. task[w].stage = "report" /\ broken' = broken
    BY <1>9, ReportEffect
  <2>2. PICK a \in Result, r \in Result :
          Answered(Dir(w), task[w].err, a, r) /\ Leaves(w, r)
    BY <1>9, ReportEffect
  <2>3. \A e \in failed' \ failed : \E c \in Made' : c.ret = e
    <3>1. failed' \ failed \subseteq {r} \ {Nil}
      BY <2>2 DEF Leaves
    <3>2. QED  BY <1>5, <2>2, <3>1
  <2>4. wrap = <<>> => \E c \in Made' : c.path = Dir(w) /\ c.err # Nil
    <3> DEFINE c == [path |-> Dir(w), err |-> task[w].err, ret |-> a]
    <3>1. task[w].err # Nil
      BY <1>1, <1>9, <2>1, OthersStay DEF TaskInv
    <3>2. c.path = Dir(w) /\ c.err # Nil /\ (wrap = <<>> => c \in Made')
      BY <2>2, <3>1 DEF Answered, Unfiltered
    <3> HIDE DEF c
    <3>3. QED  BY <3>2
  <2>5. QED  BY <1>4, <1>9, <2>1, <2>3, <2>4
<1>10. ASSUME NEW w \in Worker, SkipEntry(w) \/ EnqueueDir(w) \/ VisitEntry(w)
       PROVE  AnswerInv'
  <2>1. task[w].stage = "entries" /\ failed' = failed /\ broken' = broken
    BY <1>10, EntryEffect, EntryReached, EntryIsNew
  <2>2. QED  BY <1>4, <1>10, <2>1
<1>11. QED
  BY <1>3, <1>6, <1>7, <1>8, <1>9, <1>10, StepKinds

-----------------------------------------------------------------------------
(* ErrSkipFiles.  The local flag skipFiles of readDir stands for an answer *)
(* walkFn has given for an entry of the same directory.                    *)

\* The type of every entry is known.  It is not on darwin for an entry the file
\* system reports as DT_UNKNOWN.
Typed == \A n \in Node : EntryType(n) = Kind[n]

\* In call c walkFn answered ErrSkipFiles for an entry of the directory at path p.
SkipCall(c, p) ==
  /\ c.ret = "SkipFiles" /\ c.err = Nil
  /\ \E m \in Node : Kind[m] # "dir" /\ c.path = Append(p, m)

SkipInv ==
  /\ \A w \in Walking : task[w].stage = "entries" =>
       /\ task[w].skipFiles => \E c \in Made : SkipCall(c, Dir(w))
       /\ task[w].skipFiles \/ task[w].rest = <<>> \/ \A c \in Made : ~SkipCall(c, Dir(w))
  /\ \A x \in found : x.path = <<Top>> \/ x.callbackDone \/ Kind[Last(x.path)] = "dir"
  /\ \A c \in Made : Kind[Last(c.path)] = "dir" => \E x \in found : x.path = c.path

LEMMA ReachedPaths ==
  ASSUME PoolInv, WalkInv
  PROVE  \A p \in Reached : p \in Path
<1>1. \A x \in found : x.path \in Path
  BY DEF WalkInv, ItemInv
<1>2. ReachInv
  BY DEF WalkInv
<1>3. ASSUME NEW p \in Reached PROVE p \in Path
  <2>1. CASE p = <<Top>>
    BY <2>1, TopPath
  <2>2. ASSUME NEW x \in found, NEW n \in Node, p = Append(x.path, n) PROVE p \in Path
    BY <1>1, <2>2, PathAppend
  <2>3. QED  BY <1>2, <2>1, <2>2 DEF ReachInv
<1>4. QED
  BY <1>3

LEMMA TypedStays ==
  ASSUME Typed, setup' = setup
  PROVE  Typed'
  BY DEF Typed, EntryType, Impl

LEMMA SkipInvStep ==
  ASSUME PoolInv, WalkInv, seen \in Seen, Typed, SkipInv, [WalkNext]_walkVars
  PROVE  SkipInv'
<1>1. TypeOK /\ TaskInv /\ ItemsFound /\ Walking \subseteq Worker
  BY DEF PoolInv, IInv, WalkInv, Walking
<1>2. Made \subseteq Made' /\ found \subseteq found'
  BY HistoryGrows
<1>3. /\ "SkipDir" # Nil /\ "TraverseLink" # Nil /\ "SkipFiles" # Nil
  BY PoolAssumption, WalkAssumption
<1>4. CASE QuietPool /\ UNCHANGED detail
  <2>1. /\ Made' = Made /\ found' = found
        /\ Walking' = Walking /\ task' = task /\ \A w \in Walking : Dir(w)' = Dir(w)
    BY <1>1, <1>4, QuietEffect, QuietReached DEF detail, Dir
  <2>2. QED  BY <2>1 DEF SkipInv
<1>5. ASSUME NEW w \in Worker, Take(w) PROVE SkipInv'
  <2>1. /\ Made' = Made /\ found' = found /\ Walking' = Walking \cup {w}
        /\ task'[w].stage # "entries"
        /\ \A v \in Walking : task'[v] = task[v] /\ Dir(v)' = Dir(v)
    BY <1>1, <1>5, TakeEffect, QuietReached DEF NoTask, Dir
  <2>2. QED  BY <2>1 DEF SkipInv
<1>6. \A w \in Walking : /\ Dir(w) \in Path /\ held[w] \in found
                         /\ \A v \in Walking : Dir(v) = Dir(w) => v = w
  BY HeldItemFacts DEF PoolInv, IInv, WalkInv
<1>7. ASSUME NEW w \in Worker,
             Visit(w) \/ StopAtMaxDepth(w) \/ ReadDir(w) \/ EndDir(w) \/ ReportError(w)
      PROVE  SkipInv'
  <2>1. /\ w \in Walking /\ found' = found
        /\ \A v \in Walking' \ {w} : v \in Walking /\ task'[v] = task[v]
        /\ \A v : Dir(v)' = Dir(v)
    BY <1>7, OthersStay, StageEffect
  <2>2. \A c \in Made' \ Made :
          c.path = Dir(w) /\ (c.err = Nil => task[w].stage = "visit")
    BY <1>7, StageReached
  <2>3. \A c \in Made' : Kind[Last(c.path)] = "dir" => \E x \in found' : x.path = c.path
    BY <1>6, <2>1, <2>2 DEF SkipInv, Dir
  <2>4. ASSUME NEW v \in Walking, NEW c \in Made' \ Made
        PROVE  ~SkipCall(c, Dir(v))
    <3>1. SUFFICES ASSUME c.err = Nil, NEW m \in Node, c.path = Append(Dir(v), m)
                   PROVE  Kind[m] = "dir"
      BY DEF SkipCall
    <3>2. c.path # <<Top>> /\ Last(c.path) = m
      BY <1>6, <3>1, PathAppend
    <3>3. ~held[w].callbackDone
      BY <1>1, <2>1, <2>2, <3>1 DEF TaskInv
    <3>4. QED  BY <1>6, <2>1, <2>2, <3>2, <3>3 DEF SkipInv, Dir
  <2>5. ASSUME w \in Walking', task'[w].stage = "entries"
        PROVE  ~task'[w].skipFiles /\ \A c \in Made : ~SkipCall(c, Dir(w))
    <3>1. task[w].stage = "descend" /\ ReadDir(w)
      <4>1. task[w].stage = "descend"
        BY <1>7, <2>5, StageEffect
      <4>2. QED
        BY <1>7, <2>5, <4>1, StopEffect DEF Visit, EndDir, ReportError, InStage, Leaves
    <3>2. ~task'[w].skipFiles
      BY <3>1, ReadEffect DEF Stays, NoTask
    <3>3. \A m \in Node : Append(Dir(w), m) \notin Reached
      BY <2>1, <3>1, EntriesUnknown
    <3>4. QED  BY <3>2, <3>3 DEF SkipCall, Reached
  <2>6. ASSUME NEW v \in Walking', task'[v].stage = "entries"
        PROVE  /\ task'[v].skipFiles => \E c \in Made' : SkipCall(c, Dir(v)')
               /\ \/ task'[v].skipFiles \/ task'[v].rest = <<>>
                  \/ \A c \in Made' : ~SkipCall(c, Dir(v)')
    BY <1>2, <2>1, <2>4, <2>5, <2>6 DEF SkipInv
  <2>7. QED  BY <2>1, <2>3, <2>6 DEF SkipInv, SkipCall
<1>8. ASSUME NEW w \in Worker, SkipEntry(w) \/ EnqueueDir(w) \/ VisitEntry(w)
      PROVE  SkipInv'
  <2>1. /\ w \in Walking /\ Walking' = Walking /\ task[w].stage = "entries"
        /\ AtEntry(w) /\ task[w].rest # <<>> /\ Entry(w) \in Node
        /\ EntryPath(w) = Append(Dir(w), Entry(w)) /\ Last(EntryPath(w)) = Entry(w)
    BY <1>8, EntryEffect, EntryReached, EntryIsNew
  <2>2. /\ \A v \in Walking' \ {w} : v \in Walking /\ task'[v] = task[v]
        /\ \A v : Dir(v)' = Dir(v)
    BY <1>8, OthersStay
  <2>3. \A c \in Made' \ Made : c.path = EntryPath(w) /\ c.err = Nil
    BY <1>8, EntryReached
  <2>4. task[w] \in Task
    BY <1>1, <2>1 DEF TaskInv
  <2>5. NextEntry(w).skipFiles = task[w].skipFiles
        /\ [NextEntry(w) EXCEPT !.skipFiles = TRUE].skipFiles = TRUE
    BY <2>4 DEF NextEntry, Task
  <2>6. \A e : LeaveLoop(w, e).skipFiles = task[w].skipFiles /\ LeaveLoop(w, e).rest = <<>>
    BY <2>4 DEF LeaveLoop, Task
  <2>7. /\ \A c \in Made' \ Made : Kind[Last(c.path)] # "dir"
        /\ \A x \in found' \ found : x.callbackDone \/ Kind[Last(x.path)] = "dir"
        /\ task'[w].skipFiles => task[w].skipFiles \/ \E c \in Made' : SkipCall(c, Dir(w))
        /\ \/ task'[w].skipFiles \/ task'[w].rest = <<>>
           \/ task'[w].skipFiles = task[w].skipFiles /\ \A c \in Made' \ Made : ~SkipCall(c, Dir(w))
    <3>1. CASE SkipEntry(w)
      BY <2>5, <3>1, SkipEffect DEF Stays
    <3>2. CASE EnqueueDir(w)
      <4>1. /\ Made' = Made /\ task'[w].skipFiles = task[w].skipFiles
            /\ EntryType(Entry(w)) = "dir"
            /\ found' = found \cup {[path |-> EntryPath(w), callbackDone |-> FALSE]}
        BY <2>5, <3>2, EnqueueDirEffect DEF Stays
      <4>2. Kind[Last(EntryPath(w))] = "dir"
        BY <2>1, <4>1 DEF Typed
      <4>3. QED  BY <4>1, <4>2
    <3>3. CASE VisitEntry(w)
      <4>1. Kind[Last(EntryPath(w))] # "dir"
        BY <2>1, <3>3, VisitEntryEffect DEF Typed
      <4>2. PICK a \in Result, r \in Result :
              LET e == EntryError(Entry(w), r)
              IN  /\ Answered(EntryPath(w), Nil, a, r)
                  /\ \/ /\ Traversed(EntryPath(w), r) /\ Stays(w, NextEntry(w))
                        /\ found' = found \cup {[path |-> EntryPath(w), callbackDone |-> TRUE]}
                     \/ /\ found' = found
                        /\ \/ e = Nil /\ Stays(w, NextEntry(w))
                           \/ /\ e = "SkipFiles"
                              /\ Stays(w, [NextEntry(w) EXCEPT !.skipFiles = TRUE])
                           \/ Stays(w, LeaveLoop(w, e))
        BY <3>3, VisitEntryEffect
      <4> DEFINE c == [path |-> EntryPath(w), err |-> Nil, ret |-> a]
      <4>3. /\ c.path = EntryPath(w) /\ c.err = Nil /\ c.ret = a
            /\ Made' = Made \cup {c} \/ Made' = Made
            /\ a = "SkipFiles" /\ Made' # Made => r = "SkipFiles"
            /\ r = "SkipFiles" => a = "SkipFiles" /\ c \in Made'
        BY <4>2, ResultNames DEF Answered
      <4> HIDE DEF c
      <4>4. r # "SkipFiles" => \A d \in Made' \ Made : ~SkipCall(d, Dir(w))
        BY <4>3 DEF SkipCall
      <4>5. r = "SkipFiles" => \E d \in Made' : SkipCall(d, Dir(w))
        BY <2>1, <4>1, <4>3 DEF SkipCall
      <4>6. /\ \A x \in found' \ found : x.callbackDone
            /\ \A d \in Made' \ Made : Kind[Last(d.path)] # "dir"
        BY <4>1, <4>2, <4>3
      <4>7. CASE Traversed(EntryPath(w), r) /\ Stays(w, NextEntry(w))
        <5>1. r # "SkipFiles"
          BY <1>3, <4>7 DEF Traversed
        <5>2. QED  BY <2>5, <4>4, <4>6, <4>7, <5>1 DEF Stays
      <4>8. CASE EntryError(Entry(w), r) = Nil /\ Stays(w, NextEntry(w))
        <5>1. r # "SkipFiles"
          BY <1>3, <4>8 DEF EntryError
        <5>2. QED  BY <2>5, <4>4, <4>6, <4>8, <5>1 DEF Stays
      <4>9. CASE /\ EntryError(Entry(w), r) = "SkipFiles"
                 /\ Stays(w, [NextEntry(w) EXCEPT !.skipFiles = TRUE])
        <5>1. r = "SkipFiles"
          BY <1>3, <4>9 DEF EntryError
        <5>2. QED  BY <2>5, <4>5, <4>6, <4>9, <5>1 DEF Stays
      <4>10. CASE Stays(w, LeaveLoop(w, EntryError(Entry(w), r)))
        BY <2>6, <4>6, <4>10 DEF Stays
      <4>11. QED  BY <4>2, <4>7, <4>8, <4>9, <4>10
    <3>4. QED  BY <1>8, <3>1, <3>2, <3>3
  <2>8. ASSUME NEW v \in Walking \ {w}, NEW c \in Made' \ Made
        PROVE  ~SkipCall(c, Dir(v))
    <3>1. SUFFICES ASSUME NEW m \in Node, EntryPath(w) = Append(Dir(v), m) PROVE FALSE
      BY <2>3 DEF SkipCall
    <3>2. Dir(v) = Dir(w)
      BY <1>6, <2>1, <3>1, PathUnique
    <3>3. QED  BY <1>6, <2>1, <3>2
  <2>9. ASSUME NEW v \in Walking', task'[v].stage = "entries"
        PROVE  /\ task'[v].skipFiles => \E c \in Made' : SkipCall(c, Dir(v)')
               /\ \/ task'[v].skipFiles \/ task'[v].rest = <<>>
                  \/ \A c \in Made' : ~SkipCall(c, Dir(v)')
    <3>1. CASE v = w
      BY <1>2, <2>1, <2>2, <2>7, <3>1 DEF SkipInv
    <3>2. CASE v # w
      BY <1>2, <2>1, <2>2, <2>8, <2>9, <3>2 DEF SkipInv
    <3>3. QED  BY <3>1, <3>2
  <2>10. \A c \in Made' : Kind[Last(c.path)] = "dir" => \E x \in found' : x.path = c.path
    BY <1>2, <2>7 DEF SkipInv
  <2>11. \A x \in found' : x.path = <<Top>> \/ x.callbackDone \/ Kind[Last(x.path)] = "dir"
    BY <2>7 DEF SkipInv
  <2>12. QED  BY <2>9, <2>10, <2>11 DEF SkipInv, SkipCall
<1>9. QED
  BY <1>4, <1>5, <1>7, <1>8, StepKinds

-----------------------------------------------------------------------------
(* Completeness.  An item that was walked was called, and its entries were *)
(* read unless there was an excuse for not doing so.                       *)

Called(p) == \E c \in Made : c.path = p

\* The item x was read, or there is a reason why it need not be.
Finished(x) == failed # {} \/ Pruned(x.path) \/ x.path \in opened

WalkedInv ==
  /\ Root \in found
  /\ \A w \in Walking : task[w].stage = "entries" /\ task[w].err = Nil => Dir(w) \in opened
  /\ \A x \in walked : Called(x.path) /\ Finished(x)
  /\ \A c \in Made : c.err = Nil /\ Traversed(c.path, c.ret) => \E x \in found : x.path = c.path

LEMMA ExcusesStay ==
  ASSUME PoolInv, WalkInv, [WalkNext]_walkVars
  PROVE  /\ \A p : Pruned(p) => Pruned(p)'
         /\ \A p : Called(p) => Called(p)'
         /\ \A x : Finished(x) => Finished(x)'
         /\ \A p, r : Traversed(p, r) <=> Traversed(p, r)'
<1>1. /\ Made \subseteq Made' /\ broken \subseteq broken' /\ opened \subseteq opened'
      /\ failed \subseteq failed' /\ setup' = setup
  BY HistoryGrows
<1>2. \A p : Pruned(p) => Pruned(p)'
  BY <1>1 DEF Pruned, MaxDepth
<1>3. \A p : Called(p) => Called(p)'
  BY <1>1 DEF Called
<1>4. \A x : Finished(x) => Finished(x)'
  BY <1>1, <1>2 DEF Finished
<1>5. \A p, r : Traversed(p, r) <=> Traversed(p, r)'
  BY <1>1 DEF Traversed, EntryType, Impl, Follow, ShouldTraverse
<1>6. QED
  BY <1>2, <1>3, <1>4, <1>5

\* What is left behind of a directory when its walk() returns.
LEMMA LeaveFinished ==
  ASSUME PoolInv, WalkInv, Unfiltered, seen \in Seen, FollowInv, WalkedInv, [WalkNext]_walkVars,
         NEW w \in Worker,
         Visit(w) \/ StopAtMaxDepth(w) \/ ReadDir(w) \/ EndDir(w) \/ ReportError(w),
         w \notin Walking'
  PROVE  /\ Called(Dir(w))'
         /\ \/ failed' # {} \/ Pruned(Dir(w))'
            \/ /\ Dir(w) \in opened /\ Made' = Made /\ found' = found
               /\ task[w].stage = "entries" /\ task[w].rest = <<>> /\ task[w].err = Nil
<1>1. w \in Walking /\ Dir(w)' = Dir(w) /\ Dir(w) = held[w].path
  BY OthersStay DEF Dir
<1>2. Len(Dir(w)) \in Nat /\ MaxDepth \in Int /\ MaxDepth' = MaxDepth
  <2>1. Dir(w) \in Path
    BY <1>1, HeldItemFacts DEF PoolInv, IInv, WalkInv
  <2>2. QED  BY <2>1, PathLast, MaxDepthType, HistoryGrows DEF WalkInv, TaskInv, MaxDepth
<1>3. task[w].stage # "visit" => Called(Dir(w))'
  <2>1. task[w].stage # "visit" => Called(Dir(w))
    BY <1>1 DEF FollowInv, Descended, Called
  <2>2. QED  BY <1>1, <2>1, ExcusesStay
<1>4. CASE Visit(w)
  <2>1. PICK a \in Result :
          /\ Made' = Made \cup {[path |-> Dir(w), err |-> Nil, ret |-> a]}
          /\ \/ a = Nil /\ Stays(w, [task[w] EXCEPT !.stage = "descend"])
             \/ a = "SkipDir" /\ Leaves(w, Nil)
             \/ a \notin {Nil, "SkipDir"} /\ Leaves(w, a)
    BY <1>4, DirectVisit
  <2> DEFINE c == [path |-> Dir(w), err |-> Nil, ret |-> a]
  <2>2. c \in Made' /\ c.path = Dir(w) /\ c.ret = a
    BY <2>1
  <2> HIDE DEF c
  <2>3. Called(Dir(w))'
    BY <1>1, <2>2 DEF Called
  <2>4. a = "SkipDir" => Pruned(Dir(w))'
    BY <1>1, <2>2 DEF Pruned
  <2>5. a # "SkipDir" => failed' # {}
    BY <1>1, <2>1 DEF Stays, Leaves
  <2>6. QED  BY <2>3, <2>4, <2>5
<1>5. CASE StopAtMaxDepth(w)
  <2>1. task[w].stage = "descend" /\ TooDeep(held[w])
    BY <1>5, StopEffect
  <2>2. Pruned(Dir(w))'
    BY <1>1, <1>2, <2>1 DEF Pruned, TooDeep, Depth
  <2>3. QED  BY <1>3, <2>1, <2>2
<1>6. CASE ReadDir(w)
  BY <1>1, <1>6, ReadEffect DEF Stays
<1>7. CASE EndDir(w)
  <2>1. /\ task[w].stage = "entries" /\ task[w].rest = <<>> /\ task[w].err = Nil
        /\ Made' = Made /\ found' = found
    BY <1>1, <1>7, EndEffect DEF Stays
  <2>2. Dir(w) \in opened
    BY <1>1, <2>1 DEF WalkedInv
  <2>3. QED  BY <1>3, <2>1, <2>2
<1>8. CASE ReportError(w)
  <2>1. task[w].stage = "report" /\ broken' = broken
    BY <1>8, ReportEffect
  <2>2. Pruned(Dir(w))'
    BY <1>1, <2>1 DEF FollowInv, Pruned
  <2>3. QED  BY <1>3, <2>1, <2>2
<1>9. QED
  BY <1>4, <1>5, <1>6, <1>7, <1>8

LEMMA WalkedInvStep ==
  ASSUME PoolInv, WalkInv, Unfiltered, seen \in Seen, FollowInv, WalkedInv, [WalkNext]_walkVars
  PROVE  WalkedInv'
<1>1. TypeOK /\ TaskInv /\ ItemsFound /\ Walking \subseteq Worker
  BY DEF PoolInv, IInv, WalkInv, Walking
<1>2. Made \subseteq Made' /\ found \subseteq found' /\ opened \subseteq opened'
  BY HistoryGrows
<1>3. /\ \A p : Called(p) => Called(p)'
      /\ \A x : Finished(x) => Finished(x)'
      /\ \A p, r : Traversed(p, r) <=> Traversed(p, r)'
  BY ExcusesStay
<1>4. CASE QuietPool /\ UNCHANGED detail
  <2>1. /\ Made' = Made /\ found' = found /\ walked' = walked /\ opened' = opened
        /\ Walking' = Walking /\ task' = task /\ \A w \in Walking : Dir(w)' = Dir(w)
    BY <1>1, <1>4, QuietEffect, QuietReached DEF detail, Dir
  <2>2. QED  BY <1>3, <2>1 DEF WalkedInv
<1>5. ASSUME NEW w \in Worker, Take(w) PROVE WalkedInv'
  <2>1. /\ Made' = Made /\ found' = found /\ walked' = walked /\ opened' = opened
        /\ Walking' = Walking \cup {w} /\ task'[w].stage # "entries"
        /\ \A v \in Walking : task'[v] = task[v] /\ Dir(v)' = Dir(v)
    BY <1>1, <1>5, TakeEffect, QuietReached DEF NoTask, Dir
  <2>2. QED  BY <1>3, <2>1 DEF WalkedInv
<1>6. ASSUME NEW w \in Worker,
             Visit(w) \/ StopAtMaxDepth(w) \/ ReadDir(w) \/ EndDir(w) \/ ReportError(w)
      PROVE  WalkedInv'
  <2>1. /\ w \in Walking /\ held[w] \in found /\ found' = found
        /\ \A v \in Walking' \ {w} : v \in Walking /\ task'[v] = task[v]
        /\ \A v : Dir(v)' = Dir(v)
    BY <1>6, OthersStay, StageEffect, HeldItemFacts DEF PoolInv, IInv, WalkInv
  <2>2. \A c \in Made' \ Made : c.path = Dir(w)
    BY <1>6, StageReached
  <2>3. w \in Walking' /\ task'[w].stage = "entries" /\ task'[w].err = Nil => Dir(w) \in opened'
    <3>1. SUFFICES ASSUME w \in Walking', task'[w].stage = "entries", task'[w].err = Nil
                   PROVE  Dir(w) \in opened'
      OBVIOUS
    <3>2. ReadDir(w)
      <4>1. task[w].stage = "descend"
        BY <1>6, <3>1, StageEffect
      <4>2. QED
        BY <1>6, <3>1, <4>1, StopEffect DEF Visit, EndDir, ReportError, InStage, Leaves
    <3>3. QED  BY <3>1, <3>2, ReadEffect DEF Stays, NoTask
  <2>4. walked' \subseteq walked \cup {held[w]} /\ (held[w] \in walked' => w \notin Walking')
    <3>1. held[w] \notin walked
      BY <2>1, HeldItemFacts DEF PoolInv, IInv, WalkInv
    <3>2. \/ walked' = walked
          \/ Walking' = Walking \ {w} /\ walked' = walked \cup {held[w]}
      BY <1>6, StageEffect
    <3>3. QED  BY <3>1, <3>2
  <2>5. PICK it : it = held[w]
    OBVIOUS
  <2>6. it \in walked' => Called(it.path)' /\ Finished(it)'
    <3>1. it.path = Dir(w) /\ Dir(w)' = Dir(w)
      BY <2>1, <2>5 DEF Dir
    <3>2. SUFFICES ASSUME it \in walked' PROVE Called(it.path)' /\ Finished(it)'
      OBVIOUS
    <3>3. /\ Called(Dir(w))'
          /\ failed' # {} \/ Pruned(Dir(w))' \/ Dir(w) \in opened'
      BY <1>2, <1>6, <2>4, <2>5, <3>2, LeaveFinished
    <3>4. QED  BY <3>1, <3>3 DEF Finished
  <2>7. \A x \in walked' : Called(x.path)' /\ Finished(x)'
    BY <1>3, <2>4, <2>5, <2>6 DEF WalkedInv
  <2>8. \A c \in Made' : c.err = Nil /\ Traversed(c.path, c.ret)' => \E x \in found' : x.path = c.path
    BY <1>3, <2>1, <2>2 DEF WalkedInv, Dir
  <2>9. \A v \in Walking' : task'[v].stage = "entries" /\ task'[v].err = Nil => Dir(v)' \in opened'
    BY <1>2, <2>1, <2>3 DEF WalkedInv
  <2>10. QED  BY <2>1, <2>7, <2>8, <2>9 DEF WalkedInv
<1>7. ASSUME NEW w \in Worker, SkipEntry(w) \/ EnqueueDir(w) \/ VisitEntry(w)
      PROVE  WalkedInv'
  <2>1. /\ w \in Walking /\ Walking' = Walking /\ task[w].stage = "entries"
        /\ walked' = walked /\ opened' = opened
    BY <1>7, EntryEffect, EntryReached, EntryIsNew
  <2>2. /\ \A v \in Walking' \ {w} : v \in Walking /\ task'[v] = task[v]
        /\ \A v : Dir(v)' = Dir(v)
    BY <1>7, OthersStay
  <2>3. task[w] \in Task
    BY <1>1, <2>1 DEF TaskInv
  <2>4. /\ NextEntry(w).err = task[w].err
        /\ [NextEntry(w) EXCEPT !.skipFiles = TRUE].err = task[w].err
        /\ \A e : LeaveLoop(w, e).err = e
    BY <2>3 DEF NextEntry, LeaveLoop, Task
  <2>5. /\ task'[w].err = Nil => task[w].err = Nil
        /\ \A c \in Made' \ Made : Traversed(c.path, c.ret) => \E x \in found' : x.path = c.path
    <3>1. CASE SkipEntry(w) \/ EnqueueDir(w)
      BY <2>4, <3>1, SkipEffect, EnqueueDirEffect DEF Stays
    <3>2. CASE VisitEntry(w)
      <4>1. PICK a \in Result :
              LET e == EntryError(Entry(w), a)
              IN  /\ Made' = Made \cup {[path |-> EntryPath(w), err |-> Nil, ret |-> a]}
                  /\ \/ /\ Traversed(EntryPath(w), a) /\ Stays(w, NextEntry(w))
                        /\ found' = found \cup {[path |-> EntryPath(w), callbackDone |-> TRUE]}
                     \/ /\ ~Traversed(EntryPath(w), a)
                        /\ \/ Stays(w, NextEntry(w))
                           \/ Stays(w, [NextEntry(w) EXCEPT !.skipFiles = TRUE])
                           \/ e # Nil /\ Stays(w, LeaveLoop(w, e))
        BY <3>2, DirectVisitEntry
      <4>2. task'[w].err = Nil => task[w].err = Nil
        BY <2>4, <4>1 DEF Stays
      <4>3. \A c \in Made' \ Made : c.path = EntryPath(w) /\ c.ret = a
        BY <4>1
      <4>4. Traversed(EntryPath(w), a) => \E x \in found' : x.path = EntryPath(w)
        <5> DEFINE it == [path |-> EntryPath(w), callbackDone |-> TRUE]
        <5>1. it.path = EntryPath(w) /\ (Traversed(EntryPath(w), a) => it \in found')
          BY <4>1
        <5> HIDE DEF it
        <5>2. QED  BY <5>1
      <4>5. QED  BY <4>2, <4>3, <4>4
    <3>3. QED  BY <1>7, <3>1, <3>2
  <2>6. \A c \in Made' : c.err = Nil /\ Traversed(c.path, c.ret)' => \E x \in found' : x.path = c.path
    BY <1>2, <1>3, <2>5 DEF WalkedInv
  <2>7. \A v \in Walking' : task'[v].stage = "entries" /\ task'[v].err = Nil => Dir(v)' \in opened'
    BY <2>1, <2>2, <2>5 DEF WalkedInv
  <2>8. QED  BY <1>2, <1>3, <2>1, <2>6, <2>7 DEF WalkedInv
<1>8. QED
  BY <1>4, <1>5, <1>6, <1>7, StepKinds

\* Entry n of the directory at path p was called or enqueued, or may be left out.
Accounted(p, n) == LeftOut(p, n) \/ Append(p, n) \in Reached

\* The directory that is read at path p.
DirNode(p) == Resolve(Last(p))

EntriesInv ==
  /\ \A w \in Walking : task[w].stage = "entries" /\ task[w].err = Nil =>
       \A n \in Range(Kids[DirNode(Dir(w))]) :
         Accounted(Dir(w), n) \/ n \in Range(task[w].rest)
  /\ \A x \in walked :
       \/ failed # {} \/ Pruned(x.path)
       \/ \A n \in Range(Kids[DirNode(x.path)]) : Accounted(x.path, n)

LEMMA EntriesInvStep ==
  ASSUME PoolInv, WalkInv, Unfiltered, seen \in Seen, FollowInv, SkipInv, WalkedInv, EntriesInv,
         [WalkNext]_walkVars
  PROVE  EntriesInv'
<1>1. TypeOK /\ TaskInv /\ ItemsFound /\ Walking \subseteq Worker
  BY DEF PoolInv, IInv, WalkInv, Walking
<1>2. /\ Made \subseteq Made' /\ Reached \subseteq Reached' /\ failed \subseteq failed'
      /\ \A p : Pruned(p) => Pruned(p)'
  BY HistoryGrows, ExcusesStay
<1>3. \A p, n : Accounted(p, n) => Accounted(p, n)'
  <2>1. \A p, n : LeftOut(p, n) => LeftOut(p, n)'
    BY <1>2 DEF LeftOut
  <2>2. QED  BY <1>2, <2>1 DEF Accounted
<1>4. CASE QuietPool /\ UNCHANGED detail
  <2>1. /\ walked' = walked /\ Walking' = Walking /\ task' = task
        /\ \A w \in Walking : Dir(w)' = Dir(w)
    BY <1>1, <1>4, QuietEffect, QuietReached DEF detail, Dir
  <2>2. QED  BY <1>2, <1>3, <2>1 DEF EntriesInv, DirNode
<1>5. ASSUME NEW w \in Worker, Take(w) PROVE EntriesInv'
  <2>1. /\ walked' = walked /\ Walking' = Walking \cup {w} /\ task'[w].stage # "entries"
        /\ \A v \in Walking : task'[v] = task[v] /\ Dir(v)' = Dir(v)
    BY <1>1, <1>5, TakeEffect, QuietReached DEF NoTask, Dir
  <2>2. QED  BY <1>2, <1>3, <2>1 DEF EntriesInv, DirNode
<1>6. ASSUME NEW w \in Worker,
             Visit(w) \/ StopAtMaxDepth(w) \/ ReadDir(w) \/ EndDir(w) \/ ReportError(w)
      PROVE  EntriesInv'
  <2>1. /\ w \in Walking /\ Dir(w) \in Path
        /\ \A v \in Walking' \ {w} : v \in Walking /\ task'[v] = task[v]
        /\ \A v : Dir(v)' = Dir(v)
    BY <1>6, OthersStay, HeldItemFacts DEF PoolInv, IInv, WalkInv
  <2>2. walked' \subseteq walked \cup {held[w]} /\ (held[w] \in walked' => w \notin Walking')
    <3>1. held[w] \notin walked
      BY <2>1, HeldItemFacts DEF PoolInv, IInv, WalkInv
    <3>2. \/ walked' = walked
          \/ Walking' = Walking \ {w} /\ walked' = walked \cup {held[w]}
      BY <1>6, StageEffect
    <3>3. QED  BY <3>1, <3>2
  <2>3. w \notin Walking' =>
          \/ failed' # {} \/ Pruned(Dir(w))'
          \/ \A n \in Range(Kids[DirNode(Dir(w))]) : Accounted(Dir(w), n)
    <3>1. SUFFICES ASSUME task[w].stage = "entries", task[w].rest = <<>>, task[w].err = Nil
                   PROVE  \A n \in Range(Kids[DirNode(Dir(w))]) : Accounted(Dir(w), n)
      BY <1>6, LeaveFinished
    <3>2. QED  BY <2>1, <3>1, ElemsEmpty DEF EntriesInv
  <2>4. PICK it : it = held[w]
    OBVIOUS
  <2>5. it \in walked' =>
          \/ failed' # {} \/ Pruned(it.path)'
          \/ \A n \in Range(Kids[DirNode(it.path)]) : Accounted(it.path, n)'
    <3>1. it.path = Dir(w) /\ Dir(w)' = Dir(w)
      BY <2>1, <2>4 DEF Dir
    <3>2. QED  BY <1>3, <2>2, <2>3, <2>4, <3>1
  <2>6. \A x \in walked' :
          \/ failed' # {} \/ Pruned(x.path)'
          \/ \A n \in Range(Kids[DirNode(x.path)]) : Accounted(x.path, n)'
    BY <1>2, <1>3, <2>2, <2>4, <2>5 DEF EntriesInv
  <2>7. w \in Walking' /\ task'[w].stage = "entries" /\ task'[w].err = Nil =>
          \A n \in Range(Kids[DirNode(Dir(w))]) :
            Accounted(Dir(w), n)' \/ n \in Range(task'[w].rest)
    <3>1. SUFFICES ASSUME w \in Walking', task'[w].stage = "entries", task'[w].err = Nil,
                          NEW n \in Range(Kids[DirNode(Dir(w))])
                   PROVE  Accounted(Dir(w), n)' \/ n \in Range(task'[w].rest)
      OBVIOUS
    <3>2. ReadDir(w)
      <4>1. task[w].stage = "descend"
        BY <1>6, <3>1, StageEffect
      <4>2. QED
        BY <1>6, <3>1, <4>1, StopEffect DEF Visit, EndDir, ReportError, InStage, Leaves
    <3>3. PICK r \in Readings(DirNode(Dir(w)), Nil) :
            Stays(w, [NoTask EXCEPT !.stage = "entries", !.rest = r.entries, !.err = r.err])
      BY <3>2, ReadEffect DEF DirNode
    <3>4. task'[w].rest = r.entries /\ r.err = Nil
      BY <3>1, <3>3 DEF Stays, NoTask
    <3>5. DirNode(Dir(w)) \in Node \cup {NoNode}
      BY <2>1, PathLast, ResolveType DEF DirNode
    <3>6. Nil \notin {"notdir", "permission", "io"}
      BY PoolAssumption, WalkAssumption
    <3>7. Range(Kids[DirNode(Dir(w))]) \ Vanished \subseteq Range(r.entries)
      BY <3>4, <3>5, <3>6, ReadingsListEntries
    <3>8. CASE n \in Vanished
      BY <1>3, <2>1, <3>8 DEF Accounted, LeftOut
    <3>9. CASE n \notin Vanished
      BY <3>1, <3>4, <3>7, <3>9 DEF Range
    <3>10. QED  BY <3>8, <3>9
  <2>8. \A v \in Walking' : task'[v].stage = "entries" /\ task'[v].err = Nil =>
          \A n \in Range(Kids[DirNode(Dir(v)')]) :
            Accounted(Dir(v), n)' \/ n \in Range(task'[v].rest)
    BY <1>3, <2>1, <2>7 DEF EntriesInv
  <2>9. QED  BY <2>6, <2>8 DEF EntriesInv, DirNode
<1>7. ASSUME NEW w \in Worker, SkipEntry(w) \/ EnqueueDir(w) \/ VisitEntry(w)
      PROVE  EntriesInv'
  <2>1. /\ w \in Walking /\ Walking' = Walking /\ task[w].stage = "entries"
        /\ walked' = walked /\ AtEntry(w)
        /\ EntryPath(w) = Append(Dir(w), Entry(w)) /\ Entry(w) \in Node
        /\ Range(task[w].rest) = {Entry(w)} \cup Range(Tail(task[w].rest))
    BY <1>7, EntryEffect, EntryReached, EntryIsNew
  <2>2. /\ \A v \in Walking' \ {w} : v \in Walking /\ task'[v] = task[v]
        /\ \A v : Dir(v)' = Dir(v)
    BY <1>7, OthersStay
  <2>3. task[w] \in Task
    BY <1>1, <2>1 DEF TaskInv
  <2>4. /\ NextEntry(w).err = task[w].err /\ NextEntry(w).rest = Tail(task[w].rest)
        /\ [NextEntry(w) EXCEPT !.skipFiles = TRUE].err = task[w].err
        /\ [NextEntry(w) EXCEPT !.skipFiles = TRUE].rest = Tail(task[w].rest)
        /\ \A e : LeaveLoop(w, e).err = e
    BY <2>3 DEF NextEntry, LeaveLoop, Task
  <2>5. PICK p : p = Dir(w)
    OBVIOUS
  <2>6. PICK n : n = Entry(w)
    OBVIOUS
  <2>7. /\ task'[w].err = Nil => task[w].err = Nil /\ task'[w].rest = Tail(task[w].rest)
        /\ Accounted(p, n)'
    <3>1. CASE SkipEntry(w)
      <4>1. task'[w].err = task[w].err /\ task'[w].rest = Tail(task[w].rest)
        BY <2>4, <3>1, SkipEffect DEF Stays
      <4>2. task[w].skipFiles /\ Kind[n] = "file"
        BY <2>6, <3>1, SkipEffect DEF Skipped, IsRegular, EntryType
      <4>3. \E c \in Made : SkipCall(c, p)
        BY <2>1, <2>5, <4>2 DEF SkipInv
      <4>4. LeftOut(p, n)
        BY <4>2, <4>3 DEF LeftOut, SkipCall
      <4>5. QED  BY <1>3, <4>1, <4>4 DEF Accounted
    <3>2. CASE EnqueueDir(w)
      <4>1. task'[w].err = task[w].err /\ task'[w].rest = Tail(task[w].rest)
        BY <2>4, <3>2, EnqueueDirEffect DEF Stays
      <4>2. Append(p, n) \in Reached'
        <5> DEFINE it == [path |-> EntryPath(w), callbackDone |-> FALSE]
        <5>1. it \in found' /\ it.path = EntryPath(w)
          BY <3>2, EnqueueDirEffect
        <5> HIDE DEF it
        <5>2. QED  BY <2>1, <2>5, <2>6, <5>1 DEF Reached
      <4>3. QED  BY <4>1, <4>2 DEF Accounted
    <3>3. CASE VisitEntry(w)
      <4>1. PICK a \in Result :
              LET e == EntryError(Entry(w), a)
              IN  /\ Made' = Made \cup {[path |-> EntryPath(w), err |-> Nil, ret |-> a]}
                  /\ \/ Stays(w, NextEntry(w))
                     \/ Stays(w, [NextEntry(w) EXCEPT !.skipFiles = TRUE])
                     \/ e # Nil /\ Stays(w, LeaveLoop(w, e))
        BY <3>3, DirectVisitEntry
      <4>2. task'[w].err = Nil => task[w].err = Nil /\ task'[w].rest = Tail(task[w].rest)
        BY <2>4, <4>1 DEF Stays
      <4>3. Append(p, n) \in Reached'
        <5> DEFINE c == [path |-> EntryPath(w), err |-> Nil, ret |-> a]
        <5>1. c \in Made' /\ c.path = EntryPath(w)
          BY <4>1
        <5> HIDE DEF c
        <5>2. QED  BY <2>1, <2>5, <2>6, <5>1 DEF Reached
      <4>4. QED  BY <4>2, <4>3 DEF Accounted
    <3>4. QED  BY <1>7, <3>1, <3>2, <3>3
  <2>8. task'[w].err = Nil =>
          \A m \in Range(Kids[DirNode(p)]) : Accounted(p, m)' \/ m \in Range(task'[w].rest)
    BY <1>3, <2>1, <2>5, <2>6, <2>7 DEF EntriesInv
  <2>9. \A v \in Walking' : task'[v].stage = "entries" /\ task'[v].err = Nil =>
          \A m \in Range(Kids[DirNode(Dir(v)')]) :
            Accounted(Dir(v), m)' \/ m \in Range(task'[v].rest)
    BY <1>3, <2>1, <2>2, <2>5, <2>8 DEF EntriesInv
  <2>10. \A x \in walked' :
           \/ failed' # {} \/ Pruned(x.path)'
           \/ \A m \in Range(Kids[DirNode(x.path)]) : Accounted(x.path, m)'
    BY <1>2, <1>3, <2>1 DEF EntriesInv
  <2>11. QED  BY <2>9, <2>10 DEF EntriesInv, DirNode
<1>8. QED
  BY <1>4, <1>5, <1>6, <1>7, StepKinds

-----------------------------------------------------------------------------
(* The order of the entries.                                               *)

\* Nothing that was reached in the directory w reads follows what is still to come.
OrderInv ==
  \A w \in Walking : task[w].stage = "entries" =>
    /\ \A i, j \in DOMAIN task[w].rest :
         i < j => Precedes(DirNode(Dir(w)), task[w].rest[i], task[w].rest[j])
    /\ \A m \in Node, n \in Range(task[w].rest) :
         Append(Dir(w), m) \in Reached => Precedes(DirNode(Dir(w)), m, n)

\* Of two entries, the one that readDir visits first has the smaller place.
LEMMA PlaceByOrder ==
  ASSUME Typed, setup \in Setups, NEW d, NEW m \in Node, NEW n \in Node, Precedes(d, m, n)
  PROVE  LET x == Place(m, d)
             y == Place(n, d)
         IN  x[1] < y[1] \/ (x[1] = y[1] /\ x[2] < y[2])
<1>1. Rank[m] \in Int /\ Rank[n] \in Int
  BY NamesOrdered
<1>2. \A k \in {m, n} :
        EntryType(k) = Kind[k] /\ Kind[k] \in {"dir", "file", "link", "other"}
  BY TreeAssumption DEF TreeAssumption, Typed
<1>3. CASE SortMode = "SortFilesFirst"
  <2> DEFINE group(k) == IF Kind[k] = "file" THEN 1 ELSE IF Kind[k] = "dir" THEN 3 ELSE 2
  <2>1. Place(m, d) = <<group(m), Rank[m]>> /\ Place(n, d) = <<group(n), Rank[n]>>
    BY <1>3 DEF Place
  <2>2. ByFiles(m, n)
    BY <1>3 DEF Precedes, Before
  <2>3. group(m) < group(n) \/ (group(m) = group(n) /\ Rank[m] < Rank[n])
    BY <1>1, <1>2, <2>2 DEF ByFiles, ByName, IsRegular, HasDirBit
  <2> HIDE DEF group
  <2>4. QED  BY <2>1, <2>3
<1>4. CASE SortMode = "SortDirsFirst"
  <2> DEFINE group(k) == IF Kind[k] = "dir" THEN 1 ELSE IF Kind[k] = "file" THEN 2 ELSE 3
  <2>1. Place(m, d) = <<group(m), Rank[m]>> /\ Place(n, d) = <<group(n), Rank[n]>>
    BY <1>4 DEF Place
  <2>2. ByDirs(m, n)
    BY <1>4 DEF Precedes, Before
  <2>3. group(m) < group(n) \/ (group(m) = group(n) /\ Rank[m] < Rank[n])
    BY <1>1, <1>2, <2>2 DEF ByDirs, ByName, IsRegular, HasDirBit
  <2> HIDE DEF group
  <2>4. QED  BY <2>1, <2>3
<1>5. CASE SortMode = "SortLexical"
  BY <1>1, <1>5 DEF Place, Precedes, Before, ByName
<1>6. CASE SortMode = "SortNone"
  BY <1>6 DEF Place, Precedes, Position
<1>7. SortMode \in {"SortNone", "SortLexical", "SortFilesFirst", "SortDirsFirst"}
  BY TreeAssumption DEF TreeAssumption, SortMode
<1>8. QED
  BY <1>3, <1>4, <1>5, <1>6, <1>7

LEMMA OrderInvStep ==
  ASSUME PoolInv, WalkInv, OrderInv, [WalkNext]_walkVars
  PROVE  OrderInv'
<1>1. TypeOK /\ TaskInv /\ ItemsFound /\ Walking \subseteq Worker
  BY DEF PoolInv, IInv, WalkInv, Walking
<1>2. \A d, m, n : Precedes(d, m, n) <=> Precedes(d, m, n)'
  <2>1. setup' = setup
    BY HistoryGrows
  <2>2. QED
    BY <2>1 DEF Precedes, Before, ByFiles, ByDirs, ByName, IsRegular, HasDirBit, EntryType,
                Impl, SortMode, Position
<1>3. CASE QuietPool /\ UNCHANGED detail
  <2>1. /\ Reached' = Reached /\ Walking' = Walking /\ task' = task
        /\ \A w \in Walking : Dir(w)' = Dir(w)
    BY <1>1, <1>3, QuietEffect, QuietReached DEF detail, Dir
  <2>2. QED  BY <1>2, <2>1 DEF OrderInv, DirNode
<1>4. ASSUME NEW w \in Worker, Take(w) PROVE OrderInv'
  <2>1. /\ Reached' = Reached /\ Walking' = Walking \cup {w} /\ task'[w].stage # "entries"
        /\ \A v \in Walking : task'[v] = task[v] /\ Dir(v)' = Dir(v)
    BY <1>1, <1>4, TakeEffect, QuietReached DEF NoTask, Dir
  <2>2. QED  BY <1>2, <2>1 DEF OrderInv, DirNode
<1>5. ASSUME NEW w \in Worker,
             Visit(w) \/ StopAtMaxDepth(w) \/ ReadDir(w) \/ EndDir(w) \/ ReportError(w)
      PROVE  OrderInv'
  <2>1. /\ w \in Walking /\ Dir(w) \in Path /\ Reached' = Reached
        /\ \A v \in Walking' \ {w} : v \in Walking /\ task'[v] = task[v]
        /\ \A v : Dir(v)' = Dir(v)
    BY <1>5, OthersStay, StageReached, HeldItemFacts DEF PoolInv, IInv, WalkInv
  <2>2. ASSUME w \in Walking', task'[w].stage = "entries"
        PROVE  /\ \A i, j \in DOMAIN task'[w].rest :
                    i < j => Precedes(DirNode(Dir(w)), task'[w].rest[i], task'[w].rest[j])
               /\ \A m \in Node : Append(Dir(w), m) \notin Reached
    <3>1. task[w].stage = "descend"
      BY <1>5, <2>2, StageEffect
    <3>2. ReadDir(w)
      BY <1>5, <2>2, <3>1, StopEffect DEF Visit, EndDir, ReportError, InStage, Leaves
    <3>3. PICK r \in Readings(DirNode(Dir(w)), Nil) :
            Stays(w, [NoTask EXCEPT !.stage = "entries", !.rest = r.entries, !.err = r.err])
      BY <3>2, ReadEffect DEF DirNode
    <3>4. task'[w].rest = r.entries
      BY <3>3 DEF Stays, NoTask
    <3>5. DirNode(Dir(w)) \in Node \cup {NoNode}
      BY <2>1, PathLast, ResolveType DEF DirNode
    <3>6. Nil \notin {"notdir", "permission", "io"}
      BY PoolAssumption, WalkAssumption
    <3>7. \A i, j \in DOMAIN r.entries :
            i < j => Precedes(DirNode(Dir(w)), r.entries[i], r.entries[j])
      BY <3>5, <3>6, ReadingsListEntries
    <3>8. QED  BY <2>1, <3>1, <3>4, <3>7, EntriesUnknown
  <2>3. QED  BY <1>2, <2>1, <2>2 DEF OrderInv, DirNode
<1>6. ASSUME NEW w \in Worker, SkipEntry(w) \/ EnqueueDir(w) \/ VisitEntry(w)
      PROVE  OrderInv'
  <2>1. /\ w \in Walking /\ Walking' = Walking /\ task[w].stage = "entries"
        /\ EntryPath(w) = Append(Dir(w), Entry(w)) /\ Entry(w) \in Node /\ Dir(w) \in Path
        /\ task[w].rest \in Seq(Node) /\ task[w].rest # <<>>
        /\ task'[w].rest = Tail(task[w].rest) \/ task'[w].rest = <<>>
        /\ Range(task[w].rest) = {Entry(w)} \cup Range(Tail(task[w].rest))
        /\ Reached' \subseteq Reached \cup {EntryPath(w)}
    BY <1>6, EntryEffect, EntryReached, EntryIsNew
  <2>2. /\ \A v \in Walking' \ {w} : v \in Walking /\ task'[v] = task[v]
        /\ \A v : Dir(v)' = Dir(v)
    BY <1>6, OthersStay
  <2>3. ASSUME NEW v \in Walking, NEW m \in Node, Append(Dir(v), m) \in Reached'
        PROVE  Append(Dir(v), m) \in Reached \/ (v = w /\ m = Entry(w))
    <3>1. Dir(v) \in Path /\ (Dir(v) = Dir(w) => v = w)
      BY <2>1, HeldItemFacts DEF PoolInv, IInv, WalkInv
    <3>2. Append(Dir(v), m) = Append(Dir(w), Entry(w)) => Dir(v) = Dir(w) /\ m = Entry(w)
      BY <2>1, <3>1, PathUnique
    <3>3. QED  BY <2>1, <2>3, <3>1, <3>2
  <2>4. /\ \A i, j \in DOMAIN Tail(task[w].rest) :
             i < j => Precedes(DirNode(Dir(w)), Tail(task[w].rest)[i], Tail(task[w].rest)[j])
        /\ \A n \in Range(Tail(task[w].rest)) : Precedes(DirNode(Dir(w)), Entry(w), n)
    <3> DEFINE s == task[w].rest
               t == Tail(s)
    <3>1. /\ Len(s) \in Nat /\ DOMAIN s = 1 .. Len(s) /\ 1 \in DOMAIN s /\ Entry(w) = s[1]
          /\ DOMAIN t = 1 .. Len(s) - 1 /\ \A i \in DOMAIN t : t[i] = s[i + 1] /\ i + 1 \in DOMAIN s
      BY <2>1 DEF Entry
    <3>2. \A i, j \in DOMAIN s : i < j => Precedes(DirNode(Dir(w)), s[i], s[j])
      BY <2>1 DEF OrderInv
    <3> HIDE DEF s, t
    <3>3. \A i \in DOMAIN t : i \in Int /\ 1 < i + 1
      BY <3>1
    <3>4. /\ \A i, j \in DOMAIN t : i < j => Precedes(DirNode(Dir(w)), t[i], t[j])
          /\ \A i \in DOMAIN t : Precedes(DirNode(Dir(w)), Entry(w), t[i])
      BY <3>1, <3>2, <3>3
    <3>5. QED  BY <3>4 DEF Range, s, t
  <2>5. ASSUME NEW v \in Walking', task'[v].stage = "entries"
        PROVE  /\ \A i, j \in DOMAIN task'[v].rest :
                    i < j => Precedes(DirNode(Dir(v)), task'[v].rest[i], task'[v].rest[j])
               /\ \A m \in Node, n \in Range(task'[v].rest) :
                    Append(Dir(v), m) \in Reached' => Precedes(DirNode(Dir(v)), m, n)
    <3>1. CASE v # w
      <4>1. v \in Walking /\ task'[v] = task[v]
        BY <2>2, <2>5, <3>1
      <4>2. QED  BY <2>3, <2>5, <3>1, <4>1 DEF OrderInv
    <3>2. CASE v = w /\ task'[w].rest = <<>>
      BY <3>2, ElemsEmpty
    <3>3. CASE v = w /\ task'[w].rest = Tail(task[w].rest)
      <4>1. \A m \in Node, n \in Range(Tail(task[w].rest)) :
              Append(Dir(w), m) \in Reached => Precedes(DirNode(Dir(w)), m, n)
        BY <2>1 DEF OrderInv
      <4>2. QED  BY <2>1, <2>3, <2>4, <3>3, <4>1
    <3>4. QED  BY <2>1, <3>1, <3>2, <3>3
  <2>6. QED  BY <1>2, <2>2, <2>5 DEF OrderInv, DirNode
<1>7. QED
  BY <1>3, <1>4, <1>5, <1>6, StepKinds

-----------------------------------------------------------------------------
(* All of this holds from the start on.                                    *)

LEMMA CallsInit ==
  WalkInit => FollowInv /\ AnswerInv /\ SkipInv /\ WalkedInv /\ EntriesInv /\ OrderInv
<1>1. SUFFICES ASSUME WalkInit
               PROVE  FollowInv /\ AnswerInv /\ SkipInv /\ WalkedInv /\ EntriesInv /\ OrderInv
  OBVIOUS
<1>2. /\ Walking = {} /\ found = {Root} /\ walked = {} /\ failed = {}
      /\ broken = {} /\ Made = {} /\ seen = NoneSeen
  BY <1>1, NoCalls DEF WalkInit, PoolInit, Walking, Made, BagToSet
<1>3. Root.path = <<Top>> /\ ~Root.callbackDone
  BY TopPath
<1>4. FollowInv
  BY <1>2, <1>3 DEF FollowInv, ErrorCallFollows, RootFirst
<1>5. QED
  BY <1>2, <1>3, <1>4 DEF AnswerInv, SkipInv, WalkedInv, EntriesInv, OrderInv

\* With any adapters around walkFn.
WrappedInv == PoolInv /\ WalkInv /\ SeenInv /\ FollowInv

LEMMA WrappedInvStep ==
  AnyPath /\ WrappedInv /\ [WalkNext]_walkVars => WrappedInv'
<1>1. SUFFICES ASSUME AnyPath, WrappedInv, [WalkNext]_walkVars PROVE WrappedInv'
  OBVIOUS
<1>2. PoolInv /\ WalkInv /\ SeenInv /\ FollowInv /\ seen \in Seen
  BY <1>1 DEF WrappedInv, SeenInv
<1>3. (PoolInv /\ WalkInv)' /\ SeenInv' /\ FollowInv'
  BY <1>1, <1>2, WalkInvStep, SeenInvStep, FollowInvStep
<1>4. QED
  BY <1>3 DEF WrappedInv

LEMMA WrappedInvInit == WalkInit => WrappedInv
  BY IInvInit, ApartInit, WalkInvInit, SeenInvInit, CallsInit DEF WalkInit, PoolInv, WrappedInv

LEMMA WrappedInvariant ==
  ASSUME AnyPath
  PROVE  WalkSafety => []WrappedInv
<1>1. WrappedInv /\ [WalkNext]_walkVars => WrappedInv'
  BY WrappedInvStep
<1>2. QED
  BY <1>1, WrappedInvInit, PTL DEF WalkSafety

\* Without filters.
DirectInv == WrappedInv /\ Unfiltered /\ AnswerInv /\ WalkedInv

LEMMA DirectInvStep ==
  AnyPath /\ DirectInv /\ [WalkNext]_walkVars => DirectInv'
<1>1. SUFFICES ASSUME AnyPath, DirectInv, [WalkNext]_walkVars PROVE DirectInv'
  OBVIOUS
<1>2. /\ PoolInv /\ WalkInv /\ seen \in Seen /\ Unfiltered /\ FollowInv /\ AnswerInv
      /\ WalkedInv /\ WrappedInv
  BY <1>1 DEF DirectInv, WrappedInv, SeenInv
<1>3. WrappedInv'
  BY <1>1, <1>2, WrappedInvStep
<1>4. Unfiltered'
  BY <1>1, <1>2, HistoryGrows DEF Unfiltered, wrap
<1>5. AnswerInv' /\ WalkedInv'
  BY <1>1, <1>2, AnswerInvStep, WalkedInvStep
<1>6. QED
  BY <1>3, <1>4, <1>5 DEF DirectInv

LEMMA DirectInvInit == WalkInit /\ Unfiltered => DirectInv
  BY WrappedInvInit, CallsInit DEF DirectInv

LEMMA DirectInvariant ==
  ASSUME AnyPath
  PROVE  WalkSafety /\ Unfiltered => []DirectInv
<1>1. DirectInv /\ [WalkNext]_walkVars => DirectInv'
  BY DirectInvStep
<1>2. QED
  BY <1>1, DirectInvInit, PTL DEF WalkSafety

LEMMA BareIsUnfiltered == wrap = <<>> => Unfiltered
  BY DEF Unfiltered

\* Without filters, and with the types of all entries known.
TypedInv == DirectInv /\ Typed /\ SkipInv /\ EntriesInv

LEMMA TypedInvariant ==
  ASSUME AnyPath
  PROVE  WalkSafety /\ Unfiltered /\ Typed => []TypedInv
<1>1. WalkInit /\ Unfiltered /\ Typed => TypedInv
  BY DirectInvInit, CallsInit DEF TypedInv
<1>2. TypedInv /\ [WalkNext]_walkVars => TypedInv'
  <2>1. SUFFICES ASSUME TypedInv, [WalkNext]_walkVars PROVE TypedInv'
    OBVIOUS
  <2>2. /\ PoolInv /\ WalkInv /\ seen \in Seen /\ Unfiltered /\ FollowInv /\ WalkedInv
        /\ DirectInv /\ Typed /\ SkipInv /\ EntriesInv
    BY <2>1 DEF TypedInv, DirectInv, WrappedInv, SeenInv
  <2>3. DirectInv'
    BY <2>1, <2>2, DirectInvStep
  <2>4. Typed'
    BY <2>1, <2>2, HistoryGrows, TypedStays
  <2>5. SkipInv' /\ EntriesInv'
    BY <2>1, <2>2, SkipInvStep, EntriesInvStep
  <2>6. QED  BY <2>3, <2>4, <2>5 DEF TypedInv
<1>3. QED
  BY <1>1, <1>2, PTL DEF WalkSafety

\* With any adapters, and the types of all entries known.
SkippingInv == PoolInv /\ WalkInv /\ SeenInv /\ Typed /\ SkipInv

LEMMA SkippingInvariant ==
  ASSUME AnyPath
  PROVE  WalkSafety /\ Typed => []SkippingInv
<1>1. WalkInit /\ Typed => SkippingInv
  BY WrappedInvInit, CallsInit DEF WrappedInv, SkippingInv
<1>2. SkippingInv /\ [WalkNext]_walkVars => SkippingInv'
  <2>1. SUFFICES ASSUME SkippingInv, [WalkNext]_walkVars PROVE SkippingInv'
    OBVIOUS
  <2>2. PoolInv /\ WalkInv /\ SeenInv /\ seen \in Seen /\ Typed /\ SkipInv
    BY <2>1 DEF SkippingInv, SeenInv
  <2>3. (PoolInv /\ WalkInv)' /\ SeenInv' /\ SkipInv'
    BY <2>1, <2>2, WalkInvStep, SeenInvStep, SkipInvStep
  <2>4. Typed'
    BY <2>1, <2>2, HistoryGrows, TypedStays
  <2>5. QED  BY <2>3, <2>4 DEF SkippingInv
<1>3. QED
  BY <1>1, <1>2, PTL DEF WalkSafety

OrderedInv == PoolInv /\ WalkInv /\ Typed /\ OrderInv

LEMMA OrderedInvariant ==
  ASSUME AnyPath
  PROVE  WalkSafety /\ Typed => []OrderedInv
<1>1. WalkInit /\ Typed => OrderedInv
  BY IInvInit, ApartInit, WalkInvInit, CallsInit DEF WalkInit, PoolInv, OrderedInv
<1>2. OrderedInv /\ [WalkNext]_walkVars => OrderedInv'
  <2>1. SUFFICES ASSUME OrderedInv, [WalkNext]_walkVars PROVE OrderedInv'
    OBVIOUS
  <2>2. PoolInv /\ WalkInv /\ Typed /\ OrderInv
    BY <2>1 DEF OrderedInv
  <2>3. (PoolInv /\ WalkInv)'
    BY <2>1, <2>2, WalkInvStep
  <2>4. Typed'
    BY <2>1, <2>2, HistoryGrows, TypedStays
  <2>5. OrderInv'
    BY <2>1, <2>2, OrderInvStep
  <2>6. QED  BY <2>3, <2>4, <2>5 DEF OrderedInv
<1>3. QED
  BY <1>1, <1>2, PTL DEF WalkSafety

-----------------------------------------------------------------------------
(* The theorems.                                                           *)

\* When Walk has returned nobody is inside walk() any more; when it returned nil,
\* every item was walked and no walk() failed.
LEMMA AfterReturn ==
  ASSUME PoolInv, Returned
  PROVE  Walking = {} /\ (ret = Nil => walked = found /\ failed = {})
<1>1. Walking = {}
  BY DEF PoolInv, IInv, MainInv, Returned, Walking
<1>2. ret = Nil => walked = found /\ failed = {}
  BY DEF PoolInv, IInv, QuietAfterNil, Quitting, Returned
<1>3. QED
  BY <1>1, <1>2

\* A path is reported to be unreadable only after walkFn was called for it and did
\* not skip it, and only if its readDir did fail, whatever adapters are around walkFn
\* (fastwalk.go:644-661).
THEOREM ErrorCallFollowsAlways ==
  ASSUME AnyPath
  PROVE  WalkSafety => []ErrorCallFollows
<1>1. WrappedInv => ErrorCallFollows
  BY DEF WrappedInv, FollowInv
<1>2. QED
  BY <1>1, WrappedInvariant, PTL

\* Before Walk returns, every path whose readDir failed was reported to walkFn, even
\* when an error of another path ends the walk (fastwalk.go:351, 657-661).
THEOREM ErrorsReachCallbackAlways ==
  ASSUME AnyPath
  PROVE  WalkSafety /\ wrap = <<>> => []ErrorsReachCallback
<1>1. DirectInv /\ wrap = <<>> => ErrorsReachCallback
  <2>1. SUFFICES ASSUME DirectInv, wrap = <<>>, Returned
                 PROVE  \A p \in broken : \E c \in Made : c.path = p /\ c.err # Nil
    BY DEF ErrorsReachCallback
  <2>2. Walking = {}
    BY <2>1, AfterReturn DEF DirectInv, WrappedInv
  <2>3. QED  BY <2>1, <2>2 DEF DirectInv, AnswerInv
<1>2. DirectInv /\ wrap = <<>> /\ [WalkNext]_walkVars => (wrap = <<>>)'
  <2>1. DirectInv /\ [WalkNext]_walkVars => setup' = setup
    BY HistoryGrows DEF DirectInv, WrappedInv
  <2>2. QED  BY <2>1 DEF wrap
<1>3. QED
  BY <1>1, <1>2, DirectInvariant, BareIsUnfiltered, PTL DEF WalkSafety

\* An error that Walk returns was returned by walkFn, also when permission errors are
\* ignored (fastwalk.go:351, 488-492).
THEOREM ErrorsComeFromCallbackAlways ==
  ASSUME AnyPath
  PROVE  WalkSafety /\ Unfiltered => []ErrorsComeFromCallback
<1>1. DirectInv /\ ErrorsSurface => ErrorsComeFromCallback
  BY DEF DirectInv, AnswerInv, ErrorsSurface, ErrorsComeFromCallback, Returned, Quitting
<1>2. QED
  BY <1>1, DirectInvariant, WalkLosesNothing, PTL

\* When Walk returns nil, every link that had to be traversed was: its directory was
\* read, or walkFn was told why not (fastwalk.go:620-638).
THEOREM LinksTraversedAlways ==
  ASSUME AnyPath
  PROVE  WalkSafety /\ Unfiltered => []LinksTraversed
<1>1. DirectInv => LinksTraversed
  <2>1. SUFFICES ASSUME DirectInv, Returned, ret = Nil, NEW c \in Made,
                        c.err = Nil, Traversed(c.path, c.ret), c.path \notin broken,
                        ~(MaxDepth > 0 /\ Len(c.path) > MaxDepth)
                 PROVE  c.path \in opened
    BY DEF LinksTraversed
  <2>2. walked = found /\ failed = {}
    BY <2>1, AfterReturn DEF DirectInv, WrappedInv
  <2>3. PICK x \in found : x.path = c.path
    BY <2>1 DEF DirectInv, WalkedInv
  <2>4. c.path \in opened \/ Pruned(c.path)
    BY <2>1, <2>2, <2>3 DEF DirectInv, WalkedInv, Finished
  <2>5. ASSUME NEW d \in Made, d.path = c.path, d.ret = "SkipDir" PROVE FALSE
    <3>1. d.err = Nil
      BY <2>1, <2>5 DEF DirectInv, WrappedInv, FollowInv, ErrorCallFollows
    <3>2. d = c
      BY <2>1, <2>5, <3>1 DEF DirectInv, WrappedInv, WalkInv, CallInv, CalledOnce
    <3>3. "SkipDir" # Nil
      BY PoolAssumption, WalkAssumption
    <3>4. QED  BY <2>1, <2>5, <3>2, <3>3 DEF Traversed
  <2>6. QED  BY <2>1, <2>4, <2>5 DEF Pruned
<1>2. QED
  BY <1>1, DirectInvariant, PTL

\* When Walk returns nil, walkFn was called for the root and for every entry of every
\* directory it was called for, unless it excused the entry (ErrSkipDir, ErrSkipFiles),
\* MaxDepth did, or walkFn was told of an error (fastwalk.go:347).
THEOREM NothingMissedAlways ==
  ASSUME AnyPath
  PROVE  WalkSafety /\ Unfiltered /\ Typed => []NothingMissed
<1>1. TypedInv => NothingMissed
  <2>1. SUFFICES ASSUME TypedInv, Returned, ret = Nil PROVE NothingMissed
    BY DEF NothingMissed
  <2>2. walked = found /\ failed = {}
    BY <2>1, AfterReturn DEF TypedInv, DirectInv, WrappedInv
  <2>3. \A x \in found : Called(x.path)
    BY <2>1, <2>2 DEF TypedInv, DirectInv, WalkedInv
  <2>4. \A p \in Reached : p \in {c.path : c \in Made}
    BY <2>3 DEF Reached, Called
  <2>5. <<Top>> \in {c.path : c \in Made}
    BY <2>1, <2>3, TopPath DEF TypedInv, DirectInv, WalkedInv, Called
  <2>6. ASSUME NEW c \in Made, Kind[Last(c.path)] = "dir", ~Pruned(c.path),
               NEW i \in DOMAIN Kids[Last(c.path)]
        PROVE  LET n == Kids[Last(c.path)][i]
               IN  LeftOut(c.path, n) \/ Append(c.path, n) \in {d.path : d \in Made}
    <3>1. PICK x \in found : x.path = c.path
      BY <2>1, <2>6 DEF TypedInv, SkipInv
    <3>2. \A n \in Range(Kids[DirNode(c.path)]) : Accounted(c.path, n)
      BY <2>1, <2>2, <2>6, <3>1 DEF TypedInv, EntriesInv
    <3>3. DirNode(c.path) = Last(c.path)
      BY <2>6 DEF DirNode, Resolve
    <3>4. QED  BY <2>4, <2>6, <3>2, <3>3 DEF Accounted, Range
  <2>7. QED  BY <2>5, <2>6 DEF NothingMissed
<1>2. QED
  BY <1>1, TypedInvariant, PTL

\* A path below the root is its directory's path and a name.
LEMMA PathSplit ==
  ASSUME NEW p \in Path, Len(p) > 1
  PROVE  Front(p) \in Path /\ Last(p) \in Node /\ p = Append(Front(p), Last(p))
<1>1. p \in Seq(Node) /\ Len(p) \in Nat /\ Last(p) \in Node
  BY PathLast DEF Path
<1>2. Front(p) \in Seq(Node) /\ Len(Front(p)) = Len(p) - 1
      /\ \A i \in 1 .. Len(p) - 1 : Front(p)[i] = p[i]
  BY <1>1 DEF Front
<1>3. Front(p) \in Path
  <2>1. Len(<<>>) = 0
    OBVIOUS
  <2>2. QED  BY <1>1, <1>2, <2>1 DEF Path
<1>4. p = Append(Front(p), Last(p))
  BY <1>1, <1>2, AppendProperties, SeqEqual DEF Last
<1>5. QED
  BY <1>1, <1>3, <1>4

\* After walkFn has answered ErrSkipFiles for an entry of a directory, no other regular
\* file of the directory is called, by whichever worker and through whichever adapters
\* (fastwalk.go:53).
THEOREM SkipFilesRespectedAlways ==
  ASSUME AnyPath
  PROVE  WalkSafety /\ Typed => SkipFilesRespected
<1>1. ASSUME SkippingInv, [WalkNext]_walkVars, NEW c \in Made' \ Made, c.err = Nil,
             Kind[Last(c.path)] = "file", NEW d \in Made, d.ret = "SkipFiles", d.err = Nil,
             Kind[Last(d.path)] # "dir", Len(d.path) > 1, Front(d.path) = Front(c.path)
      PROVE  FALSE
  <2>1. PoolInv /\ WalkInv /\ seen \in Seen /\ SkipInv /\ Typed
    BY <1>1 DEF SkippingInv, SeenInv
  <2>2. TypeOK /\ TaskInv /\ ItemsFound
    BY <2>1 DEF PoolInv, IInv, WalkInv
  <2>3. d.path \in Path /\ Front(d.path) \in Path
        /\ Last(d.path) \in Node /\ d.path = Append(Front(d.path), Last(d.path))
    <3>1. d.path \in Path
      BY <1>1, <2>1, ReachedPaths DEF Reached
    <3>2. QED  BY <1>1, <3>1, PathSplit
  <2>4. ~((QuietPool /\ UNCHANGED detail) \/ \E w \in Worker : Take(w))
    BY <1>1, <2>2, QuietReached
  <2>5. ASSUME NEW w \in Worker,
               Visit(w) \/ StopAtMaxDepth(w) \/ ReadDir(w) \/ EndDir(w) \/ ReportError(w)
        PROVE  FALSE
    <3>1. w \in Walking /\ c.path = Dir(w) /\ task[w].stage = "visit"
      BY <1>1, <2>1, <2>5, StageReached, OthersStay
    <3>2. held[w] \in found /\ ~held[w].callbackDone
      BY <2>1, <2>2, <3>1, HeldItemFacts DEF PoolInv, IInv, WalkInv, TaskInv
    <3>3. c.path = <<Top>>
      BY <1>1, <2>1, <3>1, <3>2 DEF SkipInv, Dir
    <3>4. Front(c.path) = <<>>
      BY <3>3, TopPath DEF Front
    <3>5. QED  BY <1>1, <2>3, <3>4 DEF Path
  <2>6. ASSUME NEW w \in Worker, SkipEntry(w) \/ EnqueueDir(w) \/ VisitEntry(w)
        PROVE  FALSE
    <3>1. /\ AtEntry(w) /\ w \in Walking /\ task[w].stage = "entries" /\ task[w].rest # <<>>
          /\ c.path = EntryPath(w) /\ Front(c.path) = Dir(w) /\ Last(c.path) = Entry(w)
          /\ Entry(w) \in Node
      BY <1>1, <2>1, <2>6, EntryReached, EntryIsNew
    <3>2. VisitEntry(w)
      BY <1>1, <2>1, <2>6, SkipEffect, EnqueueDirEffect
    <3>3. ~task[w].skipFiles
      BY <1>1, <2>1, <3>1, <3>2, VisitEntryEffect DEF Skipped, IsRegular, Typed
    <3>4. SkipCall(d, Dir(w))
      BY <1>1, <2>3, <3>1 DEF SkipCall
    <3>5. QED  BY <1>1, <2>1, <3>1, <3>3, <3>4 DEF SkipInv
  <2>7. QED  BY <1>1, <2>4, <2>5, <2>6, StepKinds
<1>2. SkippingInv /\ [WalkNext]_walkVars =>
        [\A c \in BagToSet(calls') \ Made :
           c.err = Nil /\ Kind[Last(c.path)] = "file" =>
             ~ \E d \in Made : /\ d.ret = "SkipFiles" /\ d.err = Nil
                               /\ Kind[Last(d.path)] # "dir"
                               /\ Len(d.path) > 1
                               /\ Front(d.path) = Front(c.path)]_walkVars
  <2>1. BagToSet(calls') = Made'
    BY DEF Made
  <2>2. QED  BY <1>1, <2>1
<1>3. QED
  BY <1>2, SkippingInvariant, PTL DEF WalkSafety, SkipFilesRespected

\* The entries of a directory are called and enqueued in the order of SortMode, without
\* one in directory order, whatever else the other workers do in between
\* (fastwalk.go:296).
THEOREM OrderRespectedAlways ==
  ASSUME AnyPath
  PROVE  WalkSafety /\ Typed => OrderRespected
<1>1. ASSUME OrderedInv, [WalkNext]_walkVars, NEW p \in Reached' \ Reached, NEW q \in Reached,
             Len(p) > 1, Len(q) > 1, Front(p) = Front(q)
      PROVE  LET d == Resolve(Last(Front(p)))
                 x == Place(Last(p), d)
                 y == Place(Last(q), d)
             IN  y[1] < x[1] \/ (y[1] = x[1] /\ y[2] < x[2])
  <2>1. PoolInv /\ WalkInv /\ Typed /\ OrderInv
    BY <1>1 DEF OrderedInv
  <2>2. TypeOK /\ TaskInv /\ ItemsFound /\ setup \in Setups
    BY <2>1 DEF PoolInv, IInv, WalkInv, TaskInv
  <2>3. Last(q) \in Node /\ q = Append(Front(q), Last(q))
    BY <1>1, <2>1, ReachedPaths, PathSplit
  <2>4. PICK w \in Worker : SkipEntry(w) \/ EnqueueDir(w) \/ VisitEntry(w)
    BY <1>1, <2>1, <2>2, StepKinds, QuietReached, StageReached
  <2>5. /\ w \in Walking /\ task[w].stage = "entries" /\ p = EntryPath(w)
        /\ Front(p) = Dir(w) /\ Last(p) = Entry(w) /\ Entry(w) \in Node
        /\ Entry(w) \in Range(task[w].rest)
    BY <1>1, <2>1, <2>4, EntryReached, EntryIsNew
  <2>6. Precedes(DirNode(Dir(w)), Last(q), Last(p))
    BY <1>1, <2>1, <2>3, <2>5 DEF OrderInv
  <2>7. QED
    BY <2>1, <2>2, <2>3, <2>5, <2>6, PlaceByOrder DEF DirNode
<1>2. OrderedInv /\ [WalkNext]_walkVars =>
        [\A p \in Reached' \ Reached, q \in Reached :
           Len(p) > 1 /\ Len(q) > 1 /\ Front(p) = Front(q) =>
             LET d == Resolve(Last(Front(p)))
                 x == Place(Last(p), d)
                 y == Place(Last(q), d)
             IN  y[1] < x[1] \/ (y[1] = x[1] /\ y[2] < x[2])]_walkVars
  BY <1>1
<1>3. QED
  BY <1>2, OrderedInvariant, PTL DEF WalkSafety, OrderRespected
=============================================================================
