---------------------------- MODULE DirRead_proofs ----------------------------
(***************************************************************************)
(* Theorems about DirRead, for any number of readers and slices, any       *)
(* directories and any record layout: the buffer a directory is read into  *)
(* is never left, whatever its bytes are, and the slices that sorted walks *)
(* take from one pool are never shared.                                    *)
(***************************************************************************)
EXTENDS DirRead, FileTree_proofs

-----------------------------------------------------------------------------
(* Parse, and the buffers it is given.                                     *)

LEMMA ByteIsNat == Byte \subseteq Nat
BY DEF Byte

LEMMA ReadIntType ==
  ASSUME NEW b \in Seq(Byte), NEW off \in Nat, NEW size \in Nat
  PROVE  ReadInt(b, off, size) \in Nat \cup {Missing}
<1>1. SUFFICES ASSUME Len(b) >= off + size
               PROVE  ReadInt(b, off, size) \in Nat
  BY DEF ReadInt
<1> DEFINE Value(v) == v = [i \in 0 .. size |->
                              IF i = size THEN 0 ELSE b[off + i + 1] + 256 * v[i + 1]]
           value == CHOOSE v : Value(v)
<1>2. ReadInt(b, off, size) = value[0]
  BY <1>1 DEF ReadInt
<1>3. \E v : Value(v)
  <2> DEFINE c == [k \in 1 .. size |-> b[off + (size - k) + 1]]
  <2>1. \A k \in 1 .. size : c[k] \in Nat
    <3>1. ASSUME NEW k \in 1 .. size PROVE c[k] \in Nat
      <4>1. off + (size - k) + 1 \in 1 .. Len(b)
        BY <1>1
      <4>2. b[off + (size - k) + 1] \in Byte
        BY <4>1
      <4>3. QED  BY <4>2, ByteIsNat
    <3> HIDE DEF c
    <3>2. QED  BY <3>1
  <2>2. \A i \in 0 .. size : i # size => c[size - i] = b[off + i + 1]
    <3>1. ASSUME NEW i \in 0 .. size, i # size PROVE c[size - i] = b[off + i + 1]
      <4>1. size - i \in 1 .. size /\ size - (size - i) = i
        BY <3>1
      <4>2. QED  BY <4>1
    <3>2. QED  BY <3>1
  <2> HIDE DEF c
  <2> DEFINE g == [p \in Nat \X Nat |-> IF p[1] \in 1 .. size THEN c[p[1]] + 256 * p[2] ELSE 0]
             T == Nat
             zero == 0
  <2>3. \A k \in 1 .. size, x \in Nat : g[<<k, x>>] = c[k] + 256 * x
    OBVIOUS
  <2>4. g \in [(Nat \X T) -> T] /\ zero \in T
    BY <2>1
  <2> HIDE DEF g, T, zero
  <2>5. PICK f : f \in Iterates(T, zero, g)
    BY <2>4, Recursion
  <2> DEFINE v == [i \in 0 .. size |-> f[size - i]]
  <2>6. v[size] = 0
    BY <2>5 DEF zero, Iterates
  <2>7. ASSUME NEW i \in 0 .. size, i # size
        PROVE  v[i] = b[off + i + 1] + 256 * v[i + 1]
    <3>1. PICK k \in 1 .. size : k = size - i
      BY <2>7
    <3>2. f[k] = g[<<k, f[k - 1]>>]
      BY <2>5 DEF Iterates
    <3>8. f[k - 1] \in Nat
      BY <2>5 DEF T, Iterates
    <3>3. f[k] = c[k] + 256 * f[k - 1]
      BY <2>3, <3>2, <3>8
    <3>4. v[i] = f[k] /\ i + 1 \in 0 .. size /\ k - 1 = size - (i + 1)
      BY <2>7, <3>1
    <3>5. v[i + 1] = f[k - 1]
      BY <3>4
    <3>6. c[k] = b[off + i + 1]
      BY <2>2, <2>7, <3>1
    <3>7. QED  BY <3>3, <3>4, <3>5, <3>6
  <2>8. v = [i \in 0 .. size |-> v[i]]
    OBVIOUS
  <2> HIDE DEF v
  <2>9. Value(v)
    BY <2>6, <2>7, <2>8
  <2>10. QED  BY <2>9
<1>4. Value(value)
  <2> HIDE DEF Value
  <2>1. QED  BY <1>3
<1> HIDE DEF value
<1> DEFINE A == {k \in Nat : k <= size => value[size - k] \in Nat}
<1>5. 0 \in A
  BY <1>4
<1>6. ASSUME NEW k \in Nat, k \in A PROVE k + 1 \in A
  <2>1. SUFFICES ASSUME k + 1 <= size PROVE value[size - (k + 1)] \in Nat
    OBVIOUS
  <2> DEFINE i == size - (k + 1)
  <2>2. i \in 0 .. size /\ i # size /\ i + 1 = size - k /\ off + i + 1 \in 1 .. Len(b)
    BY <1>1, <2>1
  <2>3. value[i] = b[off + i + 1] + 256 * value[i + 1]
    BY <1>4, <2>2
  <2>4. value[i + 1] \in Nat
    BY <1>6, <2>1, <2>2
  <2> HIDE DEF i
  <2>6. b[off + i + 1] \in Byte
    BY <2>2
  <2>8. PICK x \in Nat : x = b[off + i + 1]
    BY <2>6, ByteIsNat
  <2>9. PICK y \in Nat : y = value[i + 1]
    BY <2>4
  <2>5. value[i] \in Nat
    BY <2>3, <2>8, <2>9
  <2>7. QED  BY <2>5 DEF i
<1> HIDE DEF A, Value
<1>7. Nat \subseteq A
  BY <1>5, <1>6, SetInduction
<1>8. value[size - size] \in Nat
  BY <1>7 DEF A
<1>9. QED
  BY <1>2, <1>8

\* Sequences laid end to end are a sequence.
LEMMA FlattenType ==
  ASSUME NEW T, NEW s \in Seq(Seq(T))
  PROVE  FlattenSeq(s) \in Seq(T)
<1>1. CASE Len(s) = 0
  <2>1. s = <<>>
    BY <1>1
  <2>2. QED  BY <1>1, <2>1 DEF FlattenSeq
<1>2. CASE Len(s) # 0
  <2> DEFINE Value(v) == v = [i \in 1 .. Len(s) |-> IF i = 1 THEN s[i] ELSE v[i - 1] \o s[i]]
             value == CHOOSE v : Value(v)
             S == Seq(T)
  <2>1. Len(s) \in Nat \ {0} /\ \A i \in 1 .. Len(s) : s[i] \in S
    BY <1>2
  <2>2. FlattenSeq(s) = value[Len(s)]
    BY <1>2 DEF FlattenSeq
  <2>3. \E v : Value(v)
    <3> DEFINE g == [p \in Nat \X S |->
                      IF p[1] + 1 \in 1 .. Len(s) THEN p[2] \o s[p[1] + 1] ELSE p[2]]
               first == s[1]
    <3>1. ASSUME NEW k \in 1 .. Len(s) - 1, NEW x \in S PROVE g[<<k, x>>] = x \o s[k + 1]
      <4> HIDE DEF S
      <4>1. <<k, x>> \in Nat \X S /\ k + 1 \in 1 .. Len(s)
        BY <2>1
      <4>2. QED  BY <4>1
    <3>2. g \in [(Nat \X S) -> S] /\ first \in S
      BY <2>1
    <3> HIDE DEF g, first, S
    <3>3. PICK f : f \in Iterates(S, first, g)
      BY <3>2, Recursion
    <3> DEFINE v == [i \in 1 .. Len(s) |-> f[i - 1]]
    <3>4. v[1] = s[1]
      BY <2>1, <3>3 DEF Iterates, first
    <3>5. ASSUME NEW i \in 1 .. Len(s), i # 1 PROVE v[i] = v[i - 1] \o s[i]
      <4>1. PICK k \in 1 .. Len(s) - 1 : k = i - 1
        BY <2>1, <3>5
      <4>2. f[k] = g[<<k, f[k - 1]>>] /\ f[k - 1] \in S
        BY <2>1, <3>3 DEF Iterates
      <4>3. f[k] = f[k - 1] \o s[k + 1]
        BY <3>1, <4>2
      <4>4. v[i] = f[k] /\ v[i - 1] = f[k - 1] /\ k + 1 = i
        BY <2>1, <3>5, <4>1
      <4>5. QED  BY <4>3, <4>4
    <3>6. v = [i \in 1 .. Len(s) |-> v[i]]
      OBVIOUS
    <3> HIDE DEF v
    <3>7. Value(v)
      BY <3>4, <3>5, <3>6
    <3>8. QED  BY <3>7
  <2>4. Value(value)
    <3> HIDE DEF Value
    <3>1. QED  BY <2>3
  <2> HIDE DEF value, S
  <2> DEFINE A == {k \in Nat : k + 1 <= Len(s) => value[k + 1] \in S}
  <2>5. 0 \in A
    BY <2>1, <2>4
  <2>6. ASSUME NEW k \in Nat, k \in A PROVE k + 1 \in A
    <3>1. SUFFICES ASSUME k + 1 + 1 <= Len(s) PROVE value[k + 1 + 1] \in S
      OBVIOUS
    <3> DEFINE i == k + 1 + 1
    <3>2. i \in 1 .. Len(s) /\ i # 1 /\ i - 1 = k + 1
      BY <2>1, <3>1
    <3>3. value[i] = value[k + 1] \o s[i] /\ s[i] \in S
      BY <2>1, <2>4, <3>2
    <3>4. value[k + 1] \in S
      BY <2>1, <2>6, <3>1
    <3> HIDE DEF i
    <3>5. value[i] \in S
      BY <3>3, <3>4 DEF S
    <3>6. QED  BY <3>5 DEF i
  <2> HIDE DEF A, Value
  <2>7. Nat \subseteq A
    BY <2>5, <2>6, SetInduction
  <2>8. value[(Len(s) - 1) + 1] \in S
    BY <2>1, <2>7 DEF A
  <2>9. QED  BY <2>1, <2>2, <2>8 DEF S
<1>3. QED
  BY <1>1, <1>2

\* What is left of a buffer.
LEMMA RestType ==
  ASSUME NEW b \in Seq(Byte), NEW k \in 0 .. Len(b)
  PROVE  SubSeq(b, k + 1, Len(b)) \in Seq(Byte) /\ Len(SubSeq(b, k + 1, Len(b))) = Len(b) - k
<1> DEFINE T == Byte
<1>1. b \in Seq(T)
  OBVIOUS
<1> HIDE DEF T
<1>2. SubSeq(b, k + 1, Len(b)) \in Seq(T) /\ Len(SubSeq(b, k + 1, Len(b))) = Len(b) - k
  BY <1>1
<1>3. QED
  BY <1>2 DEF T

\* Parse never consumes more than the buffer holds (internal/dirent/dirent.go:37-77).
LEMMA ParseStaysInside ==
  ASSUME NEW b \in Seq(Byte)
  PROVE  Parse(b).consumed \in 0 .. Len(b)
<1> DEFINE n == Reclen(b)
           rec == SubSeq(b, 1, n)
           name == CString(SubSeq(rec, NameOff + 1, NameOff + Namlen(rec)))
           type == DirentType(b)
           none == Ino(rec) \in {Missing, 0} \/ Reclen(rec) = Missing
                   \/ (NameOff + Namlen(rec)) % Word > Len(rec)
<1>1. n \in Nat \cup {-1} /\ Len(b) \in Nat
  BY ReadIntType, LayoutAssumption DEF Reclen, LayoutAssumption, Missing
<1>2. Parse(b) = IF n = Missing \/ n > Len(b) THEN Nameless(0)
                 ELSE IF none THEN Nameless(n)
                 ELSE IF NameWraps(rec) THEN Panic
                 ELSE [consumed |-> n, name |-> name, typ |-> type]
  BY DEF Parse
<1> HIDE DEF n, name, type, none
<1>3. CASE n = Missing \/ n > Len(b)
  BY <1>1, <1>2, <1>3 DEF Nameless
<1>4. CASE n # Missing /\ n <= Len(b)
  <2>1. Parse(b).consumed \in {0, n}
    <3>1. ~(n = Missing \/ n > Len(b))
      BY <1>1, <1>4 DEF Missing
    <3>2. Parse(b) \in {Nameless(n), Panic, [consumed |-> n, name |-> name, typ |-> type]}
      BY <1>2, <3>1
    <3>3. QED  BY <3>2 DEF Nameless, Panic
  <2>2. QED  BY <1>1, <1>4, <2>1 DEF Missing
<1>5. QED
  BY <1>1, <1>3, <1>4 DEF Missing

-----------------------------------------------------------------------------
(* The readers.                                                            *)

Field == {"step", "dir", "at", "buf", "bufp", "des", "skipFiles", "p", "next", "err", "calls"}

Steps == {"open", "list", "read", "visit", "return", "done"}

\* A reader has a slice from the time it needs one until it returns, and only then.
OwnsInTime(t) ==
  /\ t.p \in Slice \cup {NoSlice}
  /\ t.step \in {"open", "list", "done"} \/ ~Sorted => t.p = NoSlice
  /\ Sorted /\ t.step \in {"read", "visit"} => t.p # NoSlice

\* A reader in a directory is within its records and its buffer.
InsideBuffer(t) ==
  /\ t.step \in {"list", "read"} => t.dir \in DOMAIN Records
  /\ t.at \in Nat \ {0}
  /\ t.buf \in Seq(Byte) /\ Len(t.buf) <= BufSize /\ t.bufp \in 0 .. Len(t.buf)

ReaderOK(t) == DOMAIN t = Field /\ t.step \in Steps /\ OwnsInTime(t) /\ InsideBuffer(t)

\* The inductive invariant: every slice is with one reader, or in the pool and empty, or
\* nowhere.
ReadInv ==
  /\ DOMAIN reader = Reader /\ DOMAIN slice = Slice
  /\ pool \subseteq Slice
  /\ \A r \in Reader : ReaderOK(reader[r])
  /\ SlicesPrivate

\* What a step of reader r may do with slices: it goes on with the one it has, which it
\* alone changes, takes one that nobody has, or gives its own back.
Keeps(r, t) ==
  /\ t.p = reader[r].p
  /\ pool' = pool /\ DOMAIN slice' = DOMAIN slice
  /\ \A s \in Slice : s # t.p => slice'[s] = slice[s]

Takes(r, t) == reader[r].p = NoSlice /\ t.p \in Slice /\ Get(t.p)

Gives(r, t) == t.p = NoSlice /\ PutDirentSlice(reader[r].p)

Moves(r) ==
  \E t : /\ To(r, t)
         /\ ReaderOK(t)
         /\ Keeps(r, t) \/ Takes(r, t) \/ Gives(r, t)

\* What is the same while a record is handled.
SameRecord(t, u) ==
  /\ DOMAIN u = Field
  /\ u.p = t.p /\ u.dir = t.dir /\ u.at = t.at /\ u.buf = t.buf /\ u.bufp = t.bufp

LEMMA StaysOK ==
  ASSUME NEW t, ReaderOK(t), NEW u, SameRecord(t, u), u.step \in {t.step, "return"}
  PROVE  ReaderOK(u)
BY DEF ReaderOK, SameRecord, OwnsInTime, InsideBuffer, Steps

LEMMA ReturnKeeps ==
  ASSUME NEW t, DOMAIN t = Field, NEW e
  PROVE  SameRecord(t, Return(t, e)) /\ Return(t, e).step = "return"
BY DEF Return, SameRecord, Field

LEMMA OnDirEntKeeps ==
  ASSUME NEW t, DOMAIN t = Field, NEW e, NEW a
  PROVE  SameRecord(t, OnDirEnt(t, e, a)) /\ OnDirEnt(t, e, a).step \in {t.step, "return"}
<1> DEFINE u == [t EXCEPT !.calls = Append(@, [entry |-> e, answer |-> a])]
<1>1. SameRecord(t, u) /\ u.step = t.step
  BY DEF SameRecord, Field
<1> HIDE DEF u
<1>2. OnDirEnt(t, e, a) = CASE a = Nil -> u
                            [] a = "SkipFiles" -> [u EXCEPT !.skipFiles = TRUE]
                            [] OTHER -> Return(u, a)
  BY DEF OnDirEnt, u
<1>3. CASE a = Nil
  BY <1>1, <1>2, <1>3 DEF SameRecord
<1>4. CASE a # Nil /\ a = "SkipFiles"
  <2>1. OnDirEnt(t, e, a) = [u EXCEPT !.skipFiles = TRUE]
    BY <1>2, <1>4
  <2>2. QED  BY <1>1, <2>1 DEF SameRecord, Field
<1>5. CASE a # Nil /\ a # "SkipFiles"
  <2>1. OnDirEnt(t, e, a) = Return(u, a)
    BY <1>2, <1>5
  <2>2. QED  BY <1>1, <2>1, ReturnKeeps DEF SameRecord
<1>6. QED
  BY <1>3, <1>4, <1>5

\* The first loop: an entry is passed on, kept or left out.
LEMMA DeliverMoves ==
  ASSUME ReadInv, NEW r \in Reader, NEW t, NEW e,
         ReaderOK(t), t.step = "read", t.p = reader[r].p,
         Deliver(r, t, e), pool' = pool
  PROVE  Moves(r)
<1>1. CASE t.skipFiles /\ e.typ = "file"
  BY <1>1 DEF Deliver, Moves, Keeps
<1>2. CASE ~(t.skipFiles /\ e.typ = "file") /\ Sorted
  <2>1. slice' = [slice EXCEPT ![t.p] = Append(@, e)] /\ To(r, t)
    BY <1>2 DEF Deliver
  <2>2. Keeps(r, t)
    BY <2>1 DEF ReadInv, Keeps
  <2>3. QED  BY <2>1, <2>2 DEF Moves
<1>3. CASE ~(t.skipFiles /\ e.typ = "file") /\ ~Sorted
  <2>1. PICK a \in Answers[e.name] : To(r, OnDirEnt(t, e, a)) /\ slice' = slice
    BY <1>3 DEF Deliver
  <2> DEFINE u == OnDirEnt(t, e, a)
  <2>2. ReaderOK(u) /\ u.p = t.p
    BY OnDirEntKeeps, StaysOK DEF ReaderOK, SameRecord
  <2>3. To(r, u)
    BY <2>1
  <2> HIDE DEF u
  <2>4. Keeps(r, u)
    BY <2>1, <2>2 DEF Keeps
  <2>5. QED  BY <2>2, <2>3, <2>4 DEF Moves
<1>4. QED
  BY <1>1, <1>2, <1>3

\* The end of the first loop.
LEMMA EndOfDirMoves ==
  ASSUME ReadInv, NEW r \in Reader, NEW e, reader[r].step = "read", EndOfDir(r, e)
  PROVE  Moves(r)
<1> DEFINE t == reader[r]
<1>1. ReaderOK(t) /\ pool' = pool
  BY DEF ReadInv, EndOfDir
<1>2. CASE Sorted
  <2> DEFINE u == [t EXCEPT !.step = "visit", !.err = e]
  <2>1. PICK s : slice' = [slice EXCEPT ![t.p] = s]
    BY <1>2 DEF EndOfDir
  <2>2. To(r, u)
    BY <1>2 DEF EndOfDir
  <2>3. SameRecord(t, u) /\ u.step = "visit"
    BY <1>1 DEF SameRecord, Field, ReaderOK
  <2> HIDE DEF u
  <2>4. ReaderOK(u)
    BY <1>1, <1>2, <2>3 DEF ReaderOK, SameRecord, OwnsInTime, InsideBuffer, Steps
  <2>5. Keeps(r, u)
    BY <1>1, <2>1, <2>3 DEF SameRecord, Keeps, ReadInv
  <2>6. QED  BY <2>2, <2>4, <2>5 DEF Moves
<1>3. CASE ~Sorted
  <2> DEFINE u == Return(t, e)
  <2>1. To(r, u) /\ slice' = slice
    BY <1>3 DEF EndOfDir
  <2>2. ReaderOK(u) /\ u.p = t.p
    BY <1>1, ReturnKeeps, StaysOK DEF ReaderOK, SameRecord
  <2> HIDE DEF u
  <2>3. Keeps(r, u)
    BY <1>1, <2>1, <2>2 DEF Keeps
  <2>4. QED  BY <2>1, <2>2, <2>3 DEF Moves
<1>4. QED
  BY <1>2, <1>3

\* A step that leaves the slices alone, to a state with the same slice.
LEMMA StayMoves ==
  ASSUME ReadInv, NEW r \in Reader, NEW t, To(r, t), UNCHANGED <<slice, pool>>,
         ReaderOK(t), t.p = reader[r].p
  PROVE  Moves(r)
BY DEF Moves, Keeps

\* A reader that has all but its slice.
Entered(t) ==
  DOMAIN t = Field /\ t.step = "read" /\ t.p = NoSlice /\ InsideBuffer(t)

\* A step that takes a slice.
LEMMA TakeMoves ==
  ASSUME ReadInv, NEW r \in Reader, reader[r].p = NoSlice, Sorted,
         NEW t, DOMAIN t = Field, t.step = "read", Entered([t EXCEPT !.p = NoSlice]),
         \E s \in Slice : Get(s) /\ To(r, [t EXCEPT !.p = s])
  PROVE  Moves(r)
<1>1. PICK s \in Slice : Get(s) /\ To(r, [t EXCEPT !.p = s])
  OBVIOUS
<1> DEFINE u == [t EXCEPT !.p = s]
           v == [t EXCEPT !.p = NoSlice]
<1>2. To(r, u) /\ u.p = s /\ Entered(v) /\ v.step = "read" /\ u.step = "read"
      /\ DOMAIN u = Field
      /\ u.dir = v.dir /\ u.at = v.at /\ u.buf = v.buf /\ u.bufp = v.bufp
  BY <1>1 DEF Field
<1> HIDE DEF u, v
<1>3. ReaderOK(u)
  BY <1>2, ReadAssumption DEF ReaderOK, InsideBuffer, OwnsInTime, Entered, Steps, ReadAssumption
<1>4. Takes(r, u)
  BY <1>1, <1>2 DEF Takes
<1>5. QED
  BY <1>2, <1>3, <1>4 DEF Moves

\* The bytes that Fill puts into the buffer.
LEMMA FillType ==
  ASSUME NEW d \in DOMAIN Records, NEW at \in Nat \ {0}, NEW k \in at .. Len(Records[d])
  PROVE  FlattenSeq([i \in 1 .. k - at + 1 |-> Encode(Records[d][at + i - 1])]) \in Seq(Byte)
<1> DEFINE s == [i \in 1 .. k - at + 1 |-> Encode(Records[d][at + i - 1])]
<1>1. Len(Records[d]) \in Nat /\ DOMAIN Records[d] = 1 .. Len(Records[d])
  BY ReadAssumption DEF ReadAssumption
<1>2. ASSUME NEW i \in 1 .. k - at + 1 PROVE Encode(Records[d][at + i - 1]) \in Seq(Byte)
  <2>1. at + i - 1 \in DOMAIN Records[d]
    BY <1>1
  <2>2. QED  BY <2>1, ReadAssumption DEF ReadAssumption
<1>3. k - at + 1 \in Nat
  BY <1>1
<1> DEFINE n == k - at + 1
           T == Seq(Byte)
<1>4. s \in [1 .. n -> T]
  <2> HIDE DEF T
  <2>1. \A i \in 1 .. n : Encode(Records[d][at + i - 1]) \in T
    BY <1>2 DEF T
  <2>2. QED  BY <2>1
<1>5. s \in Seq(T)
  <2> HIDE DEF s, n, T
  <2>1. n \in Nat
    BY <1>3 DEF n
  <2>2. QED  BY <1>4, <2>1
<1> HIDE DEF s
<1>6. FlattenSeq(s) \in Seq(Byte)
  BY <1>5, FlattenType
<1>7. QED
  BY <1>6 DEF s

\* Every step of a reader is one of the three kinds.
LEMMA ReaderMoves ==
  ASSUME ReadInv, NEW r \in Reader, ReaderStep(r)
  PROVE  Moves(r) /\ setup' = setup
<1> DEFINE t == reader[r]
<1>1. ReaderOK(t) /\ DOMAIN t = Field
  BY DEF ReadInv, ReaderOK
<1>2. CASE Refuse(r)
  <2>1. PICK d \in DOMAIN Records \cap Denied : To(r, Return([t EXCEPT !.dir = d], "permission"))
    BY <1>2 DEF Refuse
  <2> DEFINE u == Return([t EXCEPT !.dir = d], "permission")
  <2>2. DOMAIN u = Field /\ u.p = t.p /\ u.step = "return"
        /\ u.at = t.at /\ u.buf = t.buf /\ u.bufp = t.bufp
    BY <1>1 DEF Return, Field
  <2>3. To(r, u) /\ UNCHANGED <<setup, slice, pool>>
    BY <1>2, <2>1 DEF Refuse
  <2>4. t.step = "open"
    BY <1>2 DEF Refuse, At
  <2> HIDE DEF u
  <2>5. ReaderOK(u)
    BY <1>1, <2>2, <2>4 DEF ReaderOK, OwnsInTime, InsideBuffer, Steps
  <2>6. QED  BY <2>2, <2>3, <2>5, StayMoves
<1>3. CASE Open(r)
  <2>1. t.step = "open" /\ t.p = NoSlice /\ setup' = setup
    BY <1>1, <1>3 DEF Open, At, ReaderOK, OwnsInTime
  <2>2. PICK d \in DOMAIN Records \ Denied :
          LET v == [t EXCEPT !.dir = d, !.step = "read"]
          IN  \/ To(r, [v EXCEPT !.step = "list"]) /\ UNCHANGED <<slice, pool>>
              \/ ~Sorted /\ To(r, v) /\ UNCHANGED <<slice, pool>>
              \/ Sorted /\ \E s \in Slice : Get(s) /\ To(r, [v EXCEPT !.p = s])
    BY <1>3 DEF Open
  <2> DEFINE v == [t EXCEPT !.dir = d, !.step = "read"]
             l == [v EXCEPT !.step = "list"]
             z == [v EXCEPT !.p = NoSlice]
  <2>3. /\ v.p = t.p /\ v.step = "read" /\ v.dir = d
        /\ DOMAIN v = Field /\ v.at = t.at /\ v.buf = t.buf /\ v.bufp = t.bufp
    BY <1>1 DEF Field
  <2> HIDE DEF v
  <2>4. /\ l.p = v.p /\ l.step = "list" /\ l.dir = d
        /\ DOMAIN l = Field /\ l.at = v.at /\ l.buf = v.buf /\ l.bufp = v.bufp
        /\ z.p = NoSlice /\ z.step = "read" /\ z.dir = d
        /\ DOMAIN z = Field /\ z.at = v.at /\ z.buf = v.buf /\ z.bufp = v.bufp
    BY <2>3 DEF Field
  <2>5. \/ To(r, l) /\ UNCHANGED <<slice, pool>>
        \/ ~Sorted /\ To(r, v) /\ UNCHANGED <<slice, pool>>
        \/ Sorted /\ \E s \in Slice : Get(s) /\ To(r, [v EXCEPT !.p = s])
    BY <2>2 DEF v
  <2> HIDE DEF l
  <2>6. CASE To(r, l) /\ UNCHANGED <<slice, pool>>
    <3>1. ReaderOK(l)
      BY <1>1, <2>1, <2>3, <2>4 DEF ReaderOK, OwnsInTime, InsideBuffer, Steps
    <3>2. QED  BY <2>1, <2>3, <2>4, <2>6, <3>1, StayMoves
  <2>7. CASE ~Sorted /\ To(r, v) /\ UNCHANGED <<slice, pool>>
    <3>1. ReaderOK(v)
      BY <1>1, <2>1, <2>3, <2>7 DEF ReaderOK, OwnsInTime, InsideBuffer, Steps
    <3>2. QED  BY <2>1, <2>3, <2>7, <3>1, StayMoves
  <2>8. CASE Sorted /\ \E s \in Slice : Get(s) /\ To(r, [v EXCEPT !.p = s])
    <3>1. Entered(z)
      BY <1>1, <2>1, <2>3, <2>4 DEF ReaderOK, OwnsInTime, InsideBuffer, Steps, Entered
    <3>2. QED  BY <2>1, <2>3, <2>8, <3>1, TakeMoves
  <2>9. QED  BY <2>5, <2>6, <2>7, <2>8
<1>4. CASE Visit(r)
  <2> DEFINE n == [t EXCEPT !.next = @ + 1]
             e == slice[t.p][t.next]
             x == Return(t, t.err)
  <2>1. UNCHANGED <<setup, slice, pool>>
        /\ \/ To(r, x)
           \/ To(r, n)
           \/ \E a \in Answers[e.name] : To(r, OnDirEnt(n, e, a))
    BY <1>4 DEF Visit
  <2>2. SameRecord(t, n) /\ n.step = t.step
    BY <1>1 DEF SameRecord, Field
  <2>3. ReaderOK(x) /\ x.p = t.p
    BY <1>1, ReturnKeeps, StaysOK DEF SameRecord
  <2> HIDE DEF n, e, x
  <2>4. ReaderOK(n) /\ n.p = t.p /\ DOMAIN n = Field
    BY <1>1, <2>2, StaysOK DEF SameRecord
  <2>5. CASE To(r, x) \/ To(r, n)
    BY <2>1, <2>3, <2>4, <2>5, StayMoves
  <2>6. CASE \E a \in Answers[e.name] : To(r, OnDirEnt(n, e, a))
    <3>1. PICK a \in Answers[e.name] : To(r, OnDirEnt(n, e, a))
      BY <2>6
    <3> DEFINE u == OnDirEnt(n, e, a)
    <3>2. SameRecord(n, u) /\ u.step \in {n.step, "return"} /\ To(r, u)
      BY <2>4, <3>1, OnDirEntKeeps
    <3> HIDE DEF u
    <3>3. ReaderOK(u) /\ u.p = t.p
      BY <2>4, <3>2, StaysOK DEF SameRecord
    <3>4. QED  BY <2>1, <3>2, <3>3, StayMoves
  <2>7. QED  BY <2>1, <2>5, <2>6
<1>5. CASE Leave(r)
  <2> DEFINE u == [t EXCEPT !.step = "done", !.p = NoSlice]
  <2>1. To(r, u) /\ PutDirentSlice(t.p) /\ setup' = setup
    BY <1>5 DEF Leave
  <2>2. DOMAIN u = Field /\ u.p = NoSlice /\ u.step = "done"
        /\ u.at = t.at /\ u.buf = t.buf /\ u.bufp = t.bufp
    BY <1>1 DEF Field
  <2> HIDE DEF u
  <2>3. ReaderOK(u) /\ Gives(r, u)
    BY <1>1, <2>1, <2>2 DEF ReaderOK, OwnsInTime, InsideBuffer, Gives, Steps
  <2>4. QED  BY <2>1, <2>2, <2>3 DEF Moves
<1>6. CASE FillFails(r)
  <2> DEFINE u == Return(t, "io")
  <2>1. To(r, u) /\ UNCHANGED <<setup, slice, pool>>
    BY <1>6 DEF FillFails
  <2>2. ReaderOK(u) /\ u.p = t.p
    BY <1>1, ReturnKeeps, StaysOK DEF SameRecord
  <2> HIDE DEF u
  <2>3. QED  BY <2>1, <2>2, StayMoves
<1>7. CASE FillEnds(r)
  BY <1>7, EndOfDirMoves DEF FillEnds, Refill, At
<1>8. CASE Fill(r)
  <2> DEFINE bytes(k) == FlattenSeq([i \in 1 .. k - t.at + 1 |-> Encode(Records[t.dir][t.at + i - 1])])
  <2>1. t.step = "read" /\ t.dir \in DOMAIN Records /\ t.at \in Nat \ {0}
    BY <1>1, <1>8 DEF Fill, Refill, At, ReaderOK, InsideBuffer
  <2>2. PICK k \in t.at .. Len(Records[t.dir]) :
          /\ Len(bytes(k)) <= BufSize
          /\ To(r, [t EXCEPT !.at = k + 1, !.buf = bytes(k), !.bufp = 0])
    BY <1>8 DEF Fill
  <2>3. bytes(k) \in Seq(Byte)
    BY <2>1, FillType
  <2>4. PICK b \in Seq(Byte) :
          Len(b) <= BufSize /\ To(r, [t EXCEPT !.at = k + 1, !.buf = b, !.bufp = 0])
    BY <2>2, <2>3
  <2> HIDE DEF bytes
  <2> DEFINE u == [t EXCEPT !.at = k + 1, !.buf = b, !.bufp = 0]
  <2>5. DOMAIN u = Field /\ u.p = t.p /\ u.step = t.step /\ u.dir = t.dir
        /\ u.at = k + 1 /\ u.buf = b /\ u.bufp = 0
    BY <1>1 DEF Field
  <2>6. To(r, u) /\ UNCHANGED <<setup, slice, pool>>
    BY <1>8, <2>4 DEF Fill
  <2> HIDE DEF u
  <2>7. k + 1 \in Nat \ {0} /\ Len(b) \in Nat
    BY <2>1
  <2>8. ReaderOK(u)
    BY <1>1, <2>4, <2>5, <2>7 DEF ReaderOK, OwnsInTime, InsideBuffer
  <2>9. QED  BY <2>5, <2>6, <2>8, StayMoves
<1>9. CASE ParseNext(r)
  <2> DEFINE tail == SubSeq(t.buf, t.bufp + 1, Len(t.buf))
             d == Parse(tail)
  <2>1. t.step = "read" /\ t.bufp < Len(t.buf) /\ UNCHANGED <<setup, pool>>
        /\ t.buf \in Seq(Byte) /\ t.bufp \in 0 .. Len(t.buf)
    BY <1>1, <1>9 DEF ParseNext, At, ReaderOK, InsideBuffer
  <2>2. t.bufp + d.consumed \in 0 .. Len(t.buf)
    <3>1. tail \in Seq(Byte) /\ Len(tail) = Len(t.buf) - t.bufp
      BY <2>1, RestType
    <3> HIDE DEF tail
    <3>2. d.consumed \in 0 .. Len(tail)
      BY <3>1, ParseStaysInside
    <3> HIDE DEF d
    <3>3. QED  BY <2>1, <3>1, <3>2
  <2> DEFINE v == [t EXCEPT !.bufp = @ + d.consumed]
             e == [name |-> d.name, typ |-> d.typ]
             f == [name |-> d.name, typ |-> Kind[d.name]]
  <2>3. \/ To(r, v) /\ UNCHANGED slice
        \/ Deliver(r, v, e)
        \/ Deliver(r, v, f)
        \/ \E u \in LstatFails(v, d.name) : To(r, u) /\ UNCHANGED slice
    BY <1>9 DEF ParseNext
  <2>4. /\ DOMAIN v = Field /\ v.p = t.p /\ v.step = t.step /\ v.dir = t.dir
        /\ v.at = t.at /\ v.buf = t.buf /\ v.bufp = t.bufp + d.consumed
    BY <1>1 DEF Field
  <2> HIDE DEF v, e, f, d
  <2>5. ReaderOK(v)
    BY <1>1, <2>2, <2>4 DEF ReaderOK, OwnsInTime, InsideBuffer
  <2>6. CASE To(r, v) /\ UNCHANGED slice
    BY <2>1, <2>4, <2>5, <2>6, StayMoves
  <2>7. CASE Deliver(r, v, e) \/ Deliver(r, v, f)
    BY <2>1, <2>4, <2>5, <2>7, DeliverMoves
  <2>8. CASE \E u \in LstatFails(v, d.name) : To(r, u) /\ UNCHANGED slice
    <3>1. PICK u \in LstatFails(v, d.name) : To(r, u) /\ UNCHANGED slice
      BY <2>8
    <3>2. u = Return(v, "io") \/ u = v
      BY <3>1 DEF LstatFails
    <3>3. SameRecord(v, u) /\ u.step \in {v.step, "return"}
      BY <2>4, <3>2, ReturnKeeps DEF SameRecord
    <3>4. ReaderOK(u) /\ u.p = t.p
      BY <2>4, <2>5, <3>3, StaysOK DEF SameRecord
    <3>5. QED  BY <2>1, <3>1, <3>4, StayMoves
  <2>9. QED  BY <2>1, <2>3, <2>6, <2>7, <2>8
<1>10. CASE ReadDarwin(r)
  <2> DEFINE v == [t EXCEPT !.at = @ + 1]
             d == Records[t.dir][t.at]
             e == [name |-> CString(d.name), typ |-> TypeOf(d.code)]
             x == Return(v, "io")
  <2>1. t.step = "read" /\ setup' = setup /\ t.at \in Nat \ {0}
    BY <1>1, <1>10 DEF ReadDarwin, At, ReaderOK, InsideBuffer
  <2>2. DOMAIN v = Field /\ v.p = t.p /\ v.step = "read" /\ v.dir = t.dir
        /\ v.at = t.at + 1 /\ v.buf = t.buf /\ v.bufp = t.bufp
    BY <1>1, <2>1 DEF Field
  <2>3. \/ To(r, x) /\ UNCHANGED <<slice, pool>>
        \/ EndOfDir(r, Nil)
        \/ /\ (To(r, v) /\ UNCHANGED slice) \/ Deliver(r, v, e)
           /\ UNCHANGED pool
    BY <1>10, <2>2 DEF ReadDarwin
  <2> HIDE DEF v, e, d
  <2>4. v.at \in Nat \ {0}
    BY <2>1, <2>2
  <2>5. ReaderOK(v)
    BY <1>1, <2>1, <2>2, <2>4 DEF ReaderOK, OwnsInTime, InsideBuffer
  <2>6. ReaderOK(x) /\ x.p = t.p
    BY <2>2, <2>5, ReturnKeeps, StaysOK DEF SameRecord
  <2> HIDE DEF x
  <2>7. CASE (To(r, x) \/ To(r, v)) /\ UNCHANGED <<slice, pool>>
    BY <2>1, <2>2, <2>5, <2>6, <2>7, StayMoves
  <2>8. CASE EndOfDir(r, Nil)
    BY <2>1, <2>8, EndOfDirMoves
  <2>9. CASE Deliver(r, v, e) /\ UNCHANGED pool
    BY <2>1, <2>2, <2>5, <2>9, DeliverMoves
  <2>10. QED  BY <2>1, <2>3, <2>7, <2>8, <2>9
<1>11. CASE List(r)
  <2>1. t.step = "list" /\ t.p = NoSlice /\ setup' = setup
    BY <1>1, <1>11 DEF List, At, ReaderOK, OwnsInTime
  <2>2. PICK k, e :
          LET u == [t EXCEPT !.step = "read", !.des = SubSeq(Kids[t.dir], 1, k), !.err = e]
          IN  \/ To(r, Return(t, e)) /\ UNCHANGED <<slice, pool>>
              \/ Sorted /\ \E s \in Slice : Get(s) /\ To(r, [u EXCEPT !.p = s])
              \/ ~Sorted /\ To(r, u) /\ UNCHANGED <<slice, pool>>
    BY <1>11 DEF List
  <2> DEFINE v == [t EXCEPT !.step = "read", !.des = SubSeq(Kids[t.dir], 1, k), !.err = e]
             x == Return(t, e)
             z == [v EXCEPT !.p = NoSlice]
  <2>3. v.step = "read" /\ SameRecord(t, v)
    BY <1>1 DEF Field, SameRecord
  <2>4. ReaderOK(x) /\ x.p = t.p
    BY <1>1, ReturnKeeps, StaysOK DEF SameRecord
  <2>5. \/ To(r, x) /\ UNCHANGED <<slice, pool>>
        \/ Sorted /\ \E s \in Slice : Get(s) /\ To(r, [v EXCEPT !.p = s])
        \/ ~Sorted /\ To(r, v) /\ UNCHANGED <<slice, pool>>
    BY <2>2
  <2> HIDE DEF v, x
  <2>6. z.p = NoSlice /\ z.step = "read" /\ SameRecord(t, z)
    BY <2>1, <2>3 DEF SameRecord, Field
  <2>7. CASE To(r, x) /\ UNCHANGED <<slice, pool>>
    BY <2>1, <2>4, <2>7, StayMoves
  <2>8. CASE Sorted /\ \E s \in Slice : Get(s) /\ To(r, [v EXCEPT !.p = s])
    <3>1. Entered(z)
      BY <1>1, <2>1, <2>6 DEF ReaderOK, InsideBuffer, Steps, Entered, SameRecord
    <3>2. QED  BY <2>1, <2>3, <2>8, <3>1, TakeMoves DEF SameRecord
  <2>9. CASE ~Sorted /\ To(r, v) /\ UNCHANGED <<slice, pool>>
    <3>1. ReaderOK(v) /\ v.p = t.p
      BY <1>1, <2>1, <2>3, <2>9 DEF ReaderOK, OwnsInTime, InsideBuffer, Steps, SameRecord
    <3>2. QED  BY <2>1, <2>9, <3>1, StayMoves
  <2>10. QED  BY <2>5, <2>7, <2>8, <2>9
<1>12. CASE NextListed(r)
  <2> DEFINE v == [t EXCEPT !.des = Tail(@)]
             e == [name |-> Head(t.des), typ |-> Kind[Head(t.des)]]
  <2>1. t.step = "read" /\ setup' = setup
    BY <1>12 DEF NextListed, At
  <2>2. EndOfDir(r, t.err) \/ (Deliver(r, v, e) /\ UNCHANGED pool)
    BY <1>12 DEF NextListed
  <2>3. SameRecord(t, v) /\ v.step = "read"
    BY <1>1, <2>1 DEF Field, SameRecord
  <2> HIDE DEF v, e
  <2>4. ReaderOK(v) /\ v.p = t.p
    BY <1>1, <2>1, <2>3, StaysOK DEF SameRecord
  <2>5. QED  BY <2>1, <2>2, <2>3, <2>4, DeliverMoves, EndOfDirMoves
<1>13. QED
  BY <1>2, <1>3, <1>4, <1>5, <1>6, <1>7, <1>8, <1>9, <1>10, <1>11, <1>12 DEF ReaderStep

LEMMA ReadInvInit == ReadInit => ReadInv
<1>1. SUFFICES ASSUME ReadInit PROVE ReadInv
  OBVIOUS
<1>2. ReaderOK(Idle) /\ Idle.p = NoSlice
  <2>1. DOMAIN Idle = Field /\ Idle.step = "open" /\ Idle.p = NoSlice
        /\ Idle.at = 1 /\ Idle.buf = <<>> /\ Idle.bufp = 0
    BY DEF Idle, Field
  <2>2. <<>> \in Seq(Byte) /\ Len(<<>>) = 0
    OBVIOUS
  <2>3. QED  BY <2>1, <2>2, ReadAssumption
           DEF ReaderOK, OwnsInTime, InsideBuffer, Steps, ReadAssumption
<1>3. \A r \in Reader : reader[r] = Idle
  BY <1>1 DEF ReadInit
<1>4. DOMAIN reader = Reader /\ DOMAIN slice = Slice /\ pool = {}
  BY <1>1 DEF ReadInit
<1>5. \A r \in Reader : ReaderOK(reader[r])
  BY <1>2, <1>3, Zenon
<1>6. SlicesPrivate
  BY <1>2, <1>3, <1>4 DEF SlicesPrivate
<1>7. QED
  BY <1>4, <1>5, <1>6 DEF ReadInv

LEMMA ReadInvStep == ReadInv /\ [ReadNext]_readVars => ReadInv'
<1>1. SUFFICES ASSUME ReadInv, [ReadNext]_readVars PROVE ReadInv'
  OBVIOUS
<1>2. CASE UNCHANGED readVars
  <2>1. setup' = setup /\ reader' = reader /\ slice' = slice /\ pool' = pool
    BY <1>2 DEF readVars
  <2>2. \A r \in Reader : ReaderOK(reader[r])'
    BY <1>1, <2>1 DEF ReadInv, ReaderOK, OwnsInTime, InsideBuffer, Sorted, SortMode
  <2>3. QED  BY <1>1, <2>1, <2>2 DEF ReadInv, SlicesPrivate, Held
<1>3. ASSUME NEW r \in Reader, ReaderStep(r) PROVE ReadInv'
  <2>1. Moves(r) /\ setup' = setup
    BY <1>1, <1>3, ReaderMoves
  <2>2. PICK t : /\ reader' = [reader EXCEPT ![r] = t]
                 /\ ReaderOK(t)
                 /\ Keeps(r, t) \/ Takes(r, t) \/ Gives(r, t)
    BY <2>1 DEF Moves, To
  <2>3. DOMAIN reader' = Reader /\ reader'[r] = t
        /\ \A s \in Reader : s # r => reader'[s] = reader[s]
    BY <1>1, <2>2 DEF ReadInv
  <2>4. \A s \in Reader : ReaderOK(reader[s])'
    <3>1. ASSUME NEW s \in Reader PROVE ReaderOK(reader[s])'
      <4>1. CASE s = r
        BY <2>1, <2>2, <2>3, <4>1 DEF ReaderOK, OwnsInTime, InsideBuffer, Sorted, SortMode
      <4>2. CASE s # r
        BY <1>1, <2>1, <2>3, <4>2
           DEF ReadInv, ReaderOK, OwnsInTime, InsideBuffer, Sorted, SortMode
      <4>3. QED  BY <4>1, <4>2
    <3>2. QED  BY <3>1
  <2>5. /\ \A s \in Reader : reader[s].p = reader[r].p /\ reader[r].p # NoSlice => s = r
        /\ \A s, u \in Reader : reader[s].p = reader[u].p /\ reader[u].p # NoSlice => s = u
        /\ \A s \in pool : slice[s] = <<>> /\ \A u \in Reader : reader[u].p # s
        /\ pool \subseteq Slice /\ DOMAIN slice = Slice
        /\ reader[r].p \in Slice \cup {NoSlice} /\ t.p \in Slice \cup {NoSlice}
    BY <1>1, <2>2, ReadAssumption
       DEF ReadInv, ReaderOK, SlicesPrivate, Held, OwnsInTime, ReadAssumption
  <2>6. DOMAIN slice' = Slice /\ pool' \subseteq Slice /\ SlicesPrivate'
    <3>1. CASE Keeps(r, t)
      BY <2>3, <2>5, <3>1, ReadAssumption DEF Keeps, SlicesPrivate, Held, ReadAssumption
    <3>2. CASE Takes(r, t)
      BY <2>3, <2>5, <3>2, ReadAssumption DEF Takes, Get, SlicesPrivate, Held, ReadAssumption
    <3>3. CASE Gives(r, t)
      BY <2>3, <2>5, <3>3, ReadAssumption
         DEF Gives, PutDirentSlice, SlicesPrivate, Held, ReadAssumption
    <3>4. QED  BY <2>2, <3>1, <3>2, <3>3
  <2>7. QED  BY <2>3, <2>4, <2>6 DEF ReadInv
<1>4. QED
  BY <1>1, <1>2, <1>3 DEF ReadNext

\* The variables of the readers have their types: in particular no record is looked for
\* beyond the end of the buffer, whatever is in it (fastwalk_unix.go:39-57), and a sorted
\* walk has a slice exactly while it needs one.
THEOREM DirReadTypeCorrect == ReadSpec => []DirReadTypeOK
<1>1. ReadInv => DirReadTypeOK
  BY DEF ReadInv, ReaderOK, OwnsInTime, InsideBuffer, Steps, DirReadTypeOK
<1>2. QED
  BY <1>1, ReadInvInit, ReadInvStep, PTL DEF ReadSpec

\* A slice of entries that a sorted walk fills belongs to it alone until it is given back,
\* and is empty when the next one takes it, after every error and in every build
\* (dirent_unix.go:70-86, fastwalk_unix.go:26-30).
THEOREM SlicesPrivateAlways == ReadSpec => []SlicesPrivate
<1>1. ReadInv => SlicesPrivate
  BY DEF ReadInv
<1>2. QED
  BY <1>1, ReadInvInit, ReadInvStep, PTL DEF ReadSpec
=============================================================================
