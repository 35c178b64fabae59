------------------------------- MODULE DirRead -------------------------------
(***************************************************************************)
(* readDir() in its three implementations (fastwalk_unix.go,               *)
(* fastwalk_darwin.go, fastwalk_portable.go), down to the records of the   *)
(* directory and the slices of entries that all walks take from one pool.  *)
(* FastWalk models all of it by FileTree's Readings; this module shows     *)
(* that it is right to.  Several readers work at the same time, each on a  *)
(* directory of its own choice.  The node of an entry is its name, a       *)
(* sequence of bytes.                                                      *)
(***************************************************************************)
EXTENDS FileTree, DirentParse

CONSTANTS
  Reader,      \* the goroutines that read
  Slice,       \* the slices that can exist
  NoSlice,
  Records,     \* Records[d]: the records of directory d, [ino, code, name]
  BufSize,     \* blockSize: the length of the buffer
  MaxPooled,   \* slices that can hold more entries are not pooled
  Answers,     \* Answers[n]: what onDirEnt may return for entry n
  Nil

Dot    == <<46>>
DotDot == <<46, 46>>
Live(r) == r.ino # 0 /\ r.name \notin {Dot, DotDot}

ASSUME ReadAssumption ==
  /\ NoSlice \notin Slice
  /\ BufSize \in Nat
  /\ \A d \in DOMAIN Records :
       /\ d \in Node /\ IsDirNode(d)
       /\ Records[d] \in Seq([ino : Nat, code : Byte, name : Seq(Byte) \ {<<>>}])
       /\ \A i \in DOMAIN Records[d] :
            Encode(Records[d][i]) \in Seq(Byte) /\ Len(Encode(Records[d][i])) <= BufSize
       /\ LET live == SelectSeq(Records[d], Live)
          IN  /\ Kids[d] = [i \in DOMAIN live |-> live[i].name]
              /\ \A i \in DOMAIN live :
                   TypeOf(live[i].code) =
                     IF live[i].name \in Untyped THEN "unknown" ELSE Kind[live[i].name]

VARIABLES
  reader,   \* reader[r]: how far r is, and its local variables
  slice,    \* slice[s]: the entries in slice s
  pool      \* direntSlicePool: the slices waiting for a new owner

readVars == <<setup, reader, slice, pool>>

Idle == [step |-> "open", dir |-> Top, at |-> 1, buf |-> <<>>, bufp |-> 0, des |-> <<>>,
         skipFiles |-> FALSE, p |-> NoSlice, next |-> 1, err |-> Nil, calls |-> <<>>]

ReadInit ==
  /\ setup \in Setups
  /\ reader = [r \in Reader |-> Idle]
  /\ slice = [s \in Slice |-> <<>>]
  /\ pool = {}

Sorted == SortMode # "SortNone"

\* r continues with local state t, or returns e, the deferred calls still to come.
To(r, t) == reader' = [reader EXCEPT ![r] = t]
Return(t, e) == [t EXCEPT !.step = "return", !.err = e]
At(r, s) == reader[r].step = s

Held == {reader[r].p : r \in Reader} \ {NoSlice}

\* direntSlicePool.Get(): a slice from the pool, or a new one.
Get(s) ==
  \/ s \in pool /\ pool' = pool \ {s} /\ UNCHANGED slice
  \/ s \notin pool \cup Held /\ slice' = [slice EXCEPT ![s] = <<>>] /\ UNCHANGED pool

-----------------------------------------------------------------------------
(* What the implementations share.                                         *)

Refuse(r) ==
  /\ At(r, "open")
  /\ \E d \in DOMAIN Records \cap Denied : To(r, Return([reader[r] EXCEPT !.dir = d], "permission"))
  /\ UNCHANGED <<setup, slice, pool>>

\* The directory is opened.  On unix and darwin the slice is taken next, elsewhere
\* first the entries are.
Open(r) ==
  /\ At(r, "open")
  /\ \E d \in DOMAIN Records \ Denied :
       LET t == [reader[r] EXCEPT !.dir = d, !.step = "read"]
       IN  \/ Impl = "portable" /\ To(r, [t EXCEPT !.step = "list"]) /\ UNCHANGED <<slice, pool>>
           \/ Impl # "portable" /\ ~Sorted /\ To(r, t) /\ UNCHANGED <<slice, pool>>
           \/ Impl # "portable" /\ Sorted /\ \E s \in Slice : Get(s) /\ To(r, [t EXCEPT !.p = s])
  /\ UNCHANGED setup

\* onDirEnt is called for entry e and returns a.
OnDirEnt(t, e, a) ==
  LET u == [t EXCEPT !.calls = Append(@, [entry |-> e, answer |-> a])]
  IN  CASE a = Nil -> u
        [] a = "SkipFiles" -> [u EXCEPT !.skipFiles = TRUE]
        [] OTHER -> Return(u, a)

\* In the first loop, entry e is passed on at once, or kept for sorting.
Deliver(r, t, e) ==
  IF t.skipFiles /\ e.typ = "file" THEN To(r, t) /\ UNCHANGED slice
  ELSE IF Sorted THEN slice' = [slice EXCEPT ![t.p] = Append(@, e)] /\ To(r, t)
  ELSE \E a \in Answers[e.name] : To(r, OnDirEnt(t, e, a)) /\ UNCHANGED slice

\* Faulty variant: the slice is given back before its entries are visited.
EndOfDirPut(r, e) ==
  IF Sorted
  THEN /\ slice' = [slice EXCEPT ![reader[r].p] =
                      SortSeq(@, LAMBDA x, y : Before(x.name, y.name))]
       /\ pool' = pool \cup {reader[r].p}
       /\ To(r, [reader[r] EXCEPT !.step = "visit", !.err = e])
  ELSE To(r, Return(reader[r], e)) /\ UNCHANGED <<slice, pool>>

\* The first loop is over: nothing is left to do, or the entries are sorted.  Reading
\* may have failed with e.
EndOfDir(r, e) ==
  IF Sorted
  THEN /\ slice' = [slice EXCEPT ![reader[r].p] =
                      SortSeq(@, LAMBDA x, y : Before(x.name, y.name))]
       /\ To(r, [reader[r] EXCEPT !.step = "visit", !.err = e])
       /\ UNCHANGED pool
  ELSE To(r, Return(reader[r], e)) /\ UNCHANGED <<slice, pool>>

\* The second loop visits the sorted entries.
Visit(r) ==
  /\ At(r, "visit")
  /\ LET t == reader[r]
         u == [t EXCEPT !.next = @ + 1]
     IN  IF t.next > Len(slice[t.p]) THEN To(r, Return(t, t.err))
         ELSE LET e == slice[t.p][t.next]
              IN  IF t.skipFiles /\ e.typ = "file" THEN To(r, u)
                  ELSE \E a \in Answers[e.name] : To(r, OnDirEnt(u, e, a))
  /\ UNCHANGED <<setup, slice, pool>>

\* Faulty variant: the slice is pooled as it is.
PutFullSlice(s) ==
  IF s = NoSlice THEN UNCHANGED <<slice, pool>>
  ELSE pool' = pool \cup {s} /\ UNCHANGED slice

\* putDirentSlice: the slice is emptied and pooled, unless it has grown too large.
PutDirentSlice(s) ==
  IF s = NoSlice THEN UNCHANGED <<slice, pool>>
  ELSE \/ /\ Len(slice[s]) <= MaxPooled
          /\ slice' = [slice EXCEPT ![s] = <<>>]
          /\ pool' = pool \cup {s}
       \/ Len(slice[s]) > MaxPooled /\ UNCHANGED <<slice, pool>>

\* Faulty variant: putDirentSlice is not called when an error is returned.
LeaveEarly(r) ==
  /\ At(r, "return")
  /\ IF reader[r].err = Nil THEN PutDirentSlice(reader[r].p) ELSE UNCHANGED <<slice, pool>>
  /\ To(r, [reader[r] EXCEPT !.step = "done", !.p = IF reader[r].err = Nil THEN NoSlice ELSE @])
  /\ UNCHANGED setup

\* The deferred calls, and the return.
Leave(r) ==
  /\ At(r, "return")
  /\ PutDirentSlice(reader[r].p)
  /\ To(r, [reader[r] EXCEPT !.step = "done", !.p = NoSlice])
  /\ UNCHANGED setup
-----------------------------------------------------------------------------
(* unix: a buffer is filled with whole records, and taken apart.           *)

Refill(r) ==
  /\ Impl = "unix" /\ At(r, "read") /\ reader[r].bufp >= Len(reader[r].buf)

\* The system call fails, reports the end of the directory, or gives some more records.
FillFails(r) ==
  /\ Refill(r)
  /\ reader[r].dir \in Flaky
  /\ To(r, Return(reader[r], "io"))
  /\ UNCHANGED <<setup, slice, pool>>

FillEnds(r) ==
  /\ Refill(r)
  /\ reader[r].at > Len(Records[reader[r].dir])
  /\ EndOfDir(r, Nil)
  /\ UNCHANGED setup

Fill(r) ==
  /\ Refill(r)
  /\ \E k \in reader[r].at .. Len(Records[reader[r].dir]) :
       \E bytes \in {FlattenSeq([i \in 1 .. k - reader[r].at + 1 |->
                        Encode(Records[reader[r].dir][reader[r].at + i - 1])])} :
         /\ Len(bytes) <= BufSize
         /\ To(r, [reader[r] EXCEPT !.at = k + 1, !.buf = bytes, !.bufp = 0])
  /\ UNCHANGED <<setup, slice, pool>>

\* os.Lstat of an untyped entry n: how the reader goes on when it does not succeed.
LstatFails(t, n) ==
  {Return(t, "io") : x \in {t.dir} \cap Flaky} \cup {t : x \in {n} \cap Vanished}

\* Parse and what is done with the entry; a panic would end the program.
ParseNext(r) ==
  /\ Impl = "unix" /\ At(r, "read") /\ reader[r].bufp < Len(reader[r].buf)
  /\ \E d \in {Parse(SubSeq(reader[r].buf, reader[r].bufp + 1, Len(reader[r].buf)))} :
       /\ d # Panic
       /\ LET t == [reader[r] EXCEPT !.bufp = @ + d.consumed]
          IN  \/ d.name \in {<<>>, Dot, DotDot} /\ To(r, t) /\ UNCHANGED slice
              \/ /\ d.name \notin {<<>>, Dot, DotDot}
                 /\ \/ d.typ # "unknown" /\ Deliver(r, t, [name |-> d.name, typ |-> d.typ])
                    \/ /\ d.typ = "unknown"
                       /\ \/ Deliver(r, t, [name |-> d.name, typ |-> Kind[d.name]])
                          \/ \E u \in LstatFails(t, d.name) : To(r, u) /\ UNCHANGED slice
  /\ UNCHANGED <<setup, pool>>

-----------------------------------------------------------------------------
(* darwin: readdir_r gives one entry at a time.                            *)

ReadDarwin(r) ==
  /\ Impl = "darwin" /\ At(r, "read")
  /\ LET t == [reader[r] EXCEPT !.at = @ + 1]
     IN  \/ /\ t.dir \in Flaky
            /\ To(r, Return(t, "io"))
            /\ UNCHANGED <<slice, pool>>
         \/ reader[r].at > Len(Records[t.dir]) /\ EndOfDir(r, Nil)
         \/ /\ reader[r].at <= Len(Records[t.dir])
            /\ LET d == Records[t.dir][reader[r].at]
                   e == [name |-> CString(d.name), typ |-> TypeOf(d.code)]
               IN  IF d.ino = 0 \/ e.name \in {Dot, DotDot}
                   THEN To(r, t) /\ UNCHANGED slice
                   ELSE Deliver(r, t, e)
            /\ UNCHANGED pool
  /\ UNCHANGED setup

-----------------------------------------------------------------------------
(* elsewhere: os.File.ReadDir gives all entries, or the first ones and an   *)
(* error.  It knows their types, and skips what is no entry.               *)

List(r) ==
  /\ At(r, "list")
  /\ LET t   == reader[r]
         all == Kids[t.dir]
     IN  \E k \in 0 .. Len(all), e \in {Nil, "io"} :
           /\ IF e = Nil THEN k = Len(all) ELSE t.dir \in Flaky
           /\ IF e # Nil /\ k = 0
              THEN To(r, Return(t, e)) /\ UNCHANGED <<slice, pool>>
              ELSE LET u == [t EXCEPT !.step = "read", !.des = SubSeq(all, 1, k), !.err = e]
                   IN  IF Sorted THEN \E s \in Slice : Get(s) /\ To(r, [u EXCEPT !.p = s])
                       ELSE To(r, u) /\ UNCHANGED <<slice, pool>>
  /\ UNCHANGED setup

NextListed(r) ==
  /\ Impl = "portable" /\ At(r, "read")
  /\ LET t == reader[r]
     IN  IF t.des = <<>> THEN EndOfDir(r, t.err)
         ELSE /\ Deliver(r, [t EXCEPT !.des = Tail(@)],
                         [name |-> Head(t.des), typ |-> Kind[Head(t.des)]])
              /\ UNCHANGED pool
  /\ UNCHANGED setup

-----------------------------------------------------------------------------
ReaderStep(r) ==
  \/ Refuse(r) \/ Open(r) \/ Visit(r) \/ Leave(r)
  \/ FillFails(r) \/ FillEnds(r) \/ Fill(r) \/ ParseNext(r)
  \/ ReadDarwin(r) \/ List(r) \/ NextListed(r)

AllRead == \A r \in Reader : At(r, "done")

ReadNext == (\E r \in Reader : ReaderStep(r)) \/ (AllRead /\ UNCHANGED readVars)

ReadSpec == ReadInit /\ [][ReadNext]_readVars /\ \A r \in Reader : WF_readVars(ReaderStep(r))

-----------------------------------------------------------------------------
(* Properties.                                                             *)

\* The variables have their types.  A reader has a slice from the time it needs one until
\* it returns, and never needs one without sorting.
DirReadTypeOK ==
  /\ \A r \in Reader :
       LET t == reader[r]
       IN  /\ t.step \in {"open", "list", "read", "visit", "return", "done"}
           /\ t.buf \in Seq(Byte) /\ Len(t.buf) <= BufSize /\ t.bufp \in 0 .. Len(t.buf)
           /\ t.p \in Slice \cup {NoSlice}
           /\ t.step \in {"open", "list", "done"} \/ ~Sorted => t.p = NoSlice
           /\ Sorted /\ t.step \in {"read", "visit"} => t.p # NoSlice
  /\ pool \subseteq Slice

\* Slices of entries go from one walk to the next through a pool (dirent_unix.go:70-86):
\* what one reader sorts, no other reader has, and the pool holds nothing but empty ones.
SlicesPrivate ==
  /\ \A r, s \in Reader : reader[r].p = reader[s].p /\ reader[r].p # NoSlice => r = s
  /\ \A s \in pool : s \notin Held /\ slice[s] = <<>>

\* The calls of onDirEnt and the error that readDir makes of the entries and the error in x,
\* if it gets the answers it got.
Loop(x, calls) ==
  LET answers(n) == {calls[i].answer : i \in {j \in DOMAIN calls : calls[j].entry.name = n}}
      entry(t, n) ==
        IF t.err # Nil \/ (t.skipFiles /\ IsRegular(n)) THEN t
        ELSE [calls     |-> Append(t.calls, [name |-> n, typ |-> EntryType(n)]),
              skipFiles |-> t.skipFiles \/ "SkipFiles" \in answers(n),
              err       |-> IF answers(n) \subseteq {Nil, "SkipFiles"} THEN Nil
                            ELSE CHOOSE a \in answers(n) : TRUE]
      end == FoldLeft(entry, [calls |-> <<>>, skipFiles |-> FALSE, err |-> Nil], x.entries)
  IN  [calls |-> end.calls, err |-> IF end.err = Nil THEN x.err ELSE end.err]

\* What the rest of the walk takes a directory to be (FileTree) is what the three
\* implementations deliver: every reading of a directory, record by record, calls
\* onDirEnt for the entries of one of the Readings, with their types and in its order,
\* and returns its error.
ReadAsDelivered ==
  \A r \in Reader : At(r, "done") =>
    LET t == reader[r]
    IN  \E x \in Readings(t.dir, Nil) :
          Loop(x, t.calls) = [calls |-> [i \in DOMAIN t.calls |-> t.calls[i].entry],
                              err |-> t.err]

\* However the kernel's records are spread over the buffers, with and without names,
\* readDir gets to the end of the directory: "consumed 0 bytes ... could lead to an infinite loop"
\* (internal/dirent/dirent.go:43).
ReadingEnds == \A r \in Reader : <>At(r, "done")
=============================================================================
