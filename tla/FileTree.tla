------------------------------ MODULE FileTree ------------------------------
(***************************************************************************)
(* The file system a walk sees, and what the code asks of it.  A node is a *)
(* file (os.SameFile is equality), a directory entry is named by the node  *)
(* it refers to, and a path is the sequence of nodes from the root of the  *)
(* walk to the entry.  The tree does not change during a walk, but         *)
(* reading it can fail.                                                    *)
(***************************************************************************)
EXTENDS Integers, Sequences, SequencesExt

CONSTANTS
  Node,        \* the files, including directories, links and the rest
  Kind,        \* Kind[n] is "dir", "file", "link" or "other"
  Kids,        \* Kids[d] lists the entries of directory d in directory order
  Target,      \* Target[l] is the node link l finally resolves to, or NoNode
  NoNode,      \* the target of a broken link
  Top,         \* the directory the walk starts at
  Above,       \* the directories named by filepath.Dir(root), Dir(Dir(root)), ...
  Denied,      \* directories that cannot be opened
  Flaky,       \* directories in which reading, or the lstat of an untyped entry, may
               \* fail after some entries
  Untyped,     \* entries the file system reports as DT_UNKNOWN
  Vanished,    \* untyped entries that may be deleted before they are lstat'ed
  Rank,        \* Rank[n] orders the names of the entries
  Setups       \* the builds and configurations to be considered

ASSUME TreeAssumption ==
  /\ Kind \in [Node -> {"dir", "file", "link", "other"}]
  /\ NoNode \notin Node
  /\ \A n \in Node : Kind[n] = "dir" => Kids[n] \in Seq(Node) /\ IsInjective(Kids[n])
  /\ \A n \in Node : Kind[n] = "link" => Target[n] \in Node \cup {NoNode}
  /\ \A n \in Node : Kind[n] = "link" /\ Target[n] # NoNode => Kind[Target[n]] # "link"
  /\ Top \in Node /\ Kind[Top] # "link"
  /\ Vanished \subseteq Untyped
  /\ Rank \in [Node -> Int] /\ IsInjective(Rank)
  /\ \A s \in Setups :
       /\ s.impl \in {"unix", "darwin", "portable"}
       /\ s.Sort \in {"SortNone", "SortLexical", "SortFilesFirst", "SortDirsFirst"}
       /\ s.Follow \in BOOLEAN /\ s.MaxDepth \in Int
       /\ s.wrap \in Seq({"IgnoreDuplicateDirs", "IgnoreDuplicateFiles",
                           "IgnorePermissionErrors"})

\* What is fixed before Walk is called: the build, the Config, and the adapters the
\* caller has put around walkFn, outermost first.
VARIABLE setup

Impl     == setup.impl
SortMode == setup.Sort
Follow   == setup.Follow
MaxDepth == setup.MaxDepth
wrap     == setup.wrap

-----------------------------------------------------------------------------
\* os.Stat: the node behind an entry.
Resolve(n) == IF Kind[n] = "link" THEN Target[n] ELSE n

IsDirNode(n) == n # NoNode /\ Kind[n] = "dir"

\* DirEntry.Type().  On unix an unknown type is replaced by lstat's; on darwin it
\* stays a mode with every bit set; os.File.ReadDir always knows the type.
EntryType(n) == IF Impl = "darwin" /\ n \in Untyped THEN "unknown" ELSE Kind[n]

\* With every bit set, an unknown type passes both bit tests.
HasDirBit(n)  == EntryType(n) \in {"dir", "unknown"}
HasLinkBit(n) == EntryType(n) \in {"link", "unknown"}
IsRegular(n)  == EntryType(n) = "file"

\* The node StatDirEntry reports on.
StatNode(n) == IF HasLinkBit(n) THEN Resolve(n) ELSE n

\* Faulty variant: links are not looked through.
IsDirEntryNoLink(n) == HasDirBit(n)

\* isDir (adapters.go)
IsDirEntry(n) == HasDirBit(n) \/ (HasLinkBit(n) /\ IsDirNode(StatNode(n)))

-----------------------------------------------------------------------------
(* The order of sortDirents.                                               *)

\* The comparators given to sort.Slice, for SortLexical, SortFilesFirst and
\* SortDirsFirst.
ByName(m, n) == Rank[m] < Rank[n]

ByFiles(m, n) ==
  IF IsRegular(m) # IsRegular(n) THEN IsRegular(m)
  ELSE IF ~IsRegular(m) /\ HasDirBit(m) # HasDirBit(n) THEN HasDirBit(n)
  ELSE ByName(m, n)

ByDirs(m, n) ==
  IF HasDirBit(m) # HasDirBit(n) THEN HasDirBit(m)
  ELSE IF ~HasDirBit(m) /\ IsRegular(m) # IsRegular(n) THEN IsRegular(m)
  ELSE ByName(m, n)

Before(m, n) ==
  CASE SortMode = "SortFilesFirst" -> ByFiles(m, n)
    [] SortMode = "SortDirsFirst"  -> ByDirs(m, n)
    [] OTHER -> ByName(m, n)

-----------------------------------------------------------------------------
(* Reading a directory: what readDir delivers to onDirEnt and the error it *)
(* returns after that, as one of the outcomes that are possible.           *)

\* The entries before position k, without those gone when they were looked at: only
\* unix looks, and only at untyped ones.
Entries(d, k, gone) == {Kids[d][i] : i \in 1 .. k} \ (IF Impl = "unix" THEN gone ELSE {})

\* Where entry n is in directory d.
Position(d, n) == CHOOSE i \in DOMAIN Kids[d] : Kids[d][i] = n

\* Is m visited before n?  Entries that are not sorted stay in directory order.
Precedes(d, m, n) ==
  IF SortMode = "SortNone" THEN Position(d, m) < Position(d, n) ELSE Before(m, n)

\* Faulty variant: the entries are not sorted.
UnsortedDirents(d, S) ==
  [k \in 1 .. Cardinality(S) |->
     CHOOSE n \in S : Cardinality({m \in S : Position(d, m) < Position(d, n)}) = k - 1]

\* The entries S of directory d as a sequence: each follows those that precede it.
SortDirents(d, S) ==
  [k \in 1 .. Cardinality(S) |->
     CHOOSE n \in S : Cardinality({m \in S : Precedes(d, m, n)}) = k - 1]

\* Sorting needs all entries first, so unix and darwin deliver nothing if reading
\* fails; portable delivers what it got before it returns the error.
BeforeError(d, k, gone) ==
  IF SortMode # "SortNone" /\ Impl # "portable" THEN <<>>
  ELSE SortDirents(d, Entries(d, k, gone))

\* Faulty variant: a read error in the middle of a directory is taken for its end.
ReadingsToError(d, nil) ==
  {[entries |-> SortDirents(d, Entries(d, k, {})), err |-> nil] : k \in 0 .. Len(Kids[d])}

Readings(d, nil) ==
  IF ~IsDirNode(d)
  THEN {[entries |-> <<>>, err |-> "notdir"]}
  ELSE IF d \in Denied
  THEN {[entries |-> <<>>, err |-> "permission"]}
  ELSE LET all == Len(Kids[d])
       IN  {[entries |-> SortDirents(d, Entries(d, all, gone)), err |-> nil] :
              gone \in SUBSET Vanished}
           \cup {[entries |-> BeforeError(d, k, gone), err |-> "io"] :
                   k \in {i \in 0 .. all : d \in Flaky}, gone \in SUBSET Vanished}

-----------------------------------------------------------------------------
\* walker.shouldTraverse: may a link at the end of path be followed?  Not to
\* something that is no directory, not to the root of the walk, not to any
\* directory the path names, or the root's path names, on the way up.  Those are there: the
\* code gives up where os.Stat of one of them fails.
ShouldTraverse(path) ==
  LET ts == Resolve(Last(path))
  IN  /\ IsDirNode(ts)
      /\ ts # Top
      /\ \A i \in 1 .. Len(path) - 1 : Resolve(path[i]) # ts
      /\ \A i \in DOMAIN Above : Above[i] # ts
=============================================================================
