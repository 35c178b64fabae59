------------------------------ MODULE WalkPaths ------------------------------
(***************************************************************************)
(* The paths of a walk as text: the root as Walk prepares it, the path of  *)
(* an entry further down as joinPaths makes it, the directories that       *)
(* shouldTraverse climbs through, and the extended-length form in which    *)
(* the Windows entry filter opens a file.  A path is a sequence of         *)
(* characters.                                                             *)
(***************************************************************************)
EXTENDS Integers, SequencesExt, FiniteSetsExt

CONSTANTS
  Roots,      \* Roots[os]: the roots a walk may be given
  Names,      \* Names[os]: the names directory entries may have
  MaxDown,    \* bound: how far down the walk is followed
  LongPath    \* paths of this length are too long for Windows (248)

\* A path as it may be given to Walk on system o: on Windows UNC and device paths are left
\* out, a colon that does not end a drive, and "C:" alone, the current directory of one.
Text(o) ==
  {p \in Seq(STRING) \ {<<>>} :
     o = "windows" /\ Len(p) >= 2 =>
       /\ p[1] \in {"/", "\\"} => p[2] \notin {"/", "\\", "?", ":"}
       /\ p[2] = ":" => Len(p) > 2}

\* File names contain no separators, and none is "." or "..".
Name(o) ==
  {n \in Seq(STRING) \ {<<>>, <<".">>, <<".", ".">>} :
     \A i \in DOMAIN n :
       n[i] # "/" /\ (o = "windows" => n[i] \notin {"\\", ":", "?"})}

ASSUME PathAssumption ==
  /\ \A o \in {"unix", "windows"} :
       (\A p \in Roots[o] : p \in Text(o)) /\ (\A n \in Names[o] : n \in Name(o))
  /\ MaxDown \in Nat /\ LongPath \in Nat

VARIABLES
  os,         \* what the program was built for
  toSlash,    \* Config.ToSlash
  root,       \* the argument of Walk
  names,      \* the names of the entries gone through
  path        \* the path of the last of them, or <<>> before the walk

pathVars == <<os, toSlash, root, names, path>>

-----------------------------------------------------------------------------
(* What package os and package filepath say of a path.                     *)

Separators(o)      == IF o = "windows" THEN {"/", "\\"} ELSE {"/"}
IsPathSeparator(c) == c \in Separators(os)
PathSeparator      == IF os = "windows" THEN "\\" ELSE "/"

ToSlash(p) == [i \in DOMAIN p |-> IF IsPathSeparator(p[i]) THEN "/" ELSE p[i]]

VolumeName(p) ==
  IF os = "windows" /\ Len(p) >= 2 /\ p[2] = ":" THEN SubSeq(p, 1, 2) ELSE <<>>

Rest(p) == SubSeq(p, Len(VolumeName(p)) + 1, Len(p))

\* The stretches of p between the characters of seps.
AddTo(seps, bs, c) ==
  IF c \in seps THEN Append(bs, <<>>) ELSE Append(Front(bs), Append(Last(bs), c))
Split(seps, p) == FoldLeft(LAMBDA bs, c : AddTo(seps, bs, c), <<<<>>>>, p)

\* bs without the blocks that are b.
Keep(b, kept, c) == IF c = b THEN kept ELSE Append(kept, c)
Without(b, bs)   == FoldLeft(LAMBDA kept, c : Keep(b, kept, c), <<>>, bs)

Blocks(p) == Without(<<>>, Split(Separators(os), p))

Here == <<".">>
Up   == <<".", ".">>

\* filepath.Clean: the directory or file p names, if no link is involved.
Step(abs, es, b) ==
  IF b = Here \/ (b = Up /\ es = <<>> /\ abs) THEN es
  ELSE IF b = Up /\ es # <<>> /\ Last(es) # Up THEN Front(es)
  ELSE Append(es, b)
Clean(abs, bs) == FoldLeft(LAMBDA es, b : Step(abs, es, b), <<>>, bs)

File(p) ==
  LET abs == Rest(p) # <<>> /\ IsPathSeparator(Head(Rest(p)))
  IN  [volume |-> VolumeName(p), abs |-> abs, elems |-> Clean(abs, Blocks(Rest(p)))]

\* filepath.Dir
DirOf(p) ==
  LET seps == {i \in DOMAIN p : i > Len(VolumeName(p)) /\ IsPathSeparator(p[i])}
  IN  File(IF seps = {} THEN VolumeName(p) ELSE SubSeq(p, 1, Max(seps)))

-----------------------------------------------------------------------------
(* fastwalk.go                                                             *)

\* Trailing separators are trimmed, except on Windows.
CleanRootPath(p) ==
  LET text == {i \in DOMAIN p : ~IsPathSeparator(p[i])}
  IN  IF os = "windows" \/ VolumeName(p) # <<>> THEN p
      ELSE IF text = {} THEN SubSeq(p, 1, 1)
      ELSE SubSeq(p, 1, Max(text))

\* Faulty variant: a trailing "/" is the only separator looked for.
JoinPathsSlash(dir, base) ==
  (IF dir # <<>> /\ Last(dir) = "/" THEN dir
   ELSE Append(dir, PathSeparator)) \o base

JoinPaths(dir, base) ==
  (IF dir # <<>> /\ IsPathSeparator(Last(dir)) THEN dir
   ELSE Append(dir, IF toSlash THEN "/" ELSE PathSeparator)) \o base

\* Faulty variant: only the directory of the link is looked at.
ClimbedOnce(p) == {DirOf(p)}

\* The directories shouldTraverse compares the target of a link at p with: Dir(p), which
\* is clean, and then what is left of it without its last element, until nothing is.
Climbed(p) ==
  LET d == DirOf(p)
  IN  {[d EXCEPT !.elems = SubSeq(@, 1, k)] : k \in 0 .. Len(d.elems)}

-----------------------------------------------------------------------------
(* entry_filter_windows.go                                                 *)

IsAbs(p) == VolumeName(p) # <<>> /\ Rest(p) # <<>> /\ IsPathSeparator(Head(Rest(p)))

Prefix == <<"\\", "\\", "?">>

\* The blocks bs as they are written behind the prefix.
Write(long, b) == long \o <<"\\">> \o b
Lengthen(bs)   == FoldLeft(Write, Prefix, bs)

\* Faulty variant: the path is not cleaned.
FixLongPathRaw(p) ==
  IF os # "windows" \/ Len(p) < LongPath \/ ~IsAbs(p) \/ Up \in Range(Blocks(p)) THEN p
  ELSE Prefix \o <<"\\">> \o [i \in DOMAIN p |-> IF p[i] = "/" THEN "\\" ELSE p[i]] \o <<"\\">>

FixLongPath(p) ==
  IF \/ os # "windows"
     \/ Len(p) < LongPath
     \/ Len(p) >= 2 /\ SubSeq(p, 1, 2) = <<"\\", "\\">>
     \/ ~IsAbs(p)
     \/ Up \in Range(Blocks(p))
  THEN p
  ELSE LET long == Lengthen(Without(Here, Blocks(p)))
       IN  IF Len(long) = Len(Prefix) + 3 THEN Append(long, "\\") ELSE long

-----------------------------------------------------------------------------
PathInit ==
  /\ os \in {"unix", "windows"}
  /\ toSlash \in BOOLEAN
  /\ root \in Roots[os]
  /\ names = <<>>
  /\ path = <<>>

\* Walk prepares the root,
Start ==
  /\ path = <<>>
  /\ path' = CleanRootPath(IF toSlash THEN ToSlash(root) ELSE root)
  /\ UNCHANGED <<os, toSlash, root, names>>

\* and onDirEnt goes on to an entry of the directory at path.
Descend ==
  /\ path # <<>>
  /\ Len(names) < MaxDown
  /\ \E n \in Names[os] : names' = Append(names, n) /\ path' = JoinPaths(path, n)
  /\ UNCHANGED <<os, toSlash, root>>

PathNext == Start \/ Descend

PathSpec == PathInit /\ [][PathNext]_pathVars

-----------------------------------------------------------------------------
(* Properties.                                                             *)

\* The file root names, and the entry k levels below.
Below(k) == [File(root) EXCEPT !.elems = @ \o SubSeq(names, 1, k)]

\* Whatever separators the root has or lacks at its end (fastwalk.go:593-608, 665-685),
\* the path walkFn is given names the entry the walk has come to, and with ToSlash it
\* has no backslash on Windows (fastwalk.go:282).
PathNamesEntry ==
  path # <<>> =>
    /\ File(path) = Below(Len(names))
    /\ os = "windows" /\ toSlash => "\\" \notin Range(path)

\* On its way up from a link, shouldTraverse looks at every directory the walk has come
\* through on its way down (fastwalk.go:577-590): no loop goes unnoticed because of how
\* the root was written.
ClimbMeetsWay == \A k \in 0 .. Len(names) - 1 : Below(k) \in Climbed(path)

\* fastwalk.go:272: Follow ignores directories "that would lead to infinite loops; that
\* is, entering a previously visited directory that is an ancestor of the last file":
\* it looks at no others.  Where the path climbs n levels up before it goes down, all
\* that is less than n levels up is no ancestor.
ClimbedAreAncestors ==
  names # <<>> =>
    LET f == File(path)
    IN  \A d \in Climbed(path) :
          Len(SelectSeq(d.elems, LAMBDA b : b = Up)) = Len(SelectSeq(f.elems, LAMBDA b : b = Up))

\* fixLongPath writes into a buffer allocated before the result is known
\* (entry_filter_windows.go:126): it is large enough.
LongPathFits == Len(FixLongPath(path)) <= Len(Prefix) + Len(path) + 1

\* What an extended-length path means to Windows, which gives no meaning to "/", "." and
\* empty elements in it.
Extended(p) ==
  LET es == Split({"\\"}, SubSeq(p, Len(Prefix) + 2, Len(p)))
  IN  [volume |-> Head(es), abs |-> Len(es) > 1,
       elems |-> IF es = <<Head(es), <<>>>> THEN <<>> ELSE Tail(es)]

\* A path too long for Windows is opened in a form that names the same file, if it is
\* absolute and has no ".."; every other path is opened as it is
\* (entry_filter_windows.go:78-155).
LongPathNamesEntry ==
  LET long == FixLongPath(path)
  IN  IF os = "windows" /\ Len(path) >= LongPath /\ File(path).abs /\ VolumeName(path) # <<>>
         /\ Up \notin Range(Blocks(path))
      THEN SubSeq(long, 1, 4) = Prefix \o <<"\\">> /\ Extended(long) = File(path)
      ELSE long = path
=============================================================================
