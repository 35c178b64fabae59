----------------------------- MODULE MCFastWalk -----------------------------
(* TLC instances of FastWalk: the trees walked, and the values of the       *)
(* constants that are no model values.                                      *)
EXTENDS FastWalk

Workers == Permutations(Worker)

\* All paths of at most k nodes in the tree, links followed, and all work items
\* with such paths.
Paths[k \in Nat \ {0}] ==
  IF k = 1 THEN {<<Top>>}
  ELSE LET d == {p \in Paths[k - 1] : IsDirNode(Resolve(Last(p)))}
       IN  Paths[k - 1] \cup
           UNION {{Append(p, n) : n \in Range(Kids[Resolve(Last(p))])} : p \in d}
Items(k) == [path : Paths[k], callbackDone : BOOLEAN]

RootItem == [path |-> <<Top>>, callbackDone |-> FALSE]
Errors   == {"SkipDir", "SkipFiles", "TraverseLink", "permission", "io", "notdir", "fail"}
Names    == <<"f", "x", "d", "l", "g", "r", "t", "a", "k", "m", "n", "e", "h">>
NoneAbove == <<>>
Ranks    == [n \in Node |-> CHOOSE i \in 1 .. Len(Names) : Names[i] = n]

-----------------------------------------------------------------------------
(* A root r with a directory d, a link l to d, and files; d holds a file x *)
(* and a directory a with another name of x.                               *)
PlainNodes  == {"r", "d", "a", "l", "f", "g", "x"}
PlainKind   == [n \in PlainNodes |-> CASE n \in {"r", "d", "a"} -> "dir"
                                       [] n = "l" -> "link"
                                       [] OTHER -> "file"]
PlainKids   == "r" :> <<"d", "f", "l", "g">> @@ "d" :> <<"x", "a">> @@ "a" :> <<"x">>
PlainTarget == "l" :> "d"

\* What walkFn may say, spread over the entries.
PlainReplies ==
  [n \in PlainNodes |->
     CASE n = "d" -> {"nil", "SkipDir"}
       [] n = "l" -> {"TraverseLink", "SkipDir"}
       [] n = "f" -> {"nil", "SkipFiles"}
       [] n = "g" -> {"nil", "SkipDir"}
       [] OTHER -> {"nil"}]
PlainItems == Items(4)

-----------------------------------------------------------------------------
(* A walk of "." in a directory r of t: d has a second name, the link k,   *)
(* and holds a link m to e, outside the walk, which holds a link n to t,   *)
(* and a second name h of the file f in d.                                 *)
LinkNodes  == {"t", "r", "d", "e", "f", "h", "k", "m", "n"}
LinkKind   == [x \in LinkNodes |-> CASE x \in {"h", "k", "m", "n"} -> "link"
                                     [] x = "f" -> "file"
                                     [] OTHER -> "dir"]
LinkKids   == "t" :> <<"r">> @@ "r" :> <<"d", "k">> @@ "d" :> <<"f", "m">>
              @@ "e" :> <<"n", "h">>
LinkTarget == "h" :> "f" @@ "k" :> "d" @@ "m" :> "e" @@ "n" :> "t"
LinkItems  == Items(8)
RootAbove  == <<"t">>

\* walkFn never objects to anything, or to the link k only.
Agreeable     == [n \in Node |-> {"nil"}]
AgainstLink   == [Agreeable EXCEPT !["k"] = {"nil", "SkipDir", "SkipFiles"}]

-----------------------------------------------------------------------------
(* Builds and configurations.                                              *)

Default == [impl |-> "unix", Sort |-> "SortNone", Follow |-> FALSE, MaxDepth |-> 0,
            wrap |-> <<>>]
Dirs    == "IgnoreDuplicateDirs"
Files   == "IgnoreDuplicateFiles"

Wrapped(w) == [Default EXCEPT !.wrap = w]
Following  == [Default EXCEPT !.Follow = TRUE]
Limited    == [Following EXCEPT !.impl = "portable", !.Sort = "SortFilesFirst", !.MaxDepth = 2]

JustDefault   == {Default}
WalkSetups    == {Default, Limited}
LinkSetups    == {Following, Wrapped(<<Dirs>>), Wrapped(<<Files>>),
                  Wrapped(<<Dirs, Files>>), Wrapped(<<Files, Dirs>>),
                  [Wrapped(<<Dirs>>) EXCEPT !.MaxDepth = 2]}
JustFollowing == {Following}
JustFiles     == {Wrapped(<<Files>>)}
DirsFollowing == {[Wrapped(<<Dirs>>) EXCEPT !.Follow = TRUE]}
JustDarwin    == {[Default EXCEPT !.impl = "darwin"]}
=============================================================================
