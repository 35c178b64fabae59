------------------------------ MODULE MCDirRead ------------------------------
(* A TLC instance of DirRead: two directories read by two readers.         *)
EXTENDS DirRead

Letter(i) == <<96 + i>>
\* d has a directory b that cannot be opened, files a and c, of which c is untyped, and a
\* link e; g has files k and h.
D == <<68>>
G == <<71>>
Nodes == {D, G} \cup {Letter(i) : i \in {1, 2, 3, 5, 8, 11}}
Kinds == [n \in Nodes |-> CASE n \in {D, G, Letter(2)} -> "dir"
                            [] n = Letter(5) -> "link"
                            [] OTHER -> "file"]
Rec(i, c, n) == [ino |-> i, code |-> c, name |-> n]
DirRecords ==
  (D :> <<Rec(2, 4, Letter(2)), Rec(3, 8, Letter(1)), Rec(0, 8, Letter(4)),
          Rec(7, 10, Letter(5)), Rec(256, 0, Letter(3))>>) @@
  (G :> <<Rec(9, 8, Letter(11)), Rec(1, 4, DotDot), Rec(4, 8, Letter(8))>>) @@
  (Letter(2) :> <<>>)
DirKids == (D :> <<Letter(2), Letter(1), Letter(5), Letter(3)>>) @@
           (G :> <<Letter(11), Letter(8)>>) @@ (Letter(2) :> <<>>)
Targets == Letter(5) :> D
Ranks == [n \in Nodes |-> n[1]]
UntypedNodes == {Letter(3)}
FlakyDirs == {D}
Refused == {Letter(2)}
NoneAbove == <<>>
DirAnswers == [n \in Nodes |-> CASE n = Letter(1)  -> {"nil", "SkipFiles"}
                                 [] n = Letter(11) -> {"nil", "stop"}
                                 [] OTHER -> {"nil"}]
Configured(i, s) == [impl |-> i, Sort |-> s, Follow |-> FALSE, MaxDepth |-> 0, wrap |-> <<>>]
AllSetups == {Configured(i, "SortNone") : i \in {"unix", "darwin", "portable"}} \cup
             {Configured("unix", "SortFilesFirst"), Configured("darwin", "SortDirsFirst"),
              Configured("portable", "SortDirsFirst")}
=============================================================================
