----------------------------- MODULE MCWalkPaths -----------------------------
(* TLC instances of WalkPaths: all roots up to a length, of all kinds of    *)
(* characters the code tells apart.                                        *)
EXTENDS WalkPaths

\* All texts of a to b characters of s.
Texts(s, a, b) == UNION {[1 .. k -> s] : k \in a .. b}

Drive == <<"c", ":">>

\* "C:" alone is left out: joinPaths makes an absolute path of it.
AllRoots == [unix    |-> Texts({"a", ".", "/", "\\", ":"}, 1, 3),
             windows |-> {p \in Texts({"a", ".", "/", "\\"}, 1, 3) :
                            Len(p) = 1 \/ ~({p[1], p[2]} \subseteq {"/", "\\"})}
                         \cup {Drive \o p : p \in Texts({"a", ".", "/", "\\"}, 1, 4)}]

AllNames == [unix    |-> {<<"a">>, <<".", "a">>, <<"\\">>, <<":">>},
             windows |-> {<<"a">>, <<".", "a">>, <<".", ".", "a">>}]

\* The parent of the current directory.
UpRoots    == [unix |-> {<<".", ".">>}, windows |-> {<<".", ".">>}]
PlainNames == [unix |-> {<<"a">>}, windows |-> {<<"a">>}]
=============================================================================
