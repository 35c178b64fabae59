------------------------------ MODULE Adapters ------------------------------
(***************************************************************************)
(* The functions of adapters.go that wrap walkFn, and the EntryFilter they *)
(* share state through.  One call of the wrapped function is one outcome:  *)
(*   ret   what it returns to the walker,                                  *)
(*   seen  the filters' contents after the call,                           *)
(*   told  whether the user's own function was called.                     *)
(* A filter looks up and records a file under one mutex; the user's        *)
(* function has no access to the filter, so a whole call is one step.      *)
(***************************************************************************)
EXTENDS FileTree

NoneSeen == [i \in DOMAIN wrap |-> {}]

\* EntryFilter.Entry: unix treats an entry it cannot stat as seen, the others do not.
FilterEntry(n, seen) ==
  IF StatNode(n) = NoNode THEN Impl # "portable" ELSE StatNode(n) \in seen

\* Faulty variant: a link is recorded instead of what it refers to.
RecordLink(n, seen) == seen \cup {n}

Record(n, seen) == seen \cup ({StatNode(n)} \ {NoNode})

-----------------------------------------------------------------------------
(* The adapters.  Each is the i-th around the user's function, and is      *)
(* given what a call of the function it wraps would come to.               *)

IgnorePermissionErrors(e, seen, nil, inner) ==
  IF e = "permission" THEN [ret |-> nil, seen |-> seen, told |-> FALSE] ELSE inner

\* Faulty variant: the filter is asked before it is known that walkFn skips the directory.
IgnoreDuplicateDirsEarly(i, n, seen, nil, inner) ==
  IF ~IsDirEntry(n) THEN inner
  ELSE [ret  |-> IF inner.ret # nil THEN inner.ret
                 ELSE IF FilterEntry(n, seen[i]) THEN "SkipDir"
                 ELSE IF EntryType(n) = "link" THEN "TraverseLink"
                 ELSE nil,
        seen |-> [inner.seen EXCEPT ![i] = Record(n, @)],
        told |-> inner.told]

IgnoreDuplicateDirs(i, n, seen, nil, inner) ==
  IF ~IsDirEntry(n) \/ inner.ret = "SkipDir" THEN inner
  ELSE [ret  |-> IF inner.ret # nil THEN inner.ret
                 ELSE IF FilterEntry(n, seen[i]) THEN "SkipDir"
                 ELSE IF EntryType(n) = "link" THEN "TraverseLink"
                 ELSE nil,
        seen |-> [inner.seen EXCEPT ![i] = Record(n, @)],
        told |-> inner.told]

IgnoreDuplicateFiles(i, n, seen, nil, inner) ==
  IF FilterEntry(n, seen[i])
  THEN [ret |-> IF IsDirEntry(n) THEN "SkipDir" ELSE nil, seen |-> seen, told |-> FALSE]
  ELSE [ret  |-> IF inner.ret = nil /\ EntryType(n) = "link" /\ IsDirEntry(n)
                 THEN "TraverseLink" ELSE inner.ret,
        seen |-> [inner.seen EXCEPT ![i] = Record(n, @)],
        told |-> inner.told]

Adapter(i, n, e, seen, nil, inner) ==
  IF wrap[i] = "IgnorePermissionErrors" THEN IgnorePermissionErrors(e, seen, nil, inner)
  ELSE IF wrap[i] = "IgnoreDuplicateDirs" THEN IgnoreDuplicateDirs(i, n, seen, nil, inner)
  ELSE IgnoreDuplicateFiles(i, n, seen, nil, inner)

\* Calling the wrapped function with entry n and error e, when the user's function
\* would answer a: outcome[i] is what the i-th adapter makes of it.
Call(n, e, a, seen, nil) ==
  LET outcome[i \in 1 .. Len(wrap) + 1] ==
        IF i = Len(wrap) + 1 THEN [ret |-> a, seen |-> seen, told |-> TRUE]
        ELSE Adapter(i, n, e, seen, nil, outcome[i + 1])
  IN  outcome[1]
=============================================================================
