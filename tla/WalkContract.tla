---------------------------- MODULE WalkContract ----------------------------
(***************************************************************************)
(* What Walk promises its caller about the work items of one call,         *)
(* whatever queues, channels and goroutines it uses:                       *)
(*   - an item is worked on at most once, and only after it was found;     *)
(*   - Walk returns nil only when everything found has been worked on and  *)
(*     nothing failed, and an error only if some item failed with it;      *)
(*   - nothing happens after Walk has returned.                            *)
(***************************************************************************)
CONSTANTS Item, Root, Err, Nil

VARIABLES
  known,     \* the items found so far
  finished,  \* the items worked on
  errors,    \* the errors items failed with
  status     \* "running", or the value Walk returned

contractVars == <<known, finished, errors, status>>

Running == status = <<"running">>

Init ==
  /\ known = {Root}
  /\ finished = {}
  /\ errors = {}
  /\ status = <<"running">>

\* Working on some item turns up another one.
Discover(it) ==
  /\ Running
  /\ known \ finished # {}
  /\ it \notin known
  /\ known' = known \cup {it}
  /\ UNCHANGED <<finished, errors, status>>

\* The work on item it ends with result r.
Complete(it, r) ==
  /\ Running
  /\ it \in known \ finished
  /\ finished' = finished \cup {it}
  /\ errors' = errors \cup ({r} \ {Nil})
  /\ UNCHANGED <<known, status>>

ReturnNil ==
  /\ Running
  /\ known = finished
  /\ errors = {}
  /\ status' = <<"returned", Nil>>
  /\ UNCHANGED <<known, finished, errors>>

ReturnError(e) ==
  /\ Running
  /\ e \in errors
  /\ status' = <<"returned", e>>
  /\ UNCHANGED <<known, finished, errors>>

Next ==
  \/ \E it \in Item : Discover(it)
  \/ \E it \in Item, r \in Err \cup {Nil} : Complete(it, r)
  \/ ReturnNil
  \/ \E e \in Err : ReturnError(e)

Spec == Init /\ [][Next]_contractVars
=============================================================================
