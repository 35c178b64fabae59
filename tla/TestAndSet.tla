----------------------------- MODULE TestAndSet -----------------------------
(***************************************************************************)
(* What an EntryFilter promises: a call looks a key up and records it in   *)
(* one indivisible step, so of all calls for one key exactly the first is  *)
(* told that it is new.                                                    *)
(***************************************************************************)
CONSTANTS Caller, Key

VARIABLES
  recorded,   \* the keys seen so far
  call        \* call[c]: <<"idle">>, <<"asking", k>> or <<"decided", k, seen>>

Init ==
  /\ recorded = {}
  /\ call = [c \in Caller |-> <<"idle">>]

Ask(c, k) ==
  /\ call[c] = <<"idle">>
  /\ call' = [call EXCEPT ![c] = <<"asking", k>>]
  /\ UNCHANGED recorded

Decide(c, k) ==
  /\ call[c] = <<"asking", k>>
  /\ call' = [call EXCEPT ![c] = <<"decided", k, k \in recorded>>]
  /\ recorded' = recorded \cup {k}

Answer(c, k) ==
  /\ call[c] \in {<<"decided", k, b>> : b \in BOOLEAN}
  /\ call' = [call EXCEPT ![c] = <<"idle">>]
  /\ UNCHANGED recorded

Next == \E c \in Caller, k \in Key : Ask(c, k) \/ Decide(c, k) \/ Answer(c, k)

Spec == Init /\ [][Next]_<<recorded, call>>
=============================================================================
