----------------------------- MODULE MCEntryCalls -----------------------------
(* A TLC instance of EntryCalls: two files with the same inode number on two *)
(* devices, and one of another shard; the shared entry may turn out to be    *)
(* any of them, or to be gone.                                               *)
EXTENDS EntryCalls, TLC

Files   == {<<1, 4>>, <<2, 4>>, <<1, 5>>}
Results == {<<1, 4>>, <<1, 5>>, Broken}
=============================================================================
