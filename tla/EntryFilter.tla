----------------------------- MODULE EntryFilter -----------------------------
(***************************************************************************)
(* The EntryFilter of the adapters (entry_filter_unix.go, and with one     *)
(* shard entry_filter_windows.go and entry_filter_portable.go): a set of   *)
(* file keys, spread over maps that have a mutex each, asked and extended  *)
(* by many goroutines at once.  A key is <<device, inode>>, and the shard  *)
(* is chosen by the inode alone.                                           *)
(***************************************************************************)
EXTENDS Integers, Callers

CONSTANTS
  Key,          \* the file keys
  NumShards,    \* the number of maps
  StatError,    \* Entry's answer when the file cannot be stat'ed
  Nobody,       \* "not locked"
  MaxCalls      \* bound: how many calls are made altogether

ASSUME FilterAssumption ==
  /\ Key \subseteq Nat \X Nat
  /\ NumShards \in Nat \ {0}
  /\ StatError \in BOOLEAN
  /\ Nobody \notin Caller
  /\ MaxCalls \in Nat

VARIABLES
  mu,       \* mu[s]: who holds the mutex of shard s
  keys,     \* keys[s]: the keys recorded in shard s
  pc,       \* where each caller is
  key,      \* the key a caller asks for
  answer,   \* seen, the named result of the call
  started   \* the number of calls started

filterVars == <<mu, keys, pc, key, answer, started>>

Shard == 0 .. NumShards - 1
NoKey == <<>>

\* e.ents[ino % len(e.ents)]
ShardOf(c) == key[c][2] % NumShards

FilterInit ==
  /\ mu = [s \in Shard |-> Nobody]
  /\ keys = [s \in Shard |-> {}]
  /\ pc = [c \in Caller |-> "idle"]
  /\ key = [c \in Caller |-> NoKey]
  /\ answer = [c \in Caller |-> FALSE]
  /\ started = 0

\* Entry, after the file was stat'ed: seen() is called with its key.
Enter(c, k) ==
  /\ pc[c] = "idle"
  /\ started < MaxCalls
  /\ started' = started + 1
  /\ key' = [key EXCEPT ![c] = k]
  /\ pc' = [pc EXCEPT ![c] = "lock"]
  /\ UNCHANGED <<mu, keys, answer>>

\* Entry, if the file could not be stat'ed.
EnterUnknown(c) ==
  /\ pc[c] = "idle"
  /\ started < MaxCalls
  /\ started' = started + 1
  /\ answer' = [answer EXCEPT ![c] = StatError]
  /\ pc' = [pc EXCEPT ![c] = "return"]
  /\ UNCHANGED <<mu, keys, key>>

\* Faulty variant: the mutex is not taken.
LockNothing(c) ==
  /\ pc[c] = "lock"
  /\ pc' = [pc EXCEPT ![c] = "look"]
  /\ UNCHANGED <<mu, keys, key, answer, started>>

\* m.mu.Lock()
Lock(c) ==
  /\ pc[c] = "lock"
  /\ mu[ShardOf(c)] = Nobody
  /\ mu' = [mu EXCEPT ![ShardOf(c)] = c]
  /\ pc' = [pc EXCEPT ![c] = "look"]
  /\ UNCHANGED <<keys, key, answer, started>>

\* Faulty variant: the device is left out of the comparison.
LookInode(c) ==
  /\ pc[c] = "look"
  /\ LET seen == \E k \in keys[ShardOf(c)] : k[2] = key[c][2]
     IN  /\ answer' = [answer EXCEPT ![c] = seen]
         /\ pc' = [pc EXCEPT ![c] = IF seen THEN "unlock" ELSE "add"]
  /\ UNCHANGED <<mu, keys, key, started>>

\* The lookup in m.keys.
Look(c) ==
  /\ pc[c] = "look"
  /\ LET seen == key[c] \in keys[ShardOf(c)]
     IN  /\ answer' = [answer EXCEPT ![c] = seen]
         /\ pc' = [pc EXCEPT ![c] = IF seen THEN "unlock" ELSE "add"]
  /\ UNCHANGED <<mu, keys, key, started>>

\* m.keys[...] = struct{}{}; an empty set stands for a nil map, too.
Add(c) ==
  /\ pc[c] = "add"
  /\ keys' = [keys EXCEPT ![ShardOf(c)] = @ \cup {key[c]}]
  /\ pc' = [pc EXCEPT ![c] = "unlock"]
  /\ UNCHANGED <<mu, key, answer, started>>

\* Faulty variant: the mutex is kept.
UnlockNothing(c) ==
  /\ pc[c] = "unlock"
  /\ pc' = [pc EXCEPT ![c] = "return"]
  /\ UNCHANGED <<mu, keys, key, answer, started>>

\* m.mu.Unlock()
Unlock(c) ==
  /\ pc[c] = "unlock"
  /\ mu' = [mu EXCEPT ![ShardOf(c)] = Nobody]
  /\ pc' = [pc EXCEPT ![c] = "return"]
  /\ UNCHANGED <<keys, key, answer, started>>

Return(c) ==
  /\ pc[c] = "return"
  /\ key' = [key EXCEPT ![c] = NoKey]
  /\ pc' = [pc EXCEPT ![c] = "idle"]
  /\ UNCHANGED <<mu, keys, answer, started>>

\* The steps of a call under way.
CallStep(c) == Lock(c) \/ Look(c) \/ Add(c) \/ Unlock(c) \/ Return(c)

FilterNext ==
  \E c \in Caller :
    \/ CallStep(c)
    \/ EnterUnknown(c)
    \/ \E k \in Key : Enter(c, k)

FilterSafety == FilterInit /\ [][FilterNext]_filterVars

-----------------------------------------------------------------------------
\* The types of the variables; a mutex is held by a caller between Lock and Unlock.
FilterTypeOK ==
  /\ mu \in [Shard -> Caller \cup {Nobody}]
  /\ keys \in [Shard -> SUBSET Key]
  /\ pc \in [Caller -> {"idle", "lock", "look", "add", "unlock", "return"}]
  /\ key \in [Caller -> Key \cup {NoKey}]
  /\ answer \in [Caller -> BOOLEAN]
  /\ started \in 0 .. MaxCalls
  /\ \A c \in Caller : pc[c] \in {"look", "add", "unlock"} => mu[ShardOf(c)] = c

\* entry_filter_unix.go:36: seen() is an atomic test-and-set of one set of keys, though
\* it reads and writes in two steps under one of several mutexes.  The answer is
\* decided when the map is read (seen) or written (not seen).
Decided(c) ==
  IF key[c] = NoKey THEN <<"idle">>
  ELSE IF pc[c] \in {"unlock", "return"} THEN <<"decided", key[c], answer[c]>>
  ELSE <<"asking", key[c]>>

Atomic == INSTANCE TestAndSet WITH
  recorded <- UNION {keys[s] : s \in Shard},
  call     <- [c \in Caller |-> Decided(c)]

ImplementsTestAndSet == Atomic!Spec
=============================================================================
