-------------------------- MODULE EntryCalls_proofs --------------------------
(***************************************************************************)
(* Proofs about EntryFilter, FileInfoCache and their composition           *)
(* EntryCalls, for any number of goroutines, calls, keys, shards and       *)
(* fileInfo values.                                                        *)
(***************************************************************************)
EXTENDS EntryCalls, FiniteSetTheorems, TLAPS

-----------------------------------------------------------------------------
(* The filter.  The invariant says what a caller knows of the map of its   *)
(* shard while it holds the mutex.                                         *)

\* seen() has a key, the mutex of whose shard is what serialises the callers.
KeyInHand ==
  \A c \in Caller :
    /\ pc[c] \in {"lock", "look", "add", "unlock"} => key[c] \in Key
    /\ pc[c] = "idle" => key[c] = NoKey

\* A key is recorded in the shard of its inode and nowhere else.
KeysInShard == \A s \in Shard : \A k \in keys[s] : k[2] % NumShards = s

\* A caller about to write has found its key missing, and one that leaves has it in.
UnderMutex ==
  \A c \in Caller :
    /\ pc[c] = "add" => key[c] \notin keys[ShardOf(c)] /\ ~answer[c]
    /\ pc[c] = "unlock" => key[c] \in keys[ShardOf(c)]

FilterInv == FilterTypeOK /\ KeyInHand /\ KeysInShard /\ UnderMutex

LEMMA KeyFacts ==
  /\ NumShards \in Nat \ {0}
  /\ NoKey \notin Key
  /\ \A k \in Key : k[2] \in Nat /\ k[2] % NumShards \in Shard
  /\ Nobody \notin Caller
<1>1. \A k \in Key : k \in Nat \X Nat
  BY FilterAssumption
<1>2. NumShards \in Nat \ {0} /\ Nobody \notin Caller
  BY FilterAssumption
<1>3. NoKey \notin Nat \X Nat
  BY DEF NoKey
<1>4. \A i \in Nat : i % NumShards \in 0 .. NumShards - 1
  BY <1>2
<1>5. QED
  BY <1>1, <1>2, <1>3, <1>4 DEF Shard

\* The two outcomes of the lookup.
FoundKey(c) ==
  /\ key[c] \in keys[ShardOf(c)]
  /\ answer' = [answer EXCEPT ![c] = TRUE]
  /\ pc' = [pc EXCEPT ![c] = "unlock"]

MissedKey(c) ==
  /\ key[c] \notin keys[ShardOf(c)]
  /\ answer' = [answer EXCEPT ![c] = FALSE]
  /\ pc' = [pc EXCEPT ![c] = "add"]

LEMMA LookCases ==
  ASSUME NEW c \in Caller, Look(c)
  PROVE  FoundKey(c) \/ MissedKey(c)
<1>1. LET seen == key[c] \in keys[ShardOf(c)]
      IN  /\ answer' = [answer EXCEPT ![c] = seen]
          /\ pc' = [pc EXCEPT ![c] = IF seen THEN "unlock" ELSE "add"]
  BY DEF Look
<1>2. CASE key[c] \in keys[ShardOf(c)]
  <2>1. (key[c] \in keys[ShardOf(c)]) = TRUE
    BY <1>2
  <2>2. answer' = [answer EXCEPT ![c] = TRUE]
    BY <1>1, <2>1, Zenon
  <2>3. pc' = [pc EXCEPT ![c] = "unlock"]
    BY <1>1, <1>2, Zenon
  <2>4. QED  BY <1>2, <2>2, <2>3 DEF FoundKey
<1>3. CASE key[c] \notin keys[ShardOf(c)]
  <2>1. (key[c] \in keys[ShardOf(c)]) = FALSE
    BY <1>3
  <2>2. answer' = [answer EXCEPT ![c] = FALSE]
    BY <1>1, <2>1, Zenon
  <2>3. pc' = [pc EXCEPT ![c] = "add"]
    BY <1>1, <1>3, Zenon
  <2>4. QED  BY <1>3, <2>2, <2>3 DEF MissedKey
<1>4. QED  BY <1>2, <1>3

LEMMA FilterInvInit == FilterInit => FilterInv
  BY FilterAssumption
  DEF FilterInit, FilterInv, FilterTypeOK, KeyInHand, KeysInShard, UnderMutex

LEMMA FilterInvStep == FilterInv /\ [FilterNext]_filterVars => FilterInv'
<1>1. SUFFICES ASSUME FilterInv, [FilterNext]_filterVars PROVE FilterInv'
  OBVIOUS
<1>2. \A c \in Caller : key[c] \in Key => ShardOf(c) \in Shard
  BY KeyFacts DEF ShardOf
<1> USE <1>1, <1>2, KeyFacts DEF FilterInv, FilterTypeOK, KeyInHand, KeysInShard, UnderMutex
<1>3. ASSUME NEW c \in Caller, NEW k \in Key, Enter(c, k) PROVE FilterInv'
  BY <1>3, FilterAssumption DEF Enter, ShardOf
<1>4. ASSUME NEW c \in Caller, EnterUnknown(c) PROVE FilterInv'
  BY <1>4, FilterAssumption DEF EnterUnknown, ShardOf
<1>5. ASSUME NEW c \in Caller, Lock(c) PROVE FilterInv'
  BY <1>5 DEF Lock, ShardOf
<1>6. ASSUME NEW c \in Caller, Look(c) PROVE FilterInv'
  <2>1. CASE FoundKey(c)
    BY <1>6, <2>1 DEF Look, FoundKey, ShardOf
  <2>2. CASE MissedKey(c)
    BY <1>6, <2>2 DEF Look, MissedKey, ShardOf
  <2>3. QED  BY <1>6, <2>1, <2>2, LookCases
<1>7. ASSUME NEW c \in Caller, Add(c) PROVE FilterInv'
  BY <1>7 DEF Add, ShardOf
<1>8. ASSUME NEW c \in Caller, Unlock(c) PROVE FilterInv'
  BY <1>8 DEF Unlock, ShardOf
<1>9. ASSUME NEW c \in Caller, Return(c) PROVE FilterInv'
  BY <1>9 DEF Return, ShardOf
<1>10. CASE UNCHANGED filterVars
  BY <1>10 DEF filterVars, ShardOf
<1>11. QED
  BY <1>3, <1>4, <1>5, <1>6, <1>7, <1>8, <1>9, <1>10 DEF FilterNext, CallStep

LEMMA FilterInvAlways == FilterSafety => []FilterInv
<1>1. QED
  BY FilterInvInit, FilterInvStep, PTL DEF FilterSafety

-----------------------------------------------------------------------------
(* seen() as one atomic test-and-set.                                      *)
Recorded == UNION {keys[s] : s \in Shard}

\* A key is recorded at all exactly if it is in its own shard.
LEMMA RecordedInShard ==
  ASSUME FilterInv, NEW c \in Caller, key[c] \in Key
  PROVE  key[c] \in Recorded <=> key[c] \in keys[ShardOf(c)]
<1>1. ShardOf(c) \in Shard
  BY KeyFacts DEF ShardOf
<1>2. \A s \in Shard : key[c] \in keys[s] => s = ShardOf(c)
  BY DEF FilterInv, KeysInShard, ShardOf
<1>3. QED
  BY <1>1, <1>2 DEF Recorded

\* A step of one caller changes what TestAndSet sees of that caller only.
LEMMA DecidedElsewhere ==
  ASSUME FilterInv, NEW c \in Caller, NEW f,
         \A d \in Caller \ {c} : key'[d] = key[d] /\ pc'[d] = pc[d] /\ answer'[d] = answer[d],
         Decided(c)' = f
  PROVE  [d \in Caller |-> Decided(d)]' = [[d \in Caller |-> Decided(d)] EXCEPT ![c] = f]
<1>1. \A d \in Caller \ {c} : Decided(d)' = Decided(d)
  BY DEF Decided
<1>2. QED
  BY <1>1

LEMMA TestAndSetStep ==
  FilterInv /\ FilterInv' /\ [FilterNext]_filterVars => [Atomic!Next]_<<Recorded, [c \in Caller |-> Decided(c)]>>
<1>1. SUFFICES ASSUME FilterInv, FilterInv', [FilterNext]_filterVars
               PROVE  [Atomic!Next]_<<Recorded, [c \in Caller |-> Decided(c)]>>
  OBVIOUS
<1> DEFINE calls == [c \in Caller |-> Decided(c)]
<1>2. /\ pc \in [Caller -> {"idle", "lock", "look", "add", "unlock", "return"}]
      /\ key \in [Caller -> Key \cup {NoKey}]
      /\ answer \in [Caller -> BOOLEAN]
      /\ keys \in [Shard -> SUBSET Key]
      /\ NoKey \notin Key
      /\ \A c \in Caller :
           /\ pc[c] \in {"lock", "look", "add", "unlock"} => key[c] \in Key
           /\ pc[c] = "idle" => key[c] = NoKey
  BY <1>1, KeyFacts DEF FilterInv, FilterTypeOK, KeyInHand
<1>3. ASSUME NEW c \in Caller, Decided(c)' = Decided(c), keys' = keys,
             \A d \in Caller \ {c} : key'[d] = key[d] /\ pc'[d] = pc[d] /\ answer'[d] = answer[d]
      PROVE  Recorded' = Recorded /\ calls' = calls
  <2>1. calls' = [calls EXCEPT ![c] = Decided(c)]
    BY <1>1, <1>3, DecidedElsewhere
  <2>2. QED  BY <1>3, <2>1 DEF Recorded
<1>4. ASSUME NEW c \in Caller, NEW k \in Key, Enter(c, k)
      PROVE  Atomic!Next
  <2>1. Decided(c) = <<"idle">> /\ Decided(c)' = <<"asking", k>>
    BY <1>2, <1>4 DEF Enter, Decided
  <2>2. calls' = [calls EXCEPT ![c] = <<"asking", k>>]
    BY <1>1, <1>2, <1>4, <2>1, DecidedElsewhere DEF Enter
  <2>3. Recorded' = Recorded
    BY <1>4 DEF Enter, Recorded
  <2>4. Atomic!Ask(c, k)
    BY <2>1, <2>2, <2>3 DEF Atomic!Ask, Recorded
  <2>5. QED  BY <2>4 DEF Atomic!Next
<1>5. ASSUME NEW c \in Caller, EnterUnknown(c) \/ Lock(c) \/ Unlock(c)
      PROVE  Recorded' = Recorded /\ calls' = calls
  <2>1. Decided(c)' = Decided(c)
    BY <1>2, <1>5 DEF EnterUnknown, Lock, Unlock, Decided
  <2>2. \A d \in Caller \ {c} : key'[d] = key[d] /\ pc'[d] = pc[d] /\ answer'[d] = answer[d]
    BY <1>2, <1>5 DEF EnterUnknown, Lock, Unlock
  <2>3. keys' = keys
    BY <1>5 DEF EnterUnknown, Lock, Unlock
  <2>4. QED  BY <1>3, <2>1, <2>2, <2>3
<1>6. ASSUME NEW c \in Caller, Look(c), FoundKey(c)
      PROVE  Atomic!Next
  <2>1. key[c] \in Key /\ key' = key /\ keys' = keys
    BY <1>2, <1>6 DEF Look
  <2>2. Decided(c) = <<"asking", key[c]>> /\ Decided(c)' = <<"decided", key[c], TRUE>>
    BY <1>2, <1>6, <2>1 DEF Look, FoundKey, Decided
  <2>3. key[c] \in Recorded /\ Recorded' = Recorded
    BY <1>1, <1>6, <2>1, RecordedInShard DEF FoundKey, Recorded
  <2>4. calls' = [calls EXCEPT ![c] = <<"decided", key[c], TRUE>>]
    BY <1>1, <1>2, <1>6, <2>1, <2>2, DecidedElsewhere DEF FoundKey
  <2>5. (key[c] \in Recorded) = TRUE /\ Recorded' = Recorded \cup {key[c]}
    BY <2>3
  <2>6. PICK k \in Key : k = key[c]
    BY <2>1
  <2>7. Atomic!Decide(c, k)
    BY <2>6, <2>2, <2>4, <2>5, Zenon DEF Atomic!Decide, Recorded
  <2>8. QED  BY <2>7 DEF Atomic!Next
<1>7. ASSUME NEW c \in Caller, Look(c), MissedKey(c)
      PROVE  Recorded' = Recorded /\ calls' = calls
  <2>1. Decided(c)' = Decided(c)
    BY <1>2, <1>7 DEF Look, MissedKey, Decided
  <2>2. \A d \in Caller \ {c} : key'[d] = key[d] /\ pc'[d] = pc[d] /\ answer'[d] = answer[d]
    BY <1>2, <1>7 DEF Look, MissedKey
  <2>3. QED  BY <1>3, <1>7, <2>1, <2>2 DEF Look
<1>8. ASSUME NEW c \in Caller, Add(c)
      PROVE  Atomic!Next
  <2>1. key[c] \in Key /\ key' = key /\ answer' = answer /\ ~answer[c]
    BY <1>1, <1>2, <1>8 DEF Add, FilterInv, UnderMutex
  <2>2. answer[c] = FALSE
    BY <1>2, <2>1
  <2>3. Decided(c) = <<"asking", key[c]>> /\ Decided(c)' = <<"decided", key[c], FALSE>>
    BY <1>2, <1>8, <2>1, <2>2 DEF Add, Decided
  <2>4. key[c] \notin Recorded
    BY <1>1, <1>8, <2>1, RecordedInShard DEF Add, FilterInv, UnderMutex
  <2>5. Recorded' = Recorded \cup {key[c]}
    <3>1. ShardOf(c) \in Shard
      BY <2>1, KeyFacts DEF ShardOf
    <3>2. QED  BY <1>2, <1>8, <3>1 DEF Add, Recorded
  <2>6. calls' = [calls EXCEPT ![c] = <<"decided", key[c], FALSE>>]
    BY <1>1, <1>2, <1>8, <2>1, <2>3, DecidedElsewhere DEF Add
  <2>7. (key[c] \in Recorded) = FALSE
    BY <2>4
  <2>8. PICK k \in Key : k = key[c]
    BY <2>1
  <2>9. Atomic!Decide(c, k)
    BY <2>8, <2>3, <2>5, <2>6, <2>7, Zenon DEF Atomic!Decide, Recorded
  <2>10. QED  BY <2>9 DEF Atomic!Next
<1>9. ASSUME NEW c \in Caller, Return(c), key[c] = NoKey
      PROVE  Recorded' = Recorded /\ calls' = calls
  <2>1. Decided(c)' = Decided(c)
    BY <1>2, <1>9 DEF Return, Decided
  <2>2. \A d \in Caller \ {c} : key'[d] = key[d] /\ pc'[d] = pc[d] /\ answer'[d] = answer[d]
    BY <1>2, <1>9 DEF Return
  <2>3. QED  BY <1>3, <1>9, <2>1, <2>2 DEF Return
<1>10. ASSUME NEW c \in Caller, Return(c), key[c] # NoKey
       PROVE  Atomic!Next
  <2>1. key[c] \in Key /\ answer[c] \in BOOLEAN
    BY <1>2, <1>10
  <2>2. Decided(c) = <<"decided", key[c], answer[c]>> /\ Decided(c)' = <<"idle">>
    BY <1>2, <1>10 DEF Return, Decided
  <2>3. calls' = [calls EXCEPT ![c] = <<"idle">>]
    BY <1>1, <1>2, <1>10, <2>2, DecidedElsewhere DEF Return
  <2>4. Recorded' = Recorded
    BY <1>10 DEF Return, Recorded
  <2>5. Atomic!Answer(c, key[c])
    BY <2>1, <2>2, <2>3, <2>4, Zenon DEF Atomic!Answer, Recorded
  <2>6. QED  BY <2>1, <2>5 DEF Atomic!Next
<1>11. CASE UNCHANGED filterVars
  BY <1>11 DEF filterVars, Recorded, Decided
<1>12. QED
  BY <1>1, <1>4, <1>5, <1>6, <1>7, <1>8, <1>9, <1>10, <1>11, LookCases
  DEF FilterNext, CallStep

\* entry_filter_unix.go:36: looking a key up and recording it are one atomic step for
\* all goroutines together, for any number of shards and goroutines, though every map
\* is read and written separately and under a mutex of its own.
THEOREM FilterIsAtomic == FilterSafety => ImplementsTestAndSet
<1>1. FilterInit => Atomic!Init
  BY DEF FilterInit, Atomic!Init, Decided, Shard
<1>2. QED
  BY <1>1, FilterInvAlways, TestAndSetStep, PTL
  DEF FilterSafety, ImplementsTestAndSet, Atomic!Spec, Recorded

-----------------------------------------------------------------------------
(* The cached file information.  The invariant says which fileInfo a       *)
(* caller may have in hand, and what its sync.Once guards.                 *)

\* Whoever has passed the loads and the swap has the installed fileInfo in hand, and
\* whoever is about to swap one of its own.
Installed ==
  \A c \in Caller :
    /\ step[c] \in {"once", "call", "leave", "return"} => fi[c] = ptr /\ ptr # Null
    /\ step[c] = "swap" => fi[c] \in Object
    /\ step[c] = "reload" => ptr # Null

\* The function given to once.Do is run by one caller, and has run when others pass.
InOnce(c) == step[c] \in {"call", "leave"}

OnceGuards ==
  /\ \A c, d \in Caller : InOnce(c) /\ InOnce(d) => c = d
  /\ \A c \in Caller :
       /\ InOnce(c) => once[ptr] = "running"
       /\ step[c] = "leave" => value[ptr] \in Outcome
       /\ step[c] = "return" => once[ptr] = "done"
  /\ ptr # Null /\ once[ptr] = "done" => value[ptr] \in Outcome

\* What calls have returned is what the installed fileInfo holds for good.
ResultsCached == results # {} => ptr # Null /\ once[ptr] = "done" /\ results = {value[ptr]}

CacheInv == CacheTypeOK /\ Installed /\ OnceGuards /\ OneSystemCall /\ ResultsCached

LEMMA CacheInvInit == CacheInit => CacheInv
<1>1. SUFFICES ASSUME CacheInit PROVE CacheInv
  OBVIOUS
<1>2. PICK o \in Object, v \in Outcome :
        \/ /\ ptr = Null
           /\ once = [x \in Object |-> "new"]
           /\ value = [x \in Object |-> NoOutcome]
           /\ allocated = {}
        \/ /\ ptr = o
           /\ once = [x \in Object |-> IF x = o THEN "done" ELSE "new"]
           /\ value = [x \in Object |-> IF x = o THEN v ELSE NoOutcome]
           /\ allocated = {o}
  BY <1>1 DEF CacheInit
<1>3. CacheTypeOK
  BY <1>1, <1>2, CacheAssumption DEF CacheInit, CacheTypeOK
<1>4. Installed /\ OnceGuards /\ OneSystemCall /\ ResultsCached
  BY <1>1, <1>2, CacheAssumption
  DEF CacheInit, Installed, OnceGuards, InOnce, OneSystemCall, ResultsCached
<1>5. QED
  BY <1>3, <1>4 DEF CacheInv

LEMMA CacheInvStep == CacheInv /\ [CacheNext]_cacheVars => CacheInv'
<1>1. SUFFICES ASSUME CacheInv, [CacheNext]_cacheVars PROVE CacheInv'
  OBVIOUS
<1> USE <1>1, CacheAssumption
    DEF CacheInv, CacheTypeOK, Installed, OnceGuards, InOnce, OneSystemCall, ResultsCached
<1>2. ASSUME NEW c \in Caller, Load(c) PROVE CacheInv'
  BY <1>2 DEF Load
<1>3. ASSUME NEW c \in Caller, NEW o \in Object, Allocate(c, o) PROVE CacheInv'
  BY <1>3 DEF Allocate
<1>4. ASSUME NEW c \in Caller, Swap(c) PROVE CacheInv'
  BY <1>4 DEF Swap
<1>5. ASSUME NEW c \in Caller, Reload(c) PROVE CacheInv'
  BY <1>5 DEF Reload
<1>6. ASSUME NEW c \in Caller, EnterOnce(c) PROVE CacheInv'
  BY <1>6 DEF EnterOnce
<1>7. ASSUME NEW c \in Caller, PassOnce(c) PROVE CacheInv'
  BY <1>7 DEF PassOnce
<1>8. ASSUME NEW c \in Caller, NEW v \in Outcome, SystemCall(c, v) PROVE CacheInv'
  BY <1>8 DEF SystemCall
<1>9. ASSUME NEW c \in Caller, LeaveOnce(c) PROVE CacheInv'
  BY <1>9 DEF LeaveOnce
<1>10. ASSUME NEW c \in Caller, GiveInfo(c) PROVE CacheInv'
  BY <1>10 DEF GiveInfo
<1>11. CASE UNCHANGED cacheVars
  BY <1>11 DEF cacheVars
<1>12. QED
  BY <1>1, <1>2, <1>3, <1>4, <1>5, <1>6, <1>7, <1>8, <1>9, <1>10, <1>11
  DEF CacheNext, InfoStep

LEMMA CacheInvAlways == CacheSafety => []CacheInv
<1>1. QED
  BY CacheInvInit, CacheInvStep, PTL DEF CacheSafety

\* fastwalk.go:326: every call of Info() or Stat() for one entry returns the same result,
\* for any number of goroutines, fileInfo values allocated in a race and system calls
\* that could answer differently.
THEOREM ResultsAlwaysAgree == CacheSafety => []ResultsAgree
<1>1. CacheInv => ResultsAgree
  <2>1. SUFFICES ASSUME CacheInv PROVE Cardinality(results) <= 1 /\ NoOutcome \notin results
    BY DEF ResultsAgree
  <2>2. CASE results = {}
    BY <2>2, FS_EmptySet
  <2>3. CASE results # {}
    <3>1. results = {value[ptr]} /\ value[ptr] \in Outcome
      BY <2>1, <2>3 DEF CacheInv, ResultsCached, OnceGuards
    <3>2. Cardinality(results) = 1
      BY <3>1, FS_Singleton
    <3>3. QED  BY <3>1, <3>2, CacheAssumption
  <2>4. QED  BY <2>2, <2>3
<1>2. QED
  BY <1>1, CacheInvAlways, PTL

\* However many fileInfo values are allocated in a race, the system call is made for the
\* installed one only (dirent.go, loadFileInfo).
THEOREM OneSystemCallAlways == CacheSafety => []OneSystemCall
<1>1. CacheInv => OneSystemCall
  BY DEF CacheInv
<1>2. QED
  BY <1>1, CacheInvAlways, PTL

\* The result of the first system call stays, and so does the pointer to it.
LEMMA CacheStable ==
  ASSUME CacheInv, [CacheNext]_cacheVars, ptr # Null
  PROVE  /\ ptr' = ptr
         /\ once[ptr] = "done" => once'[ptr] = "done" /\ value'[ptr] = value[ptr]
<1> USE DEF CacheInv, CacheTypeOK, Installed, OnceGuards, InOnce, OneSystemCall
<1>1. ASSUME NEW c \in Caller, Load(c) \/ Reload(c) \/ PassOnce(c) \/ GiveInfo(c)
      PROVE  ptr' = ptr /\ once' = once /\ value' = value
  BY <1>1 DEF Load, Reload, PassOnce, GiveInfo
<1>2. ASSUME NEW c \in Caller, NEW o \in Object, Allocate(c, o)
      PROVE  ptr' = ptr /\ once' = once /\ value' = value
  BY <1>2 DEF Allocate
<1>3. ASSUME NEW c \in Caller, Swap(c)
      PROVE  ptr' = ptr /\ once' = once /\ value' = value
  BY <1>3 DEF Swap
<1>4. ASSUME NEW c \in Caller, EnterOnce(c) \/ LeaveOnce(c)
      PROVE  ptr' = ptr /\ value' = value /\ (once[ptr] = "done" => once'[ptr] = "done")
  BY <1>4, CacheAssumption DEF EnterOnce, LeaveOnce
<1>5. ASSUME NEW c \in Caller, NEW v \in Outcome, SystemCall(c, v)
      PROVE  ptr' = ptr /\ once' = once /\ once[ptr] # "done"
  BY <1>5 DEF SystemCall
<1>6. CASE UNCHANGED cacheVars
  BY <1>6 DEF cacheVars
<1>7. QED
  BY <1>1, <1>2, <1>3, <1>4, <1>5, <1>6 DEF CacheNext, InfoStep

-----------------------------------------------------------------------------
(* The composition: both parts run as they do alone.                       *)
LEMMA EntryIsFilter == EntrySafety => FilterSafety
<1>1. EntryInit => FilterInit
  BY DEF EntryInit
<1>2. [EntryNext]_entryVars => [FilterNext]_filterVars
  BY DEF EntryNext, Ask, EntryStep, Stat, AnswerStat, Seen, Answer, AskOther, FilterNext,
         entryVars, CallStep
<1>3. QED
  BY <1>1, <1>2, PTL DEF EntrySafety, FilterSafety

LEMMA EntryIsCache == EntrySafety => CacheSafety
<1>1. EntryInit => CacheInit
  BY DEF EntryInit
<1>2. [EntryNext]_entryVars => [CacheNext]_cacheVars
  BY DEF EntryNext, Ask, EntryStep, Stat, AnswerStat, Seen, Answer, AskOther, CacheNext,
         entryVars, InfoStep
<1>3. QED
  BY <1>1, <1>2, PTL DEF EntrySafety, CacheSafety

\* No key is ever removed from a shard.
LEMMA KeysGrow ==
  ASSUME FilterInv, [FilterNext]_filterVars
  PROVE  \A s \in Shard : keys[s] \subseteq keys'[s]
<1> USE DEF FilterInv, FilterTypeOK
<1>1. ASSUME NEW c \in Caller, Add(c) PROVE \A s \in Shard : keys[s] \subseteq keys'[s]
  BY <1>1 DEF Add
<1>2. ASSUME keys' = keys PROVE \A s \in Shard : keys[s] \subseteq keys'[s]
  BY <1>2
<1>3. QED
  BY <1>1, <1>2
  DEF FilterNext, CallStep, Enter, EnterUnknown, Lock, Look, Unlock, Return, filterVars

\* Entry as a whole, with its calls of Info() or Stat(), is an atomic test-and-set, too.
THEOREM EntryIsAtomic == EntrySafety => ImplementsTestAndSet
<1>1. QED
  BY EntryIsFilter, FilterIsAtomic, PTL

-----------------------------------------------------------------------------
(* Who is told that the entry is new.                                      *)

\* The key all callers for the shared entry look up, once the system call was made, and
\* whether the filter has it.
SharedKnown    == ptr # Null /\ once[ptr] = "done"
SharedRecorded == /\ SharedKnown
                  /\ value[ptr] \in Key
                  /\ value[ptr] \in keys[value[ptr][2] % NumShards]

\* A caller for the shared entry that will be told it is new.
ToldNew(c) == c \in asking /\ pc[c] \in {"unlock", "return"} /\ ~answer[c]

\* In seen() every caller for the shared entry has the same key; those whose stat
\* failed skip it and are told the entry was seen.
SharedCalls ==
  \A c \in asking : pc[c] # "idle" =>
    \/ SharedKnown /\ key[c] \in Key /\ key[c] = value[ptr]
    \/ pc[c] = "return" /\ answer[c]

\* At most one caller is or was told so, and then the key is recorded.
NewOnce ==
  /\ news \in {0, 1}
  /\ news = 1 => SharedRecorded
  /\ \A c \in Caller : ToldNew(c) => news = 0 /\ SharedRecorded
  /\ \A c, d \in Caller : ToldNew(c) /\ ToldNew(d) => c = d

EntryInv == EntryTypeOK /\ FilterInv /\ CacheInv /\ SharedCalls /\ NewOnce

LEMMA EntryInvInit == EntryInit => EntryInv
<1>1. SUFFICES ASSUME EntryInit PROVE EntryInv
  OBVIOUS
<1>2. FilterInv /\ CacheInv
  BY <1>1, FilterInvInit, CacheInvInit DEF EntryInit
<1>3. EntryTypeOK
  BY <1>1, <1>2 DEF EntryInit, EntryTypeOK, FilterInit, CacheInit, FilterInv, CacheInv
<1>4. SharedCalls /\ NewOnce
  BY <1>1 DEF EntryInit, SharedCalls, NewOnce, ToldNew
<1>5. QED
  BY <1>2, <1>3, <1>4 DEF EntryInv

LEMMA EntryInvStep == EntryInv /\ [EntryNext]_entryVars => EntryInv'
<1>1. SUFFICES ASSUME EntryInv, [EntryNext]_entryVars PROVE EntryInv'
  OBVIOUS
<1>2. [FilterNext]_filterVars /\ [CacheNext]_cacheVars
  BY <1>1
  DEF EntryNext, Ask, EntryStep, Stat, AnswerStat, Seen, Answer, AskOther, FilterNext,
      CacheNext, entryVars, CallStep, InfoStep
<1>3. FilterInv' /\ CacheInv'
  BY <1>1, <1>2, FilterInvStep, CacheInvStep DEF EntryInv
<1>4. /\ pc \in [Caller -> {"idle", "lock", "look", "add", "unlock", "return"}]
      /\ key \in [Caller -> Key \cup {NoKey}]
      /\ answer \in [Caller -> BOOLEAN]
      /\ keys \in [Shard -> SUBSET Key]
      /\ step \in [Caller -> {"idle", "alloc", "swap", "reload", "once", "call", "leave", "return"}]
      /\ asking \subseteq Caller
      /\ \A c \in Caller :
           /\ step[c] # "idle" => pc[c] = "idle" /\ c \in asking
           /\ c \in asking => step[c] # "idle" \/ pc[c] # "idle"
           /\ pc[c] \in {"lock", "look", "add", "unlock"} => key[c] \in Key
  BY <1>1 DEF EntryInv, EntryTypeOK, FilterInv, FilterTypeOK, CacheTypeOK, KeyInHand
<1>5. EntryTypeOK'
  <2>1. SUFFICES /\ asking' \subseteq Caller
                 /\ \A c \in Caller :
                      /\ step'[c] # "idle" => pc'[c] = "idle" /\ c \in asking'
                      /\ c \in asking' => step'[c] # "idle" \/ pc'[c] # "idle"
    BY <1>3 DEF EntryTypeOK, FilterInv, CacheInv
  <2> USE <1>4
  <2>2. ASSUME NEW c \in Caller, Ask(c) PROVE <2>1!1
    BY <2>2 DEF Ask, Load, filterVars
  <2>3. ASSUME NEW c \in Caller, Stat(c) PROVE <2>1!1
    BY <2>3 DEF Stat, InfoStep, Allocate, Swap, Reload, EnterOnce, PassOnce, SystemCall,
                LeaveOnce, GiveInfo, filterVars
  <2>4. ASSUME NEW c \in Caller, AnswerStat(c) PROVE <2>1!1
    BY <2>4 DEF AnswerStat, GiveInfo, Enter, EnterUnknown
  <2>5. ASSUME NEW c \in Caller, NEW k \in Key, AskOther(c, k) PROVE <2>1!1
    BY <2>5 DEF AskOther, Enter, cacheVars
  <2>6. ASSUME NEW c \in Caller, Seen(c) PROVE <2>1!1
    BY <2>6 DEF Seen, CallStep, Lock, Look, Add, Unlock, Return, cacheVars
  <2>7. ASSUME NEW c \in Caller, Answer(c) PROVE <2>1!1
    BY <2>7 DEF Answer, Return, cacheVars
  <2>8. CASE UNCHANGED entryVars
    BY <2>8 DEF entryVars, filterVars, cacheVars
  <2>9. QED
    BY <1>1, <2>2, <2>3, <2>4, <2>5, <2>6, <2>7, <2>8 DEF EntryNext, EntryStep
<1>6. SharedKnown => SharedKnown' /\ ptr' = ptr /\ value'[ptr] = value[ptr]
  BY <1>1, <1>2, CacheStable DEF EntryInv, SharedKnown
<1>7. SharedRecorded => SharedRecorded'
  <2>1. SUFFICES ASSUME SharedRecorded PROVE SharedRecorded'
    OBVIOUS
  <2>2. value[ptr] \in Key /\ value[ptr][2] % NumShards \in Shard
    BY <2>1, KeyFacts DEF SharedRecorded
  <2>3. keys[value[ptr][2] % NumShards] \subseteq keys'[value[ptr][2] % NumShards]
    BY <1>1, <1>2, <2>2, KeysGrow DEF EntryInv
  <2>4. QED  BY <1>6, <2>1, <2>3 DEF SharedRecorded
<1>8. /\ SharedCalls
      /\ \A c \in Caller : step[c] = "return" => SharedKnown /\ fi[c] = ptr
  BY <1>1 DEF EntryInv, CacheInv, OnceGuards, Installed, SharedKnown
<1>9. SharedCalls'
  <2> USE <1>4, <1>6, <1>8 DEF SharedCalls
  <2>1. ASSUME NEW c \in Caller, Ask(c) PROVE SharedCalls'
    BY <2>1 DEF Ask, filterVars
  <2>2. ASSUME NEW c \in Caller, Stat(c) PROVE SharedCalls'
    BY <2>2 DEF Stat, filterVars
  <2>3. ASSUME NEW c \in Caller, AnswerStat(c) PROVE SharedCalls'
    <3>1. step[c] = "return" /\ asking' = asking
      BY <2>3 DEF AnswerStat, GiveInfo
    <3>2. ASSUME value[fi[c]] \in Key, Enter(c, value[fi[c]]) PROVE SharedCalls'
      BY <3>1, <3>2 DEF Enter
    <3>3. ASSUME EnterUnknown(c) PROVE SharedCalls'
      BY <3>1, <3>3, EntryAssumption DEF EnterUnknown
    <3>4. QED  BY <2>3, <3>2, <3>3 DEF AnswerStat
  <2>4. ASSUME NEW c \in Caller, NEW k \in Key, AskOther(c, k) PROVE SharedCalls'
    <3>1. c \notin asking /\ asking' = asking
      BY <2>4 DEF AskOther, Enter
    <3>2. QED  BY <2>4, <3>1 DEF AskOther, Enter
  <2>5. ASSUME NEW c \in Caller, Seen(c) PROVE SharedCalls'
    <3>1. /\ key' = key /\ asking' = asking /\ pc[c] \notin {"idle", "return"}
          /\ \A d \in Caller \ {c} : pc'[d] = pc[d] /\ answer'[d] = answer[d]
      BY <2>5 DEF Seen, CallStep, Lock, Look, Add, Unlock, Return
    <3>2. QED  BY <3>1
  <2>6. ASSUME NEW c \in Caller, Answer(c) PROVE SharedCalls'
    BY <2>6 DEF Answer, Return
  <2>7. CASE UNCHANGED entryVars
    BY <2>7 DEF entryVars, filterVars, cacheVars
  <2>8. QED
    BY <1>1, <2>1, <2>2, <2>3, <2>4, <2>5, <2>6, <2>7 DEF EntryNext, EntryStep
<1>10. NewOnce
  BY <1>1 DEF EntryInv
<1>11. ASSUME news' = news, \A d \in Caller : ToldNew(d)' => ToldNew(d) PROVE NewOnce'
  BY <1>7, <1>10, <1>11 DEF NewOnce
<1>12. ASSUME NEW c \in Caller, Ask(c) PROVE NewOnce'
  BY <1>4, <1>11, <1>12 DEF Ask, filterVars, ToldNew
<1>13. ASSUME NEW c \in Caller, Stat(c) PROVE NewOnce'
  BY <1>11, <1>13 DEF Stat, filterVars, ToldNew
<1>14. ASSUME NEW c \in Caller, AnswerStat(c) PROVE NewOnce'
  <2>1. asking' = asking /\ news' = news
    BY <1>14 DEF AnswerStat
  <2>2. ASSUME NEW k, Enter(c, k) PROVE NewOnce'
    BY <1>4, <1>11, <2>1, <2>2 DEF Enter, ToldNew
  <2>3. ASSUME EnterUnknown(c) PROVE NewOnce'
    BY <1>4, <1>11, <2>1, <2>3, EntryAssumption DEF EnterUnknown, ToldNew
  <2>4. QED  BY <1>14, <2>2, <2>3 DEF AnswerStat
<1>15. ASSUME NEW c \in Caller, NEW k \in Key, AskOther(c, k) PROVE NewOnce'
  BY <1>4, <1>11, <1>15 DEF AskOther, Enter, ToldNew
<1>16. ASSUME NEW c \in Caller, Seen(c) PROVE NewOnce'
  <2>1. /\ asking' = asking /\ news' = news /\ pc[c] # "return"
        /\ \A d \in Caller \ {c} : pc'[d] = pc[d] /\ answer'[d] = answer[d]
    BY <1>4, <1>16 DEF Seen, CallStep, Lock, Look, Add, Unlock, Return
  <2>2. ASSUME Lock(c) \/ Unlock(c) PROVE NewOnce'
    BY <1>4, <1>11, <2>1, <2>2 DEF Lock, Unlock, ToldNew
  <2>3. ASSUME Look(c) PROVE NewOnce'
    <3>1. CASE FoundKey(c)
      BY <1>4, <1>11, <2>1, <3>1 DEF FoundKey, ToldNew
    <3>2. CASE MissedKey(c)
      BY <1>4, <1>11, <2>1, <3>2 DEF MissedKey, ToldNew
    <3>3. QED  BY <2>3, <3>1, <3>2, LookCases
  <2>4. ASSUME Add(c), c \notin asking PROVE NewOnce'
    BY <1>11, <2>1, <2>4 DEF ToldNew
  <2>5. ASSUME Add(c), c \in asking PROVE NewOnce'
    <3>1. /\ SharedKnown /\ key[c] \in Key /\ key[c] = value[ptr]
          /\ pc[c] = "add" /\ key[c] \notin keys[ShardOf(c)]
      BY <1>1, <1>8, <2>5 DEF Add, SharedCalls, EntryInv, FilterInv, UnderMutex
    <3>2. ~SharedRecorded
      BY <3>1 DEF SharedRecorded, ShardOf
    <3>3. news = 0 /\ \A d \in Caller : ~ToldNew(d)
      BY <1>10, <3>2 DEF NewOnce
    <3>4. \A d \in Caller : ToldNew(d)' => d = c
      BY <2>1, <3>3 DEF ToldNew
    <3>5. ShardOf(c) \in Shard
      BY <3>1, KeyFacts DEF ShardOf
    <3>6. key[c] \in keys'[ShardOf(c)]
      BY <1>4, <2>5, <3>5 DEF Add
    <3>7. SharedRecorded'
      BY <1>6, <3>1, <3>6 DEF SharedRecorded, ShardOf
    <3>8. QED  BY <2>1, <3>3, <3>4, <3>7 DEF NewOnce
  <2>6. QED  BY <1>16, <2>1, <2>2, <2>3, <2>4, <2>5 DEF Seen, CallStep, Return
<1>17. ASSUME NEW c \in Caller, Answer(c) PROVE NewOnce'
  <2>1. \A d \in Caller : ToldNew(d)' <=> d # c /\ ToldNew(d)
    BY <1>4, <1>17 DEF Answer, Return, ToldNew
  <2>2. CASE ToldNew(c)
    <3>1. news' = 1 /\ SharedRecorded
      BY <1>10, <1>17, <2>2 DEF Answer, NewOnce, ToldNew
    <3>2. \A d \in Caller : ~ToldNew(d)'
      BY <1>10, <2>1, <2>2 DEF NewOnce
    <3>3. QED  BY <1>7, <3>1, <3>2 DEF NewOnce
  <2>3. CASE ~ToldNew(c)
    <3>1. news' = news
      BY <1>17, <2>3 DEF Answer, Return, ToldNew
    <3>2. QED  BY <1>11, <2>1, <3>1
  <2>4. QED  BY <2>2, <2>3
<1>18. ASSUME UNCHANGED entryVars PROVE NewOnce'
  BY <1>11, <1>18 DEF entryVars, filterVars, ToldNew
<1>19. NewOnce'
  BY <1>1, <1>12, <1>13, <1>14, <1>15, <1>16, <1>17, <1>18 DEF EntryNext, EntryStep
<1>20. QED
  BY <1>3, <1>5, <1>9, <1>19 DEF EntryInv

LEMMA EntryInvAlways == EntrySafety => []EntryInv
<1>1. QED
  BY EntryInvInit, EntryInvStep, PTL DEF EntrySafety

\* The variables of both parts keep their types, and a goroutine is in one of them.
THEOREM EntryTypeCorrect == EntrySafety => []EntryTypeOK
<1>1. EntryInv => EntryTypeOK
  BY DEF EntryInv
<1>2. QED
  BY <1>1, EntryInvAlways, PTL

\* adapters.go:23: of all calls of Entry for one entry, at most one is told that it is
\* new, for any number of goroutines, whatever the file system answers and whatever
\* other files are asked for meanwhile.
THEOREM OneIsNewAlways == EntrySafety => []OneIsNew
<1>1. EntryInv => OneIsNew
  BY DEF EntryInv, NewOnce, OneIsNew
<1>2. QED
  BY <1>1, EntryInvAlways, PTL
=============================================================================
