---------------------------- MODULE FileInfoCache ----------------------------
(***************************************************************************)
(* One cached result of a DirEntry, Info() or Stat(), that many goroutines *)
(* may ask for at once (loadFileInfo in dirent.go, Info and Stat in        *)
(* dirent_unix.go, Stat in dirent_portable.go): a pointer to a fileInfo is *)
(* loaded atomically, or installed by compare-and-swap, and the system     *)
(* call is made in the sync.Once of the fileInfo.                          *)
(***************************************************************************)
EXTENDS Integers, FiniteSets, Callers

CONSTANTS
  Object,     \* the fileInfo values that can be allocated
  Null,       \* the nil pointer
  Outcome,    \* the results of the system call; the file may change between calls
  NoOutcome,  \* "no result yet"
  MaxInfos    \* bound: how many calls are made altogether

ASSUME CacheAssumption ==
  /\ Null \notin Object
  /\ NoOutcome \notin Outcome
  /\ MaxInfos \in Nat

VARIABLES
  ptr,       \* the field d.info or d.stat
  once,      \* once[o]: "new", "running" or "done"
  value,     \* value[o]: what the system call returned
  step,      \* where each caller is
  fi,        \* the fileInfo each caller has in hand
  allocated, \* the objects in use
  asked,     \* the number of calls made
  results    \* history: what calls have returned

cacheVars == <<ptr, once, value, step, fi, allocated, asked, results>>

\* The cache of an entry is empty; that of the root holds what Walk has stat'ed
\* (fileInfoToDirEntry).
CacheInit ==
  /\ \E o \in Object, v \in Outcome :
       \/ /\ ptr = Null
          /\ once = [x \in Object |-> "new"]
          /\ value = [x \in Object |-> NoOutcome]
          /\ allocated = {}
       \/ /\ ptr = o
          /\ once = [x \in Object |-> IF x = o THEN "done" ELSE "new"]
          /\ value = [x \in Object |-> IF x = o THEN v ELSE NoOutcome]
          /\ allocated = {o}
  /\ step = [c \in Caller |-> "idle"]
  /\ fi = [c \in Caller |-> Null]
  /\ asked = 0
  /\ results = {}

\* Info() or Stat() is called: atomic.LoadPointer.
Load(c) ==
  /\ step[c] = "idle"
  /\ asked < MaxInfos
  /\ asked' = asked + 1
  /\ fi' = [fi EXCEPT ![c] = ptr]
  /\ step' = [step EXCEPT ![c] = IF ptr = Null THEN "alloc" ELSE "once"]
  /\ UNCHANGED <<ptr, once, value, allocated, results>>

\* fi = &fileInfo{}
Allocate(c, o) ==
  /\ step[c] = "alloc"
  /\ o \notin allocated
  /\ allocated' = allocated \cup {o}
  /\ fi' = [fi EXCEPT ![c] = o]
  /\ step' = [step EXCEPT ![c] = "swap"]
  /\ UNCHANGED <<ptr, once, value, asked, results>>

\* Faulty variant: the pointer is stored unconditionally.
Store(c) ==
  /\ step[c] = "swap"
  /\ ptr' = fi[c]
  /\ step' = [step EXCEPT ![c] = "once"]
  /\ UNCHANGED <<once, value, fi, allocated, asked, results>>

\* atomic.CompareAndSwapPointer(pinfo, nil, fi)
Swap(c) ==
  /\ step[c] = "swap"
  /\ ptr' = IF ptr = Null THEN fi[c] ELSE ptr
  /\ step' = [step EXCEPT ![c] = IF ptr = Null THEN "once" ELSE "reload"]
  /\ UNCHANGED <<once, value, fi, allocated, asked, results>>

\* The swap failed: atomic.LoadPointer again.
Reload(c) ==
  /\ step[c] = "reload"
  /\ fi' = [fi EXCEPT ![c] = ptr]
  /\ step' = [step EXCEPT ![c] = "once"]
  /\ UNCHANGED <<ptr, once, value, allocated, asked, results>>

\* once.Do: the first caller runs the function,
EnterOnce(c) ==
  /\ step[c] = "once"
  /\ once[fi[c]] = "new"
  /\ once' = [once EXCEPT ![fi[c]] = "running"]
  /\ step' = [step EXCEPT ![c] = "call"]
  /\ UNCHANGED <<ptr, value, fi, allocated, asked, results>>

\* the others wait until it has finished (the faulty variant does not wait).
PassRunning(c) ==
  /\ step[c] = "once"
  /\ once[fi[c]] # "new"
  /\ step' = [step EXCEPT ![c] = "return"]
  /\ UNCHANGED <<ptr, once, value, fi, allocated, asked, results>>

PassOnce(c) ==
  /\ step[c] = "once"
  /\ once[fi[c]] = "done"
  /\ step' = [step EXCEPT ![c] = "return"]
  /\ UNCHANGED <<ptr, once, value, fi, allocated, asked, results>>

\* info.FileInfo, info.err = os.Lstat(...), or os.Stat(...)
SystemCall(c, v) ==
  /\ step[c] = "call"
  /\ value' = [value EXCEPT ![fi[c]] = v]
  /\ step' = [step EXCEPT ![c] = "leave"]
  /\ UNCHANGED <<ptr, once, fi, allocated, asked, results>>

\* The function returns, once.Do with it.
LeaveOnce(c) ==
  /\ step[c] = "leave"
  /\ once' = [once EXCEPT ![fi[c]] = "done"]
  /\ step' = [step EXCEPT ![c] = "return"]
  /\ UNCHANGED <<ptr, value, fi, allocated, asked, results>>

\* return info.FileInfo, info.err
GiveInfo(c) ==
  /\ step[c] = "return"
  /\ results' = results \cup {value[fi[c]]}
  /\ fi' = [fi EXCEPT ![c] = Null]
  /\ step' = [step EXCEPT ![c] = "idle"]
  /\ UNCHANGED <<ptr, once, value, allocated, asked>>

\* The steps of a call under way.
InfoStep(c) ==
  \/ \E o \in Object : Allocate(c, o)
  \/ Swap(c) \/ Reload(c)
  \/ EnterOnce(c) \/ PassOnce(c)
  \/ \E v \in Outcome : SystemCall(c, v)
  \/ LeaveOnce(c) \/ GiveInfo(c)

CacheNext == \E c \in Caller : Load(c) \/ InfoStep(c)

CacheSafety == CacheInit /\ [][CacheNext]_cacheVars

-----------------------------------------------------------------------------
\* The types of the variables.
CacheTypeOK ==
  /\ ptr \in Object \cup {Null}
  /\ once \in [Object -> {"new", "running", "done"}]
  /\ value \in [Object -> Outcome \cup {NoOutcome}]
  /\ step \in [Caller -> {"idle", "alloc", "swap", "reload", "once", "call", "leave", "return"}]
  /\ fi \in [Caller -> Object \cup {Null}]
  /\ \A c \in Caller : step[c] \in {"once", "call", "leave", "return"} => fi[c] \in Object
  /\ allocated \subseteq Object
  /\ asked \in 0 .. MaxInfos

\* fastwalk.go:326: the results of Info() and Stat() are cached.  All calls return
\* the same result, though the file may change between two system calls, and never
\* one that is not there yet.
ResultsAgree == Cardinality(results) <= 1 /\ NoOutcome \notin results

\* No more than one system call is made for an entry, though several fileInfo
\* values may have been allocated for it: only the installed one is ever filled.
OneSystemCall == \A o \in Object : once[o] # "new" => o = ptr
=============================================================================
