----------------------------- MODULE EntryCalls -----------------------------
(***************************************************************************)
(* EntryFilter.Entry as a whole, on unix: StatDirEntry asks the entry for  *)
(* its cached file information (FileInfoCache), which may have to be read  *)
(* from the file system first, and seen() looks its key up (EntryFilter).  *)
(* Several goroutines ask for one entry, the adapters and walkFn, while    *)
(* others ask for files they have the key of, through entries of their own.*)
(***************************************************************************)
EXTENDS EntryFilter, FileInfoCache

CONSTANTS
  Broken,       \* the outcome of a system call that fails
  MaxOthers     \* bound: how many calls are made for other entries

ASSUME EntryAssumption ==
  /\ Broken \notin Key
  /\ Outcome \subseteq Key \cup {Broken}
  /\ MaxCalls >= MaxInfos + MaxOthers
  /\ StatError   \* as in entry_filter_unix.go

VARIABLES
  asking,   \* the callers that have called Entry for the shared entry
  others,   \* the number of calls for other entries
  news      \* history: how many calls for the shared entry were told it is new

entryVars == <<filterVars, cacheVars, asking, others, news>>

EntryInit ==
  /\ FilterInit
  /\ CacheInit
  /\ asking = {}
  /\ others = 0
  /\ news = 0

\* Entry(path, de) for the shared entry: StatDirEntry calls its Info() or Stat().
Ask(c) ==
  /\ pc[c] = "idle"
  /\ Load(c)
  /\ asking' = asking \cup {c}
  /\ UNCHANGED <<filterVars, others, news>>

\* Info() or Stat() is under way.
Stat(c) ==
  /\ step[c] # "return"
  /\ InfoStep(c)
  /\ UNCHANGED <<filterVars, asking, others, news>>

\* Faulty variant: the filter gets a result of its own from the file system.
AnswerStatFresh(c) ==
  /\ GiveInfo(c)
  /\ \E k \in Key : Enter(c, k)
  /\ UNCHANGED <<asking, others, news>>

\* StatDirEntry returns: seen() is called with the key, or Entry returns.
AnswerStat(c) ==
  /\ GiveInfo(c)
  /\ \/ value[fi[c]] \in Key /\ Enter(c, value[fi[c]])
     \/ value[fi[c]] \notin Key /\ EnterUnknown(c)
  /\ UNCHANGED <<asking, others, news>>

\* Entry for another entry, which is the file with key k.
AskOther(c, k) ==
  /\ step[c] = "idle"
  /\ others < MaxOthers
  /\ others' = others + 1
  /\ Enter(c, k)
  /\ UNCHANGED <<cacheVars, asking, news>>

\* seen() is under way.
Seen(c) ==
  /\ pc[c] # "return"
  /\ CallStep(c)
  /\ UNCHANGED <<cacheVars, asking, others, news>>

\* Entry returns.
Answer(c) ==
  /\ Return(c)
  /\ asking' = asking \ {c}
  /\ news' = IF c \in asking /\ ~answer[c] THEN news + 1 ELSE news
  /\ UNCHANGED <<cacheVars, others>>

EntryStep(c) == Stat(c) \/ AnswerStat(c) \/ Seen(c) \/ Answer(c)

EntryNext ==
  \E c \in Caller : Ask(c) \/ (\E k \in Key : AskOther(c, k)) \/ EntryStep(c)

EntrySafety == EntryInit /\ [][EntryNext]_entryVars

\* Goroutines are scheduled, system calls return, and a sync.Mutex is given to one that
\* keeps waiting.
EntrySpec ==
  /\ EntrySafety
  /\ \A c \in Caller :
       /\ WF_entryVars(EntryStep(c))
       /\ SF_entryVars(Lock(c) /\ UNCHANGED <<cacheVars, asking, others, news>>)

-----------------------------------------------------------------------------
\* The variables of both parts have their types, and a caller is in one of them.
EntryTypeOK ==
  /\ FilterTypeOK
  /\ CacheTypeOK
  /\ asking \subseteq Caller
  /\ \A c \in Caller :
       /\ step[c] # "idle" => pc[c] = "idle" /\ c \in asking
       /\ c \in asking => step[c] # "idle" \/ pc[c] # "idle"

\* adapters.go:23: of all calls of Entry for one entry at most one is told that it is
\* new, although another file may take its place between two system calls, and calls
\* for the same files come in under other names.
OneIsNew == news <= 1

\* Every call of Entry returns, for the shared entry and for others: nobody waits for a
\* mutex or in once.Do forever (entry_filter_unix.go:38, dirent_unix.go:31).
EntriesReturn ==
  \A c \in Caller : pc[c] # "idle" \/ step[c] # "idle" ~> pc[c] = "idle" /\ step[c] = "idle"
=============================================================================
