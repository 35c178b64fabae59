----------------------------- MODULE NumWorkers -----------------------------
(***************************************************************************)
(* How many workers a walk has (fastwalk.go, numcpu_darwin_arm64.go,       *)
(* numcpu_portable.go).  WalkPool relies on there being one: its channels   *)
(* have as many slots, and a walk without workers would never end.         *)
(***************************************************************************)
EXTENDS Integers

Clamped(n) == IF n < 32 THEN n ELSE 32

\* darwinNumPerfCores: -1 where there is no such number, or it cannot be read.
DarwinNumPerfCores(arm64Mac, cores) == IF arm64Mac THEN cores ELSE -1

\* DefaultNumWorkers, for a machine m: its operating system (is it darwin, on arm64?), its
\* number of CPUs and performance cores (-1: unknown), and the value of GOMAXPROCS.
DefaultNumWorkers(m) ==
  LET perf == DarwinNumPerfCores(m.arm64, m.perfCores)
  IN  IF m.procs < 4 THEN 4
      ELSE IF m.procs # m.cpus \/ ~m.darwin THEN Clamped(m.procs)
      ELSE IF perf > 0 THEN perf
      ELSE IF m.procs <= 8 THEN 4
      ELSE IF m.procs <= 10 THEN 6
      ELSE 10

\* Walk: a configured number that is not positive is replaced.
NumWorkers(conf, m) == IF conf <= 0 THEN DefaultNumWorkers(m) ELSE conf

Machine == [darwin : BOOLEAN, arm64 : BOOLEAN, cpus : Nat \ {0}, procs : Nat \ {0},
            perfCores : Nat \cup {-1}]
=============================================================================
