--------------------------- MODULE RuntimeServices --------------------------
(***************************************************************************)
(* What the process keeps for its operator, in memory and on disk:         *)
(*   - the log level, which POST /actions/loglevel writes to config.yml     *)
(*     and then switches (actions.go, config.go UpdateLogLevel), and which  *)
(*     decides what reaches the ring of LogRing;                            *)
(*   - the charts: every interval the growth of the counters since the last *)
(*     is written to the table stats (server.go recordStats, stats.go).     *)
(* Memory is lost in a crash.  A file is an inode behind a name: a rename   *)
(* moves the inode, also under a handler that still writes to it.           *)
(***************************************************************************)
EXTENDS LogRing, FiniteSets

CONSTANTS
  Level,       \* the slog levels that are set and logged
  Info, Error, \* the levels the handler itself logs at
  Setters,     \* goroutines that serve POST /actions/loglevel
  Metrics,     \* the counters that are charted as growth
  None,        \* no inode, no recording under way
  Torn,        \* the content of a file truncated or half written
  MaxEvents    \* bound on what comes from outside: requests, lines, calls, ticks, faults

ASSUME ServicesAssumption ==
  /\ Line = Level /\ Level \subseteq Int /\ {Info, Error} \subseteq Level
  /\ IsFiniteSet(Setters) /\ Torn \notin Level
  /\ None \notin Nat /\ None \notin [Metrics -> Nat]
  /\ MaxEvents \in Nat

Inodes == 1..(Cardinality(Setters) + 2)

VARIABLES
  running,     \* the process is up
  level,       \* LevelVar
  file,        \* file.config and file.tmp: the inode of the name, or None
  data,        \* the content of each inode: a level, or Torn
  setter,      \* setter[s]: where the request is, the level it sets, the inode it writes
  overlapped,  \* two requests for a level were under way at once in this process (history)
  faulted,     \* a write failed, or the process died, since then (history)
  counted,     \* the counters: queue.Stats and DBLockErrors
  baseline,    \* prevSuccessfulCalls, prevFailedCalls, prev429Calls, prevDBLockErrors
  pending,     \* the growth recordStats is about to write, or None
  rows,        \* the rows of the table stats, by time
  total, pruned, missing,   \* history: all that was counted, pruned, and never written
  events

levelVars == <<level, file, data, setter, overlapped, faulted>>
statVars == <<counted, baseline, pending, rows, total, pruned, missing>>
vars == <<ringVars, levelVars, statVars, running, events>>

Zero == [m \in Metrics |-> 0]
Plus(f, g) == [m \in Metrics |-> f[m] + g[m]]
Minus(f, g) == [m \in Metrics |-> f[m] - g[m]]

Idle == [pc |-> "idle", new |-> None, fd |-> None]
AtRest == \A s \in Setters : setter[s] = Idle

Init ==
  /\ RingInit
  /\ running = TRUE
  /\ level \in Level
  /\ file = [config |-> 1, tmp |-> None]
  /\ data = [i \in Inodes |-> IF i = 1 THEN level ELSE Torn]
  /\ setter = [s \in Setters |-> Idle]
  /\ overlapped = FALSE /\ faulted = FALSE
  /\ counted = Zero /\ baseline = Zero /\ pending = None /\ rows = <<>>
  /\ total = Zero /\ pruned = Zero /\ missing = Zero
  /\ events = 0

\* Something comes from outside.
Event == running /\ events < MaxEvents /\ events' = events + 1

-----------------------------------------------------------------------------
\* slog asks Enabled, with LevelVar as it is, before Handle.
Record(l, at) == IF l >= at THEN Handle(l) ELSE UNCHANGED ringVars

\* Any other goroutine logs a line.
Log(l) ==
  /\ Event
  /\ l >= level
  /\ Handle(l)
  /\ UNCHANGED <<levelVars, statVars, running>>

-----------------------------------------------------------------------------
Goto(s, pc) == setter' = [setter EXCEPT ![s].pc = pc]

\* 500: the failure is logged, the level stays.
PersistFails(s) ==
  /\ setter' = [setter EXCEPT ![s] = Idle]
  /\ Record(Error, level)
  /\ UNCHANGED level

\* Mutant: the level is switched before it is persisted.
ReadConfigSwitches(s, l) ==
  /\ Event
  /\ setter[s] = Idle
  /\ data[file.config] # Torn
  /\ overlapped' = (overlapped \/ ~AtRest)
  /\ level' = l
  /\ setter' = [setter EXCEPT ![s] =
                  [pc |-> IF data[file.config] = l THEN "set" ELSE "open", new |-> l, fd |-> None]]
  /\ UNCHANGED <<ringVars, file, data, faulted, statVars, running>>

\* A valid level, then UpdateLogLevel up to its write: a config that does not parse is an
\* error, one that has the level already is left alone.
ReadConfig(s, l) ==
  LET stored == data[file.config] IN
  /\ Event
  /\ setter[s] = Idle
  /\ overlapped' = (overlapped \/ ~AtRest)
  /\ \/ stored = Torn /\ PersistFails(s)
     \/ /\ stored # Torn
        /\ setter' = [setter EXCEPT ![s] =
                        [pc |-> IF stored = l THEN "set" ELSE "open", new |-> l, fd |-> None]]
        /\ UNCHANGED <<ringVars, level>>
  /\ UNCHANGED <<file, data, faulted, statVars, running>>

Referenced == {file.config, file.tmp} \cup {setter[s].fd : s \in Setters}

\* os.WriteFile opens the temp file, whose name all requests share, and truncates it.
OpenTmp(s) ==
  LET inode == IF file.tmp # None THEN file.tmp
               ELSE CHOOSE i \in Inodes : i \notin Referenced
  IN /\ running /\ setter[s].pc = "open"
     /\ file' = [file EXCEPT !.tmp = inode]
     /\ data' = [data EXCEPT ![inode] = Torn]
     /\ setter' = [setter EXCEPT ![s].pc = "write", ![s].fd = inode]
     /\ UNCHANGED <<ringVars, level, overlapped, faulted, statVars, running, events>>

WriteTmp(s) ==
  /\ running /\ setter[s].pc = "write"
  /\ data' = [data EXCEPT ![setter[s].fd] = setter[s].new]
  /\ setter' = [setter EXCEPT ![s].pc = "rename", ![s].fd = None]
  /\ UNCHANGED <<ringVars, level, file, overlapped, faulted, statVars, running, events>>

\* The disk is full: the temp file stays as it is.
WriteFails(s) ==
  /\ Event
  /\ setter[s].pc \in {"open", "write"}
  /\ PersistFails(s)
  /\ faulted' = TRUE
  /\ UNCHANGED <<file, data, overlapped, statVars, running>>

\* os.Rename, whichever request wrote what the name stands for now.
RenameTmp(s) ==
  /\ running /\ setter[s].pc = "rename" /\ file.tmp # None
  /\ file' = [config |-> file.tmp, tmp |-> None]
  /\ Goto(s, "set")
  /\ UNCHANGED <<ringVars, level, data, overlapped, faulted, statVars, running, events>>

\* Another request has renamed or removed the temp file, or the disk fails.
RenameFails(s) ==
  /\ running /\ setter[s].pc = "rename"
  /\ \/ file.tmp = None /\ UNCHANGED <<faulted, events>>
     \/ file.tmp # None /\ Event /\ faulted' = TRUE
  /\ Goto(s, "remove")
  /\ UNCHANGED <<ringVars, level, file, data, overlapped, statVars, running>>

\* os.Remove of the name, whoever has opened it meanwhile; its error is ignored.
RemoveTmp(s) ==
  /\ running /\ setter[s].pc = "remove"
  /\ \/ file' = [file EXCEPT !.tmp = None] /\ UNCHANGED <<faulted, events>>
     \/ Event /\ faulted' = TRUE /\ UNCHANGED file
  /\ PersistFails(s)
  /\ UNCHANGED <<data, overlapped, statVars, running>>

\* LevelVar.Set, a line at Info, 200.
SetLevel(s) ==
  /\ running /\ setter[s].pc = "set"
  /\ level' = setter[s].new
  /\ setter' = [setter EXCEPT ![s] = Idle]
  /\ Record(Info, level')
  /\ UNCHANGED <<file, data, overlapped, faulted, statVars, running, events>>

-----------------------------------------------------------------------------
\* A call ends, TorBox answers 429, a write finds the database locked.
Count(m) ==
  /\ Event
  /\ counted' = [counted EXCEPT ![m] = @ + 1]
  /\ total' = [total EXCEPT ![m] = @ + 1]
  /\ UNCHANGED <<ringVars, levelVars, baseline, pending, rows, pruned, missing, running>>

\* statsTick: recordStats reads the counters, each under its own lock, and moves the
\* baselines to what it has read.
RecordStats ==
  /\ Event
  /\ pending = None
  /\ pending' = Minus(counted, baseline)
  /\ baseline' = counted
  /\ UNCHANGED <<ringVars, levelVars, counted, rows, total, pruned, missing, running>>

Sum(rs) == [m \in Metrics |-> LET sum[n \in 0..Len(rs)] == IF n = 0 THEN 0 ELSE sum[n - 1] + rs[n][m]
                              IN sum[Len(rs)]]

\* PruneStats: the oldest rows go, as many as are past the retention.
PruneStats(rs) ==
  \E k \in 0..Len(rs) :
    /\ rows' = SubSeq(rs, k + 1, Len(rs))
    /\ pruned' = Plus(pruned, Sum(SubSeq(rs, 1, k)))

\* Mutant: the baselines are moved after the write, to counters read again.
InsertRereads ==
  /\ running /\ pending # None
  /\ PruneStats(Append(rows, pending))
  /\ pending' = None
  /\ baseline' = counted
  /\ UNCHANGED <<ringVars, levelVars, counted, total, missing, running, events>>

\* The transaction of RecordStats commits, then the same goroutine prunes.
InsertStats ==
  /\ running /\ pending # None
  /\ PruneStats(Append(rows, pending))
  /\ pending' = None
  /\ UNCHANGED <<ringVars, levelVars, counted, baseline, total, missing, running, events>>

\* It rolls back: a line at debug, and the interval is gone.
InsertFails ==
  /\ Event
  /\ pending # None
  /\ PruneStats(rows)
  /\ missing' = Plus(missing, pending)
  /\ pending' = None
  /\ UNCHANGED <<ringVars, levelVars, counted, baseline, total, running>>

-----------------------------------------------------------------------------
\* The process dies: requests, the ring, the counters and what is not written are gone.
Crash ==
  /\ Event
  /\ running' = FALSE
  /\ setter' = [s \in Setters |-> Idle]
  /\ faulted' = TRUE
  /\ missing' = Plus(missing, Plus(Minus(counted, baseline), IF pending = None THEN Zero ELSE pending))
  /\ counted' = Zero /\ baseline' = Zero /\ pending' = None
  /\ buf' = [i \in 0..Capacity - 1 |-> NoLine] /\ pos' = 0 /\ full' = FALSE /\ handled' = <<>>
  /\ UNCHANGED <<level, file, data, overlapped, rows, total, pruned>>

\* main: a config that does not load ends the process.
Restart ==
  /\ ~running
  /\ data[file.config] # Torn
  /\ running' = TRUE
  /\ level' = data[file.config]
  /\ overlapped' = FALSE /\ faulted' = FALSE
  /\ UNCHANGED <<ringVars, file, data, setter, statVars, events>>

Next ==
  \/ \E l \in Level : Log(l)
  \/ \E s \in Setters :
       \/ \E l \in Level : ReadConfig(s, l)
       \/ OpenTmp(s) \/ WriteTmp(s) \/ WriteFails(s)
       \/ RenameTmp(s) \/ RenameFails(s) \/ RemoveTmp(s) \/ SetLevel(s)
  \/ \E m \in Metrics : Count(m)
  \/ RecordStats \/ InsertStats \/ InsertFails
  \/ Crash \/ Restart

Spec == Init /\ [][Next]_vars

-----------------------------------------------------------------------------
\* The level on disk is the one the process runs with, through failed writes, crashes and
\* restarts, as long as no two requests overlap (actions.go:82-94); the config can always
\* be loaded, unless they overlap (config.go:481-489), and then too once they are over,
\* if no write failed and the process did not die.
LevelPersisted ==
  LET stored == data[file.config] IN
  /\ running /\ AtRest /\ ~overlapped => stored = level
  /\ stored = Torn => overlapped
  /\ stored = Torn /\ AtRest => faulted

\* Every event counted is in exactly one place: in a row of the charts, pruned with one, in
\* an interval whose write failed or whose process died, about to be written, or counted
\* since the last interval; and no row has a negative growth (server.go:320-351).
StatsAccounted ==
  /\ \A m \in Metrics :
       total[m] = Sum(rows)[m] + pruned[m] + missing[m] + (counted[m] - baseline[m])
                    + (IF pending = None THEN 0 ELSE pending[m])
  /\ \A i \in DOMAIN rows : \A m \in Metrics : rows[i][m] >= 0
=============================================================================
