---------------------------- MODULE SyncLifecycle ----------------------------
(***************************************************************************)
(* internal/metadata/sync.go Start, runLoop, Stop, Restart and SyncNow: who *)
(* runs syncOnce, and who can be stopped.  Restart is called by any number *)
(* of goroutines (server/actions.go starts one per click), each a Stop and *)
(* a locked section that launches a loop.  A sync waits for the throttle   *)
(* queue without looking at any context; the queue exits on shutdown and   *)
(* answers nobody afterwards.  What a sync writes is SyncStore.tla.        *)
(***************************************************************************)
EXTENDS Integers, FiniteSets

CONSTANTS
  Restarts,    \* goroutines that call Restart, once each
  Nows,        \* goroutines that call SyncNow
  None,        \* a nil cancel or loopDone
  SlowSyncs    \* may a sync take longer than the 90 s of Stop?

ASSUME LifecycleAssumption ==
  /\ IsFiniteSet(Restarts)
  /\ None \notin Nat
  /\ SlowSyncs \in BOOLEAN

\* The loops in the order they are launched: one by Start, one by each Restart.
Loops == 1..(Cardinality(Restarts) + 1)

VARIABLES
  shutdown,    \* the signal's context, parentCtx of the worker, is done
  queue,       \* the throttle queue's processLoop: "running" or "exited"
  parentSet,   \* parentCtx is not nil
  cancel,      \* the loop that w.cancel cancels
  loopDone,    \* the loop whose end closes w.loopDone
  loop,        \* loop[l]: where the loop is, and whether its own context is cancelled
  restart,     \* restart[r]: where the call is, and the loop its Stop waits for
  now          \* now[n]: where the call of SyncNow is

vars == <<shutdown, queue, parentSet, cancel, loopDone, loop, restart, now>>

Init ==
  /\ shutdown = FALSE /\ queue = "running"
  /\ parentSet = FALSE /\ cancel = None /\ loopDone = None
  /\ loop = [l \in Loops |-> [pc |-> "new", cancelled |-> FALSE]]
  /\ restart = [r \in Restarts |-> [pc |-> "idle", waits |-> None]]
  /\ now = [n \in Nows |-> "idle"]

\* A loop's context is derived from parentCtx.
CtxDone(l) == shutdown \/ loop[l].cancelled
Launched == {l \in Loops : loop[l].pc # "new"}
NextLoop == Cardinality(Launched) + 1

\* A new context, a new loopDone and a goroutine in runLoop, which syncs at once.
Launch ==
  /\ cancel' = NextLoop
  /\ loopDone' = NextLoop
  /\ loop' = [loop EXCEPT ![NextLoop].pc = "ask"]

-----------------------------------------------------------------------------
\* The locked section of Start, then runLoop; main calls it once, in a goroutine.
Start ==
  /\ ~parentSet
  /\ parentSet' = TRUE
  /\ Launch
  /\ UNCHANGED <<shutdown, queue, restart, now>>

\* syncOnce up to the two Enqueues; the wait for both answers, which the queue gives as
\* long as it runs; and the writes.  None of them looks at the context.
SyncStep(from, to) ==
  \/ from = "ask" /\ to = "await"
  \/ from = "await" /\ to = "write" /\ queue = "running"

LoopSyncs(l) ==
  /\ \E to \in {"await", "write"} :
       SyncStep(loop[l].pc, to) /\ loop' = [loop EXCEPT ![l].pc = to]
  /\ UNCHANGED <<shutdown, queue, parentSet, cancel, loopDone, restart, now>>

\* The sync is over: runLoop is at its select.
LoopSynced(l) ==
  /\ loop[l].pc = "write"
  /\ loop' = [loop EXCEPT ![l].pc = "select"]
  /\ UNCHANGED <<shutdown, queue, parentSet, cancel, loopDone, restart, now>>

\* case <-ticker.C, which the select may take even when the context is done too.
TickerFires(l) ==
  /\ loop[l].pc = "select"
  /\ loop' = [loop EXCEPT ![l].pc = "ask"]
  /\ UNCHANGED <<shutdown, queue, parentSet, cancel, loopDone, restart, now>>

\* Mutant: the loop watches the parent's context only.
LoopEndsWithParent(l) ==
  /\ loop[l].pc = "select"
  /\ shutdown
  /\ loop' = [loop EXCEPT ![l].pc = "done"]
  /\ UNCHANGED <<shutdown, queue, parentSet, cancel, loopDone, restart, now>>

\* Mutant: the loop's context is derived from context.Background().
LoopEndsAlone(l) ==
  /\ loop[l].pc = "select"
  /\ loop[l].cancelled
  /\ loop' = [loop EXCEPT ![l].pc = "done"]
  /\ UNCHANGED <<shutdown, queue, parentSet, cancel, loopDone, restart, now>>

\* case <-ctx.Done(): runLoop returns and loopDone is closed.
LoopEnds(l) ==
  /\ loop[l].pc = "select"
  /\ CtxDone(l)
  /\ loop' = [loop EXCEPT ![l].pc = "done"]
  /\ UNCHANGED <<shutdown, queue, parentSet, cancel, loopDone, restart, now>>

-----------------------------------------------------------------------------
\* Mutant: the cancel function is forgotten instead of called.
StopForgets(r) ==
  /\ restart[r].pc = "idle"
  /\ cancel' = None
  /\ restart' = [restart EXCEPT ![r] = [pc |-> IF loopDone = None THEN "relaunch" ELSE "stopping",
                                        waits |-> loopDone]]
  /\ UNCHANGED <<shutdown, queue, parentSet, loopDone, loop, now>>

\* Stop's locked section: cancel the loop, once, and take the channel to wait on.
StopCancels(r) ==
  /\ restart[r].pc = "idle"
  /\ loop' = IF cancel = None THEN loop ELSE [loop EXCEPT ![cancel].cancelled = TRUE]
  /\ cancel' = None
  /\ restart' = [restart EXCEPT ![r] = [pc |-> IF loopDone = None THEN "relaunch" ELSE "stopping",
                                        waits |-> loopDone]]
  /\ UNCHANGED <<shutdown, queue, parentSet, loopDone, now>>

\* case <-loopDone.
StopWaited(r) ==
  /\ restart[r].pc = "stopping"
  /\ loop[restart[r].waits].pc = "done"
  /\ restart' = [restart EXCEPT ![r].pc = "relaunch"]
  /\ UNCHANGED <<shutdown, queue, parentSet, cancel, loopDone, loop, now>>

\* A sync the queue will not answer any more.
Blocked(pc) == pc = "await" /\ queue = "exited"

\* A sync under way or blocked may outlast Stop; a loop at its select does not.
Outlasts(l) ==
  \/ SlowSyncs /\ loop[l].pc \in {"ask", "await", "write"}
  \/ Blocked(loop[l].pc)

\* Mutant: a Stop that timed out ends the Restart.
StopTimesOutForGood(r) ==
  /\ restart[r].pc = "stopping"
  /\ Outlasts(restart[r].waits)
  /\ restart' = [restart EXCEPT ![r].pc = "returned"]
  /\ UNCHANGED <<shutdown, queue, parentSet, cancel, loopDone, loop, now>>

\* Mutant: Stop waits for as long as it takes.
StopNeverTimesOut(r) == FALSE /\ UNCHANGED vars

\* case <-time.After(90 * time.Second): a warning, and Restart goes on.
StopTimesOut(r) ==
  /\ restart[r].pc = "stopping"
  /\ Outlasts(restart[r].waits)
  /\ restart' = [restart EXCEPT ![r].pc = "relaunch"]
  /\ UNCHANGED <<shutdown, queue, parentSet, cancel, loopDone, loop, now>>

\* Mutant: parentCtx is not checked.
RelaunchAlways(r) ==
  /\ restart[r].pc = "relaunch"
  /\ restart' = [restart EXCEPT ![r].pc = "returned"]
  /\ Launch
  /\ UNCHANGED <<shutdown, queue, parentSet, now>>

\* Restart's locked section: launch a loop, unless Start has not been called yet.
Relaunch(r) ==
  /\ restart[r].pc = "relaunch"
  /\ restart' = [restart EXCEPT ![r].pc = "returned"]
  /\ IF parentSet THEN Launch ELSE UNCHANGED <<cancel, loopDone, loop>>
  /\ UNCHANGED <<shutdown, queue, parentSet, now>>

-----------------------------------------------------------------------------
\* SyncNow; its 60 s are the deadline of a context nobody reads.
SyncNow(n) ==
  /\ \/ now[n] = "idle" /\ now' = [now EXCEPT ![n] = "ask"]
     \/ \E to \in {"await", "write"} :
          SyncStep(now[n], to) /\ now' = [now EXCEPT ![n] = to]
     \/ now[n] = "write" /\ now' = [now EXCEPT ![n] = "idle"]
  /\ UNCHANGED <<shutdown, queue, parentSet, cancel, loopDone, loop, restart>>

\* SIGINT or SIGTERM.
Shutdown ==
  /\ ~shutdown
  /\ shutdown' = TRUE
  /\ UNCHANGED <<queue, parentSet, cancel, loopDone, loop, restart, now>>

\* processLoop returns, with or without requests in the channel.
QueueExits ==
  /\ shutdown
  /\ queue = "running"
  /\ queue' = "exited"
  /\ UNCHANGED <<shutdown, parentSet, cancel, loopDone, loop, restart, now>>

Loop(l) == LoopSyncs(l) \/ LoopSynced(l) \/ TickerFires(l) \/ LoopEnds(l)
Restart(r) == StopCancels(r) \/ StopWaited(r) \/ StopTimesOut(r) \/ Relaunch(r)

Next ==
  \/ Start
  \/ \E l \in Loops : Loop(l)
  \/ \E r \in Restarts : Restart(r)
  \/ \E n \in Nows : SyncNow(n)
  \/ Shutdown
  \/ QueueExits

Spec == Init /\ [][Next]_vars

\* The goroutine of a sync runs and the queue answers it while it can; a select that
\* keeps coming back with the context done takes that branch in the end; a Restart under
\* way goes on, and so does the queue's exit (ThrottleQueue!LoopStops).  Nobody need call
\* Restart or SyncNow, and nothing forces a shutdown or a tick.
FairSpec ==
  /\ Spec
  /\ \A l \in Loops : WF_vars(LoopSyncs(l) \/ LoopSynced(l)) /\ SF_vars(LoopEnds(l))
  /\ \A r \in Restarts : WF_vars(StopWaited(r) \/ StopTimesOut(r) \/ Relaunch(r))
  /\ \A n \in Nows : WF_vars(now[n] # "idle" /\ SyncNow(n))
  /\ WF_vars(QueueExits)

-----------------------------------------------------------------------------
SyncPoints == {"ask", "await", "write"}

\* Types; a loop has a parent context and the launched loops are numbered without gaps.
TypeOK ==
  /\ shutdown \in BOOLEAN /\ queue \in {"running", "exited"}
  /\ parentSet \in BOOLEAN
  /\ cancel \in Loops \cup {None} /\ loopDone \in Loops \cup {None}
  /\ loop \in [Loops -> [pc : SyncPoints \cup {"new", "select", "done"}, cancelled : BOOLEAN]]
  /\ restart \in [Restarts -> [pc : {"idle", "stopping", "relaunch", "returned"},
                               waits : Loops \cup {None}]]
  /\ now \in [Nows -> SyncPoints \cup {"idle"}]
  /\ Launched = 1..Cardinality(Launched)
  /\ parentSet <=> Launched # {}

Live(l) == l \in Launched /\ loop[l].pc # "done" /\ ~loop[l].cancelled
Restarting == \E r \in Restarts : restart[r].pc \in {"stopping", "relaunch"}

\* However restarts, a late Start and stops that time out interleave, the library keeps
\* being synced: until the shutdown there is a loop nobody has cancelled, or a Restart on
\* its way to launch one (sync.go:116-158).
LoopNeverLost == parentSet /\ ~shutdown => Restarting \/ \E l \in Loops : Live(l)

\* A Stop waits only for a loop that has been told to end, by itself or by another Stop;
\* otherwise it would idle through its 90 s (sync.go:116-132, 149-152).
StopWaitsForCancelled ==
  \A r \in Restarts : restart[r].pc = "stopping" => loop[restart[r].waits].cancelled

\* sync.go:134, "Restart stops the current sync loop and starts a fresh one": when no
\* Restart is under way, no loop runs on beside the one that w.cancel can still stop.
NoOrphanLoop == ~Restarting => \A l \in Loops : Live(l) => cancel = l

\* A Restart returns, also when the loop it stops is blocked for ever (sync.go:125-131).
RestartEnds == \A r \in Restarts : restart[r].pc = "stopping" ~> restart[r].pc = "returned"

\* A loop that is stopped does end, after the syncs it may still begin; only a shutdown,
\* with the queue gone, may leave it blocked in one (sync.go:103-110).
StoppedLoopEnds == \A l \in Loops : loop[l].cancelled ~> loop[l].pc = "done" \/ queue = "exited"

\* After a shutdown every loop, also one launched meanwhile, ends or is blocked in a sync
\* that the queue has dropped (sync.go:107-109, 149, 335-340).
ShutdownSettles ==
  \A l \in Loops : shutdown /\ l \in Launched ~> loop[l].pc = "done" \/ Blocked(loop[l].pc)
=============================================================================
