------------------------ MODULE SyncLifecycle_proofs ------------------------
(***************************************************************************)
(* For any number of restarts and SyncNows: the library keeps being synced *)
(* until the shutdown, and a Stop waits for a loop that will end.  Neither  *)
(* is inductive alone; HandleOK says what w.cancel and w.loopDone mean, and *)
(* LaunchesBounded that there is a number left for the next loop.           *)
(***************************************************************************)
EXTENDS SyncLifecycle, FiniteSetTheorems, TLAPS

Returned == {r \in Restarts : restart[r].pc = "returned"}

\* A loop is launched by Start or by a Restart that has returned.
LaunchesBounded ==
  Cardinality(Launched) <= Cardinality(Returned) + (IF parentSet THEN 1 ELSE 0)

\* cancel and loopDone belong to one loop, the last launched; where cancel is nil, that
\* loop has been cancelled.
HandleOK ==
  /\ cancel # None => cancel = loopDone
  /\ loopDone # None => loopDone \in Launched
  /\ cancel = None /\ loopDone # None => loop[loopDone].cancelled
  /\ \A l \in Loops : loop[l].pc = "new" => ~loop[l].cancelled
  /\ \A r \in Restarts : restart[r].pc = "stopping" => restart[r].waits # None

LifecycleInv ==
  TypeOK /\ LaunchesBounded /\ HandleOK /\ LoopNeverLost /\ StopWaitsForCancelled

\* There are finitely many loops to count.
LEMMA LoopsFinite ==
  /\ Cardinality(Restarts) \in Nat
  /\ Loops = 1..Cardinality(Restarts) + 1 /\ IsFiniteSet(Loops)
  /\ IsFiniteSet(Launched) /\ Cardinality(Launched) \in Nat
  /\ IsFiniteSet(Returned) /\ Cardinality(Returned) \in Nat
<1>1. Cardinality(Restarts) \in Nat
  BY FS_CardinalityType, LifecycleAssumption
<1>2. IsFiniteSet(Loops)
  BY <1>1, FS_Interval DEF Loops
<1>3. IsFiniteSet(Launched)
  BY <1>2, FS_Subset DEF Launched
<1>4. IsFiniteSet(Returned)
  BY LifecycleAssumption, FS_Subset DEF Returned
<1> QED
  BY <1>1, <1>2, <1>3, <1>4, FS_CardinalityType DEF Loops

\* A step after which the same loops are new leaves the launched ones.
LEMMA LaunchedKept ==
  ASSUME \A l \in Loops : loop'[l].pc = "new" <=> loop[l].pc = "new"
  PROVE  Launched' = Launched
  BY DEF Launched

\* While a Restart is out, or Start has not been called, there is room for one more loop.
LEMMA RoomToLaunch ==
  ASSUME TypeOK, LaunchesBounded, ~parentSet \/ \E r \in Restarts : restart[r].pc # "returned"
  PROVE  Cardinality(Launched) <= Cardinality(Restarts)
<1>1. Cardinality(Returned) <= Cardinality(Restarts)
  BY FS_Subset, LifecycleAssumption DEF Returned
<1>2. CASE ~parentSet
  BY <1>1, <1>2, LoopsFinite DEF LaunchesBounded
<1>3. CASE \E r \in Restarts : restart[r].pc # "returned"
  <2>1. Returned # Restarts
    BY <1>3 DEF Returned
  <2>2. Cardinality(Returned) < Cardinality(Restarts)
    BY <2>1, <1>1, FS_Subset, LifecycleAssumption, LoopsFinite DEF Returned
  <2> QED
    BY <2>2, LoopsFinite DEF LaunchesBounded
<1> QED
  BY <1>2, <1>3

\* The launched loops are numbered without gaps, and the next is one more.
LEMMA LaunchAdds ==
  ASSUME TypeOK, HandleOK, Cardinality(Launched) <= Cardinality(Restarts), Launch
  PROVE  /\ NextLoop \in Loops /\ NextLoop \notin Launched
         /\ loop' \in [Loops -> [pc : SyncPoints \cup {"new", "select", "done"}, cancelled : BOOLEAN]]
         /\ loop'[NextLoop].pc = "ask" /\ ~loop'[NextLoop].cancelled
         /\ \A l \in Loops : l # NextLoop => loop'[l] = loop[l]
         /\ Launched' = Launched \cup {NextLoop}
         /\ Launched' = 1..Cardinality(Launched')
         /\ Cardinality(Launched') = Cardinality(Launched) + 1
<1>1. NextLoop \in Loops
  BY LoopsFinite DEF NextLoop
<1>2. NextLoop \notin Launched
  <2>1. NextLoop \notin 1..Cardinality(Launched)
    BY LoopsFinite DEF NextLoop
  <2> QED
    BY <2>1 DEF TypeOK
<1>3. loop[NextLoop].pc = "new" /\ ~loop[NextLoop].cancelled
  BY <1>1, <1>2 DEF Launched, HandleOK
<1>4. loop' = [loop EXCEPT ![NextLoop].pc = "ask"]
  BY DEF Launch
<1>5. /\ loop' \in [Loops -> [pc : SyncPoints \cup {"new", "select", "done"}, cancelled : BOOLEAN]]
      /\ loop'[NextLoop].pc = "ask" /\ ~loop'[NextLoop].cancelled
      /\ \A l \in Loops : l # NextLoop => loop'[l] = loop[l]
  <2> HIDE DEF NextLoop
  <2> QED
    BY <1>1, <1>3, <1>4 DEF TypeOK, SyncPoints
<1>6. Launched' = Launched \cup {NextLoop}
  BY <1>1, <1>5 DEF Launched
<1>7. Cardinality(Launched') = Cardinality(Launched) + 1
  BY <1>2, <1>6, FS_AddElement, LoopsFinite
<1>8. Launched' = 1..Cardinality(Launched')
  <2>1. Launched = 1..Cardinality(Launched)
    BY DEF TypeOK
  <2>2. 1..Cardinality(Launched) + 1 = (1..Cardinality(Launched)) \cup {Cardinality(Launched) + 1}
    BY LoopsFinite
  <2> QED
    BY <2>1, <2>2, <1>6, <1>7 DEF NextLoop
<1> QED
  BY <1>1, <1>2, <1>5, <1>6, <1>7, <1>8

\* Start and Relaunch: the new loop is live and the one that can be stopped.
LEMMA LaunchKeepsInv ==
  ASSUME LifecycleInv, Launch, parentSet',
         Cardinality(Launched) <= Cardinality(Restarts),
         Cardinality(Launched) + 1 <= Cardinality(Returned') + 1,
         restart' \in [Restarts -> [pc : {"idle", "stopping", "relaunch", "returned"},
                                    waits : Loops \cup {None}]],
         \A r \in Restarts : restart'[r].pc = "stopping" => restart'[r] = restart[r],
         UNCHANGED <<shutdown, queue, now>>
  PROVE  LifecycleInv'
<1> USE DEF LifecycleInv
<1>1. /\ NextLoop \in Loops /\ NextLoop \notin Launched
      /\ loop' \in [Loops -> [pc : SyncPoints \cup {"new", "select", "done"}, cancelled : BOOLEAN]]
      /\ loop'[NextLoop].pc = "ask" /\ ~loop'[NextLoop].cancelled
      /\ \A l \in Loops : l # NextLoop => loop'[l] = loop[l]
      /\ Launched' = Launched \cup {NextLoop}
      /\ Launched' = 1..Cardinality(Launched')
      /\ Cardinality(Launched') = Cardinality(Launched) + 1
  BY LaunchAdds
<1>2. cancel' = NextLoop /\ loopDone' = NextLoop /\ NextLoop # None
  BY <1>1, LifecycleAssumption, LoopsFinite DEF Launch, Loops
<1> HIDE DEF NextLoop
<1>3. TypeOK'
  BY <1>1, <1>2 DEF TypeOK
<1>4. LaunchesBounded'
  BY <1>1 DEF LaunchesBounded
<1>5. HandleOK'
  BY <1>1, <1>2 DEF HandleOK, TypeOK
<1>6. LoopNeverLost'
  BY <1>1 DEF LoopNeverLost, Live
<1>7. StopWaitsForCancelled'
  <2> SUFFICES ASSUME NEW r \in Restarts, restart'[r].pc = "stopping"
               PROVE  loop'[restart'[r].waits].cancelled
    BY DEF StopWaitsForCancelled
  <2>1. restart'[r] = restart[r] /\ restart[r].waits \in Loops /\ loop[restart[r].waits].cancelled
    BY DEF TypeOK, HandleOK, StopWaitsForCancelled
  <2>2. restart[r].waits # NextLoop
    BY <2>1, <1>1 DEF HandleOK, Launched
  <2> QED
    BY <2>1, <2>2, <1>1
<1> QED
  BY <1>3, <1>4, <1>5, <1>6, <1>7

\* Returned does not change while nobody returns.
LEMMA StartKeeps == LifecycleInv /\ Start => LifecycleInv'
<1> SUFFICES ASSUME LifecycleInv, Start PROVE LifecycleInv'
  OBVIOUS
<1>1. Cardinality(Launched) <= Cardinality(Restarts)
  BY RoomToLaunch DEF LifecycleInv, Start
<1>2. Returned' = Returned
  BY DEF Start, Returned
<1>3. Cardinality(Launched) <= Cardinality(Returned)
  BY LoopsFinite DEF LifecycleInv, LaunchesBounded, Start
<1> QED
  BY <1>1, <1>2, <1>3, LoopsFinite, LaunchKeepsInv DEF Start, LifecycleInv, TypeOK

\* A loop goes on, or ends because it was cancelled or the process shuts down.
LEMMA LoopKeeps == \A l \in Loops : LifecycleInv /\ Loop(l) => LifecycleInv'
<1> SUFFICES ASSUME NEW l \in Loops, LifecycleInv, Loop(l) PROVE LifecycleInv'
  OBVIOUS
<1> USE DEF LifecycleInv
<1>1. /\ loop[l].pc # "new"
      /\ \E to \in {"await", "write", "select", "ask", "done"} :
           /\ loop' = [loop EXCEPT ![l].pc = to]
           /\ to = "done" => shutdown \/ loop[l].cancelled
      /\ UNCHANGED <<shutdown, queue, parentSet, cancel, loopDone, restart, now>>
  BY DEF Loop, LoopSyncs, SyncStep, LoopSynced, TickerFires, LoopEnds, CtxDone
<1>2. /\ loop' \in [Loops -> [pc : SyncPoints \cup {"new", "select", "done"}, cancelled : BOOLEAN]]
      /\ \A k \in Loops : loop'[k].cancelled = loop[k].cancelled
      /\ \A k \in Loops : loop'[k].pc = "new" <=> loop[k].pc = "new"
      /\ \A k \in Loops : loop'[k].pc = "done" => loop[k].pc = "done" \/ shutdown \/ loop[k].cancelled
  BY <1>1 DEF TypeOK, SyncPoints
<1>3. Launched' = Launched /\ Returned' = Returned
  BY <1>1, <1>2, LaunchedKept DEF Returned
<1>4. TypeOK'
  BY <1>1, <1>2, <1>3 DEF TypeOK
<1>5. LaunchesBounded'
  BY <1>1, <1>3 DEF LaunchesBounded
<1>6. HandleOK'
  BY <1>1, <1>2, <1>3 DEF HandleOK, TypeOK
<1>7. LoopNeverLost'
  BY <1>1, <1>2, <1>3 DEF LoopNeverLost, Live, Restarting
<1>8. StopWaitsForCancelled'
  BY <1>1, <1>2 DEF StopWaitsForCancelled, HandleOK, TypeOK
<1> QED
  BY <1>4, <1>5, <1>6, <1>7, <1>8

\* Stop's locked section leaves the loop it will wait for cancelled, by itself or before.
LEMMA StopCancelsKeeps == \A r \in Restarts : LifecycleInv /\ StopCancels(r) => LifecycleInv'
<1> SUFFICES ASSUME NEW r \in Restarts, LifecycleInv, StopCancels(r) PROVE LifecycleInv'
  OBVIOUS
<1> USE DEF LifecycleInv
<1>1. /\ loop' \in [Loops -> [pc : SyncPoints \cup {"new", "select", "done"}, cancelled : BOOLEAN]]
      /\ \A k \in Loops : loop'[k].cancelled <=> loop[k].cancelled \/ k = cancel
      /\ \A k \in Loops : loop'[k].pc = loop[k].pc
  <2>1. CASE cancel = None
    <3>1. loop' = loop
      BY <2>1 DEF StopCancels
    <3>2. \A k \in Loops : k # cancel
      BY <2>1, LoopsFinite, LifecycleAssumption
    <3> QED
      BY <3>1, <3>2 DEF TypeOK
  <2>2. CASE cancel # None
    <3>1. cancel \in Loops /\ loop' = [loop EXCEPT ![cancel].cancelled = TRUE]
      BY <2>2 DEF StopCancels, TypeOK
    <3>2. /\ loop' \in [Loops -> [pc : SyncPoints \cup {"new", "select", "done"}, cancelled : BOOLEAN]]
          /\ loop'[cancel].cancelled = TRUE /\ loop'[cancel].pc = loop[cancel].pc
          /\ \A k \in Loops : k # cancel => loop'[k] = loop[k]
      <4>1. loop \in [Loops -> [pc : SyncPoints \cup {"new", "select", "done"}, cancelled : BOOLEAN]]
        BY DEF TypeOK
      <4>2. loop'[cancel] = [loop[cancel] EXCEPT !.cancelled = TRUE]
        BY <3>1, <4>1
      <4>3. loop'[cancel] \in [pc : SyncPoints \cup {"new", "select", "done"}, cancelled : BOOLEAN]
        BY <3>1, <4>1, <4>2
      <4> QED
        BY <3>1, <4>1, <4>2, <4>3
    <3> QED
      BY <3>2
  <2> QED
    BY <2>1, <2>2
<1>2. Launched' = Launched
  BY <1>1, LaunchedKept
<1>3. /\ cancel' = None /\ restart[r].pc = "idle"
      /\ restart'[r] = [pc |-> IF loopDone = None THEN "relaunch" ELSE "stopping", waits |-> loopDone]
      /\ \A q \in Restarts : q # r => restart'[q] = restart[q]
      /\ restart' \in [Restarts -> [pc : {"idle", "stopping", "relaunch", "returned"},
                                     waits : Loops \cup {None}]]
      /\ UNCHANGED <<shutdown, queue, parentSet, loopDone, now>>
  BY DEF StopCancels, TypeOK
<1>4. Returned' = Returned
  BY <1>3 DEF Returned
<1>5. TypeOK'
  BY <1>1, <1>2, <1>3 DEF TypeOK
<1>6. LaunchesBounded'
  BY <1>2, <1>3, <1>4 DEF LaunchesBounded
<1>7. loopDone # None => loop'[loopDone].cancelled
  BY <1>1 DEF HandleOK, TypeOK
<1>8. HandleOK'
  <2>1. \A k \in Loops : loop'[k].pc = "new" => ~loop'[k].cancelled
    <3> SUFFICES ASSUME NEW k \in Loops, loop'[k].pc = "new" PROVE k # cancel
      BY <1>1 DEF HandleOK
    <3>1. k \notin Launched /\ k # None
      BY <1>1, LoopsFinite, LifecycleAssumption DEF Launched
    <3> QED
      BY <3>1 DEF HandleOK
  <2>2. \A q \in Restarts : restart'[q].pc = "stopping" => restart'[q].waits # None
    BY <1>3 DEF HandleOK
  <2> QED
    BY <2>1, <2>2, <1>2, <1>3, <1>7 DEF HandleOK
<1>9. Restarting'
  BY <1>3 DEF Restarting
<1>10. StopWaitsForCancelled'
  <2> SUFFICES ASSUME NEW q \in Restarts, restart'[q].pc = "stopping"
               PROVE  loop'[restart'[q].waits].cancelled
    BY DEF StopWaitsForCancelled
  <2>1. CASE q = r
    BY <2>1, <1>3, <1>7
  <2>2. CASE q # r
    BY <2>2, <1>1, <1>3 DEF StopWaitsForCancelled, HandleOK, TypeOK
  <2> QED
    BY <2>1, <2>2
<1> QED
  BY <1>5, <1>6, <1>8, <1>9, <1>10 DEF LoopNeverLost

\* The loop has ended, or Stop gives up: the Restart goes on.
LEMMA StopEndsKeeps ==
  \A r \in Restarts : LifecycleInv /\ (StopWaited(r) \/ StopTimesOut(r)) => LifecycleInv'
<1> SUFFICES ASSUME NEW r \in Restarts, LifecycleInv, StopWaited(r) \/ StopTimesOut(r)
             PROVE  LifecycleInv'
  OBVIOUS
<1> USE DEF LifecycleInv
<1>1. /\ restart[r].pc = "stopping"
      /\ restart' = [restart EXCEPT ![r].pc = "relaunch"]
      /\ UNCHANGED <<shutdown, queue, parentSet, cancel, loopDone, loop, now>>
  BY DEF StopWaited, StopTimesOut
<1>2. /\ restart' \in [Restarts -> [pc : {"idle", "stopping", "relaunch", "returned"},
                                     waits : Loops \cup {None}]]
      /\ restart'[r].pc = "relaunch"
      /\ \A q \in Restarts : q # r => restart'[q] = restart[q]
  BY <1>1 DEF TypeOK
<1>3. Launched' = Launched /\ Returned' = Returned
  BY <1>1, <1>2 DEF Launched, Returned
<1>4. TypeOK' /\ LaunchesBounded' /\ HandleOK'
  BY <1>1, <1>2, <1>3 DEF TypeOK, LaunchesBounded, HandleOK
<1>5. LoopNeverLost'
  BY <1>2 DEF LoopNeverLost, Restarting
<1>6. StopWaitsForCancelled'
  BY <1>1, <1>2 DEF StopWaitsForCancelled
<1> QED
  BY <1>4, <1>5, <1>6

\* Restart's second locked section, with and without a loop to launch.
LEMMA RelaunchKeeps == \A r \in Restarts : LifecycleInv /\ Relaunch(r) => LifecycleInv'
<1> SUFFICES ASSUME NEW r \in Restarts, LifecycleInv, Relaunch(r) PROVE LifecycleInv'
  OBVIOUS
<1> USE DEF LifecycleInv
<1>1. /\ restart[r].pc = "relaunch"
      /\ restart' = [restart EXCEPT ![r].pc = "returned"]
      /\ UNCHANGED <<shutdown, queue, parentSet, now>>
  BY DEF Relaunch
<1>2. /\ restart' \in [Restarts -> [pc : {"idle", "stopping", "relaunch", "returned"},
                                     waits : Loops \cup {None}]]
      /\ restart'[r].pc = "returned"
      /\ \A q \in Restarts : q # r => restart'[q] = restart[q]
  BY <1>1 DEF TypeOK
<1>3. Returned' = Returned \cup {r} /\ r \notin Returned
  BY <1>1, <1>2 DEF Returned
<1>4. Cardinality(Returned') = Cardinality(Returned) + 1
  BY <1>3, FS_AddElement, LoopsFinite
<1>5. CASE parentSet
  <2>1. Cardinality(Launched) <= Cardinality(Restarts)
    BY <1>1, RoomToLaunch
  <2>2. Cardinality(Launched) + 1 <= Cardinality(Returned') + 1
    BY <1>4, <1>5, LoopsFinite DEF LaunchesBounded
  <2>3. \A q \in Restarts : restart'[q].pc = "stopping" => restart'[q] = restart[q]
    BY <1>2
  <2>4. Launch /\ parentSet'
    BY <1>1, <1>5 DEF Relaunch
  <2> QED
    BY <2>1, <2>2, <2>3, <2>4, <1>1, <1>2, LaunchKeepsInv
<1>6. CASE ~parentSet
  <2>1. UNCHANGED <<cancel, loopDone, loop>>
    BY <1>6 DEF Relaunch
  <2>2. Launched' = Launched
    BY <2>1 DEF Launched
  <2>3. TypeOK' /\ HandleOK'
    BY <2>1, <2>2, <1>1, <1>2 DEF TypeOK, HandleOK
  <2>4. LaunchesBounded'
    BY <2>2, <1>1, <1>4, <1>6, LoopsFinite DEF LaunchesBounded
  <2>5. LoopNeverLost'
    BY <1>1, <1>6 DEF LoopNeverLost
  <2>6. StopWaitsForCancelled'
    BY <2>1, <1>2 DEF StopWaitsForCancelled
  <2> QED
    BY <2>3, <2>4, <2>5, <2>6
<1> QED
  BY <1>5, <1>6

\* SyncNow, the shutdown and the queue's exit touch no loop and no handle.
LEMMA OthersKeep ==
  LifecycleInv /\ ((\E n \in Nows : SyncNow(n)) \/ Shutdown \/ QueueExits \/ UNCHANGED vars)
    => LifecycleInv'
<1> SUFFICES ASSUME LifecycleInv,
                    (\E n \in Nows : SyncNow(n)) \/ Shutdown \/ QueueExits \/ UNCHANGED vars
             PROVE  LifecycleInv'
  OBVIOUS
<1> USE DEF LifecycleInv
<1>1. /\ UNCHANGED <<parentSet, cancel, loopDone, loop, restart>>
      /\ shutdown' \in BOOLEAN /\ (shutdown => shutdown')
      /\ queue' \in {"running", "exited"}
  BY DEF SyncNow, Shutdown, QueueExits, vars, TypeOK
<1>2. now' \in [Nows -> SyncPoints \cup {"idle"}]
  <2>1. CASE \E n \in Nows : SyncNow(n)
    BY <2>1 DEF SyncNow, TypeOK, SyncPoints
  <2>2. CASE Shutdown \/ QueueExits \/ UNCHANGED vars
    BY <2>2 DEF Shutdown, QueueExits, vars, TypeOK
  <2> QED
    BY <2>1, <2>2
<1>3. Launched' = Launched /\ Returned' = Returned
  BY <1>1 DEF Launched, Returned
<1>4. TypeOK' /\ LaunchesBounded' /\ HandleOK'
  BY <1>1, <1>2, <1>3 DEF TypeOK, LaunchesBounded, HandleOK
<1>5. LoopNeverLost' /\ StopWaitsForCancelled'
  BY <1>1, <1>3 DEF LoopNeverLost, Live, Restarting, StopWaitsForCancelled
<1> QED
  BY <1>4, <1>5

\* Nothing is launched, cancelled or waited for at first.
LEMMA InitEstablishes == Init => LifecycleInv
<1> SUFFICES ASSUME Init PROVE LifecycleInv
  OBVIOUS
<1>1. Launched = {}
  BY DEF Init, Launched
<1>2. Cardinality(Launched) = 0 /\ 1..0 = {}
  BY <1>1, FS_EmptySet
<1>3. TypeOK
  BY <1>1, <1>2 DEF Init, TypeOK
<1>4. LaunchesBounded
  BY <1>2, LoopsFinite DEF LaunchesBounded, Init
<1> QED
  BY <1>3, <1>4 DEF LifecycleInv, Init, HandleOK, LoopNeverLost, StopWaitsForCancelled

\* The invariant holds, for any number of restarts, SyncNows and slow syncs.
THEOREM LifecycleCorrect == Spec => []LifecycleInv
<1>1. LifecycleInv /\ [Next]_vars => LifecycleInv'
  BY StartKeeps, LoopKeeps, StopCancelsKeeps, StopEndsKeeps, RelaunchKeeps, OthersKeep
     DEF Next, Restart
<1> QED
  BY InitEstablishes, <1>1, PTL DEF Spec

\* Types, and the numbering of the loops.
THEOREM LifecycleTypes == Spec => []TypeOK
  BY LifecycleCorrect, PTL DEF LifecycleInv

\* Until the shutdown somebody syncs the library, or is about to.
THEOREM SyncNeverLost == Spec => []LoopNeverLost
  BY LifecycleCorrect, PTL DEF LifecycleInv

\* A Stop waits only for a loop that has been told to end.
THEOREM StopsWaitForCancelled == Spec => []StopWaitsForCancelled
  BY LifecycleCorrect, PTL DEF LifecycleInv
=============================================================================
