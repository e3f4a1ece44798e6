--------------------------- MODULE CdnGuard_proofs --------------------------
(***************************************************************************)
(* For any number of requests, files, items and settings: no interleaving  *)
(* of fetches, expiries and sweeps ends a remembered failure or a          *)
(* quarantine early.  The invariant says that the maps hold the time that  *)
(* is left, to the tick: a late failure may renew it, an expiry check      *)
(* removes only what is over, and a sweep that takes an entry with time    *)
(* left is one that evicts it.                                             *)
(***************************************************************************)
EXTENDS CdnGuard, Selection_proofs, TLAPS

Typed ==
  /\ file \in [Procs -> Files]
  /\ DOMAIN negativeCache \subseteq Files
  /\ memory \in [Files -> Nat] /\ cooldown \in [Items -> Nat]

\* The time that is left of a failure, and of a quarantine, is in the map.
MemoryHeld ==
  \A f \in Files : memory[f] > 0 => f \in DOMAIN negativeCache /\ negativeCache[f] = memory[f]

CooldownHeld ==
  \A i \in Items : cooldown[i] > 0 =>
    i \in DOMAIN torrentFailures /\ torrentFailures[i].staleUntil = cooldown[i]

GuardInv == Typed /\ MemoryHeld /\ CooldownHeld

\* A failure that is remembered is found, an item that is quarantined is stale.
LEMMA HeldIsHit == GuardInv => FailureRemembered /\ QuarantineKept
  BY GuardAssumption DEF GuardInv, MemoryHeld, CooldownHeld, Typed, FailureRemembered, QuarantineKept,
       NegativeHit, Stale, Marked

\* A step of fetchCDNURL that touches neither map.
LEMMA MapsStay ==
  ASSUME GuardInv, UNCHANGED <<file, negativeCache, torrentFailures, memory, cooldown>>
  PROVE  GuardInv'
  BY DEF GuardInv, Typed, MemoryHeld, CooldownHeld

\* The checks of a new fetch drop an entry only when its time is over.
LEMMA CheckKeeps ==
  ASSUME GuardInv, NEW p \in Procs, NEW f \in Files, CheckNegative(p, f)
  PROVE  GuardInv'
<1>1. /\ ~NegativeHit(f) /\ negativeCache' = Without(negativeCache, {f})
      /\ file' = [file EXCEPT ![p] = f] /\ UNCHANGED <<torrentFailures, memory, cooldown>>
  BY DEF CheckNegative, history
<1>2. ~(memory[f] > 0)
  BY <1>1, HeldIsHit DEF FailureRemembered
<1>3. Typed' /\ CooldownHeld'
  BY <1>1 DEF GuardInv, Typed, CooldownHeld, Without
<1>4. MemoryHeld'
  BY <1>1, <1>2 DEF GuardInv, MemoryHeld, Without
<1> QED
  BY <1>3, <1>4 DEF GuardInv

\* Closing a breaker forgets at most the failures of an item that is not quarantined.
LEMMA BreakerKeeps ==
  ASSUME GuardInv, NEW p \in Procs, BreakerClosed(p)
  PROVE  GuardInv'
<1> DEFINE i == ItemOf[file[p]]
<1>1. /\ ~Stale(i) /\ UNCHANGED <<file, negativeCache, memory, cooldown>>
      /\ torrentFailures' = torrentFailures \/ torrentFailures' = Without(torrentFailures, {i})
  BY DEF BreakerClosed, history
<1>2. ~(i \in Items /\ cooldown[i] > 0)
  BY <1>1, HeldIsHit DEF QuarantineKept
<1>3. Typed' /\ MemoryHeld'
  BY <1>1 DEF GuardInv, Typed, MemoryHeld
<1>4. CooldownHeld'
  BY <1>1, <1>2 DEF GuardInv, CooldownHeld, Without
<1> QED
  BY <1>3, <1>4 DEF GuardInv

\* A failure trips the breaker for the whole cooldown, or leaves a quarantine as it is.
LEMMA RecordKeeps ==
  ASSUME GuardInv, NEW p \in Procs, RecordFailure(p)
  PROVE  GuardInv'
<1> DEFINE i == ItemOf[file[p]]
           trips == Len(Active(i)) >= BreakerFailures
           tracker == [failures |-> Active(i), staleUntil |-> StaleUntil(i)]
<1>1. /\ torrentFailures' = With(torrentFailures, i, tracker)
      /\ cooldown' = IF trips THEN [cooldown EXCEPT ![i] = BreakerStale] ELSE cooldown
      /\ UNCHANGED <<file, negativeCache, memory>>
  BY DEF RecordFailure
<1>2. i \in Items
  BY DEF GuardInv, Typed, Items
<1>3. /\ i \in DOMAIN torrentFailures' /\ torrentFailures'[i].staleUntil = StaleUntil(i)
      /\ \A j \in DOMAIN torrentFailures : j # i =>
           j \in DOMAIN torrentFailures' /\ torrentFailures'[j] = torrentFailures[j]
  BY <1>1 DEF With
<1>4. /\ trips => StaleUntil(i) = BreakerStale
      /\ ~trips /\ i \in DOMAIN torrentFailures => StaleUntil(i) = torrentFailures[i].staleUntil
  BY DEF StaleUntil
<1> HIDE DEF i, trips, tracker
<1>5. Typed' /\ MemoryHeld'
  BY <1>1, GuardAssumption DEF GuardInv, Typed, MemoryHeld
<1>6. CooldownHeld'
  <2> SUFFICES ASSUME NEW j \in Items, cooldown'[j] > 0
               PROVE  j \in DOMAIN torrentFailures' /\ torrentFailures'[j].staleUntil = cooldown'[j]
    BY DEF CooldownHeld
  <2>1. CASE j = i /\ trips
    BY <1>1, <1>2, <1>3, <1>4, <2>1 DEF GuardInv, Typed
  <2>2. CASE j = i /\ ~trips
    BY <1>1, <1>2, <1>3, <1>4, <2>2 DEF GuardInv, CooldownHeld
  <2>3. CASE j # i
    <3>1. cooldown'[j] = cooldown[j]
      BY <1>1, <2>3 DEF GuardInv, Typed
    <3> QED
      BY <1>3, <2>3, <3>1 DEF GuardInv, CooldownHeld
  <2> QED
    BY <2>1, <2>2, <2>3
<1> QED
  BY <1>5, <1>6 DEF GuardInv

\* A failure is remembered for the whole TTL, from a fetch or from the CDN.
LEMMA CacheKeeps ==
  ASSUME GuardInv, NEW f \in Files,
         negativeCache' = With(negativeCache, f, NegativeCacheTTL),
         memory' = [memory EXCEPT ![f] = NegativeCacheTTL],
         UNCHANGED <<file, torrentFailures, cooldown>>
  PROVE  GuardInv'
<1>1. Typed' /\ CooldownHeld'
  BY GuardAssumption DEF GuardInv, Typed, CooldownHeld, With
<1>2. MemoryHeld'
  BY DEF GuardInv, Typed, MemoryHeld, With
<1> QED
  BY <1>1, <1>2 DEF GuardInv

\* What a sweep removes is over or evicted.
LEMMA SweepKeeps ==
  ASSUME GuardInv, SweepNegative \/ SweepBreaker
  PROVE  GuardInv'
<1>1. CASE SweepNegative
  <2>1. PICK evicted :
          /\ negativeCache' = Without(negativeCache, DOMAIN negativeCache \
               ({f \in DOMAIN negativeCache : negativeCache[f] >= 0} \ evicted))
          /\ memory' = [f \in Files |-> IF f \in evicted THEN 0 ELSE memory[f]]
    BY <1>1 DEF SweepNegative
  <2>2. UNCHANGED <<file, torrentFailures, cooldown>>
    BY <1>1 DEF SweepNegative, proc
  <2>3. Typed' /\ CooldownHeld'
    BY <2>1, <2>2 DEF GuardInv, Typed, CooldownHeld, Without
  <2>4. MemoryHeld'
    <3> SUFFICES ASSUME NEW f \in Files, memory'[f] > 0
                 PROVE  f \in DOMAIN negativeCache' /\ negativeCache'[f] = memory'[f]
      BY DEF MemoryHeld
    <3>1. f \notin evicted /\ memory'[f] = memory[f] /\ memory[f] \in Nat
      BY <2>1 DEF GuardInv, Typed
    <3>2. f \in DOMAIN negativeCache /\ negativeCache[f] = memory[f] /\ negativeCache[f] >= 0
      BY <3>1 DEF GuardInv, MemoryHeld
    <3> QED
      BY <2>1, <3>1, <3>2 DEF Without
  <2> QED
    BY <2>3, <2>4 DEF GuardInv
<1>2. CASE SweepBreaker
  <2> DEFINE live == {i \in DOMAIN torrentFailures :
                        ~(Marked(i) /\ torrentFailures[i].staleUntil < 0)}
  <2>1. PICK evicted :
          /\ torrentFailures' = Without(torrentFailures, DOMAIN torrentFailures \ (live \ evicted))
          /\ cooldown' = [i \in Items |-> IF i \in evicted THEN 0 ELSE cooldown[i]]
    BY <1>2 DEF SweepBreaker
  <2>2. UNCHANGED <<file, negativeCache, memory>>
    BY <1>2 DEF SweepBreaker, proc
  <2>3. Typed' /\ MemoryHeld'
    BY <2>1, <2>2 DEF GuardInv, Typed, MemoryHeld
  <2>4. CooldownHeld'
    <3> SUFFICES ASSUME NEW i \in Items, cooldown'[i] > 0
                 PROVE  /\ i \in DOMAIN torrentFailures'
                        /\ torrentFailures'[i].staleUntil = cooldown'[i]
      BY DEF CooldownHeld
    <3>1. i \notin evicted /\ cooldown'[i] = cooldown[i] /\ cooldown[i] \in Nat
      BY <2>1 DEF GuardInv, Typed
    <3>2. /\ i \in DOMAIN torrentFailures /\ torrentFailures[i].staleUntil = cooldown[i]
          /\ ~(torrentFailures[i].staleUntil < 0)
      BY <3>1 DEF GuardInv, CooldownHeld
    <3>3. i \in live \ evicted
      BY <3>1, <3>2
    <3> QED
      BY <2>1, <3>1, <3>2, <3>3 DEF Without
  <2> QED
    BY <2>3, <2>4 DEF GuardInv
<1> QED
  BY <1>1, <1>2

\* A tick takes one from what is left, in the maps and in the history alike.
LEMMA TickKeeps ==
  ASSUME GuardInv, Tick
  PROVE  GuardInv'
<1>1. /\ negativeCache' = [f \in DOMAIN negativeCache |-> Past(negativeCache[f])]
      /\ torrentFailures' = [i \in DOMAIN torrentFailures |-> Aged(torrentFailures[i])]
      /\ memory' = [f \in Files |-> Down(memory[f])]
      /\ cooldown' = [i \in Items |-> Down(cooldown[i])] /\ file' = file
  BY DEF Tick
<1>2. ASSUME NEW t \in Nat
      PROVE  Down(t) \in Nat /\ (Down(t) > 0 => t > 0 /\ Past(t) = Down(t))
  BY GuardAssumption DEF Down, Past
<1>3. Typed'
  BY <1>1, <1>2 DEF GuardInv, Typed
<1>4. MemoryHeld'
  BY <1>1, <1>2 DEF GuardInv, Typed, MemoryHeld
<1>5. CooldownHeld'
  BY <1>1, <1>2 DEF GuardInv, Typed, CooldownHeld, Aged
<1> QED
  BY <1>3, <1>4, <1>5 DEF GuardInv

\* The invariant holds of every behaviour.
THEOREM GuardCorrect == Spec => []GuardInv
<1>1. Init => GuardInv
  <2> SUFFICES ASSUME Init PROVE GuardInv
    OBVIOUS
  <2>1. DOMAIN negativeCache = {} /\ memory = [f \in Files |-> 0] /\ cooldown = [i \in Items |-> 0]
    BY DEF Init
  <2>2. Typed
    BY <2>1, GuardAssumption DEF Typed, Init
  <2> QED
    BY <2>1, <2>2 DEF GuardInv, MemoryHeld, CooldownHeld
<1>2. GuardInv /\ [Next]_vars => GuardInv'
  <2> SUFFICES ASSUME GuardInv, [Next]_vars PROVE GuardInv'
    OBVIOUS
  <2>1. ASSUME NEW p \in Procs, NEW f \in Files, CheckNegative(p, f) PROVE GuardInv'
    BY <2>1, CheckKeeps
  <2>2. ASSUME NEW p \in Procs, Continue(p) PROVE GuardInv'
    <3>1. CASE BreakerOpen(p)
      BY <3>1, MapsStay DEF BreakerOpen, history
    <3>2. CASE BreakerClosed(p)
      BY <3>2, BreakerKeeps
    <3>3. CASE \E a \in Answers : ApiCall(p, a)
      BY <3>3, MapsStay DEF ApiCall
    <3>4. CASE ReturnURL(p) \/ Sleep(p) \/ Wake(p)
      BY <3>4, MapsStay DEF ReturnURL, Sleep, Wake, history
    <3>5. CASE RecordFailure(p)
      BY <3>5, RecordKeeps
    <3>6. CASE CacheFailure(p)
      <4>1. file[p] \in Files
        BY DEF GuardInv, Typed
      <4> QED
        BY <3>6, <4>1, CacheKeeps DEF CacheFailure
    <3> QED
      BY <2>2, <3>1, <3>2, <3>3, <3>4, <3>5, <3>6 DEF Continue
  <2>3. ASSUME NEW f \in Files, CdnExhausted(f) PROVE GuardInv'
    BY <2>3, CacheKeeps DEF CdnExhausted, proc
  <2>4. CASE SweepNegative \/ SweepBreaker
    BY <2>4, SweepKeeps
  <2>5. CASE Upstream
    BY <2>5, MapsStay DEF Upstream, proc, history
  <2>6. CASE Tick
    BY <2>6, TickKeeps
  <2>7. CASE UNCHANGED vars
    BY <2>7, MapsStay DEF vars, proc, history
  <2> QED
    BY <2>1, <2>2, <2>3, <2>4, <2>5, <2>6, <2>7 DEF Next
<1> QED
  BY <1>1, <1>2, PTL DEF Spec

\* A failure keeps new fetches of its file from the API for its whole TTL.
THEOREM Remembered == Spec => []FailureRemembered
<1>1. GuardInv => FailureRemembered
  BY HeldIsHit
<1> QED
  BY <1>1, GuardCorrect, PTL

\* A tripped item stays shut for the whole cooldown.
THEOREM Quarantined == Spec => []QuarantineKept
<1>1. GuardInv => QuarantineKept
  BY HeldIsHit
<1> QED
  BY <1>1, GuardCorrect, PTL

-----------------------------------------------------------------------------
\* Types, with what makes them inductive: a fetch sleeps only before another attempt,
\* and the maps are finite.
ProcTyped ==
  /\ pc \in [Procs -> {"idle", "breaker", "queued", "answered", "sleep", "failed"}]
  /\ file \in [Procs -> Files]
  /\ attempt \in [Procs -> 0..RetryCount]
  /\ answer \in [Procs -> {"url", "429", "transient", "fatal"}]
  /\ pause \in [Procs -> Nat]
  /\ \A p \in Procs : pc[p] = "sleep" => attempt[p] < RetryCount

NegativeTyped ==
  /\ DOMAIN negativeCache \subseteq Files /\ IsFiniteSet(DOMAIN negativeCache)
  /\ \A f \in DOMAIN negativeCache : negativeCache[f] \in -1..NegativeCacheTTL
  /\ memory \in [Files -> 0..NegativeCacheTTL]

TrackersTyped ==
  /\ DOMAIN torrentFailures \subseteq Items /\ IsFiniteSet(DOMAIN torrentFailures)
  /\ \A i \in DOMAIN torrentFailures :
       /\ torrentFailures[i].failures \in Seq(0..BreakerWindow)
       /\ torrentFailures[i].staleUntil \in {ZeroTime} \cup -1..BreakerStale
  /\ cooldown \in [Items -> 0..BreakerStale]

RestTyped ==
  /\ cleaner \in {"negative", "breaker"} /\ upstreamOk \in BOOLEAN /\ leaked \in [Items -> Nat]

TypeInv == ProcTyped /\ NegativeTyped /\ TrackersTyped /\ RestTyped

\* The typing that the run checks is part of it.
LEMMA TypeInvType == TypeInv => TypeOK
  BY DEF TypeInv, ProcTyped, NegativeTyped, TrackersTyped, RestTyped, TypeOK

\* The doubled backoffs are numbers.
LEMMA ShiftedType == \A k \in 0..RetryCount : Shifted[k] \in Nat
<1> DEFINE next == [x \in (1..RetryCount) \X Nat |-> 2 * x[2]]
           first == RetryBackoff
           n == RetryCount
           Doubles(f) == f = [k \in 0..n |-> IF k = 0 THEN first ELSE 2 * f[k - 1]]
<1>1. n \in Nat
  BY GuardAssumption
<1>2. first \in Nat
  BY GuardAssumption
<1>3. next \in [(1..n) \X Nat -> Nat]
  OBVIOUS
<1>4. PICK f \in [0..n -> Nat] : Solves(f, n, first, next)
  <2> HIDE DEF n, first, next
  <2> QED
    BY <1>1, <1>2, <1>3, Recursion, Zenon
<1>5. Doubles(f)
  <2>1. ASSUME NEW k \in 0..n PROVE f[k] = IF k = 0 THEN first ELSE 2 * f[k - 1]
    <3>1. CASE k = 0
      BY <1>4, <3>1 DEF Solves
    <3>2. CASE k # 0
      <4>1. k \in 1..n /\ k - 1 \in 0..n
        BY <1>1, <3>2
      <4>2. f[k] = next[<<k, f[k - 1]>>]
        BY <1>4, <4>1 DEF Solves
      <4>3. <<k, f[k - 1]>> \in (1..n) \X Nat
        BY <4>1
      <4> QED
        BY <3>2, <4>2, <4>3
    <3> QED
      BY <3>1, <3>2
  <2>2. f = [k \in 0..n |-> f[k]]
    BY Zenon
  <2> HIDE DEF n, first, next
  <2> QED
    BY <2>1, <2>2
<1>6. Shifted = CHOOSE g : Doubles(g)
  BY DEF Shifted
<1>7. Doubles(Shifted)
  <2> HIDE DEF Doubles
  <2> QED
    BY <1>5, <1>6
<1> DEFINE P == {k \in 0..n : Shifted[k] \in Nat}
<1>8. 0 \in P
  BY <1>1, <1>2, <1>7
<1>9. ASSUME NEW k \in 0..(n - 1), k \in P PROVE k + 1 \in P
  <2>1. k + 1 \in 0..n /\ k + 1 # 0 /\ (k + 1) - 1 = k
    BY <1>1
  <2>2. Shifted[k + 1] = 2 * Shifted[k]
    BY <1>7, <2>1
  <2> QED
    BY <1>9, <2>1, <2>2
<1> HIDE DEF P, n
<1>10. \A k \in 0..n : k \in P
  BY <1>1, <1>8, <1>9, UpTo
<1> QED
  BY <1>10 DEF P, n

\* The failures that are kept, and the new one, have the age of failures.
LEMMA ActiveType ==
  ASSUME TrackersTyped, NEW i
  PROVE  Active(i) \in Seq(0..BreakerWindow)
<1> DEFINE D == 0..BreakerWindow
           S == 0..(BreakerWindow - 1)
<1>1. 0 \in D
  BY GuardAssumption
<1>2. CASE i \in DOMAIN torrentFailures
  <2> DEFINE s == torrentFailures[i].failures
  <2>1. s \in Seq(D)
    BY <1>2 DEF TrackersTyped
  <2> HIDE DEF D, S, s
  <2>2. Select(s, S) \in Seq(D \cap S)
    BY <2>1, SelectEntries
  <2>3. Select(s, S) \in Seq(D)
    BY <2>2
  <2>4. Append(Select(s, S), 0) \in Seq(D)
    BY <1>1, <2>3
  <2> QED
    BY <1>2, <2>4 DEF D, S, s, Active
<1>3. CASE i \notin DOMAIN torrentFailures
  BY <1>1, <1>3 DEF Active
<1> QED
  BY <1>2, <1>3

\* A map with an entry more, or without some, is finite still.
LEMMA WithFinite ==
  ASSUME NEW f, IsFiniteSet(DOMAIN f), NEW k, NEW v
  PROVE  IsFiniteSet(DOMAIN With(f, k, v))
<1>1. IsFiniteSet(DOMAIN f \cup {k})
  BY FS_AddElement
<1> QED
  BY <1>1 DEF With

\* Fewer entries are finitely many still.
LEMMA WithoutFinite ==
  ASSUME NEW f, IsFiniteSet(DOMAIN f), NEW S
  PROVE  IsFiniteSet(DOMAIN Without(f, S))
<1>1. IsFiniteSet(DOMAIN f \ S)
  BY FS_Subset, DOMAIN f \ S \in SUBSET (DOMAIN f)
<1> QED
  BY <1>1 DEF Without

\* A fetch looks its file up and goes to the breaker.
LEMMA CheckTypes ==
  ASSUME TypeInv, NEW p \in Procs, NEW f \in Files, CheckNegative(p, f)
  PROVE  TypeInv'
<1>1. ProcTyped'
  BY DEF TypeInv, ProcTyped, CheckNegative, Goto
<1>2. NegativeTyped'
  <2>1. negativeCache' = Without(negativeCache, {f}) /\ memory' = memory
    BY DEF CheckNegative, history
  <2> QED
    <3>1. IsFiniteSet(DOMAIN negativeCache)
      BY DEF TypeInv, NegativeTyped
    <3>2. IsFiniteSet(DOMAIN negativeCache')
      BY <2>1, <3>1, WithoutFinite
    <3> QED
      BY <2>1, <3>2 DEF TypeInv, NegativeTyped, Without
<1>3. TrackersTyped' /\ RestTyped'
  BY DEF TypeInv, TrackersTyped, RestTyped, CheckNegative, history
<1> QED
  BY <1>1, <1>2, <1>3 DEF TypeInv

\* A step of a fetch that leaves the maps alone.
LEMMA ContinueTypes ==
  ASSUME TypeInv, NEW p \in Procs,
         \/ BreakerOpen(p) \/ (\E a \in Answers : ApiCall(p, a))
         \/ ReturnURL(p) \/ Sleep(p) \/ Wake(p)
  PROVE  TypeInv'
<1>1. NegativeTyped' /\ TrackersTyped'
  <2>1. UNCHANGED <<negativeCache, torrentFailures, memory, cooldown>>
    BY DEF BreakerOpen, ApiCall, ReturnURL, Sleep, Wake, history
  <2> QED
    BY <2>1 DEF TypeInv, NegativeTyped, TrackersTyped
<1>2. CASE BreakerOpen(p)
  <2>1. ProcTyped'
    BY <1>2 DEF TypeInv, ProcTyped, BreakerOpen, Goto
  <2>2. RestTyped'
    BY <1>2 DEF TypeInv, RestTyped, BreakerOpen, history
  <2> QED
    BY <1>1, <2>1, <2>2 DEF TypeInv
<1>3. ASSUME NEW a \in Answers, ApiCall(p, a) PROVE TypeInv'
  <2>1. ProcTyped'
    BY <1>3 DEF TypeInv, ProcTyped, ApiCall, Goto, Answers
  <2>2. RestTyped'
    <3> DEFINE i == ItemOf[file[p]]
    <3>1. leaked' = leaked \/ leaked' = [leaked EXCEPT ![i] = @ + 1]
      BY <1>3 DEF ApiCall
    <3>2. UNCHANGED <<cleaner, upstreamOk>>
      BY <1>3 DEF ApiCall
    <3> HIDE DEF i
    <3> QED
      BY <3>1, <3>2 DEF TypeInv, RestTyped
  <2> QED
    BY <1>1, <2>1, <2>2 DEF TypeInv
<1>4. CASE ReturnURL(p)
  <2>1. ProcTyped'
    BY <1>4 DEF TypeInv, ProcTyped, ReturnURL, Goto
  <2>2. RestTyped'
    BY <1>4 DEF TypeInv, RestTyped, ReturnURL, history
  <2> QED
    BY <1>1, <2>1, <2>2 DEF TypeInv
<1>5. CASE Sleep(p)
  <2>1. Backoff(p) \in Nat
    BY ShiftedType, GuardAssumption DEF TypeInv, ProcTyped, Backoff
  <2>2. ProcTyped'
    BY <1>5, <2>1 DEF TypeInv, ProcTyped, Sleep, Goto
  <2>3. RestTyped'
    BY <1>5 DEF TypeInv, RestTyped, Sleep, history
  <2> QED
    BY <1>1, <2>2, <2>3 DEF TypeInv
<1>6. CASE Wake(p)
  <2>1. attempt[p] \in 0..RetryCount /\ attempt[p] < RetryCount
    BY <1>6 DEF TypeInv, ProcTyped, Wake
  <2>2. attempt[p] + 1 \in 0..RetryCount
    BY <2>1, GuardAssumption
  <2>3. ProcTyped'
    BY <1>6, <2>2 DEF TypeInv, ProcTyped, Wake, Goto
  <2>4. RestTyped'
    BY <1>6 DEF TypeInv, RestTyped, Wake, history
  <2> QED
    BY <1>1, <2>3, <2>4 DEF TypeInv
<1> QED
  BY <1>2, <1>3, <1>4, <1>5, <1>6

\* The breaker drops a tracker at most.
LEMMA ClosedTypes ==
  ASSUME TypeInv, NEW p \in Procs, BreakerClosed(p)
  PROVE  TypeInv'
<1>1. ProcTyped'
  BY GuardAssumption DEF TypeInv, ProcTyped, BreakerClosed, Goto
<1>2. TrackersTyped'
  <2>1. /\ torrentFailures' = torrentFailures
           \/ torrentFailures' = Without(torrentFailures, {ItemOf[file[p]]})
        /\ cooldown' = cooldown
    BY DEF BreakerClosed, history
  <2>2. IsFiniteSet(DOMAIN torrentFailures)
    BY DEF TypeInv, TrackersTyped
  <2>3. IsFiniteSet(DOMAIN torrentFailures')
    BY <2>1, <2>2, WithoutFinite
  <2> QED
    BY <2>1, <2>3 DEF TypeInv, TrackersTyped, Without
<1>3. NegativeTyped' /\ RestTyped'
  BY DEF TypeInv, NegativeTyped, RestTyped, BreakerClosed, history
<1> QED
  BY <1>1, <1>2, <1>3 DEF TypeInv

\* A failure is recorded in the tracker of an item of the library.
LEMMA RecordTypes ==
  ASSUME TypeInv, NEW p \in Procs, RecordFailure(p)
  PROVE  TypeInv'
<1> DEFINE i == ItemOf[file[p]]
           tracker == [failures |-> Active(i), staleUntil |-> StaleUntil(i)]
<1>1. ProcTyped'
  BY DEF TypeInv, ProcTyped, RecordFailure, Goto
<1>2. i \in Items
  BY DEF TypeInv, ProcTyped, Items
<1>3. TrackersTyped'
  <2>1. Active(i) \in Seq(0..BreakerWindow)
    BY ActiveType DEF TypeInv
  <2>2. StaleUntil(i) \in {ZeroTime} \cup -1..BreakerStale
    BY GuardAssumption DEF TypeInv, TrackersTyped, StaleUntil
  <2>3. torrentFailures' = With(torrentFailures, i, tracker)
    BY DEF RecordFailure
  <2>4. cooldown' = cooldown \/ cooldown' = [cooldown EXCEPT ![i] = BreakerStale]
    BY DEF RecordFailure
  <2>5. tracker.failures = Active(i) /\ tracker.staleUntil = StaleUntil(i)
    OBVIOUS
  <2> HIDE DEF i, tracker
  <2>6. cooldown' \in [Items -> 0..BreakerStale]
    BY <2>4, GuardAssumption DEF TypeInv, TrackersTyped
  <2>7. /\ DOMAIN torrentFailures' = DOMAIN torrentFailures \cup {i}
        /\ IsFiniteSet(DOMAIN torrentFailures')
        /\ \A j \in DOMAIN torrentFailures' :
             torrentFailures'[j] = IF j = i THEN tracker ELSE torrentFailures[j]
    <3>1. IsFiniteSet(DOMAIN torrentFailures)
      BY DEF TypeInv, TrackersTyped
    <3>2. IsFiniteSet(DOMAIN torrentFailures')
      BY <2>3, <3>1, WithFinite
    <3> QED
      BY <2>3, <3>2 DEF With
  <2> QED
    BY <1>2, <2>1, <2>2, <2>5, <2>6, <2>7 DEF TypeInv, TrackersTyped
<1>4. NegativeTyped'
  BY DEF TypeInv, NegativeTyped, RecordFailure
<1>5. RestTyped'
  <2>1. leaked' = leaked \/ leaked' = [leaked EXCEPT ![i] = 0]
    BY DEF RecordFailure
  <2>2. UNCHANGED <<cleaner, upstreamOk>>
    BY DEF RecordFailure
  <2> HIDE DEF i
  <2> QED
    BY <2>1, <2>2 DEF TypeInv, RestTyped
<1> QED
  BY <1>1, <1>3, <1>4, <1>5 DEF TypeInv

\* A failure is cached under the key of a file, by the fetch or by the CDN.
LEMMA CacheTypes ==
  ASSUME TypeInv, NEW f \in Files,
         negativeCache' = With(negativeCache, f, NegativeCacheTTL),
         memory' = [memory EXCEPT ![f] = NegativeCacheTTL]
  PROVE  NegativeTyped'
<1>1. NegativeCacheTTL \in 0..NegativeCacheTTL /\ NegativeCacheTTL \in -1..NegativeCacheTTL
  BY GuardAssumption
<1>2. memory' \in [Files -> 0..NegativeCacheTTL]
  BY <1>1 DEF TypeInv, NegativeTyped
<1>3. /\ DOMAIN negativeCache' = DOMAIN negativeCache \cup {f}
      /\ IsFiniteSet(DOMAIN negativeCache')
      /\ \A g \in DOMAIN negativeCache' :
           negativeCache'[g] = IF g = f THEN NegativeCacheTTL ELSE negativeCache[g]
  <2>1. IsFiniteSet(DOMAIN negativeCache)
    BY DEF TypeInv, NegativeTyped
  <2>2. IsFiniteSet(DOMAIN negativeCache')
    BY <2>1, WithFinite
  <2> QED
    BY <2>2 DEF With
<1> QED
  BY <1>1, <1>2, <1>3 DEF TypeInv, NegativeTyped

\* A sweep takes entries away and stops the clock of those that it evicts.
LEMMA SweepTypes ==
  ASSUME TypeInv, SweepNegative \/ SweepBreaker
  PROVE  TypeInv'
<1>1. CASE SweepNegative
  <2>1. PICK gone, evicted :
          /\ negativeCache' = Without(negativeCache, gone)
          /\ memory' = [f \in Files |-> IF f \in evicted THEN 0 ELSE memory[f]]
    BY <1>1 DEF SweepNegative
  <2>2. NegativeTyped'
    <3>1. IsFiniteSet(DOMAIN negativeCache)
      BY DEF TypeInv, NegativeTyped
    <3>2. IsFiniteSet(DOMAIN negativeCache')
      BY <2>1, <3>1, WithoutFinite
    <3> QED
      BY <2>1, <3>2, GuardAssumption DEF TypeInv, NegativeTyped, Without
  <2>3. ProcTyped' /\ TrackersTyped'
    BY <1>1 DEF TypeInv, ProcTyped, TrackersTyped, SweepNegative, proc
  <2>4. RestTyped'
    BY <1>1 DEF TypeInv, RestTyped, SweepNegative
  <2> QED
    BY <2>2, <2>3, <2>4 DEF TypeInv
<1>2. CASE SweepBreaker
  <2>1. PICK gone, evicted :
          /\ torrentFailures' = Without(torrentFailures, gone)
          /\ cooldown' = [i \in Items |-> IF i \in evicted THEN 0 ELSE cooldown[i]]
    BY <1>2 DEF SweepBreaker
  <2>2. TrackersTyped'
    <3>1. IsFiniteSet(DOMAIN torrentFailures)
      BY DEF TypeInv, TrackersTyped
    <3>2. IsFiniteSet(DOMAIN torrentFailures')
      BY <2>1, <3>1, WithoutFinite
    <3> QED
      BY <2>1, <3>2, GuardAssumption DEF TypeInv, TrackersTyped, Without
  <2>3. ProcTyped' /\ NegativeTyped'
    BY <1>2 DEF TypeInv, ProcTyped, NegativeTyped, SweepBreaker, proc
  <2>4. RestTyped'
    BY <1>2 DEF TypeInv, RestTyped, SweepBreaker
  <2> QED
    BY <2>2, <2>3, <2>4 DEF TypeInv
<1> QED
  BY <1>1, <1>2

\* A tick ages every entry by one, down to "over" and up to the window.
LEMMA TickTypes ==
  ASSUME TypeInv, Tick
  PROVE  TypeInv'
<1>1. ASSUME NEW n \in Nat, NEW t \in 0..n PROVE Down(t) \in 0..n
  BY DEF Down
<1>2. ASSUME NEW n \in Nat, NEW t \in {ZeroTime} \cup -1..n
      PROVE  Past(t) \in {ZeroTime} \cup -1..n
  BY GuardAssumption DEF Past
<1>3. ProcTyped'
  <2>1. pause' = [p \in Procs |-> Down(pause[p])] /\ UNCHANGED <<pc, file, attempt, answer>>
    BY DEF Tick
  <2>2. ASSUME NEW t \in Nat PROVE Down(t) \in Nat
    BY DEF Down
  <2> QED
    BY <2>1, <2>2 DEF TypeInv, ProcTyped
<1>4. NegativeTyped'
  <2>1. /\ negativeCache' = [f \in DOMAIN negativeCache |-> Past(negativeCache[f])]
        /\ memory' = [f \in Files |-> Down(memory[f])]
    BY DEF Tick
  <2>2. ASSUME NEW t \in -1..NegativeCacheTTL PROVE Past(t) \in -1..NegativeCacheTTL
    BY <1>2, GuardAssumption DEF Past
  <2> QED
    BY <1>1, <2>1, <2>2, GuardAssumption DEF TypeInv, NegativeTyped
<1>5. TrackersTyped'
  <2>1. /\ torrentFailures' = [i \in DOMAIN torrentFailures |-> Aged(torrentFailures[i])]
        /\ cooldown' = [i \in Items |-> Down(cooldown[i])]
    BY DEF Tick
  <2>2. cooldown' \in [Items -> 0..BreakerStale]
    BY <1>1, <2>1, GuardAssumption DEF TypeInv, TrackersTyped
  <2>3. ASSUME NEW s \in Seq(0..BreakerWindow)
        PROVE  [k \in DOMAIN s |-> IF s[k] < BreakerWindow THEN s[k] + 1 ELSE BreakerWindow]
                 \in Seq(0..BreakerWindow)
    <3> DEFINE D == 0..BreakerWindow
    <3>1. DOMAIN s = 1..Len(s) /\ Len(s) \in Nat /\ \A k \in DOMAIN s : s[k] \in D
      <4>1. s \in Seq(D)
        BY <2>3
      <4> HIDE DEF D
      <4> QED
        BY <4>1
    <3>2. \A k \in DOMAIN s :
            (IF s[k] < BreakerWindow THEN s[k] + 1 ELSE BreakerWindow) \in 0..BreakerWindow
      BY <3>1, GuardAssumption
    <3> QED
      BY <3>1, <3>2
  <2>4. ASSUME NEW i \in DOMAIN torrentFailures
        PROVE  /\ torrentFailures'[i].failures \in Seq(0..BreakerWindow)
               /\ torrentFailures'[i].staleUntil \in {ZeroTime} \cup -1..BreakerStale
    <3>1. /\ torrentFailures[i].failures \in Seq(0..BreakerWindow)
          /\ torrentFailures[i].staleUntil \in {ZeroTime} \cup -1..BreakerStale
      BY <2>4 DEF TypeInv, TrackersTyped
    <3>2. torrentFailures'[i] = Aged(torrentFailures[i])
      BY <2>1, <2>4
    <3>3. Aged(torrentFailures[i]).failures \in Seq(0..BreakerWindow)
      BY <2>3, <3>1 DEF Aged
    <3>4. Aged(torrentFailures[i]).staleUntil \in {ZeroTime} \cup -1..BreakerStale
      BY <1>2, <3>1, GuardAssumption DEF Aged
    <3> QED
      BY <3>2, <3>3, <3>4
  <2>5. DOMAIN torrentFailures' = DOMAIN torrentFailures
    BY <2>1
  <2> QED
    BY <2>2, <2>4, <2>5 DEF TypeInv, TrackersTyped
<1>6. RestTyped'
  BY DEF TypeInv, RestTyped, Tick
<1> QED
  BY <1>3, <1>4, <1>5, <1>6 DEF TypeInv

\* The types hold of every behaviour.
THEOREM TypesCorrect == Spec => []TypeInv
<1>1. Init => TypeInv
  <2> SUFFICES ASSUME Init PROVE TypeInv
    OBVIOUS
  <2>1. ProcTyped
    BY GuardAssumption DEF Init, ProcTyped
  <2>2. DOMAIN negativeCache = {} /\ DOMAIN torrentFailures = {} /\ IsFiniteSet({})
    BY FS_EmptySet DEF Init
  <2>3. memory = [f \in Files |-> 0] /\ cooldown = [i \in Items |-> 0] /\ RestTyped
    BY DEF Init, RestTyped
  <2>4. NegativeTyped /\ TrackersTyped
    BY <2>2, <2>3, GuardAssumption DEF NegativeTyped, TrackersTyped
  <2> QED
    BY <2>1, <2>3, <2>4 DEF TypeInv
<1>2. TypeInv /\ [Next]_vars => TypeInv'
  <2> SUFFICES ASSUME TypeInv, [Next]_vars PROVE TypeInv'
    OBVIOUS
  <2>1. ASSUME NEW p \in Procs, NEW f \in Files, CheckNegative(p, f) PROVE TypeInv'
    BY <2>1, CheckTypes
  <2>2. ASSUME NEW p \in Procs, Continue(p) PROVE TypeInv'
    <3>1. CASE \/ BreakerOpen(p) \/ (\E a \in Answers : ApiCall(p, a))
               \/ ReturnURL(p) \/ Sleep(p) \/ Wake(p)
      BY <3>1, ContinueTypes
    <3>2. CASE BreakerClosed(p)
      BY <3>2, ClosedTypes
    <3>3. CASE RecordFailure(p)
      BY <3>3, RecordTypes
    <3>4. CASE CacheFailure(p)
      <4>1. file[p] \in Files
        BY DEF TypeInv, ProcTyped
      <4>2. NegativeTyped'
        BY <3>4, <4>1, CacheTypes DEF CacheFailure
      <4>3. ProcTyped'
        BY <3>4 DEF TypeInv, ProcTyped, CacheFailure, Goto
      <4>4. TrackersTyped' /\ RestTyped'
        BY <3>4 DEF TypeInv, TrackersTyped, RestTyped, CacheFailure
      <4> QED
        BY <4>2, <4>3, <4>4 DEF TypeInv
    <3> QED
      BY <2>2, <3>1, <3>2, <3>3, <3>4 DEF Continue
  <2>3. ASSUME NEW f \in Files, CdnExhausted(f) PROVE TypeInv'
    <3>1. NegativeTyped'
      BY <2>3, CacheTypes DEF CdnExhausted
    <3>2. ProcTyped' /\ TrackersTyped' /\ RestTyped'
      BY <2>3 DEF TypeInv, ProcTyped, TrackersTyped, RestTyped, CdnExhausted, proc
    <3> QED
      BY <3>1, <3>2 DEF TypeInv
  <2>4. CASE SweepNegative \/ SweepBreaker
    BY <2>4, SweepTypes
  <2>5. CASE Upstream
    BY <2>5 DEF TypeInv, ProcTyped, NegativeTyped, TrackersTyped, RestTyped, Upstream, proc, history
  <2>6. CASE Tick
    BY <2>6, TickTypes
  <2>7. CASE UNCHANGED vars
    BY <2>7 DEF TypeInv, ProcTyped, NegativeTyped, TrackersTyped, RestTyped, vars, proc, history
  <2> QED
    BY <2>1, <2>2, <2>3, <2>4, <2>5, <2>6, <2>7 DEF Next
<1> QED
  BY <1>1, <1>2, PTL DEF Spec

\* Every fetch, entry and tracker keeps its type.
THEOREM TypeCorrect == Spec => []TypeOK
<1> QED
  BY TypeInvType, TypesCorrect, PTL

-----------------------------------------------------------------------------
\* What the sweep of each map promises (the two halves of SweepEvictsOldest).
NegativeSwept ==
  cleaner' = "breaker" /\ cleaner = "negative" =>
    /\ Cardinality(DOMAIN negativeCache') <= NegativeCacheMax
    /\ \A f \in DOMAIN negativeCache \ DOMAIN negativeCache' :
         negativeCache[f] >= 0 =>
           /\ Cardinality(DOMAIN negativeCache) > NegativeCacheMax
           /\ \A g \in DOMAIN negativeCache' : negativeCache[f] <= negativeCache[g]

BreakerSwept ==
  cleaner' = "negative" /\ cleaner = "breaker" =>
    /\ Cardinality(DOMAIN torrentFailures') <= BreakerMax
    /\ \A i \in DOMAIN torrentFailures \ DOMAIN torrentFailures' :
         Stale(i) =>
           /\ Cardinality(DOMAIN torrentFailures) > BreakerMax
           /\ \A j \in DOMAIN torrentFailures' :
                Marked(j) /\ torrentFailures[i].staleUntil <= torrentFailures[j].staleUntil

\* Taking the excess of a set away leaves the limit at most, and there is something to
\* take only from a set over it.
LEMMA ExcessTaken ==
  ASSUME NEW S, IsFiniteSet(S), NEW limit \in Nat, NEW E \in kSubset(Excess(S, limit), S)
  PROVE  /\ Cardinality(S \ E) <= limit
         /\ E # {} => Cardinality(S) > limit
<1>1. E \subseteq S /\ Cardinality(E) = Excess(S, limit)
  BY DEF kSubset
<1>2. Cardinality(S) \in Nat
  BY FS_CardinalityType
<1>3. S \cap E = E
  BY <1>1
<1>4. Cardinality(S \ E) = Cardinality(S) - Cardinality(E)
  BY <1>3, FS_Difference
<1>5. IsFiniteSet(E)
  BY <1>1, FS_Subset
<1>6. E # {} => Cardinality(E) # 0
  BY <1>5, FS_EmptySet
<1>7. Cardinality(S \ E) <= limit
  BY <1>1, <1>2, <1>4 DEF Excess
<1>8. E # {} => Cardinality(S) > limit
  BY <1>1, <1>2, <1>6 DEF Excess
<1> QED
  BY <1>7, <1>8

\* The sweep of the negative cache.
LEMMA NegativeSweeps ==
  ASSUME TypeInv, SweepNegative
  PROVE  NegativeSwept
<1> DEFINE D == DOMAIN negativeCache
           live == {f \in D : negativeCache[f] >= 0}
<1>1. IsFiniteSet(D) /\ \A f \in D : negativeCache[f] \in Int
  BY DEF TypeInv, NegativeTyped
<1>2. IsFiniteSet(live)
  BY <1>1, FS_Subset, live \in SUBSET D
<1>3. PICK evicted \in kSubset(Excess(live, NegativeCacheMax), live) :
        /\ \A old \in evicted, kept \in live \ evicted : ~(negativeCache[kept] < negativeCache[old])
        /\ negativeCache' = Without(negativeCache, D \ (live \ evicted))
  BY DEF SweepNegative, Oldest
<1>4. evicted \subseteq live
  BY DEF kSubset
<1>5. DOMAIN negativeCache' = live \ evicted
  BY <1>3, <1>4 DEF Without
<1>6. /\ Cardinality(live \ evicted) <= NegativeCacheMax
      /\ evicted # {} => Cardinality(live) > NegativeCacheMax
  <2> HIDE DEF live
  <2> QED
    BY <1>2, ExcessTaken, GuardAssumption
<1>7. ASSUME NEW f \in D \ DOMAIN negativeCache', negativeCache[f] >= 0
      PROVE  /\ Cardinality(D) > NegativeCacheMax
             /\ \A g \in DOMAIN negativeCache' : negativeCache[f] <= negativeCache[g]
  <2>1. f \in evicted
    BY <1>5, <1>7
  <2>2. Cardinality(D) > NegativeCacheMax
    <3>1. Cardinality(live) <= Cardinality(D) /\ Cardinality(live) \in Nat /\ Cardinality(D) \in Nat
      BY <1>1, <1>2, FS_Subset, FS_CardinalityType, live \in SUBSET D
    <3>2. Cardinality(live) > NegativeCacheMax
      BY <1>6, <2>1
    <3> HIDE DEF live, D
    <3> QED
      BY <3>1, <3>2, GuardAssumption
  <2>3. ASSUME NEW g \in DOMAIN negativeCache' PROVE negativeCache[f] <= negativeCache[g]
    <3>1. g \in live \ evicted
      BY <1>5, <2>3
    <3>2. ~(negativeCache[g] < negativeCache[f])
      BY <1>3, <2>1, <3>1
    <3> QED
      BY <1>1, <1>7, <3>1, <3>2
  <2> QED
    BY <2>2, <2>3
<1> QED
  BY <1>5, <1>6, <1>7 DEF NegativeSwept

\* The sweep of the trackers: an item that is quarantined is never over.
LEMMA BreakerSweeps ==
  ASSUME TypeInv, SweepBreaker
  PROVE  BreakerSwept
<1> DEFINE D == DOMAIN torrentFailures
           stale(i) == torrentFailures[i].staleUntil
           live == {i \in D : ~(Marked(i) /\ stale(i) < 0)}
<1>1. IsFiniteSet(D) /\ \A i \in D : Marked(i) => stale(i) \in Int
  BY DEF TypeInv, TrackersTyped, Marked
<1>2. IsFiniteSet(live)
  BY <1>1, FS_Subset, live \in SUBSET D
<1>3. PICK evicted \in kSubset(Excess(live, BreakerMax), live) :
        /\ \A old \in evicted, kept \in live \ evicted :
             ~(Marked(old) /\ (~Marked(kept) \/ stale(kept) < stale(old)))
        /\ torrentFailures' = Without(torrentFailures, D \ (live \ evicted))
  BY DEF SweepBreaker, Oldest
<1>4. evicted \subseteq live
  BY DEF kSubset
<1>5. DOMAIN torrentFailures' = live \ evicted
  BY <1>3, <1>4 DEF Without
<1>6. /\ Cardinality(live \ evicted) <= BreakerMax
      /\ evicted # {} => Cardinality(live) > BreakerMax
  <2> HIDE DEF live
  <2> QED
    BY <1>2, ExcessTaken, GuardAssumption
<1>7. ASSUME NEW i \in D \ DOMAIN torrentFailures', Stale(i)
      PROVE  /\ Cardinality(D) > BreakerMax
             /\ \A j \in DOMAIN torrentFailures' : Marked(j) /\ stale(i) <= stale(j)
  <2>1. i \in D /\ Marked(i) /\ stale(i) \in Int /\ stale(i) > 0
    BY <1>1, <1>7 DEF Stale
  <2>2. i \in evicted
    BY <1>5, <1>7, <2>1
  <2>3. Cardinality(D) > BreakerMax
    <3>1. Cardinality(live) <= Cardinality(D) /\ Cardinality(live) \in Nat /\ Cardinality(D) \in Nat
      BY <1>1, <1>2, FS_Subset, FS_CardinalityType, live \in SUBSET D
    <3>2. Cardinality(live) > BreakerMax
      BY <1>6, <2>2
    <3> HIDE DEF live, D
    <3> QED
      BY <3>1, <3>2, GuardAssumption
  <2>4. ASSUME NEW j \in DOMAIN torrentFailures' PROVE Marked(j) /\ stale(i) <= stale(j)
    <3>1. j \in live \ evicted /\ j \in D
      BY <1>5, <2>4
    <3>2. Marked(j) /\ ~(stale(j) < stale(i))
      <4> HIDE DEF stale
      <4> QED
        BY <1>3, <2>1, <2>2, <3>1
    <3>3. stale(j) \in Int
      BY <1>1, <3>1, <3>2
    <3> HIDE DEF stale
    <3> QED
      BY <2>1, <3>2, <3>3
  <2> QED
    BY <2>3, <2>4
<1> QED
  BY <1>5, <1>6, <1>7 DEF BreakerSwept

\* Only the sweeps move the cleanup goroutine on.
LEMMA OnlySweepsMove ==
  ASSUME [Next]_vars, cleaner' # cleaner
  PROVE  (SweepNegative /\ cleaner = "negative") \/ (SweepBreaker /\ cleaner = "breaker")
<1>1. ~\E p \in Procs, f \in Files : CheckNegative(p, f)
  BY DEF CheckNegative
<1>2. ~\E p \in Procs : Continue(p)
  BY DEF Continue, BreakerOpen, BreakerClosed, ApiCall, ReturnURL, Sleep, Wake, RecordFailure,
         CacheFailure
<1>3. (~\E f \in Files : CdnExhausted(f)) /\ ~Upstream /\ ~Tick /\ ~UNCHANGED vars
  BY DEF CdnExhausted, Upstream, Tick, vars
<1>4. SweepNegative \/ SweepBreaker
  BY <1>1, <1>2, <1>3 DEF Next
<1>5. (SweepNegative => cleaner = "negative") /\ (SweepBreaker => cleaner = "breaker")
  BY DEF SweepNegative, SweepBreaker
<1> QED
  BY <1>4, <1>5

\* Sweeps keep the maps within their limits and evict the oldest entries only.
THEOREM SweepsEvictOldest == Spec => SweepEvictsOldest
<1>1. TypeInv /\ [Next]_vars => [NegativeSwept /\ BreakerSwept]_vars
  <2> SUFFICES ASSUME TypeInv, [Next]_vars PROVE NegativeSwept /\ BreakerSwept
    OBVIOUS
  <2>1. CASE cleaner' = cleaner
    BY <2>1 DEF NegativeSwept, BreakerSwept
  <2>2. CASE SweepNegative /\ cleaner = "negative"
    BY <2>2, NegativeSweeps DEF BreakerSwept
  <2>3. CASE SweepBreaker /\ cleaner = "breaker"
    BY <2>3, BreakerSweeps DEF NegativeSwept
  <2> QED
    BY <2>1, <2>2, <2>3, OnlySweepsMove
<1>2. Spec => [][NegativeSwept /\ BreakerSwept]_vars
  BY <1>1, TypesCorrect, PTL DEF Spec
<1> QED
  BY <1>2, PTL DEF SweepEvictsOldest, NegativeSwept, BreakerSwept

-----------------------------------------------------------------------------
\* The call that attempt k of q's fetch makes is still to come.
Owes(q, k) ==
  \/ pc[q] = "queued" /\ k >= attempt[q]
  \/ pc[q] \in {"answered", "sleep"} /\ k > attempt[q]

\* The calls for an item that are still to come from requests past the breaker.
CallsLeft(i) == {c \in Procs \X (0..RetryCount) : ItemOf[file[c[1]]] = i /\ Owes(c[1], c[2])}

LeakBound == (Cardinality(Procs) - 1) * (RetryCount + 1)

\* Within a quarantine the calls made and those still to come stay within the bound.
LeakInv ==
  /\ LeakBounded
  /\ \A i \in Items : cooldown[i] > 0 => leaked[i] + Cardinality(CallsLeft(i)) <= LeakBound

\* The bound is a number, and the calls to come are as many.
LEMMA BoundType == LeakBound \in Nat /\ LeakCap \in Nat
<1>1. Cardinality(Procs) \in Nat /\ Cardinality(Procs) # 0
  BY FS_CardinalityType, FS_EmptySet, GuardAssumption
<1>2. Cardinality(Procs) - 1 \in Nat /\ RetryCount + 1 \in Nat
  BY <1>1, GuardAssumption
<1>3. ASSUME NEW m \in Nat, NEW n \in Nat PROVE m * n \in Nat
  OBVIOUS
<1> QED
  BY <1>1, <1>2, <1>3 DEF LeakBound, LeakCap

\* The calls still to come for a torrent can be counted.
LEMMA CallsType ==
  ASSUME NEW i
  PROVE  IsFiniteSet(CallsLeft(i)) /\ Cardinality(CallsLeft(i)) \in Nat
<1>1. IsFiniteSet(Procs \X (0..RetryCount))
  <2>1. IsFiniteSet(0..RetryCount) /\ IsFiniteSet(Procs)
    BY FS_Interval, GuardAssumption
  <2> QED
    BY <2>1, FS_Product
<1>2. CallsLeft(i) \in SUBSET (Procs \X (0..RetryCount))
  BY DEF CallsLeft
<1>3. IsFiniteSet(CallsLeft(i))
  BY <1>1, <1>2, FS_Subset
<1> QED
  BY <1>3, FS_CardinalityType

\* A step that adds no call and opens no quarantine.
LEMMA LeaksStay ==
  ASSUME LeakInv, TypeInv, leaked' = leaked,
         \A i \in Items : cooldown'[i] > 0 => cooldown[i] > 0,
         \A q \in Procs : \A k \in 0..RetryCount : Owes(q, k)' => Owes(q, k) /\ file'[q] = file[q]
  PROVE  LeakInv'
<1>1. LeakBounded'
  BY DEF LeakInv, LeakBounded
<1>2. ASSUME NEW i \in Items, cooldown'[i] > 0
      PROVE  leaked'[i] + Cardinality(CallsLeft(i)') <= LeakBound
  <2>1. CallsLeft(i)' \subseteq CallsLeft(i)
    BY DEF CallsLeft
  <2>2. IsFiniteSet(CallsLeft(i)) /\ Cardinality(CallsLeft(i)) \in Nat
    BY CallsType
  <2>3. Cardinality(CallsLeft(i)') <= Cardinality(CallsLeft(i)) /\ Cardinality(CallsLeft(i)') \in Nat
    BY <2>1, <2>2, FS_Subset, FS_CardinalityType
  <2>4. leaked'[i] = leaked[i] /\ leaked[i] \in Nat
    BY DEF TypeInv, RestTyped
  <2>5. leaked[i] + Cardinality(CallsLeft(i)) <= LeakBound
    BY <1>2 DEF LeakInv
  <2> QED
    BY <2>2, <2>3, <2>4, <2>5, BoundType
<1> QED
  BY <1>1, <1>2 DEF LeakInv

\* The steps of a fetch that make no call.
LEMMA FetchLeaks ==
  ASSUME LeakInv, TypeInv, NEW p \in Procs,
         \/ \E f \in Files : CheckNegative(p, f)
         \/ BreakerOpen(p) \/ ReturnURL(p) \/ Sleep(p) \/ Wake(p) \/ CacheFailure(p)
  PROVE  LeakInv'
<1>1. leaked' = leaked /\ cooldown' = cooldown
  BY DEF CheckNegative, BreakerOpen, ReturnURL, Sleep, Wake, CacheFailure, history
<1> SUFFICES ASSUME NEW q \in Procs, NEW k \in 0..RetryCount, Owes(q, k)'
             PROVE  Owes(q, k) /\ file'[q] = file[q]
  BY <1>1, LeaksStay
<1>2. /\ pc \in [Procs -> {"idle", "breaker", "queued", "answered", "sleep", "failed"}]
      /\ file \in [Procs -> Files] /\ attempt \in [Procs -> 0..RetryCount]
  BY DEF TypeInv, ProcTyped
<1>3. ASSUME NEW f \in Files, CheckNegative(p, f) PROVE Owes(q, k) /\ file'[q] = file[q]
  <2>1. pc' = [pc EXCEPT ![p] = "breaker"] /\ file' = [file EXCEPT ![p] = f] /\ attempt' = attempt
    BY <1>3 DEF CheckNegative, Goto
  <2> QED
    BY <1>2, <2>1 DEF Owes
<1>4. CASE BreakerOpen(p) \/ ReturnURL(p) \/ CacheFailure(p)
  <2>1. pc' = [pc EXCEPT ![p] = "idle"] /\ file' = file /\ attempt' = attempt
    BY <1>4 DEF BreakerOpen, ReturnURL, CacheFailure, Goto
  <2> QED
    BY <1>2, <2>1 DEF Owes
<1>5. CASE Sleep(p)
  <2>1. pc[p] = "answered" /\ pc' = [pc EXCEPT ![p] = "sleep"] /\ file' = file /\ attempt' = attempt
    BY <1>5 DEF Sleep, Goto
  <2> QED
    BY <1>2, <2>1 DEF Owes
<1>6. CASE Wake(p)
  <2>1. /\ pc[p] = "sleep" /\ pc' = [pc EXCEPT ![p] = "queued"] /\ file' = file
        /\ attempt' = [attempt EXCEPT ![p] = @ + 1]
    BY <1>6 DEF Wake, Goto
  <2> QED
    BY <1>2, <2>1 DEF Owes
<1> QED
  BY <1>3, <1>4, <1>5, <1>6

\* A request passes the breaker only while its item is not quarantined.
LEMMA ClosedLeaks ==
  ASSUME LeakInv, TypeInv, QuarantineKept, NEW p \in Procs, BreakerClosed(p)
  PROVE  LeakInv'
<1> DEFINE j == ItemOf[file[p]]
<1>1. /\ ~Stale(j) /\ leaked' = leaked /\ cooldown' = cooldown /\ file' = file
      /\ pc' = [pc EXCEPT ![p] = "queued"] /\ attempt' = [attempt EXCEPT ![p] = 0]
  BY DEF BreakerClosed, Goto, history
<1>2. LeakBounded'
  BY <1>1 DEF LeakInv, LeakBounded
<1>3. ASSUME NEW i \in Items, cooldown'[i] > 0
      PROVE  leaked'[i] + Cardinality(CallsLeft(i)') <= LeakBound
  <2>1. i # j
    BY <1>1, <1>3 DEF QuarantineKept
  <2>2. \A q \in Procs : q # p => pc'[q] = pc[q] /\ attempt'[q] = attempt[q]
    BY <1>1 DEF TypeInv, ProcTyped
  <2>3. CallsLeft(i)' = CallsLeft(i)
    <3>1. ASSUME NEW c \in Procs \X (0..RetryCount), ItemOf[file[c[1]]] = i
          PROVE  Owes(c[1], c[2])' = Owes(c[1], c[2])
      <4>1. c[1] # p /\ c[1] \in Procs
        BY <2>1, <3>1
      <4> QED
        BY <2>2, <4>1 DEF Owes
    <3> QED
      BY <1>1, <3>1 DEF CallsLeft
  <2> QED
    BY <1>1, <1>3, <2>3 DEF LeakInv
<1> QED
  BY <1>2, <1>3 DEF LeakInv

\* A call that is made is one fewer to come.
LEMMA CallLeaks ==
  ASSUME LeakInv, TypeInv, NEW p \in Procs, NEW a \in Answers, ApiCall(p, a)
  PROVE  LeakInv'
<1> DEFINE j == ItemOf[file[p]]
           made == <<p, attempt[p]>>
<1>1. /\ pc[p] = "queued" /\ file' = file /\ attempt' = attempt /\ cooldown' = cooldown
      /\ pc' = [pc EXCEPT ![p] = "answered"]
      /\ leaked' = IF cooldown[j] > 0 /\ leaked[j] < LeakCap THEN [leaked EXCEPT ![j] = @ + 1]
                   ELSE leaked
  BY DEF ApiCall, Goto
<1>2. /\ pc \in [Procs -> {"idle", "breaker", "queued", "answered", "sleep", "failed"}]
      /\ file \in [Procs -> Files] /\ attempt \in [Procs -> 0..RetryCount]
      /\ leaked \in [Items -> Nat]
  BY DEF TypeInv, ProcTyped, RestTyped
<1>3. j \in Items
  BY <1>2 DEF Items
<1>4. ASSUME NEW q \in Procs, NEW k \in 0..RetryCount, Owes(q, k)'
      PROVE  Owes(q, k) /\ <<q, k>> # made
  BY <1>1, <1>2, <1>4 DEF Owes
<1>5. ASSUME NEW i \in Items PROVE CallsLeft(i)' \subseteq CallsLeft(i) \ {made}
  <2> HIDE DEF made
  <2>1. ASSUME NEW c \in CallsLeft(i)' PROVE c \in CallsLeft(i) \ {made}
    <3>1. /\ c \in Procs \X (0..RetryCount) /\ ItemOf[file[c[1]]] = i /\ Owes(c[1], c[2])'
          /\ c = <<c[1], c[2]>> /\ c[1] \in Procs /\ c[2] \in 0..RetryCount
      BY <1>1 DEF CallsLeft
    <3>2. Owes(c[1], c[2]) /\ c # made
      BY <1>4, <3>1
    <3> QED
      BY <3>1, <3>2 DEF CallsLeft
  <2> QED
    BY <2>1
<1>6. made \in CallsLeft(j)
  BY <1>1, <1>2, GuardAssumption DEF CallsLeft, Owes
<1>7. ASSUME NEW i \in Items
      PROVE  /\ Cardinality(CallsLeft(i)') \in Nat /\ Cardinality(CallsLeft(i)) \in Nat
             /\ Cardinality(CallsLeft(i)') <= Cardinality(CallsLeft(i))
             /\ i = j => Cardinality(CallsLeft(i)') + 1 <= Cardinality(CallsLeft(i))
  <2> HIDE DEF made, j
  <2>1. IsFiniteSet(CallsLeft(i)) /\ Cardinality(CallsLeft(i)) \in Nat
    BY CallsType
  <2>2. CallsLeft(i)' \subseteq CallsLeft(i)
    BY <1>5
  <2>3. /\ IsFiniteSet(CallsLeft(i)') /\ Cardinality(CallsLeft(i)') \in Nat
        /\ Cardinality(CallsLeft(i)') <= Cardinality(CallsLeft(i))
    BY <2>1, <2>2, FS_Subset, FS_CardinalityType
  <2>4. ASSUME i = j PROVE Cardinality(CallsLeft(i)') # Cardinality(CallsLeft(i))
    <3>1. made \in CallsLeft(i) /\ made \notin CallsLeft(i)'
      BY <1>5, <1>6, <2>4
    <3> QED
      BY <2>1, <2>2, <3>1, FS_Subset
  <2> QED
    BY <2>1, <2>3, <2>4
<1> HIDE DEF made
<1>8. ASSUME NEW i \in Items, cooldown'[i] > 0
      PROVE  leaked'[i] + Cardinality(CallsLeft(i)') <= LeakBound
  <2>1. leaked[i] \in Nat /\ leaked[i] + Cardinality(CallsLeft(i)) <= LeakBound
    BY <1>1, <1>2, <1>8 DEF LeakInv
  <2>2. leaked'[i] = leaked[i] \/ (i = j /\ leaked'[i] = leaked[i] + 1)
    BY <1>1, <1>2, <1>3
  <2> HIDE DEF j
  <2> QED
    BY <1>7, <2>1, <2>2, BoundType
<1>9. ASSUME NEW i \in Items PROVE leaked'[i] <= LeakBound
  <2>1. CASE cooldown'[i] > 0
    <3>1. leaked'[i] + Cardinality(CallsLeft(i)') <= LeakBound /\ Cardinality(CallsLeft(i)') \in Nat
      BY <1>7, <1>8, <2>1
    <3>2. leaked'[i] \in Nat
      BY <1>1, <1>2, <1>3
    <3> QED
      BY <3>1, <3>2, BoundType
  <2>2. CASE ~(cooldown'[i] > 0)
    <3>1. leaked'[i] = leaked[i]
      BY <1>1, <1>2, <1>3, <2>2
    <3> QED
      BY <3>1 DEF LeakInv, LeakBounded, LeakBound
  <2> QED
    BY <2>1, <2>2
<1> QED
  BY <1>8, <1>9 DEF LeakInv, LeakBounded, LeakBound

\* A failure that trips the breaker finds every other request past it at most.
LEMMA RecordLeaks ==
  ASSUME LeakInv, TypeInv, NEW p \in Procs, RecordFailure(p)
  PROVE  LeakInv'
<1> DEFINE j == ItemOf[file[p]]
           trips == Len(Active(j)) >= BreakerFailures
<1>1. /\ file' = file /\ attempt' = attempt /\ pc' = [pc EXCEPT ![p] = "failed"]
      /\ cooldown' = IF trips THEN [cooldown EXCEPT ![j] = BreakerStale] ELSE cooldown
      /\ leaked' = IF trips /\ cooldown[j] = 0 THEN [leaked EXCEPT ![j] = 0] ELSE leaked
  BY DEF RecordFailure, Goto
<1>2. /\ pc \in [Procs -> {"idle", "breaker", "queued", "answered", "sleep", "failed"}]
      /\ file \in [Procs -> Files] /\ attempt \in [Procs -> 0..RetryCount]
      /\ leaked \in [Items -> Nat] /\ cooldown \in [Items -> Nat]
  BY GuardAssumption DEF TypeInv, ProcTyped, TrackersTyped, RestTyped
<1>3. j \in Items
  BY <1>2 DEF Items
<1> HIDE DEF j, trips
<1>4. ASSUME NEW q \in Procs, NEW k \in 0..RetryCount, Owes(q, k)'
      PROVE  Owes(q, k) /\ q # p
  BY <1>1, <1>2, <1>4 DEF Owes
<1>5. LeakBounded'
  BY <1>1, <1>2, <1>3, BoundType DEF LeakInv, LeakBounded, LeakBound
<1>6. ASSUME NEW i \in Items, cooldown'[i] > 0
      PROVE  leaked'[i] + Cardinality(CallsLeft(i)') <= LeakBound
  <2>1. CallsLeft(i)' \subseteq CallsLeft(i) /\ CallsLeft(i)' \subseteq (Procs \ {p}) \X (0..RetryCount)
    BY <1>1, <1>4 DEF CallsLeft
  <2>2. /\ Cardinality(CallsLeft(i)') <= Cardinality(CallsLeft(i))
        /\ Cardinality(CallsLeft(i)') \in Nat /\ Cardinality(CallsLeft(i)) \in Nat
    BY <2>1, CallsType, FS_Subset, FS_CardinalityType
  <2>3. CASE cooldown[i] > 0
    <3>1. leaked[i] \in Nat /\ leaked[i] + Cardinality(CallsLeft(i)) <= LeakBound
      BY <1>2, <2>3 DEF LeakInv
    <3>2. leaked'[i] = leaked[i]
      BY <1>1, <1>2, <1>3, <2>3
    <3> QED
      BY <2>2, <3>1, <3>2, BoundType
  <2>4. CASE ~(cooldown[i] > 0)
    <3>1. i = j /\ leaked'[i] = 0
      BY <1>1, <1>2, <1>3, <1>6, <2>4
    <3>2. IsFiniteSet(Procs \ {p}) /\ Cardinality(Procs \ {p}) = Cardinality(Procs) - 1
      BY FS_RemoveElement, GuardAssumption
    <3>3. IsFiniteSet(0..RetryCount) /\ Cardinality(0..RetryCount) = RetryCount + 1
      BY FS_Interval, GuardAssumption
    <3>4. /\ IsFiniteSet((Procs \ {p}) \X (0..RetryCount))
          /\ Cardinality((Procs \ {p}) \X (0..RetryCount)) = LeakBound
      <4> DEFINE S == Procs \ {p}
                 K == 0..RetryCount
      <4>1. IsFiniteSet(S) /\ Cardinality(S) = Cardinality(Procs) - 1
        BY <3>2
      <4>2. IsFiniteSet(K) /\ Cardinality(K) = RetryCount + 1
        BY <3>3
      <4> HIDE DEF S, K
      <4>3. IsFiniteSet(S \X K) /\ Cardinality(S \X K) = Cardinality(S) * Cardinality(K)
        BY <4>1, <4>2, FS_Product, Zenon
      <4> QED
        BY <4>1, <4>2, <4>3, Zenon DEF S, K, LeakBound
    <3>5. Cardinality(CallsLeft(i)') <= LeakBound
      BY <2>1, <3>4, FS_Subset
    <3> QED
      BY <2>2, <3>1, <3>5, BoundType
  <2> QED
    BY <2>3, <2>4
<1> QED
  BY <1>5, <1>6 DEF LeakInv

\* The invariant of the leak holds of every behaviour.
THEOREM LeakCorrect == Spec => []LeakInv
<1>1. Init => LeakInv
  <2> SUFFICES ASSUME Init PROVE LeakInv
    OBVIOUS
  <2>1. leaked = [i \in Items |-> 0] /\ cooldown = [i \in Items |-> 0]
    BY DEF Init
  <2> QED
    BY <2>1, BoundType DEF LeakInv, LeakBounded, LeakBound
<1>2. LeakInv /\ TypeInv /\ QuarantineKept /\ [Next]_vars => LeakInv'
  <2> SUFFICES ASSUME LeakInv, TypeInv, QuarantineKept, [Next]_vars PROVE LeakInv'
    OBVIOUS
  <2>1. ASSUME NEW p \in Procs, NEW f \in Files, CheckNegative(p, f) PROVE LeakInv'
    BY <2>1, FetchLeaks
  <2>2. ASSUME NEW p \in Procs, Continue(p) PROVE LeakInv'
    <3>1. CASE BreakerOpen(p) \/ ReturnURL(p) \/ Sleep(p) \/ Wake(p) \/ CacheFailure(p)
      BY <3>1, FetchLeaks
    <3>2. CASE BreakerClosed(p)
      BY <3>2, ClosedLeaks
    <3>3. ASSUME NEW a \in Answers, ApiCall(p, a) PROVE LeakInv'
      BY <3>3, CallLeaks
    <3>4. CASE RecordFailure(p)
      BY <3>4, RecordLeaks
    <3> QED
      BY <2>2, <3>1, <3>2, <3>3, <3>4 DEF Continue
  <2>3. ASSUME UNCHANGED <<proc, leaked>>, \A i \in Items : cooldown'[i] > 0 => cooldown[i] > 0
        PROVE  LeakInv'
    <3>1. pc' = pc /\ file' = file /\ attempt' = attempt /\ leaked' = leaked
      BY <2>3 DEF proc
    <3>2. \A q \in Procs : \A k \in 0..RetryCount : Owes(q, k)' => Owes(q, k) /\ file'[q] = file[q]
      BY <3>1 DEF Owes
    <3> QED
      BY <2>3, <3>1, <3>2, LeaksStay
  <2>4. ASSUME NEW f \in Files, CdnExhausted(f) PROVE LeakInv'
    BY <2>3, <2>4 DEF CdnExhausted
  <2>5. CASE SweepNegative
    <3>1. UNCHANGED <<proc, leaked, cooldown>>
      BY <2>5 DEF SweepNegative
    <3> QED
      BY <2>3, <3>1
  <2>6. CASE SweepBreaker
    <3>1. PICK evicted : cooldown' = [i \in Items |-> IF i \in evicted THEN 0 ELSE cooldown[i]]
      BY <2>6 DEF SweepBreaker
    <3>2. UNCHANGED <<proc, leaked>>
      BY <2>6 DEF SweepBreaker
    <3> QED
      BY <2>3, <3>1, <3>2
  <2>7. CASE Upstream \/ UNCHANGED vars
    BY <2>3, <2>7 DEF Upstream, vars, history
  <2>8. CASE Tick
    <3>1. /\ pc' = pc /\ file' = file /\ attempt' = attempt /\ leaked' = leaked
          /\ cooldown' = [i \in Items |-> Down(cooldown[i])]
      BY <2>8 DEF Tick
    <3>2. \A q \in Procs : \A k \in 0..RetryCount : Owes(q, k)' => Owes(q, k) /\ file'[q] = file[q]
      BY <3>1 DEF Owes
    <3>3. \A i \in Items : cooldown'[i] > 0 => cooldown[i] > 0
      BY <3>1, GuardAssumption DEF TypeInv, TrackersTyped, Down
    <3> QED
      BY <3>1, <3>2, <3>3, LeaksStay
  <2> QED
    BY <2>1, <2>2, <2>4, <2>5, <2>6, <2>7, <2>8 DEF Next
<1> QED
  BY <1>1, <1>2, TypesCorrect, Quarantined, PTL DEF Spec

\* Calls for a quarantined item come only from requests that were past the breaker.
THEOREM LeaksBounded == Spec => []LeakBounded
<1>1. LeakInv => LeakBounded
  BY DEF LeakInv
<1> QED
  BY <1>1, LeakCorrect, PTL
=============================================================================
