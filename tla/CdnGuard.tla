------------------------------- MODULE CdnGuard -------------------------------
(***************************************************************************)
(* internal/server/get.go fetchCDNURL and internal/server/server.go's      *)
(* sweeps: what stands between a request for a file and a requestdl call   *)
(* to TorBox.  A negative cache per file and a circuit breaker per item    *)
(* are checked first, then the call is queued and retried with backoff; a  *)
(* failure is recorded in both.  Every check, every record and every sweep *)
(* is a locked section of its own, so any number of requests interleave    *)
(* between them.  Deadlines are kept as the ticks left to them, -1 once    *)
(* they have passed; failures as the ticks since them.                     *)
(***************************************************************************)
EXTENDS Integers, Sequences, FiniteSets, FiniteSetsExt, Selection

CONSTANTS
  Procs,               \* request goroutines
  Files,               \* the keys cdnCacheKey builds
  ItemOf,              \* the item id in a key
  NegativeCacheTTL, NegativeCacheMax,
  BreakerFailures, BreakerWindow, BreakerStale, BreakerMax,
  RetryCount,          \* CDNURLRetryCount
  RetryBackoff,        \* CDNURLRetryBackoff
  RateLimitBackoff,    \* the 30 s after a 429
  ZeroTime             \* a staleUntil never set

Items == {ItemOf[f] : f \in Files}

ASSUME GuardAssumption ==
  /\ Files # {} /\ Procs # {} /\ IsFiniteSet(Procs)
  /\ NegativeCacheTTL \in Nat \ {0} /\ NegativeCacheMax \in Nat
  /\ BreakerFailures \in Nat \ {0} /\ BreakerWindow \in Nat \ {0}
  /\ BreakerStale \in Nat \ {0} /\ BreakerMax \in Nat
  /\ RetryCount \in Nat /\ RetryBackoff \in Nat /\ RateLimitBackoff \in Nat
  /\ ZeroTime \notin Int

VARIABLES
  pc, file, attempt, answer, pause,   \* one fetchCDNURL per process
  negativeCache,     \* key -> ticks to expiresAt
  torrentFailures,   \* item id -> [failures, staleUntil]
  cleaner,           \* which sweep the cleanup goroutine runs next
  upstreamOk,        \* TorBox answers requestdl and its CDN serves
  memory,            \* ticks left of a file's last negative entry (history)
  cooldown,          \* ticks left of an item's last quarantine (history)
  leaked             \* API calls for an item within its quarantine (history)

proc == <<pc, file, attempt, answer, pause>>
history == <<memory, cooldown, leaked>>
vars == <<proc, negativeCache, torrentFailures, cleaner, upstreamOk, history>>

Without(f, S) == [x \in DOMAIN f \ S |-> f[x]]
With(f, k, v) == [x \in DOMAIN f \cup {k} |-> IF x = k THEN v ELSE f[x]]

Init ==
  /\ pc = [p \in Procs |-> "idle"]
  /\ file \in [Procs -> {CHOOSE f \in Files : TRUE}]
  /\ attempt = [p \in Procs |-> 0]
  /\ answer = [p \in Procs |-> "url"]
  /\ pause = [p \in Procs |-> 0]
  /\ negativeCache = [f \in {} |-> 0]
  /\ torrentFailures = [i \in {} |-> 0]
  /\ cleaner = "negative"
  /\ upstreamOk \in BOOLEAN
  /\ memory = [f \in Files |-> 0]
  /\ cooldown = [i \in Items |-> 0]
  /\ leaked = [i \in Items |-> 0]

Goto(p, where) == pc' = [pc EXCEPT ![p] = where]

-----------------------------------------------------------------------------
\* An entry that has not expired: fetchCDNURL returns the cached error and nothing
\* changes.
NegativeHit(f) == f \in DOMAIN negativeCache /\ negativeCache[f] > 0

\* No entry, or an expired one that is removed on the way.
CheckNegative(p, f) ==
  /\ pc[p] = "idle"
  /\ ~NegativeHit(f)
  /\ negativeCache' = Without(negativeCache, {f})
  /\ file' = [file EXCEPT ![p] = f]
  /\ Goto(p, "breaker")
  /\ UNCHANGED <<attempt, answer, pause, torrentFailures, cleaner, upstreamOk, history>>

Marked(i) == i \in DOMAIN torrentFailures /\ torrentFailures[i].staleUntil # ZeroTime
Stale(i) == Marked(i) /\ torrentFailures[i].staleUntil > 0

\* Mutant: a refused request prolongs the quarantine.
BreakerExtends(p) ==
  LET i == ItemOf[file[p]] IN
  /\ pc[p] = "breaker"
  /\ Stale(i)
  /\ torrentFailures' = [torrentFailures EXCEPT ![i].staleUntil = BreakerStale]
  /\ Goto(p, "idle")
  /\ UNCHANGED <<file, attempt, answer, pause, negativeCache, cleaner, upstreamOk, history>>

\* isTorrentStale answers true: fetchCDNURL returns without an API call.
BreakerOpen(p) ==
  /\ pc[p] = "breaker"
  /\ Stale(ItemOf[file[p]])
  /\ Goto(p, "idle")
  /\ UNCHANGED <<file, attempt, answer, pause, negativeCache, torrentFailures, cleaner,
                 upstreamOk, history>>

\* Mutant: the request goes on whatever the tracker says.
BreakerIgnored(p) ==
  LET i == ItemOf[file[p]] IN
  /\ pc[p] = "breaker"
  /\ attempt' = [attempt EXCEPT ![p] = 0]
  /\ Goto(p, "queued")
  /\ UNCHANGED <<file, answer, pause, negativeCache, torrentFailures, cleaner, upstreamOk,
                 history>>

\* isTorrentStale answers false, dropping a tracker whose stale period is over.
BreakerClosed(p) ==
  LET i == ItemOf[file[p]] IN
  /\ pc[p] = "breaker"
  /\ ~Stale(i)
  /\ torrentFailures' = IF Marked(i) THEN Without(torrentFailures, {i}) ELSE torrentFailures
  /\ attempt' = [attempt EXCEPT ![p] = 0]
  /\ Goto(p, "queued")
  /\ UNCHANGED <<file, answer, pause, negativeCache, cleaner, upstreamOk, history>>

Answers == IF upstreamOk THEN {"url"} ELSE {"url", "429", "transient", "fatal"}

\* The history variable leaked stops counting beyond any bound the code could meet.
LeakCap == Cardinality(Procs) * (RetryCount + 1)

\* The queue executes the request and sends the result.
ApiCall(p, a) ==
  LET i == ItemOf[file[p]] IN
  /\ pc[p] = "queued"
  /\ answer' = [answer EXCEPT ![p] = a]
  /\ Goto(p, "answered")
  /\ leaked' = IF cooldown[i] > 0 /\ leaked[i] < LeakCap THEN [leaked EXCEPT ![i] = @ + 1] ELSE leaked
  /\ UNCHANGED <<file, attempt, pause, negativeCache, torrentFailures, cleaner, upstreamOk,
                 memory, cooldown>>

Retryable(a) == a \in {"429", "transient"}

ReturnURL(p) ==
  /\ pc[p] = "answered"
  /\ answer[p] = "url"
  /\ Goto(p, "idle")
  /\ UNCHANGED <<file, attempt, answer, pause, negativeCache, torrentFailures, cleaner,
                 upstreamOk, history>>

\* baseBackoff * (1 << attempt)
Shifted[k \in 0..RetryCount] == IF k = 0 THEN RetryBackoff ELSE 2 * Shifted[k - 1]

Backoff(p) == IF answer[p] = "429" THEN RateLimitBackoff ELSE Shifted[attempt[p]]

\* Mutant: one attempt too many.
SleepOnceMore(p) ==
  /\ pc[p] = "answered"
  /\ Retryable(answer[p])
  /\ attempt[p] <= RetryCount
  /\ pause' = [pause EXCEPT ![p] = Backoff(p)]
  /\ Goto(p, "sleep")
  /\ UNCHANGED <<file, attempt, answer, negativeCache, torrentFailures, cleaner,
                 upstreamOk, history>>

Sleep(p) ==
  /\ pc[p] = "answered"
  /\ Retryable(answer[p])
  /\ attempt[p] < RetryCount
  /\ pause' = [pause EXCEPT ![p] = Backoff(p)]
  /\ Goto(p, "sleep")
  /\ UNCHANGED <<file, attempt, answer, negativeCache, torrentFailures, cleaner,
                 upstreamOk, history>>

\* Mutant: the attempts are not counted.
WakeUncounted(p) ==
  /\ pc[p] = "sleep"
  /\ pause[p] = 0
  /\ Goto(p, "queued")
  /\ UNCHANGED <<file, attempt, answer, pause, negativeCache, torrentFailures, cleaner,
                 upstreamOk, history>>

\* The next attempt is queued; the breaker is not asked again.
Wake(p) ==
  /\ pc[p] = "sleep"
  /\ pause[p] = 0
  /\ attempt' = [attempt EXCEPT ![p] = @ + 1]
  /\ Goto(p, "queued")
  /\ UNCHANGED <<file, answer, pause, negativeCache, torrentFailures, cleaner,
                 upstreamOk, history>>

\* The failures recordTorrentFailure keeps, the new one included.
Active(i) ==
  IF i \in DOMAIN torrentFailures
  THEN Append(Select(torrentFailures[i].failures, 0..(BreakerWindow - 1)), 0)
  ELSE <<0>>

\* Mutant: a quarantine under way is not renewed by a failure that trips again.
StaleOnce(i) ==
  IF i \in DOMAIN torrentFailures /\ torrentFailures[i].staleUntil # ZeroTime
  THEN torrentFailures[i].staleUntil
  ELSE IF Len(Active(i)) >= BreakerFailures THEN BreakerStale ELSE ZeroTime

StaleUntil(i) ==
  IF Len(Active(i)) >= BreakerFailures THEN BreakerStale
  ELSE IF i \in DOMAIN torrentFailures THEN torrentFailures[i].staleUntil ELSE ZeroTime

\* Not retryable or out of attempts: recordTorrentFailure.
RecordFailure(p) ==
  LET i == ItemOf[file[p]]
      trips == Len(Active(i)) >= BreakerFailures
  IN
  /\ pc[p] = "answered"
  /\ answer[p] # "url"
  /\ ~Retryable(answer[p]) \/ attempt[p] >= RetryCount
  /\ torrentFailures' =
       With(torrentFailures, i, [failures |-> Active(i), staleUntil |-> StaleUntil(i)])
  /\ Goto(p, "failed")
  /\ cooldown' = IF trips THEN [cooldown EXCEPT ![i] = BreakerStale] ELSE cooldown
  /\ leaked' = IF trips /\ cooldown[i] = 0 THEN [leaked EXCEPT ![i] = 0] ELSE leaked
  /\ UNCHANGED <<file, attempt, answer, pause, negativeCache, cleaner, upstreamOk, memory>>

\* Mutant: an entry that is there is not overwritten.
CacheIfAbsent(p) ==
  /\ pc[p] = "failed"
  /\ negativeCache' = IF file[p] \in DOMAIN negativeCache THEN negativeCache
                      ELSE With(negativeCache, file[p], NegativeCacheTTL)
  /\ memory' = [memory EXCEPT ![file[p]] = NegativeCacheTTL]
  /\ Goto(p, "idle")
  /\ UNCHANGED <<file, attempt, answer, pause, torrentFailures, cleaner, upstreamOk,
                 cooldown, leaked>>

\* fetchCDNURL remembers the error under the file's key.
CacheFailure(p) ==
  /\ pc[p] = "failed"
  /\ negativeCache' = With(negativeCache, file[p], NegativeCacheTTL)
  /\ memory' = [memory EXCEPT ![file[p]] = NegativeCacheTTL]
  /\ Goto(p, "idle")
  /\ UNCHANGED <<file, attempt, answer, pause, torrentFailures, cleaner, upstreamOk,
                 cooldown, leaked>>

\* streamFileContent: the CDN still answers 403 or 404 after every repair.
CdnExhausted(f) ==
  /\ ~upstreamOk
  /\ negativeCache' = With(negativeCache, f, NegativeCacheTTL)
  /\ memory' = [memory EXCEPT ![f] = NegativeCacheTTL]
  /\ UNCHANGED <<proc, torrentFailures, cleaner, upstreamOk, cooldown, leaked>>

-----------------------------------------------------------------------------
\* The sets of excess entries an unstable sort by deadline can put first.
Oldest(S, over, before(_, _)) ==
  {E \in kSubset(over, S) : \A old \in E, kept \in S \ E : ~before(kept, old)}

Excess(S, limit) == IF Cardinality(S) > limit THEN Cardinality(S) - limit ELSE 0

\* Mutant: the entries are sorted the other way round.
SweepNewest ==
  LET live == {f \in DOMAIN negativeCache : negativeCache[f] >= 0}
      sooner(a, b) == negativeCache[a] > negativeCache[b]
  IN
  /\ cleaner = "negative"
  /\ cleaner' = "breaker"
  /\ \E evicted \in Oldest(live, Excess(live, NegativeCacheMax), sooner) :
       /\ negativeCache' = Without(negativeCache, DOMAIN negativeCache \ (live \ evicted))
       /\ memory' = [f \in Files |-> IF f \in evicted THEN 0 ELSE memory[f]]
  /\ UNCHANGED <<proc, torrentFailures, upstreamOk, cooldown, leaked>>

SweepNegative ==
  LET live == {f \in DOMAIN negativeCache : negativeCache[f] >= 0}
      sooner(a, b) == negativeCache[a] < negativeCache[b]
  IN
  /\ cleaner = "negative"
  /\ cleaner' = "breaker"
  /\ \E evicted \in Oldest(live, Excess(live, NegativeCacheMax), sooner) :
       /\ negativeCache' = Without(negativeCache, DOMAIN negativeCache \ (live \ evicted))
       /\ memory' = [f \in Files |-> IF f \in evicted THEN 0 ELSE memory[f]]
  /\ UNCHANGED <<proc, torrentFailures, upstreamOk, cooldown, leaked>>

SweepBreaker ==
  LET over(i) == Marked(i) /\ torrentFailures[i].staleUntil < 0
      live == {i \in DOMAIN torrentFailures : ~over(i)}
      sooner(a, b) == /\ Marked(b)
                      /\ \/ ~Marked(a)
                         \/ torrentFailures[a].staleUntil < torrentFailures[b].staleUntil
  IN
  /\ cleaner = "breaker"
  /\ cleaner' = "negative"
  /\ \E evicted \in Oldest(live, Excess(live, BreakerMax), sooner) :
       /\ torrentFailures' = Without(torrentFailures, DOMAIN torrentFailures \ (live \ evicted))
       /\ cooldown' = [i \in Items |-> IF i \in evicted THEN 0 ELSE cooldown[i]]
  /\ UNCHANGED <<proc, negativeCache, upstreamOk, memory, leaked>>

-----------------------------------------------------------------------------
\* TorBox goes down or comes back.
Upstream ==
  /\ upstreamOk' = ~upstreamOk
  /\ UNCHANGED <<proc, negativeCache, torrentFailures, cleaner, history>>

Down(t) == IF t > 0 THEN t - 1 ELSE t
Past(t) == IF t = ZeroTime \/ t = -1 THEN t ELSE t - 1

Aged(tracker) ==
  [failures |-> [k \in DOMAIN tracker.failures |->
                   IF tracker.failures[k] < BreakerWindow THEN tracker.failures[k] + 1
                   ELSE BreakerWindow],
   staleUntil |-> Past(tracker.staleUntil)]

Tick ==
  /\ negativeCache' = [f \in DOMAIN negativeCache |-> Past(negativeCache[f])]
  /\ torrentFailures' = [i \in DOMAIN torrentFailures |-> Aged(torrentFailures[i])]
  /\ pause' = [p \in Procs |-> Down(pause[p])]
  /\ memory' = [f \in Files |-> Down(memory[f])]
  /\ cooldown' = [i \in Items |-> Down(cooldown[i])]
  /\ UNCHANGED <<pc, file, attempt, answer, cleaner, upstreamOk, leaked>>

Continue(p) ==
  \/ BreakerOpen(p) \/ BreakerClosed(p)
  \/ \E a \in Answers : ApiCall(p, a)
  \/ ReturnURL(p) \/ Sleep(p) \/ Wake(p) \/ RecordFailure(p) \/ CacheFailure(p)

Next ==
  \/ \E p \in Procs, f \in Files : CheckNegative(p, f)
  \/ \E p \in Procs : Continue(p)
  \/ \E f \in Files : CdnExhausted(f)
  \/ SweepNegative \/ SweepBreaker
  \/ Upstream
  \/ Tick

Spec == Init /\ [][Next]_vars

\* A fetch that has begun goes on (the queue answers it, the sleep ends) and time passes.
FairSpec == Spec /\ WF_vars(Tick) /\ \A p \in Procs : WF_vars(Continue(p))
-----------------------------------------------------------------------------
\* Types; an attempt never passes the retry count (get.go:435).
TypeOK ==
  /\ pc \in [Procs -> {"idle", "breaker", "queued", "answered", "sleep", "failed"}]
  /\ file \in [Procs -> Files]
  /\ attempt \in [Procs -> 0..RetryCount]
  /\ answer \in [Procs -> {"url", "429", "transient", "fatal"}]
  /\ pause \in [Procs -> Nat]
  /\ DOMAIN negativeCache \subseteq Files
  /\ \A f \in DOMAIN negativeCache : negativeCache[f] \in -1..NegativeCacheTTL
  /\ DOMAIN torrentFailures \subseteq Items
  /\ \A i \in DOMAIN torrentFailures :
       /\ torrentFailures[i].failures \in Seq(0..BreakerWindow)
       /\ torrentFailures[i].staleUntil \in {ZeroTime} \cup -1..BreakerStale
  /\ cleaner \in {"negative", "breaker"}
  /\ upstreamOk \in BOOLEAN
  /\ memory \in [Files -> 0..NegativeCacheTTL]
  /\ cooldown \in [Items -> 0..BreakerStale]
  /\ leaked \in [Items -> Nat]

\* For its whole TTL a failure keeps new fetches of that file from the API, whatever
\* other fetches, sweeps and expiries do meanwhile; only a sweep that evicts it from an
\* overfull map ends it early (get.go:505-522, server.go:405-438).
FailureRemembered ==
  \A f \in Files : memory[f] > 0 => NegativeHit(f)

\* A tripped item stays shut for the whole cooldown unless it is evicted so; no expiry
\* check nor a late failure of a request already under way reopens it early
\* (get.go:355-419, server.go:441-450).  The code ends a quarantine by its time, as
\* docs/tech-spec.md:255-256 says, and not with "the next metadata sync", as the comment
\* at server.go:43-45 does: no sync ends it early or prolongs it.
QuarantineKept ==
  \A i \in Items : cooldown[i] > 0 => Stale(i)

\* The breaker is asked before the call is queued and not again, so calls for a
\* quarantined item do reach TorBox; but only those of the requests that were already
\* past the check, each with its retries (get.go:524-530, 435-495).
LeakBounded ==
  \A i \in Items : leaked[i] <= (Cardinality(Procs) - 1) * (RetryCount + 1)

\* A sweep leaves no map over its limit, drops an entry with time left only when the
\* map was over it, and then never one that outlives an entry it keeps
\* (server.go:405-474).
SweepEvictsOldest ==
  [][/\ cleaner' = "breaker" /\ cleaner = "negative" =>
          /\ Cardinality(DOMAIN negativeCache') <= NegativeCacheMax
          /\ \A f \in DOMAIN negativeCache \ DOMAIN negativeCache' :
               negativeCache[f] >= 0 =>
                 /\ Cardinality(DOMAIN negativeCache) > NegativeCacheMax
                 /\ \A g \in DOMAIN negativeCache' : negativeCache[f] <= negativeCache[g]
     /\ cleaner' = "negative" /\ cleaner = "breaker" =>
          /\ Cardinality(DOMAIN torrentFailures') <= BreakerMax
          /\ \A i \in DOMAIN torrentFailures \ DOMAIN torrentFailures' :
               Stale(i) =>
                 /\ Cardinality(DOMAIN torrentFailures) > BreakerMax
                 /\ \A j \in DOMAIN torrentFailures' :
                      Marked(j) /\ torrentFailures[i].staleUntil <= torrentFailures[j].staleUntil
    ]_vars

Open(f) == ~NegativeHit(f) /\ ~Stale(ItemOf[f])

\* Every fetch ends: the retries are bounded and every sleep is over some day
\* (get.go:426-498).
FetchEnds == \A p \in Procs : pc[p] # "idle" ~> pc[p] = "idle"

\* Once TorBox has recovered for good, every file can be fetched again: the cached
\* errors expire, the quarantines end and the requests still under way add no new ones
\* (get.go:353-378, 505-522).
GuardReopens == <>[]upstreamOk => <>[](\A f \in Files : Open(f))
=============================================================================
