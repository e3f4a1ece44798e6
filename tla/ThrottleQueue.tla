---------------------------- MODULE ThrottleQueue ----------------------------
(***************************************************************************)
(* internal/throttle/queue.go: the blocking queue every TorBox API call is *)
(* meant to go through.  Many goroutines call Enqueue, one goroutine       *)
(* (processLoop) takes a request at a time, waits until Rate has passed    *)
(* since the end of the previous call, executes it and does the            *)
(* accounting.  Time is relative: an instant is the number of ticks since  *)
(* it, saturating just beyond the sixty seconds the code looks back.       *)
(***************************************************************************)
EXTENDS Integers, Sequences, FiniteSets

CONSTANTS
  Requests,           \* throttle.Request values, each enqueued by a goroutine of its own
  NoRequest,          \* processLoop holds no request
  QueueBufferSize,    \* capacity of the channel q.items
  Minute,             \* sixty seconds, in ticks
  RequestsPerMinute   \* the configured rate

ASSUME QueueAssumption ==
  /\ NoRequest \notin Requests
  /\ QueueBufferSize \in Nat \ {0}
  /\ RequestsPerMinute \in Nat \ {0}
  /\ Minute \in Nat
  /\ RequestsPerMinute <= Minute

\* NewQueue: q.rate, an integer division.
Rate == Minute \div RequestsPerMinute

\* The age of an instant more than a minute ago, and of the zero time.Time.
LongAgo == Minute + 1

VARIABLES
  caller,           \* caller[r]: where the goroutine that enqueues r is
  senders,          \* goroutines parked in q.items <- r, oldest first
  items,            \* the channel's buffer
  loop,             \* where processLoop is
  cur,              \* the request processLoop holds
  timer,            \* ticks left on time.After(q.rate - elapsed)
  failure,          \* the error of the call being accounted
  sinceLast,        \* age of q.lastCall
  callWindow,       \* ages of q.callWindow, oldest first
  successfulCalls, failedCalls, totalCalls,
  cancelled,        \* the process context is done
  arrived,          \* the requests in the order Enqueue was called (history)
  begun             \* how many Executes have begun (history)

counters == <<successfulCalls, failedCalls, totalCalls>>
history == <<arrived, begun>>
vars == <<caller, senders, items, loop, cur, timer, failure, sinceLast, callWindow,
          counters, cancelled, history>>

Init ==
  /\ caller = [r \in Requests |-> "new"]
  /\ senders = <<>> /\ items = <<>>
  /\ loop = "select" /\ cur = NoRequest /\ timer = 0 /\ failure = FALSE
  /\ sinceLast = LongAgo /\ callWindow = <<>>
  /\ successfulCalls = 0 /\ failedCalls = 0 /\ totalCalls = 0
  /\ cancelled = FALSE
  /\ arrived = <<>> /\ begun = 0

-----------------------------------------------------------------------------
\* Enqueue with room in the buffer: the send completes at once.
EnqueueBuffered(r) ==
  /\ caller[r] = "new"
  /\ Len(items) < QueueBufferSize
  /\ items' = Append(items, r)
  /\ caller' = [caller EXCEPT ![r] = "waiting"]
  /\ arrived' = Append(arrived, r)
  /\ UNCHANGED <<senders, loop, cur, timer, failure, sinceLast, callWindow, counters,
                 cancelled, begun>>

\* Mutant: a send that gives up on a full buffer, as a select with a default would.
EnqueueDropped(r) ==
  /\ caller[r] = "new"
  /\ Len(items) >= QueueBufferSize
  /\ caller' = [caller EXCEPT ![r] = "waiting"]
  /\ arrived' = Append(arrived, r)
  /\ UNCHANGED <<senders, items, loop, cur, timer, failure, sinceLast, callWindow, counters,
                 cancelled, begun>>

\* Enqueue on a full buffer: the goroutine parks in the channel's send queue.
EnqueueParked(r) ==
  /\ caller[r] = "new"
  /\ Len(items) >= QueueBufferSize
  /\ senders' = Append(senders, r)
  /\ caller' = [caller EXCEPT ![r] = "sending"]
  /\ arrived' = Append(arrived, r)
  /\ UNCHANGED <<items, loop, cur, timer, failure, sinceLast, callWindow, counters,
                 cancelled, begun>>

\* A receive from the channel: the head leaves, the oldest parked sender moves in.
ReceiveHead ==
  /\ items # <<>>
  /\ cur' = Head(items)
  /\ IF senders = <<>>
     THEN /\ items' = Tail(items)
          /\ UNCHANGED <<senders, caller>>
     ELSE /\ items' = Append(Tail(items), Head(senders))
          /\ senders' = Tail(senders)
          /\ caller' = [caller EXCEPT ![Head(senders)] = "waiting"]

\* Mutant: Execute is called whatever the time since the last call.
ReceiveEager ==
  /\ loop = "select"
  /\ ReceiveHead
  /\ loop' = "execute"
  /\ begun' = begun + 1
  /\ UNCHANGED <<timer, failure, sinceLast, callWindow, counters, cancelled, arrived>>

\* case r := <-q.items, with the spacing already over: Execute is called.
ReceiveExecute ==
  /\ loop = "select"
  /\ sinceLast >= Rate
  /\ ReceiveHead
  /\ loop' = "execute"
  /\ begun' = begun + 1
  /\ UNCHANGED <<timer, failure, sinceLast, callWindow, counters, cancelled, arrived>>

\* Mutant: the timer is armed for rate plus elapsed.
ReceiveWaitLonger ==
  /\ loop = "select"
  /\ sinceLast < Rate
  /\ ReceiveHead
  /\ loop' = "spacing"
  /\ timer' = Rate + sinceLast
  /\ UNCHANGED <<failure, sinceLast, callWindow, counters, cancelled, history>>

\* Mutant: the timer is armed for the time that has passed, not for what is left.
ReceiveWaitElapsed ==
  /\ loop = "select"
  /\ sinceLast < Rate
  /\ ReceiveHead
  /\ loop' = "spacing"
  /\ timer' = sinceLast
  /\ UNCHANGED <<failure, sinceLast, callWindow, counters, cancelled, history>>

\* case r := <-q.items, too early: arm the timer for the rest of the spacing.
ReceiveWait ==
  /\ loop = "select"
  /\ sinceLast < Rate
  /\ ReceiveHead
  /\ loop' = "spacing"
  /\ timer' = Rate - sinceLast
  /\ UNCHANGED <<failure, sinceLast, callWindow, counters, cancelled, history>>

\* The timer fires.
SpacingOver ==
  /\ loop = "spacing"
  /\ timer = 0
  /\ loop' = "execute"
  /\ begun' = begun + 1
  /\ UNCHANGED <<caller, senders, items, cur, timer, failure, sinceLast, callWindow,
                 counters, cancelled, arrived>>

\* Mutant: an Execute that returns its error before the send on the result channel.
ReturnSilently(err) ==
  /\ loop = "execute"
  /\ loop' = "account"
  /\ failure' = err
  /\ caller' = IF err THEN caller ELSE [caller EXCEPT ![cur] = "answered"]
  /\ UNCHANGED <<senders, items, cur, timer, sinceLast, callWindow, counters, cancelled, history>>

\* Execute hands the result to the caller's channel and returns.
ExecuteReturn(err) ==
  /\ loop = "execute"
  /\ loop' = "account"
  /\ failure' = err
  /\ caller' = [caller EXCEPT ![cur] = "answered"]
  /\ UNCHANGED <<senders, items, cur, timer, sinceLast, callWindow, counters, cancelled, history>>

\* The trimming of the window drops heads from before the cutoff and stops at the first
\* that is not, which at the latest is the call just added.
FirstKept(w, k) == w[k] <= Minute /\ \A i \in 1..(k - 1) : w[i] > Minute

\* Mutant: lastCall is never set.
AccountNoLastCall ==
  /\ loop = "account"
  /\ loop' = "select"
  /\ cur' = NoRequest
  /\ totalCalls' = totalCalls + 1
  /\ IF failure
     THEN failedCalls' = failedCalls + 1 /\ UNCHANGED successfulCalls
     ELSE successfulCalls' = successfulCalls + 1 /\ UNCHANGED failedCalls
  /\ LET window == Append(callWindow, 0) IN
     \E k \in 1..Len(window) :
       FirstKept(window, k) /\ callWindow' = SubSeq(window, k, Len(window))
  /\ UNCHANGED <<caller, senders, items, timer, failure, sinceLast, cancelled, history>>

\* Mutant: a failed call leaves the locked section before the total is counted.
AccountFailureEarly ==
  /\ loop = "account"
  /\ loop' = "select"
  /\ cur' = NoRequest
  /\ sinceLast' = 0
  /\ IF failure
     THEN failedCalls' = failedCalls + 1 /\ UNCHANGED <<successfulCalls, totalCalls, callWindow>>
     ELSE /\ successfulCalls' = successfulCalls + 1
          /\ totalCalls' = totalCalls + 1
          /\ callWindow' = Append(callWindow, 0)
          /\ UNCHANGED failedCalls
  /\ UNCHANGED <<caller, senders, items, timer, failure, cancelled,
                 history>>

\* The locked section after Execute.
Account ==
  /\ loop = "account"
  /\ loop' = "select"
  /\ cur' = NoRequest
  /\ sinceLast' = 0
  /\ totalCalls' = totalCalls + 1
  /\ IF failure
     THEN failedCalls' = failedCalls + 1 /\ UNCHANGED successfulCalls
     ELSE successfulCalls' = successfulCalls + 1 /\ UNCHANGED failedCalls
  /\ LET window == Append(callWindow, 0) IN
     \E k \in 1..Len(window) :
       FirstKept(window, k) /\ callWindow' = SubSeq(window, k, Len(window))
  /\ UNCHANGED <<caller, senders, items, timer, failure, cancelled,
                 history>>

\* Mutant: only the select of the spacing watches the context.
LoopExitSpacing ==
  /\ cancelled
  /\ loop = "spacing"
  /\ loop' = "exited"
  /\ cur' = NoRequest
  /\ UNCHANGED <<caller, senders, items, timer, failure, sinceLast, callWindow, counters,
                 cancelled, history>>

\* <-ctx.Done() in either select; during the spacing the dequeued request is dropped.
LoopExit ==
  /\ cancelled
  /\ loop \in {"select", "spacing"}
  /\ loop' = "exited"
  /\ cur' = NoRequest
  /\ UNCHANGED <<caller, senders, items, timer, failure, sinceLast, callWindow, counters,
                 cancelled, history>>

\* SIGINT or SIGTERM.
Cancel ==
  /\ ~cancelled
  /\ cancelled' = TRUE
  /\ UNCHANGED <<caller, senders, items, loop, cur, timer, failure, sinceLast, callWindow,
                 counters, history>>

Older(age) == IF age < LongAgo THEN age + 1 ELSE age

Tick ==
  /\ sinceLast' = Older(sinceLast)
  /\ callWindow' = [i \in DOMAIN callWindow |-> Older(callWindow[i])]
  /\ timer' = IF timer > 0 THEN timer - 1 ELSE 0
  /\ UNCHANGED <<caller, senders, items, loop, cur, failure, counters, cancelled, history>>

ProcessLoop ==
  \/ ReceiveExecute
  \/ ReceiveWait
  \/ SpacingOver
  \/ \E err \in BOOLEAN : ExecuteReturn(err)
  \/ Account
  \/ LoopExit

Next ==
  \/ \E r \in Requests : EnqueueBuffered(r) \/ EnqueueParked(r)
  \/ ProcessLoop
  \/ Cancel
  \/ Tick

Spec == Init /\ [][Next]_vars

(***************************************************************************)
(* processLoop is a goroutine the scheduler runs, an Execute returns        *)
(* because the API client has a 30 s timeout, and clocks advance.  Callers *)
(* need not call, and nothing forces a shutdown.                           *)
(***************************************************************************)
FairSpec == Spec /\ WF_vars(ProcessLoop) /\ WF_vars(Tick)

-----------------------------------------------------------------------------
\* Types of all variables of the queue; loop and caller are queue.go's control points.
TypeOK ==
  /\ caller \in [Requests -> {"new", "sending", "waiting", "answered"}]
  /\ senders \in Seq(Requests)
  /\ items \in Seq(Requests)
  /\ loop \in {"select", "spacing", "execute", "account", "exited"}
  /\ cur \in Requests \cup {NoRequest}
  /\ timer \in 0..Rate
  /\ failure \in BOOLEAN
  /\ sinceLast \in 0..LongAgo
  /\ callWindow \in Seq(0..LongAgo)
  /\ successfulCalls \in Nat /\ failedCalls \in Nat /\ totalCalls \in Nat
  /\ cancelled \in BOOLEAN
  /\ arrived \in Seq(Requests)
  /\ begun \in Nat

\* Stats: how many calls ended within the last sixty seconds.
CallsLastMinute == Cardinality({i \in DOMAIN callWindow : callWindow[i] < Minute})

\* The rate limit as Stats shows it: the calls of any last minute and the spacings
\* between them fit in a minute, whatever the callers, the timers and the executions
\* do (queue.go:89-127).
CallsWithinLimit == (CallsLastMinute - 1) * Rate < Minute

\* Why: two calls of the window that ended n calls apart ended n spacings apart, the last
\* of them at lastCall, and the loop calls Execute only when the spacing since then is
\* over, however the timer was armed (queue.go:96-104, 107-123).
WindowSpaced ==
  /\ \A i, j \in DOMAIN callWindow :
       i < j /\ callWindow[i] <= Minute => callWindow[i] - callWindow[j] >= (j - i) * Rate
  /\ callWindow # <<>> => callWindow[Len(callWindow)] = sinceLast
  /\ loop = "spacing" => sinceLast + timer >= Rate
  /\ loop \in {"execute", "account"} => sinceLast >= Rate

Holding == loop \in {"spacing", "execute"}
Occurs(s, r) == \E i \in DOMAIN s : s[i] = r
OccursOnce(s, r) == \E i \in DOMAIN s : s[i] = r /\ \A j \in DOMAIN s : s[j] = r => j = i

\* Until the loop exits no request is lost or duplicated between the send queue, the
\* buffer and the loop (queue.go:82-104): each is exactly where its caller waits.
NothingLost ==
  loop # "exited" =>
    \A r \in Requests :
      /\ caller[r] = "sending" =>
           OccursOnce(senders, r) /\ ~Occurs(items, r) /\ cur # r
      /\ caller[r] = "waiting" =>
           /\ ~Occurs(senders, r)
           /\ \/ OccursOnce(items, r) /\ cur # r
              \/ ~Occurs(items, r) /\ cur = r /\ Holding
      /\ caller[r] \in {"new", "answered"} => ~Occurs(senders, r) /\ ~Occurs(items, r)

\* The totals the dashboard shows count every answered call, once, as a success or
\* a failure; the only one they may miss is the call being accounted (queue.go:105-124).
CountersMatchAnswers ==
  /\ totalCalls = successfulCalls + failedCalls
  /\ Cardinality({r \in Requests : caller[r] = "answered"})
       = totalCalls + (IF loop = "account" THEN 1 ELSE 0)

\* A caller that has called Enqueue gets its answer, however full the queue was,
\* unless the process is told to stop (queue.go package comment: burst traffic is
\* queued and trickled, never failed).
EveryCallAnswered ==
  \A r \in Requests : caller[r] \in {"sending", "waiting"} ~> caller[r] = "answered" \/ cancelled

\* processLoop "exits cleanly when the context is cancelled" (queue.go:86-88), also
\* from the middle of a spacing or behind a long call.
LoopStops == cancelled ~> loop = "exited"

\* The queue implements the abstract limiter of RateLimiter.tla: one at a time, in
\* order of arrival, spaced by Rate, everyone served unless the process is stopping.
Limiter == INSTANCE RateLimiter WITH
  Clients <- Requests, Nobody <- NoRequest, Gap <- Rate, Horizon <- LongAgo,
  serving <- IF loop \in {"execute", "account"} THEN cur ELSE NoRequest,
  idle <- sinceLast, closing <- cancelled
ImplementsLimiter == Limiter!Spec
=============================================================================
