------------------------- MODULE ThrottleQueue_proofs -------------------------
(***************************************************************************)
(* The throttle queue for any number of callers, any buffer and any rate:  *)
(* its types, the rate limit of processLoop and the buffer discipline.     *)
(***************************************************************************)
EXTENDS ThrottleQueue, FiniteSetTheorems, SequenceTheorems, TLAPS

\* The spacing is at least a tick and at most a minute (queue.go:50).
LEMMA RateType == Rate \in Nat \ {0} /\ Rate <= Minute
BY QueueAssumption, SMT DEF Rate

\* A receive leaves the channel, its parked senders and the callers well typed.
LEMMA ReceiveType ==
  ASSUME TypeOK, ReceiveHead
  PROVE  /\ cur' \in Requests
         /\ items' \in Seq(Requests)
         /\ senders' \in Seq(Requests)
         /\ caller' \in [Requests -> {"new", "sending", "waiting", "answered"}]
<1>1. Head(items) \in Requests /\ Tail(items) \in Seq(Requests)
  BY HeadTailProperties DEF TypeOK, ReceiveHead
<1>2. CASE senders = <<>>
  BY <1>1, <1>2 DEF TypeOK, ReceiveHead
<1>3. CASE senders # <<>>
  <2>1. Head(senders) \in Requests /\ Tail(senders) \in Seq(Requests)
    BY <1>3, HeadTailProperties DEF TypeOK
  <2>2. Append(Tail(items), Head(senders)) \in Seq(Requests)
    BY <1>1, <2>1, AppendProperties
  <2> QED BY <1>1, <1>3, <2>1, <2>2 DEF TypeOK, ReceiveHead
<1> QED BY <1>2, <1>3

\* What dropping the first entries of a sequence leaves.
LEMMA Suffix ==
  ASSUME NEW S, NEW s \in Seq(S), NEW k \in 1..Len(s)
  PROVE  /\ SubSeq(s, k, Len(s)) \in Seq(S)
         /\ Len(SubSeq(s, k, Len(s))) = Len(s) - k + 1
         /\ \A i \in 1..(Len(s) - k + 1) : SubSeq(s, k, Len(s))[i] = s[k + i - 1]
<1>1. Len(s) \in Nat /\ k \in Int /\ Len(s) \in Int /\ k <= Len(s)
  OBVIOUS
<1>2. \A i \in k..Len(s) : s[i] \in S
  BY <1>1
<1> QED BY <1>1, <1>2, SubSeqProperties

\* The window after a call: the kept suffix and the call that has just ended.
LEMMA WindowShape ==
  ASSUME TypeOK,
         NEW k \in 1..Len(Append(callWindow, 0)),
         callWindow' = SubSeq(Append(callWindow, 0), k, Len(Append(callWindow, 0)))
  PROVE  /\ callWindow' \in Seq(0..LongAgo)
         /\ k <= Len(callWindow) + 1
         /\ Len(callWindow') = Len(callWindow) + 2 - k
         /\ \A i \in 1..(Len(callWindow) + 1 - k) : callWindow'[i] = callWindow[k + i - 1]
         /\ callWindow'[Len(callWindow) + 2 - k] = 0
<1> DEFINE n == Len(callWindow)
           w == Append(callWindow, 0)
           Ages == 0..LongAgo
<1>1. callWindow \in Seq(Ages) /\ 0 \in Ages
  BY QueueAssumption DEF TypeOK, LongAgo
<1>2. n \in Nat
  BY <1>1, LenProperties
<1> HIDE DEF Ages
<1>3. /\ w \in Seq(Ages)
      /\ Len(w) = n + 1
      /\ \A i \in 1..n : w[i] = callWindow[i]
      /\ w[n + 1] = 0
  BY <1>1, AppendProperties
<1>4. k \in 1..Len(w) /\ callWindow' = SubSeq(w, k, Len(w))
  OBVIOUS
<1> HIDE DEF w
<1>5. /\ callWindow' \in Seq(Ages)
      /\ Len(callWindow') = Len(w) - k + 1
      /\ \A i \in 1..(Len(w) - k + 1) : callWindow'[i] = w[k + i - 1]
  <2> DEFINE s == SubSeq(w, k, Len(w))
  <2>1. /\ s \in Seq(Ages)
        /\ Len(s) = Len(w) - k + 1
        /\ \A i \in 1..(Len(w) - k + 1) : s[i] = w[k + i - 1]
    BY <1>3, <1>4, Suffix, Zenon
  <2>2. callWindow' = s
    BY <1>4
  <2> HIDE DEF s
  <2> QED
    BY <2>1, <2>2, Zenon
<1>6. SUFFICES /\ callWindow' \in Seq(Ages)
               /\ k <= n + 1
               /\ Len(callWindow') = n + 2 - k
               /\ \A i \in 1..(n + 1 - k) : callWindow'[i] = callWindow[k + i - 1]
               /\ callWindow'[n + 2 - k] = 0
  BY DEF Ages
<1> HIDE DEF n
<1>7. k \in 1..(n + 1)
  BY <1>3, <1>4, Zenon
<1>8. k <= n + 1 /\ Len(callWindow') = n + 2 - k
  BY <1>2, <1>3, <1>5, <1>7
<1>9. ASSUME NEW i \in 1..(n + 1 - k) PROVE callWindow'[i] = callWindow[k + i - 1]
  <2>1. k + i - 1 \in 1..n /\ i \in 1..((n + 1) - k + 1)
    BY <1>2, <1>7
  <2> QED BY <1>3, <1>5, <2>1, Zenon
<1>10. callWindow'[n + 2 - k] = 0
  <2>1. n + 2 - k \in 1..((n + 1) - k + 1) /\ k + (n + 2 - k) - 1 = n + 1
    BY <1>2, <1>7
  <2> QED BY <1>3, <1>5, <2>1, Zenon
<1> QED BY <1>5, <1>8, <1>9, <1>10, Zenon

\* A tick makes every age a tick older, up to LongAgo.
LEMMA AgeType ==
  ASSUME NEW age \in 0..LongAgo
  PROVE  /\ Older(age) \in 0..LongAgo
         /\ age <= Minute => Older(age) = age + 1
         /\ age > Minute => Older(age) = age
BY QueueAssumption DEF Older, LongAgo

\* A tick ages every entry of the window by one, saturating, and keeps its length.
LEMMA WindowAges ==
  ASSUME TypeOK, Tick
  PROVE  /\ callWindow' \in Seq(0..LongAgo)
         /\ Len(callWindow') = Len(callWindow)
         /\ \A i \in 1..Len(callWindow) : callWindow'[i] = Older(callWindow[i])
<1>0. callWindow \in Seq(0..LongAgo)
  BY DEF TypeOK
<1>1. /\ Len(callWindow) \in Nat
      /\ DOMAIN callWindow = 1..Len(callWindow)
      /\ \A i \in 1..Len(callWindow) : callWindow[i] \in 0..LongAgo
  BY <1>0, LenProperties, ElementOfSeq
<1>2. callWindow' = [i \in 1..Len(callWindow) |-> Older(callWindow[i])]
  BY <1>1 DEF Tick
<1>3. \A i \in 1..Len(callWindow) : Older(callWindow[i]) \in 0..LongAgo
  BY <1>1, AgeType
<1> QED BY <1>1, <1>2, <1>3

-----------------------------------------------------------------------------
\* The queue's variables keep their types (queue.go:23-139).
THEOREM TypeCorrect == Spec => []TypeOK
<1>1. Init => TypeOK
  <2>1. LongAgo \in 0..LongAgo /\ 0 \in 0..Rate
    BY QueueAssumption, RateType DEF LongAgo
  <2>2. <<>> \in Seq(Requests) /\ <<>> \in Seq(0..LongAgo)
    OBVIOUS
  <2>3. ASSUME Init PROVE timer \in 0..Rate /\ sinceLast \in 0..LongAgo
    BY <2>1, <2>3 DEF Init
  <2>4. ASSUME Init PROVE /\ successfulCalls \in Nat /\ failedCalls \in Nat /\ totalCalls \in Nat /\ begun \in Nat
    BY <2>4 DEF Init
  <2>5. ASSUME Init PROVE caller \in [Requests -> {"new", "sending", "waiting", "answered"}]
    BY <2>5 DEF Init
  <2>6. ASSUME Init PROVE senders \in Seq(Requests) /\ items \in Seq(Requests)
                          /\ arrived \in Seq(Requests) /\ callWindow \in Seq(0..LongAgo)
    BY <2>2, <2>6 DEF Init
  <2> QED BY <2>3, <2>4, <2>5, <2>6, Zenon DEF Init, TypeOK
<1>2. TypeOK /\ [Next]_vars => TypeOK'
  <2> SUFFICES ASSUME TypeOK, [Next]_vars PROVE TypeOK'
    OBVIOUS
  <2> USE QueueAssumption
  <2>1. ASSUME NEW r \in Requests, EnqueueBuffered(r) PROVE TypeOK'
    BY <2>1 DEF TypeOK, EnqueueBuffered, counters
  <2>2. ASSUME NEW r \in Requests, EnqueueParked(r) PROVE TypeOK'
    BY <2>2 DEF TypeOK, EnqueueParked, counters
  <2>3. CASE ReceiveExecute
    <3>1. ReceiveHead
      BY <2>3 DEF ReceiveExecute
    <3> QED BY <2>3, <3>1, ReceiveType DEF TypeOK, ReceiveExecute, counters
  <2>4. CASE ReceiveWait
    <3>1. ReceiveHead
      BY <2>4 DEF ReceiveWait
    <3>2. timer' \in 0..Rate
      BY <2>4, RateType DEF TypeOK, ReceiveWait, LongAgo
    <3> QED BY <2>4, <3>1, <3>2, ReceiveType DEF TypeOK, ReceiveWait, counters, history
  <2>5. CASE SpacingOver
    BY <2>5 DEF TypeOK, SpacingOver, counters
  <2>6. ASSUME NEW err \in BOOLEAN, ExecuteReturn(err) PROVE TypeOK'
    BY <2>6 DEF TypeOK, ExecuteReturn, counters, history
  <2>7. CASE Account
    <3>1. callWindow' \in Seq(0..LongAgo)
      BY <2>7, WindowShape DEF Account
    <3>2. sinceLast' \in 0..LongAgo
      BY <2>7 DEF Account, LongAgo
    <3>3. /\ successfulCalls' \in Nat /\ failedCalls' \in Nat
          /\ totalCalls' \in Nat
      <4>1. successfulCalls \in Nat /\ failedCalls \in Nat /\ totalCalls \in Nat
        BY DEF TypeOK
      <4>2. \A n \in Nat : n + 1 \in Nat
        OBVIOUS
      <4>3. CASE failure
        BY <2>7, <4>1, <4>2, <4>3, Zenon DEF Account
      <4>4. CASE ~failure
        BY <2>7, <4>1, <4>2, <4>4, Zenon DEF Account
      <4> QED BY <4>3, <4>4
    <3> QED BY <2>7, <3>1, <3>2, <3>3 DEF TypeOK, Account, history
  <2>8. CASE LoopExit
    BY <2>8 DEF TypeOK, LoopExit, counters, history
  <2>9. CASE Cancel
    BY <2>9 DEF TypeOK, Cancel, counters, history
  <2>10. CASE Tick
    <3>1. callWindow' \in Seq(0..LongAgo)
      BY <2>10, WindowAges
    <3>2. sinceLast' \in 0..LongAgo
      BY <2>10, AgeType DEF TypeOK, Tick
    <3>3. timer' \in 0..Rate
      BY <2>10, RateType DEF TypeOK, Tick
    <3> QED BY <2>10, <3>1, <3>2, <3>3 DEF TypeOK, Tick, counters, history
  <2>11. CASE UNCHANGED vars
    BY <2>11 DEF TypeOK, vars, counters, history
  <2> QED BY <2>1, <2>2, <2>3, <2>4, <2>5, <2>6, <2>7, <2>8, <2>9, <2>10,
             <2>11 DEF Next, ProcessLoop
<1> QED BY <1>1, <1>2, PTL DEF Spec

-----------------------------------------------------------------------------
\* The multiples of the spacing.
LEMMA Multiples ==
  ASSUME NEW d \in Nat
  PROVE  /\ d * Rate \in Nat
         /\ (d + 1) * Rate = d * Rate + Rate
         /\ 0 * Rate = 0
BY RateType, SMT

\* A call that ends at least Rate after the one before it extends a spaced window.
LEMMA AccountSpaced ==
  ASSUME TypeOK, WindowSpaced, Account
  PROVE  WindowSpaced'
<1> DEFINE n == Len(callWindow)
<1>1. /\ callWindow \in Seq(0..LongAgo) /\ sinceLast \in 0..LongAgo
      /\ sinceLast >= Rate /\ loop' = "select" /\ sinceLast' = 0
  BY DEF TypeOK, WindowSpaced, Account
<1>2. /\ n \in Nat
      /\ DOMAIN callWindow = 1..n
      /\ \A i \in 1..n : callWindow[i] \in 0..LongAgo
  BY <1>1, LenProperties, ElementOfSeq
<1>3. PICK k \in 1..Len(Append(callWindow, 0)) :
        callWindow' = SubSeq(Append(callWindow, 0), k, Len(Append(callWindow, 0)))
  BY DEF Account
<1>4. /\ callWindow' \in Seq(0..LongAgo)
      /\ k \in 1..(n + 1)
      /\ Len(callWindow') = n + 2 - k
      /\ \A i \in 1..(n + 1 - k) : callWindow'[i] = callWindow[k + i - 1]
      /\ callWindow'[n + 2 - k] = 0
  <2>1. k \in Nat \ {0}
    BY <1>1, <1>2, AppendProperties
  <2>2. /\ callWindow' \in Seq(0..LongAgo)
        /\ k <= n + 1
        /\ Len(callWindow') = n + 2 - k
        /\ \A i \in 1..(n + 1 - k) : callWindow'[i] = callWindow[k + i - 1]
        /\ callWindow'[n + 2 - k] = 0
    BY <1>3, WindowShape
  <2> QED BY <1>2, <2>1, <2>2
<1>5. DOMAIN callWindow' = 1..(n + 2 - k)
  BY <1>4, LenProperties
<1>6. ASSUME NEW m \in 1..n, callWindow[m] <= Minute
      PROVE  callWindow[m] >= (n + 1 - m) * Rate
  <2>1. callWindow[n] = sinceLast
    BY <1>2, <1>6 DEF WindowSpaced
  <2>2. CASE m = n
    BY <1>1, <1>2, <2>1, <2>2, RateType
  <2>3. CASE m < n
    <3>1. callWindow[m] - callWindow[n] >= (n - m) * Rate
      BY <1>2, <1>6, <2>3 DEF WindowSpaced
    <3>2. (n - m) * Rate \in Nat /\ (n + 1 - m) * Rate = (n - m) * Rate + Rate
      <4>1. n - m \in Nat /\ (n - m) + 1 = n + 1 - m
        BY <1>2, <2>3
      <4> QED BY <4>1, Multiples
    <3>3. sinceLast \in Nat /\ callWindow[m] \in Nat /\ Rate \in Nat
      BY <1>1, <1>2, RateType
    <3> QED BY <1>1, <2>1, <3>1, <3>2, <3>3
  <2>4. m = n \/ m < n
    <3>1. n \in Nat
      BY <1>2
    <3> HIDE DEF n
    <3> QED BY <1>6, <3>1
  <2> QED BY <2>2, <2>3, <2>4, Zenon
<1>7. ASSUME NEW i \in 1..(n + 2 - k), NEW j \in 1..(n + 2 - k), i < j, callWindow'[i] <= Minute
      PROVE  callWindow'[i] - callWindow'[j] >= (j - i) * Rate
  <2>1. i \in 1..(n + 1 - k) /\ k + i - 1 \in 1..n /\ callWindow'[i] = callWindow[k + i - 1]
    BY <1>2, <1>4, <1>7
  <2>2. CASE j = n + 2 - k
    <3>1. n + 1 - (k + i - 1) = j - i
      BY <1>2, <1>4, <2>2
    <3>2. callWindow[k + i - 1] >= (j - i) * Rate
      BY <1>6, <1>7, <2>1, <3>1
    <3>3. callWindow'[j] = 0
      BY <1>4, <2>2, Zenon
    <3>4. callWindow[k + i - 1] \in Nat
      BY <1>2, <2>1
    <3>5. \A age \in Nat : age - 0 = age
      OBVIOUS
    <3>6. callWindow'[i] - callWindow'[j] = callWindow[k + i - 1]
      BY <2>1, <3>3, <3>4, <3>5, Zenon
    <3> QED BY <3>2, <3>6, Zenon
  <2>3. CASE j # n + 2 - k
    <3>1. k + j - 1 \in 1..n /\ callWindow'[j] = callWindow[k + j - 1]
      <4> HIDE DEF n
      <4>1. n \in Nat /\ k \in 1..(n + 1)
        BY <1>2, <1>4
      <4>2. j \in 1..(n + 1 - k) /\ k + j - 1 \in 1..n
        BY <2>3, <4>1
      <4> QED BY <1>4, <4>2
    <3>2. k + i - 1 < k + j - 1 /\ (k + j - 1) - (k + i - 1) = j - i
      BY <1>4, <1>7
    <3>3. callWindow[k + i - 1] - callWindow[k + j - 1] >= ((k + j - 1) - (k + i - 1)) * Rate
      BY <1>2, <1>7, <2>1, <3>1, <3>2 DEF WindowSpaced
    <3> QED BY <2>1, <3>1, <3>2, <3>3
  <2> QED BY <2>2, <2>3
<1>8. callWindow'[Len(callWindow')] = sinceLast'
  BY <1>1, <1>4
<1> QED BY <1>1, <1>5, <1>7, <1>8 DEF WindowSpaced

\* Time passes for the whole window alike.
LEMMA TickSpaced ==
  ASSUME TypeOK, WindowSpaced, Tick
  PROVE  WindowSpaced'
<1> DEFINE n == Len(callWindow)
<1>1. /\ callWindow \in Seq(0..LongAgo) /\ sinceLast \in 0..LongAgo /\ timer \in 0..Rate
      /\ Rate \in Nat /\ Rate <= Minute /\ LongAgo = Minute + 1 /\ Minute \in Nat
  BY QueueAssumption, RateType DEF TypeOK, LongAgo
<1>2. /\ n \in Nat
      /\ DOMAIN callWindow = 1..n
      /\ \A i \in 1..n : callWindow[i] \in 0..LongAgo
  BY <1>1, LenProperties, ElementOfSeq
<1>3. /\ callWindow' \in Seq(0..LongAgo)
      /\ Len(callWindow') = n
      /\ DOMAIN callWindow' = 1..n
      /\ \A i \in 1..n : callWindow'[i] = Older(callWindow[i])
  BY WindowAges, LenProperties
<1>4. ASSUME NEW i \in 1..n, NEW j \in 1..n, i < j, callWindow'[i] <= Minute
      PROVE  callWindow'[i] - callWindow'[j] >= (j - i) * Rate
  <2>1. callWindow[i] \in 0..LongAgo /\ callWindow[j] \in 0..LongAgo
    BY <1>2
  <2>2. callWindow[i] < Minute /\ callWindow'[i] = callWindow[i] + 1
    <3>1. callWindow'[i] = Older(callWindow[i])
      BY <1>3, <1>4
    <3>2. /\ callWindow[i] <= Minute => Older(callWindow[i]) = callWindow[i] + 1
          /\ callWindow[i] > Minute => Older(callWindow[i]) = callWindow[i]
      BY <2>1, AgeType
    <3>3. callWindow[i] \in Nat /\ Minute \in Nat
      BY <1>1, <2>1
    <3> HIDE DEF n
    <3> QED BY <1>4, <3>1, <3>2, <3>3
  <2>3. callWindow[i] - callWindow[j] >= (j - i) * Rate
    <3>1. i \in DOMAIN callWindow /\ j \in DOMAIN callWindow /\ i < j /\ callWindow[i] <= Minute
      BY <1>1, <1>2, <1>4, <2>1, <2>2
    <3> QED BY <3>1, Zenon DEF WindowSpaced
  <2>4. (j - i) * Rate \in Nat
    <3>1. j - i \in Nat
      BY <1>2, <1>4
    <3> QED BY <3>1, Multiples
  <2>5. callWindow[j] <= Minute
    <3> HIDE DEF n
    <3>1. \A d \in Nat : callWindow[i] - callWindow[j] >= d => callWindow[j] <= callWindow[i]
      BY <1>1, <2>1
    <3> QED BY <1>1, <2>1, <2>2, <2>3, <2>4, <3>1
  <2>6. callWindow'[j] = callWindow[j] + 1
    BY <1>3, <2>1, <2>5, AgeType
  <2> QED BY <2>1, <2>2, <2>3, <2>4, <2>6
<1>5. callWindow' # <<>> => callWindow'[Len(callWindow')] = sinceLast'
  <2>1. SUFFICES ASSUME callWindow' # <<>> PROVE callWindow'[n] = sinceLast'
    BY <1>3
  <2>2. n \in 1..n /\ callWindow # <<>>
    BY <1>1, <1>2, <1>3, <2>1, EmptySeq
  <2>3. callWindow[n] = sinceLast
    BY <2>2 DEF WindowSpaced
  <2> QED BY <1>3, <2>2, <2>3 DEF Tick
<1>6. sinceLast' >= sinceLast /\ (sinceLast' = sinceLast + 1 \/ sinceLast' = LongAgo)
  BY <1>1 DEF Tick, Older
<1>7. sinceLast' \in Nat /\ timer' \in Nat /\ loop' = loop /\ (timer' = timer - 1 \/ timer' = timer)
  BY <1>1 DEF Tick, Older
<1>8. loop' = "spacing" => sinceLast' + timer' >= Rate
  <2>1. SUFFICES ASSUME loop = "spacing" PROVE sinceLast' + timer' >= Rate
    BY <1>7
  <2>2. sinceLast + timer >= Rate
    BY <2>1 DEF WindowSpaced
  <2>3. /\ sinceLast \in Nat /\ timer \in Nat /\ sinceLast' \in Nat /\ timer' \in Nat
        /\ timer' = timer - 1 \/ timer' = timer
        /\ sinceLast' = sinceLast + 1 \/ sinceLast' >= Rate
    BY <1>1, <1>6, <1>7
  <2>4. Rate \in Nat /\ sinceLast' >= sinceLast
    BY <1>1, <1>6
  <2>5. \A x, y, u, v, r \in Nat :
          /\ x + y >= r /\ u >= x
          /\ v = y - 1 \/ v = y
          /\ u = x + 1 \/ u >= r
          => u + v >= r
    OBVIOUS
  <2> QED BY <2>2, <2>3, <2>4, <2>5
<1>9. loop' \in {"execute", "account"} => sinceLast' >= Rate
  BY <1>1, <1>6, <1>7 DEF WindowSpaced
<1> QED BY <1>3, <1>4, <1>5, <1>8, <1>9 DEF WindowSpaced

\* The window of processLoop is always spaced (queue.go:89-127).
THEOREM SpacingKept == Spec => []WindowSpaced
<1>1. Init => WindowSpaced
  BY EmptySeq DEF Init, WindowSpaced
<1>2. TypeOK /\ WindowSpaced /\ [Next]_vars => WindowSpaced'
  <2> SUFFICES ASSUME TypeOK, WindowSpaced, [Next]_vars PROVE WindowSpaced'
    OBVIOUS
  <2>0. timer \in 0..Rate /\ sinceLast \in 0..LongAgo /\ Rate \in Nat
    BY RateType DEF TypeOK
  <2>1. ASSUME NEW r \in Requests, EnqueueBuffered(r) PROVE WindowSpaced'
    BY <2>1 DEF WindowSpaced, EnqueueBuffered
  <2>2. ASSUME NEW r \in Requests, EnqueueParked(r) PROVE WindowSpaced'
    BY <2>2 DEF WindowSpaced, EnqueueParked
  <2>3. CASE ReceiveExecute
    BY <2>3 DEF WindowSpaced, ReceiveExecute
  <2>4. CASE ReceiveWait
    <3>1. sinceLast' + timer' >= Rate
      BY <2>0, <2>4 DEF ReceiveWait, LongAgo
    <3> QED BY <2>4, <3>1 DEF WindowSpaced, ReceiveWait
  <2>5. CASE SpacingOver
    <3>1. sinceLast >= Rate
      BY <2>0, <2>5 DEF WindowSpaced, SpacingOver, LongAgo
    <3> QED BY <2>5, <3>1 DEF WindowSpaced, SpacingOver
  <2>6. ASSUME NEW err \in BOOLEAN, ExecuteReturn(err) PROVE WindowSpaced'
    BY <2>6 DEF WindowSpaced, ExecuteReturn
  <2>7. CASE Account
    BY <2>7, AccountSpaced
  <2>8. CASE LoopExit
    BY <2>8 DEF WindowSpaced, LoopExit
  <2>9. CASE Cancel
    BY <2>9 DEF WindowSpaced, Cancel
  <2>10. CASE Tick
    BY <2>10, TickSpaced
  <2>11. CASE UNCHANGED vars
    BY <2>11 DEF WindowSpaced, vars
  <2> QED BY <2>1, <2>2, <2>3, <2>4, <2>5, <2>6, <2>7, <2>8, <2>9, <2>10,
             <2>11 DEF Next, ProcessLoop
<1> QED BY <1>1, <1>2, TypeCorrect, PTL DEF Spec

-----------------------------------------------------------------------------
\* A spaced window holds as many recent calls as spacings fit into a minute: the oldest
\* recent call and the newest are less than a minute apart.
LEMMA SpacedWithinLimit ==
  ASSUME TypeOK, WindowSpaced
  PROVE  CallsWithinLimit
<1> DEFINE n == Len(callWindow)
           recent == {i \in DOMAIN callWindow : callWindow[i] < Minute}
           room == (Minute - 1) \div Rate
<1>1. callWindow \in Seq(0..LongAgo) /\ Minute \in Nat /\ Rate \in Nat \ {0} /\ Minute >= 1
  BY QueueAssumption, RateType DEF TypeOK
<1>2. /\ n \in Nat
      /\ DOMAIN callWindow = 1..n
      /\ \A i \in 1..n : callWindow[i] \in Nat
  <2>1. \A i \in 1..n : callWindow[i] \in 0..LongAgo
    BY <1>1, ElementOfSeq
  <2> QED BY <1>1, <2>1, LenProperties
<1>3. room \in Nat /\ room * Rate < Minute /\ Minute <= (room + 1) * Rate
  BY <1>1, SMT
<1>4. ASSUME NEW i \in recent
      PROVE  i \in (n - room)..n
  <2>1. i \in 1..n /\ callWindow[i] < Minute
    BY <1>2
  <2>2. CASE i = n
    BY <1>2, <1>3, <2>2
  <2>3. CASE i # n
    <3>1. callWindow[i] - callWindow[n] >= (n - i) * Rate /\ callWindow[n] \in Nat
      BY <1>1, <1>2, <2>1, <2>3 DEF WindowSpaced
    <3>2. n - i \in Nat /\ (n - i) * Rate \in Nat
      <4>1. n - i \in Nat
        BY <1>2, <2>1
      <4> QED BY <4>1, Multiples
    <3>3. (n - i) * Rate < (room + 1) * Rate
      <4>1. \A a, b, m \in Nat, d \in Int : a < Minute /\ a - b >= d /\ Minute <= m => d < m
        BY <1>1
      <4>2. (room + 1) * Rate \in Nat
        BY <1>1, <1>3
      <4>3. callWindow[i] \in Nat /\ (n - i) * Rate \in Int
        BY <1>2, <2>1, <3>2
      <4> HIDE DEF n, room
      <4> QED BY <1>3, <2>1, <3>1, <4>1, <4>2, <4>3
    <3>4. n - i < room + 1
      <4>1. \A a, b \in Nat : a * Rate < b * Rate => a < b
        BY <1>1, SMT
      <4>2. n - i \in Nat /\ room + 1 \in Nat
        BY <1>3, <3>2
      <4> QED BY <3>3, <4>1, <4>2
    <3> QED BY <1>2, <1>3, <2>1, <3>2, <3>4
  <2> QED BY <2>2, <2>3
<1>5. /\ IsFiniteSet((n - room)..n)
      /\ Cardinality((n - room)..n) = room + 1
  <2> HIDE DEF n, room
  <2>1. n - room \in Int /\ n \in Int /\ ~(n - room > n) /\ n - (n - room) + 1 = room + 1
    BY <1>2, <1>3
  <2> QED BY <2>1, FS_Interval
<1>6. Cardinality(recent) \in Nat /\ Cardinality(recent) <= room + 1
  <2>1. recent \subseteq (n - room)..n
    BY <1>4, Zenon
  <2> HIDE DEF n, recent, room
  <2>2. /\ IsFiniteSet(recent)
        /\ Cardinality(recent) <= Cardinality((n - room)..n)
    BY <1>5, <2>1, FS_Subset, Zenon
  <2>3. Cardinality(recent) \in Nat
    BY <2>2, FS_CardinalityType, Zenon
  <2> QED BY <1>5, <2>2, <2>3
<1>7. (Cardinality(recent) - 1) * Rate <= room * Rate
  <2> DEFINE c == Cardinality(recent)
  <2>1. c \in Nat /\ c - 1 <= room
    BY <1>3, <1>6
  <2> HIDE DEF c, recent, room
  <2> QED BY <1>1, <1>3, <2>1, SMT DEF c, room
<1> QED BY <1>1, <1>3, <1>6, <1>7 DEF CallsWithinLimit, CallsLastMinute

\* The rate limit for every rate, buffer and set of callers: Stats never shows more
\* calls in the last minute than the spacing allows (queue.go:56-78, 89-127).
THEOREM LimitKept == Spec => []CallsWithinLimit
BY TypeCorrect, SpacingKept, SpacedWithinLimit, PTL

-----------------------------------------------------------------------------
\* What the channel keeps: the buffer within its capacity, and full while anyone parks.
ChannelOK ==
  /\ Len(items) <= QueueBufferSize
  /\ senders # <<>> => Len(items) = QueueBufferSize

\* A receive takes one from the buffer and, if someone is parked, puts one back.
LEMMA ReceiveKeepsChannel ==
  ASSUME TypeOK, ChannelOK, ReceiveHead
  PROVE  ChannelOK'
<1>1. /\ items \in Seq(Requests) /\ items # <<>> /\ senders \in Seq(Requests)
      /\ QueueBufferSize \in Nat
  BY QueueAssumption DEF TypeOK, ReceiveHead
<1>2. Tail(items) \in Seq(Requests) /\ Len(Tail(items)) = Len(items) - 1 /\ Len(items) \in Nat
  BY <1>1, HeadTailProperties, LenProperties
<1>3. CASE senders = <<>>
  BY <1>1, <1>2, <1>3 DEF ChannelOK, ReceiveHead
<1>4. CASE senders # <<>>
  <2>1. Head(senders) \in Requests
    BY <1>1, <1>4, HeadTailProperties
  <2>2. Len(items') = Len(items)
    BY <1>2, <1>4, <2>1, AppendProperties DEF ReceiveHead
  <2>3. Len(items) = QueueBufferSize
    BY <1>4 DEF ChannelOK
  <2> QED BY <1>1, <2>2, <2>3 DEF ChannelOK
<1> QED BY <1>3, <1>4

\* The channel is never unfair: senders park only behind a full buffer.
LEMMA ChannelCorrect == Spec => []ChannelOK
<1>1. Init => ChannelOK
  BY QueueAssumption, EmptySeq DEF Init, ChannelOK
<1>2. TypeOK /\ ChannelOK /\ [Next]_vars => ChannelOK'
  <2> SUFFICES ASSUME TypeOK, ChannelOK, [Next]_vars PROVE ChannelOK'
    OBVIOUS
  <2>0. items \in Seq(Requests) /\ Len(items) \in Nat /\ QueueBufferSize \in Nat
    BY QueueAssumption, LenProperties DEF TypeOK
  <2>1. ASSUME NEW r \in Requests, EnqueueBuffered(r) PROVE ChannelOK'
    <3>1. senders = <<>> /\ senders' = senders
      BY <2>0, <2>1 DEF ChannelOK, EnqueueBuffered
    <3>2. Len(items') = Len(items) + 1 /\ Len(items) < QueueBufferSize
      BY <2>0, <2>1, AppendProperties DEF EnqueueBuffered
    <3> QED BY <2>0, <3>1, <3>2 DEF ChannelOK
  <2>2. ASSUME NEW r \in Requests, EnqueueParked(r) PROVE ChannelOK'
    BY <2>0, <2>2 DEF ChannelOK, EnqueueParked
  <2>3. CASE ReceiveExecute
    BY <2>3, ReceiveKeepsChannel DEF ReceiveExecute
  <2>4. CASE ReceiveWait
    BY <2>4, ReceiveKeepsChannel DEF ReceiveWait
  <2>5. CASE UNCHANGED <<items, senders>>
    BY <2>5 DEF ChannelOK
  <2>6. ASSUME NEW err \in BOOLEAN, ExecuteReturn(err) PROVE UNCHANGED <<items, senders>>
    BY <2>6 DEF ExecuteReturn
  <2>7. SpacingOver \/ Account \/ LoopExit \/ Cancel \/ Tick => UNCHANGED <<items, senders>>
    BY DEF SpacingOver, Account, LoopExit, Cancel, Tick
  <2>8. UNCHANGED vars => UNCHANGED <<items, senders>>
    BY DEF vars
  <2> QED BY <2>1, <2>2, <2>3, <2>4, <2>5, <2>6, <2>7, <2>8 DEF Next, ProcessLoop
<1> QED
  BY <1>1, <1>2, TypeCorrect, PTL DEF Spec

-----------------------------------------------------------------------------
\* How many requests the loop has taken from the channel.
Taken == begun + (IF loop = "spacing" THEN 1 ELSE 0)

\* The requests in order of arrival: those answered, the one with the loop, the buffer,
\* the parked senders; each caller is where the place of its request says.
Place(k) ==
  IF k < Taken \/ (k = Taken /\ ~Holding) THEN "answered"
  ELSE IF k <= Taken + Len(items) THEN "waiting" ELSE "sending"

Arrivals ==
  /\ \A k, l \in 1..Len(arrived) : arrived[k] = arrived[l] => k = l
  /\ \A r \in Requests : caller[r] = "new" <=> \A k \in 1..Len(arrived) : arrived[k] # r

Queued ==
  /\ Len(arrived) = Taken + Len(items) + Len(senders)
  /\ \A i \in 1..Len(items) : items[i] = arrived[Taken + i]
  /\ \A i \in 1..Len(senders) : senders[i] = arrived[Taken + Len(items) + i]
  /\ loop \in {"spacing", "execute", "account"} => Taken >= 1 /\ cur = arrived[Taken]
  /\ \A k \in 1..Len(arrived) : caller[arrived[k]] = Place(k)

InOrder ==
  /\ TypeOK /\ ChannelOK /\ Arrivals
  /\ loop \in {"select", "exited"} => cur = NoRequest
  /\ loop # "exited" => Queued

\* A sequence without its head, and with one more, index by index.
LEMMA TailIndex ==
  ASSUME NEW S, NEW s \in Seq(S), s # <<>>
  PROVE  /\ Len(s) \in Nat /\ Len(s) >= 1 /\ s[1] \in S /\ Head(s) = s[1]
         /\ Tail(s) \in Seq(S) /\ Len(Tail(s)) = Len(s) - 1
         /\ \A i \in 1..Len(s) - 1 : Tail(s)[i] = s[i + 1]
<1>1. Len(s) \in Nat /\ Len(s) >= 1
  BY EmptySeq
<1> QED
  BY <1>1, HeadTailProperties

\* The entries of a sequence with one more at its end.
LEMMA AppendIndex ==
  ASSUME NEW S, NEW s \in Seq(S), NEW x \in S
  PROVE  /\ Len(s) \in Nat /\ Append(s, x) \in Seq(S) /\ Len(Append(s, x)) = Len(s) + 1
         /\ \A i \in 1..Len(s) : Append(s, x)[i] = s[i]
         /\ Append(s, x)[Len(s) + 1] = x
  OBVIOUS

\* A receive, index by index.
LEMMA ReceiveShape ==
  ASSUME TypeOK, ReceiveHead
  PROVE  /\ Len(items) \in Nat /\ Len(senders) \in Nat /\ Len(items) >= 1 /\ cur' = items[1]
         /\ \A i \in 1..Len(items) - 1 : items'[i] = items[i + 1]
         /\ senders = <<>> => /\ Len(items') = Len(items) - 1
                              /\ senders' = senders /\ caller' = caller
         /\ senders # <<>> =>
              /\ Len(senders) >= 1 /\ senders[1] \in Requests
              /\ Len(items') = Len(items) /\ items'[Len(items)] = senders[1]
              /\ Len(senders') = Len(senders) - 1
              /\ \A i \in 1..Len(senders) - 1 : senders'[i] = senders[i + 1]
              /\ caller' = [caller EXCEPT ![senders[1]] = "waiting"]
<1>1. items \in Seq(Requests) /\ items # <<>> /\ senders \in Seq(Requests)
  BY DEF TypeOK, ReceiveHead
<1> DEFINE rest == Tail(items)
<1>2. /\ Len(items) \in Nat /\ Len(items) >= 1
      /\ rest \in Seq(Requests) /\ Len(rest) = Len(items) - 1
      /\ \A i \in 1..Len(items) - 1 : rest[i] = items[i + 1]
  BY <1>1, TailIndex
<1>3. cur' = items[1]
  BY <1>1, TailIndex DEF ReceiveHead
<1>4. Len(senders) \in Nat
  BY <1>1
<1>5. CASE senders = <<>>
  <2>1. items' = rest /\ senders' = senders /\ caller' = caller
    BY <1>5 DEF ReceiveHead
  <2> HIDE DEF rest
  <2> QED
    BY <1>2, <1>3, <1>4, <1>5, <2>1
<1>6. CASE senders # <<>>
  <2>1. /\ Len(senders) >= 1 /\ Head(senders) = senders[1] /\ senders[1] \in Requests
        /\ Len(Tail(senders)) = Len(senders) - 1
        /\ \A i \in 1..Len(senders) - 1 : Tail(senders)[i] = senders[i + 1]
    BY <1>1, <1>6, TailIndex
  <2>2. /\ items' = Append(rest, senders[1]) /\ senders' = Tail(senders)
        /\ caller' = [caller EXCEPT ![senders[1]] = "waiting"]
    BY <1>6, <2>1 DEF ReceiveHead
  <2> HIDE DEF rest
  <2>3. /\ Len(items') = Len(rest) + 1
        /\ \A i \in 1..Len(rest) : items'[i] = rest[i]
        /\ items'[Len(rest) + 1] = senders[1]
    <3>1. /\ Len(Append(rest, senders[1])) = Len(rest) + 1
          /\ \A i \in 1..Len(rest) : Append(rest, senders[1])[i] = rest[i]
          /\ Append(rest, senders[1])[Len(rest) + 1] = senders[1]
      BY <1>2, <2>1, AppendIndex
    <3> QED
      BY <2>2, <3>1, Zenon
  <2>4. Len(rest) + 1 = Len(items)
    BY <1>2
  <2>5. /\ Len(items') = Len(items) /\ items'[Len(items)] = senders[1]
        /\ \A i \in 1..Len(items) - 1 : items'[i] = items[i + 1]
    BY <1>2, <2>3, <2>4
  <2>6. /\ Len(senders') = Len(senders) - 1
        /\ \A i \in 1..Len(senders) - 1 : senders'[i] = senders[i + 1]
    BY <2>1, <2>2, Zenon
  <2> QED
    BY <1>2, <1>3, <1>4, <1>6, <2>1, <2>2, <2>5, <2>6, Zenon
<1> QED
  BY <1>5, <1>6

\* The request a receive takes is the next in order; the rest stay in order.
LEMMA ReceiveInOrder ==
  ASSUME InOrder, ReceiveHead, loop = "select", UNCHANGED arrived,
         \/ loop' = "execute" /\ begun' = begun + 1
         \/ loop' = "spacing" /\ begun' = begun,
         TypeOK'
  PROVE  InOrder'
<1> DEFINE n == Len(items)
           m == Len(senders)
           a == Len(arrived)
           t == begun
<1>1. /\ t \in Nat /\ n \in Nat /\ m \in Nat /\ a \in Nat /\ n >= 1
      /\ Taken = t /\ Taken' = t + 1 /\ ~Holding /\ Holding'
      /\ TypeOK /\ ChannelOK /\ Arrivals /\ Queued
  <2>1. TypeOK /\ ChannelOK /\ Arrivals /\ Queued
    BY DEF InOrder
  <2>2. t \in Nat /\ a \in Nat
    BY <2>1 DEF TypeOK
  <2>3. n \in Nat /\ m \in Nat /\ n >= 1
    BY <2>1, ReceiveShape
  <2> QED
    BY <2>1, <2>2, <2>3 DEF Taken, Holding
<1>2. /\ a = t + n + m
      /\ \A i \in 1..n : items[i] = arrived[t + i]
      /\ \A i \in 1..m : senders[i] = arrived[t + n + i]
      /\ \A k \in 1..a : caller[arrived[k]] =
           IF k <= t THEN "answered" ELSE IF k <= t + n THEN "waiting" ELSE "sending"
  BY <1>1 DEF Queued, Place
<1>3. cur' = arrived[t + 1] /\ loop' \in {"spacing", "execute"}
  BY <1>1, <1>2, ReceiveShape
<1>4. ChannelOK'
  BY <1>1, ReceiveKeepsChannel
<1>5. /\ a = t + 1 + Len(items') + Len(senders')
      /\ \A i \in 1..Len(items') : items'[i] = arrived[t + 1 + i]
      /\ \A i \in 1..Len(senders') : senders'[i] = arrived[t + 1 + Len(items') + i]
      /\ \A k \in 1..a : caller'[arrived[k]] =
           IF k < t + 1 THEN "answered" ELSE IF k <= t + 1 + Len(items') THEN "waiting" ELSE "sending"
      /\ \A r \in Requests : caller'[r] = "new" <=> caller[r] = "new"
  <2>1. CASE senders = <<>>
    <3>1. /\ Len(items') = n - 1 /\ senders' = senders /\ caller' = caller
          /\ \A i \in 1..n - 1 : items'[i] = items[i + 1]
      BY <1>1, <2>1, ReceiveShape
    <3>2. m = 0 /\ Len(senders') = 0
      BY <2>1, <3>1, EmptySeq
    <3> HIDE DEF n, m, a, t
    <3>3. a = t + n + 0 /\ a = t + 1 + Len(items') + Len(senders')
      BY <1>1, <1>2, <3>1, <3>2
    <3>4. ASSUME NEW i \in 1..Len(items')
          PROVE  items'[i] = arrived[t + 1 + i]
      <4>0. t \in Nat /\ n \in Nat /\ i \in 1..n - 1
        BY <1>1, <3>1, Zenon
      <4>1. i \in 1..n - 1 /\ i + 1 \in 1..n /\ t + (i + 1) = t + 1 + i
        BY <4>0
      <4>2. items[i + 1] = arrived[t + (i + 1)]
        BY <1>2, <4>1
      <4> QED
        BY <3>1, <4>1, <4>2, Zenon
    <3>5. ASSUME NEW i \in 1..Len(senders')
          PROVE  senders'[i] = arrived[t + 1 + Len(items') + i]
      BY <3>2
    <3>6. ASSUME NEW k \in 1..a
          PROVE  caller'[arrived[k]] =
                   IF k < t + 1 THEN "answered" ELSE IF k <= t + 1 + Len(items') THEN "waiting" ELSE "sending"
      <4>0. t \in Nat /\ n \in Nat /\ a = t + n + 0 /\ Len(items') = n - 1
        BY <1>1, <3>1, <3>3, Zenon
      <4>1. (k <= t <=> k < t + 1) /\ k <= t + n /\ k <= t + 1 + Len(items')
        BY <4>0
      <4>2. caller[arrived[k]] = IF k <= t THEN "answered" ELSE IF k <= t + n THEN "waiting" ELSE "sending"
        BY <1>2
      <4> QED
        BY <3>1, <4>1, <4>2, Zenon
    <3> QED
      BY <3>1, <3>3, <3>4, <3>5, <3>6, Zenon
  <2>2. CASE senders # <<>>
    <3>1. /\ Len(items') = n /\ items'[n] = senders[1] /\ m >= 1
          /\ \A i \in 1..n - 1 : items'[i] = items[i + 1]
          /\ Len(senders') = m - 1 /\ \A i \in 1..m - 1 : senders'[i] = senders[i + 1]
          /\ caller' = [caller EXCEPT ![senders[1]] = "waiting"]
          /\ senders[1] \in Requests
      BY <1>1, <2>2, ReceiveShape
    <3>2. senders[1] = arrived[t + n + 1]
      BY <1>1, <1>2, <3>1
    <3>3. /\ \A k \in 1..a : arrived[k] \in Requests
          /\ caller \in [Requests -> {"new", "sending", "waiting", "answered"}]
      <4>1. arrived \in Seq(Requests) /\ caller \in [Requests -> {"new", "sending", "waiting", "answered"}]
        BY <1>1 DEF TypeOK
      <4> QED
        BY <4>1, ElementOfSeq
    <3> HIDE DEF n, m, a, t
    <3>4. ASSUME NEW i \in 1..n
          PROVE  items'[i] = arrived[t + 1 + i]
      <4>1. CASE i = n
        BY <1>1, <3>1, <3>2, <4>1
      <4>2. CASE i # n
        BY <1>1, <1>2, <3>1, <4>2
      <4> QED
        BY <4>1, <4>2
    <3>5. ASSUME NEW i \in 1..m - 1
          PROVE  senders'[i] = arrived[t + 1 + n + i]
      BY <1>1, <1>2, <3>1
    <3>6. ASSUME NEW k \in 1..a
          PROVE  caller'[arrived[k]] =
                   IF k < t + 1 THEN "answered" ELSE IF k <= t + 1 + n THEN "waiting" ELSE "sending"
      <4>1. CASE k = t + n + 1
        BY <1>1, <3>1, <3>2, <3>3, <4>1
      <4>2. CASE k # t + n + 1
        <5>1. arrived[k] # senders[1] /\ t + n + 1 \in 1..a
          BY <1>1, <1>2, <3>1, <3>2, <4>2 DEF Arrivals, a
        <5>2. caller'[arrived[k]] = caller[arrived[k]]
          BY <3>1, <3>3, <5>1
        <5> QED
          BY <1>1, <1>2, <4>2, <5>2
      <4> QED
        BY <4>1, <4>2
    <3>7. caller[senders[1]] = "sending"
      <4>1. t + n + 1 \in 1..a
        BY <1>1, <1>2, <3>1
      <4> QED
        BY <1>1, <1>2, <3>2, <4>1
    <3>8. \A r \in Requests : caller'[r] = "new" <=> caller[r] = "new"
      BY <3>1, <3>3, <3>7
    <3> QED
      BY <1>1, <1>2, <3>1, <3>4, <3>5, <3>6, <3>8
  <2> QED
    BY <2>1, <2>2
<1>6. Arrivals'
  BY <1>1, <1>5 DEF Arrivals
<1>7. Queued'
  <2>1. Len(arrived') = Taken' + Len(items') + Len(senders') /\ Taken' >= 1
    BY <1>1, <1>5
  <2>2. /\ \A i \in 1..Len(items') : items'[i] = arrived'[Taken' + i]
        /\ \A i \in 1..Len(senders') : senders'[i] = arrived'[Taken' + Len(items') + i]
        /\ cur' = arrived'[Taken']
    BY <1>1, <1>3, <1>5
  <2>3. \A k \in 1..Len(arrived') : caller'[arrived'[k]] = Place(k)'
    BY <1>1, <1>5 DEF Place
  <2> QED
    BY <2>1, <2>2, <2>3 DEF Queued
<1> QED
  BY <1>3, <1>4, <1>6, <1>7 DEF InOrder

\* A request that comes joins the end: of the buffer if it has room, of the parked else.
LEMMA EnqueueInOrder ==
  ASSUME InOrder, NEW r \in Requests, EnqueueBuffered(r) \/ EnqueueParked(r), TypeOK', ChannelOK'
  PROVE  InOrder'
<1> DEFINE n == Len(items)
           m == Len(senders)
           a == Len(arrived)
<1>1. /\ items \in Seq(Requests) /\ senders \in Seq(Requests) /\ arrived \in Seq(Requests)
      /\ n \in Nat /\ m \in Nat /\ a \in Nat /\ Taken \in Nat /\ ChannelOK
      /\ caller \in [Requests -> {"new", "sending", "waiting", "answered"}]
  <2>1. TypeOK /\ ChannelOK
    BY DEF InOrder
  <2>2. /\ items \in Seq(Requests) /\ senders \in Seq(Requests) /\ arrived \in Seq(Requests)
        /\ caller \in [Requests -> {"new", "sending", "waiting", "answered"}]
        /\ begun \in Nat
    BY <2>1 DEF TypeOK
  <2>3. n \in Nat /\ m \in Nat /\ a \in Nat
    BY <2>2
  <2>4. Taken \in Nat
    BY <2>2 DEF Taken
  <2> QED
    BY <2>1, <2>2, <2>3, <2>4, Zenon
<1>2. /\ caller[r] = "new" /\ UNCHANGED <<loop, begun, cur>> /\ arrived' = Append(arrived, r)
      /\ Taken' = Taken /\ (Holding' <=> Holding)
  BY DEF EnqueueBuffered, EnqueueParked, Taken, Holding
<1>3. /\ Len(arrived') = a + 1 /\ arrived'[a + 1] = r
      /\ \A k \in 1..a : arrived'[k] = arrived[k] /\ arrived[k] \in Requests
  <2>1. /\ Len(Append(arrived, r)) = a + 1 /\ Append(arrived, r)[a + 1] = r
        /\ \A k \in 1..a : Append(arrived, r)[k] = arrived[k]
    BY <1>1, AppendIndex
  <2>2. \A k \in 1..a : arrived[k] \in Requests
    BY <1>1, ElementOfSeq
  <2> HIDE DEF a
  <2> QED
    BY <1>2, <2>1, <2>2, Zenon
<1>4. \A k \in 1..a : arrived[k] # r
  BY <1>1, <1>2 DEF InOrder, Arrivals
<1>5. PICK where \in {"sending", "waiting"} : caller' = [caller EXCEPT ![r] = where]
  BY DEF EnqueueBuffered, EnqueueParked
<1>6. caller'[r] = where /\ \A q \in Requests : q # r => caller'[q] = caller[q]
  BY <1>1, <1>5
<1>7. Arrivals'
  <2>1. ASSUME NEW k \in 1..a + 1, NEW l \in 1..a + 1, arrived'[k] = arrived'[l] PROVE k = l
    <3>1. CASE k \in 1..a /\ l \in 1..a
      BY <1>3, <2>1, <3>1 DEF InOrder, Arrivals
    <3>2. CASE k = a + 1 \/ l = a + 1
      <4>1. ASSUME NEW j \in 1..a PROVE arrived'[j] # arrived'[a + 1]
        BY <1>3, <1>4
      <4> QED
        BY <1>1, <2>1, <3>2, <4>1
    <3> QED
      BY <1>1, <3>1, <3>2
  <2>2. ASSUME NEW q \in Requests
        PROVE  caller'[q] = "new" <=> \A k \in 1..a + 1 : arrived'[k] # q
    <3>1. CASE q = r
      BY <1>1, <1>3, <1>6, <3>1
    <3>2. CASE q # r
      <4>1. caller[q] = "new" <=> \A k \in 1..a : arrived[k] # q
        BY DEF InOrder, Arrivals
      <4>2. (\A k \in 1..a + 1 : arrived'[k] # q) <=> \A k \in 1..a : arrived[k] # q
        BY <1>1, <1>3, <3>2
      <4> QED
        BY <1>6, <3>2, <4>1, <4>2
    <3> QED
      BY <3>1, <3>2
  <2> QED
    BY <1>3, <2>1, <2>2 DEF Arrivals
<1>8. ASSUME loop # "exited" PROVE Queued'
  <2>1. /\ a = Taken + n + m
        /\ \A i \in 1..n : items[i] = arrived[Taken + i]
        /\ \A i \in 1..m : senders[i] = arrived[Taken + n + i]
        /\ loop \in {"spacing", "execute", "account"} => Taken >= 1 /\ cur = arrived[Taken]
        /\ \A k \in 1..a : caller[arrived[k]] = Place(k)
    BY <1>8 DEF InOrder, Queued
  <2>2. /\ Len(items') + Len(senders') = n + m + 1 /\ n <= Len(items')
        /\ Len(items') \in Nat /\ Len(senders') \in Nat
        /\ \A i \in 1..Len(items') : items'[i] = arrived'[Taken + i]
        /\ \A i \in 1..Len(senders') : senders'[i] = arrived'[Taken + Len(items') + i]
        /\ where = (IF a + 1 <= Taken + Len(items') THEN "waiting" ELSE "sending")
        /\ m > 0 => Len(items') = n
    <3>1. CASE EnqueueBuffered(r)
      <4>1. m = 0 /\ senders = <<>>
        BY <1>1, <3>1, EmptySeq DEF EnqueueBuffered, ChannelOK
      <4>2. items' = Append(items, r) /\ senders' = senders /\ caller'[r] = "waiting"
        BY <1>1, <3>1 DEF EnqueueBuffered
      <4>3. /\ Len(Append(items, r)) = n + 1 /\ Append(items, r)[n + 1] = r
            /\ \A i \in 1..n : Append(items, r)[i] = items[i]
        BY <1>1, AppendIndex
      <4>4. Len(items') = n + 1 /\ items'[n + 1] = r /\ Len(senders') = m
            /\ \A i \in 1..n : items'[i] = items[i]
        BY <4>2, <4>3
      <4> HIDE DEF n, m, a
      <4>5. ASSUME NEW i \in 1..n + 1 PROVE items'[i] = arrived'[Taken + i]
        <5>1. CASE i = n + 1
          <6>1. Taken + i = a + 1
            BY <1>1, <2>1, <4>1, <5>1
          <6> QED
            BY <1>3, <4>4, <5>1, <6>1
        <5>2. CASE i # n + 1
          <6>1. i \in 1..n /\ Taken + i \in 1..a
            BY <1>1, <2>1, <5>2
          <6> QED
            BY <1>3, <2>1, <4>4, <6>1, Zenon
        <5> QED
          BY <5>1, <5>2
      <4>6. Len(items') = n + 1 /\ Len(senders') = 0 /\ m = 0 /\ where = "waiting"
        BY <1>6, <4>1, <4>2, <4>4
      <4> QED
        BY <1>1, <2>1, <4>5, <4>6
    <3>2. CASE EnqueueParked(r)
      <4>1. items' = items /\ senders' = Append(senders, r) /\ caller'[r] = "sending"
        BY <1>1, <3>2 DEF EnqueueParked
      <4>2. /\ Len(Append(senders, r)) = m + 1 /\ Append(senders, r)[m + 1] = r
            /\ \A i \in 1..m : Append(senders, r)[i] = senders[i]
        BY <1>1, AppendIndex
      <4>3. Len(senders') = m + 1 /\ senders'[m + 1] = r /\ Len(items') = n
            /\ \A i \in 1..m : senders'[i] = senders[i]
        BY <4>1, <4>2
      <4> HIDE DEF n, m, a
      <4>4. ASSUME NEW i \in 1..n PROVE items'[i] = arrived'[Taken + i]
        <5>1. Taken + i \in 1..a
          BY <1>1, <2>1
        <5> QED
          BY <1>3, <2>1, <4>1, <5>1, Zenon
      <4>5. ASSUME NEW i \in 1..m + 1 PROVE senders'[i] = arrived'[Taken + n + i]
        <5>1. CASE i = m + 1
          <6>1. Taken + n + i = a + 1
            BY <1>1, <2>1, <5>1
          <6> QED
            BY <1>3, <4>3, <5>1, <6>1
        <5>2. CASE i # m + 1
          <6>1. i \in 1..m /\ Taken + n + i \in 1..a
            BY <1>1, <2>1, <5>2
          <6> QED
            BY <1>3, <2>1, <4>3, <6>1, Zenon
        <5> QED
          BY <5>1, <5>2
      <4>6. Len(items') = n /\ Len(senders') = m + 1 /\ where = "sending"
        BY <1>6, <4>1, <4>3
      <4>7. /\ \A i \in 1..Len(items') : items'[i] = arrived'[Taken + i]
            /\ \A i \in 1..Len(senders') : senders'[i] = arrived'[Taken + Len(items') + i]
        BY <4>4, <4>5, <4>6, Zenon
      <4>8. a = Taken + n + m
        BY <2>1
      <4>9. ~(a + 1 <= Taken + Len(items'))
        BY <1>1, <4>6, <4>8
      <4> QED
        BY <1>1, <4>6, <4>7, <4>9
    <3> QED
      BY <3>1, <3>2
  <2>3. ASSUME NEW k \in 1..a + 1
        PROVE  caller'[arrived'[k]] = Place(k)'
    <3>1. CASE k = a + 1
      <4> HIDE DEF n, m, a
      <4>1. a + 1 > Taken /\ (Holding => Taken # a + 1)
        BY <1>1, <2>1
      <4>2. caller'[arrived'[k]] = IF a + 1 <= Taken + Len(items') THEN "waiting" ELSE "sending"
        BY <1>3, <1>6, <2>2, <3>1, Zenon
      <4>3. ~(a + 1 < Taken) /\ ~(a + 1 <= Taken) /\ a + 1 # Taken
        BY <1>1, <4>1
      <4>4. Place(k)' = IF a + 1 <= Taken + Len(items') THEN "waiting" ELSE "sending"
        BY <1>2, <3>1, <4>3 DEF Place
      <4> QED
        BY <4>2, <4>4, Zenon
    <3>2. CASE k # a + 1
      <4>0. k \in 1..a
        <5> HIDE DEF a
        <5> QED
          BY <1>1, <3>2
      <4>1. k \in 1..a /\ caller'[arrived'[k]] = Place(k)
        <5> HIDE DEF n, m, a
        <5>1. arrived'[k] = arrived[k] /\ arrived[k] \in Requests /\ arrived[k] # r
          BY <1>3, <1>4, <4>0, Zenon
        <5>2. caller[arrived[k]] = Place(k)
          BY <2>1, <4>0, Zenon
        <5> QED
          BY <1>6, <4>0, <5>1, <5>2, Zenon
      <4>2. k <= Taken + Len(items') <=> k <= Taken + n
        <5>1. CASE m > 0
          BY <2>2, <5>1
        <5>2. CASE ~(m > 0)
          BY <1>1, <2>1, <2>2, <4>1, <5>2
        <5> QED
          BY <5>1, <5>2
      <4>3. Place(k)' = Place(k)
        BY <1>2, <4>2 DEF Place
      <4> QED
        BY <4>1, <4>3
    <3> QED
      BY <3>1, <3>2
  <2>4. loop' \in {"spacing", "execute", "account"} => Taken' >= 1 /\ cur' = arrived'[Taken']
    BY <1>1, <1>2, <1>3, <2>1
  <2> HIDE DEF n, m, a
  <2>5. Len(arrived') = Taken' + Len(items') + Len(senders')
    <3>1. a + 1 = Taken + Len(items') + Len(senders')
      <4>1. /\ a = Taken + n + m /\ Len(items') + Len(senders') = n + m + 1
            /\ Len(items') \in Nat /\ Len(senders') \in Nat
        BY <2>1, <2>2, Zenon
      <4>2. n \in Nat /\ m \in Nat /\ Taken \in Nat
        BY <1>1, Zenon
      <4> QED
        BY <4>1, <4>2
    <3> QED
      BY <1>2, <1>3, <3>1, Zenon
  <2>6. /\ \A i \in 1..Len(items') : items'[i] = arrived'[Taken' + i]
        /\ \A i \in 1..Len(senders') : senders'[i] = arrived'[Taken' + Len(items') + i]
    BY <1>2, <2>2
  <2>7. \A k \in 1..Len(arrived') : caller'[arrived'[k]] = Place(k)'
    BY <1>3, <2>3
  <2> QED
    BY <2>4, <2>5, <2>6, <2>7 DEF Queued
<1> QED
  BY <1>2, <1>7, <1>8 DEF InOrder

\* The steps of the loop between two receives, and time.
LEMMA LoopInOrder ==
  ASSUME InOrder, TypeOK', ChannelOK',
         \/ SpacingOver \/ (\E err \in BOOLEAN : ExecuteReturn(err)) \/ Account \/ LoopExit
         \/ Cancel \/ Tick \/ UNCHANGED vars
  PROVE  InOrder'
<1>1. TypeOK /\ Arrivals /\ UNCHANGED <<items, senders, arrived>>
  BY DEF InOrder, SpacingOver, ExecuteReturn, Account, LoopExit, Cancel, Tick, vars, history
<1>2. CASE LoopExit
  BY <1>1, <1>2 DEF InOrder, LoopExit, Arrivals
<1>3. CASE Cancel \/ Tick \/ UNCHANGED vars
  <2>1. UNCHANGED <<caller, loop, cur, begun>>
    BY <1>3 DEF Cancel, Tick, vars, history
  <2> QED
    BY <1>1, <2>1 DEF InOrder, Arrivals, Queued, Place, Taken, Holding
<1>4. CASE SpacingOver
  <2>1. /\ loop = "spacing" /\ loop' = "execute" /\ begun' = begun + 1 /\ UNCHANGED <<caller, cur>>
        /\ begun \in Nat
    BY <1>1, <1>4 DEF SpacingOver, TypeOK
  <2>2. Taken' = Taken /\ Holding /\ Holding'
    BY <2>1 DEF Taken, Holding
  <2> QED
    BY <1>1, <2>1, <2>2 DEF InOrder, Arrivals, Queued, Place
<1>5. CASE Account
  <2>1. /\ loop = "account" /\ loop' = "select" /\ cur' = NoRequest /\ UNCHANGED <<caller, begun>>
    BY <1>5 DEF Account, history
  <2>2. Taken' = Taken /\ ~Holding /\ ~Holding'
    BY <2>1 DEF Taken, Holding
  <2> QED
    BY <1>1, <2>1, <2>2 DEF InOrder, Arrivals, Queued, Place
<1>6. CASE \E err \in BOOLEAN : ExecuteReturn(err)
  <2>1. /\ loop = "execute" /\ loop' = "account" /\ caller' = [caller EXCEPT ![cur] = "answered"]
        /\ UNCHANGED <<cur, begun>>
    BY <1>6 DEF ExecuteReturn, history
  <2>2. Taken' = Taken /\ Holding /\ ~Holding' /\ Taken \in Nat /\ Queued
    BY <1>1, <2>1 DEF Taken, Holding, TypeOK, InOrder
  <2>3. /\ Len(items) \in Nat /\ Len(senders) \in Nat
        /\ \A k \in 1..Len(arrived) : arrived[k] \in Requests
        /\ caller \in [Requests -> {"new", "sending", "waiting", "answered"}]
    <3>1. /\ items \in Seq(Requests) /\ senders \in Seq(Requests) /\ arrived \in Seq(Requests)
          /\ caller \in [Requests -> {"new", "sending", "waiting", "answered"}]
      BY <1>1 DEF TypeOK
    <3> QED
      BY <3>1, ElementOfSeq
  <2>4. Taken >= 1 /\ cur = arrived[Taken] /\ Taken \in 1..Len(arrived)
    BY <2>1, <2>2, <2>3 DEF Queued
  <2>5. ASSUME NEW k \in 1..Len(arrived) PROVE caller'[arrived[k]] = Place(k)'
    <3>1. CASE k = Taken
      BY <1>1, <2>1, <2>2, <2>3, <2>4, <3>1 DEF Place
    <3>2. CASE k # Taken
      <4>1. arrived[k] # cur
        BY <1>1, <2>4, <3>2 DEF Arrivals
      <4>2. caller'[arrived[k]] = Place(k)
        BY <2>1, <2>2, <2>3, <4>1 DEF Queued
      <4> QED
        BY <1>1, <2>2, <3>2, <4>2 DEF Place
    <3> QED
      BY <3>1, <3>2
  <2>6. Queued'
    BY <1>1, <2>1, <2>2, <2>4, <2>5 DEF Queued
  <2>7. caller[cur] = "waiting" /\ cur \in Requests
    BY <2>2, <2>3, <2>4 DEF Queued, Place
  <2>8. Arrivals'
    BY <1>1, <2>1, <2>3, <2>7 DEF Arrivals
  <2> QED
    BY <2>1, <2>6, <2>8 DEF InOrder
<1> QED
  BY <1>2, <1>3, <1>4, <1>5, <1>6

\* First come, first served: the channel, the parked senders and the loop keep the order
\* of arrival, and each caller is where the place of its request says (queue.go:82-104).
THEOREM OrderKept == Spec => []InOrder
<1>1. Init /\ TypeOK /\ ChannelOK => InOrder
  <2> SUFFICES ASSUME Init, TypeOK, ChannelOK PROVE InOrder
    OBVIOUS
  <2>1. /\ Len(arrived) = 0 /\ Len(items) = 0 /\ Len(senders) = 0 /\ Taken = 0
        /\ loop = "select" /\ cur = NoRequest
        /\ \A r \in Requests : caller[r] = "new"
    BY EmptySeq DEF Init, Taken
  <2>2. Arrivals /\ Queued
    BY <2>1 DEF Arrivals, Queued
  <2> QED
    BY <2>1, <2>2 DEF InOrder
<1>2. InOrder /\ TypeOK' /\ ChannelOK' /\ [Next]_vars => InOrder'
  <2> SUFFICES ASSUME InOrder, TypeOK', ChannelOK', [Next]_vars PROVE InOrder'
    OBVIOUS
  <2>1. ASSUME NEW r \in Requests, EnqueueBuffered(r) \/ EnqueueParked(r) PROVE InOrder'
    BY <2>1, EnqueueInOrder
  <2>2. CASE ReceiveExecute \/ ReceiveWait
    BY <2>2, ReceiveInOrder DEF ReceiveExecute, ReceiveWait, history
  <2>3. CASE \/ SpacingOver \/ (\E err \in BOOLEAN : ExecuteReturn(err)) \/ Account \/ LoopExit
             \/ Cancel \/ Tick \/ UNCHANGED vars
    BY <2>3, LoopInOrder
  <2> QED
    BY <2>1, <2>2, <2>3 DEF Next, ProcessLoop
<1> QED
  BY <1>1, <1>2, TypeCorrect, ChannelCorrect, PTL DEF Spec

\* Where each request stands in the order of arrival says where it is queued.
LEMMA InOrderLosesNone == InOrder => NothingLost
<1> SUFFICES ASSUME InOrder, loop # "exited", NEW r \in Requests
             PROVE  /\ caller[r] = "sending" =>
                         OccursOnce(senders, r) /\ ~Occurs(items, r) /\ cur # r
                    /\ caller[r] = "waiting" =>
                         /\ ~Occurs(senders, r)
                         /\ \/ OccursOnce(items, r) /\ cur # r
                            \/ ~Occurs(items, r) /\ cur = r /\ Holding
                    /\ caller[r] \in {"new", "answered"} =>
                         ~Occurs(senders, r) /\ ~Occurs(items, r)
  BY DEF NothingLost
<1> DEFINE n == Len(items)
           m == Len(senders)
           a == Len(arrived)
           t == Taken
           sent(k) == t + n + k
           kept(k) == t + k
<1>1. TypeOK /\ Arrivals /\ Queued /\ n \in Nat /\ m \in Nat /\ t \in Nat
  BY DEF InOrder, TypeOK, Taken
<1>2. /\ a = t + n + m /\ DOMAIN items = 1..n /\ DOMAIN senders = 1..m
      /\ \A i \in 1..n : items[i] = arrived[kept(i)]
      /\ \A i \in 1..m : senders[i] = arrived[sent(i)]
      /\ \A k \in 1..a : caller[arrived[k]] = Place(k)
  BY <1>1 DEF Queued, TypeOK
<1>3. cur = r => (Holding /\ t \in 1..a /\ r = arrived[t]) \/ caller[r] = "answered"
  <2>1. ASSUME cur = r PROVE loop \in {"spacing", "execute", "account"}
    BY <1>1, <2>1, QueueAssumption DEF InOrder, TypeOK
  <2>2. ASSUME loop \in {"spacing", "execute", "account"} PROVE t \in 1..a /\ cur = arrived[t]
    BY <1>1, <1>2, <2>2 DEF Queued
  <2>3. ASSUME loop = "account", cur = r PROVE caller[r] = "answered"
    BY <1>2, <2>2, <2>3 DEF Place, Holding
  <2> QED
    BY <2>1, <2>2, <2>3 DEF Holding
<1>4. Holding => t \in 1..a /\ cur = arrived[t] /\ caller[cur] = "waiting"
  BY <1>1, <1>2 DEF Holding, Queued, Place
<1>5. ASSUME NEW k \in 1..a
      PROVE  /\ Place(k) = "sending" => k - t - n \in 1..m /\ k = sent(k - t - n)
             /\ Place(k) = "waiting" =>
                  (k - t \in 1..n /\ k = kept(k - t)) \/ (k = t /\ Holding)
             /\ Place(k) # "new"
  BY <1>1, <1>2 DEF Place
<1>6. ASSUME NEW i \in 1..m PROVE sent(i) \in 1..a /\ Place(sent(i)) = "sending"
  BY <1>1, <1>2 DEF Place
<1>7. ASSUME NEW i \in 1..n PROVE kept(i) \in 1..a /\ Place(kept(i)) = "waiting"
  BY <1>1, <1>2 DEF Place
<1>8. Occurs(senders, r) => caller[r] = "sending"
  BY <1>2, <1>6 DEF Occurs
<1>9. Occurs(items, r) => caller[r] = "waiting"
  BY <1>2, <1>7 DEF Occurs
<1>10. caller[r] # "new" => \E k \in 1..a : arrived[k] = r /\ Place(k) = caller[r]
  BY <1>1, <1>2 DEF Arrivals
<1>11. ASSUME caller[r] = "sending" PROVE OccursOnce(senders, r) /\ cur # r
  <2>1. PICK k \in 1..a : arrived[k] = r /\ Place(k) = "sending"
    BY <1>10, <1>11
  <2>2. k - t - n \in 1..m /\ k = sent(k - t - n)
    BY <1>5, <2>1
  <2>3. senders[k - t - n] = r
    BY <1>2, <2>1, <2>2
  <2>4. ASSUME NEW j \in 1..m, senders[j] = r PROVE j = k - t - n
    <3>1. sent(j) = k
      <4>1. sent(j) \in 1..a /\ arrived[sent(j)] = arrived[k]
        BY <1>2, <1>6, <2>1, <2>4
      <4> HIDE DEF sent
      <4> QED
        BY <1>1, <4>1 DEF Arrivals
    <3> QED
      BY <1>1, <3>1
  <2>5. cur # r
    BY <1>3, <1>4, <1>11
  <2> QED
    BY <1>2, <2>2, <2>3, <2>4, <2>5 DEF OccursOnce
<1>12. ASSUME caller[r] = "waiting"
       PROVE  \/ OccursOnce(items, r) /\ cur # r
              \/ ~Occurs(items, r) /\ cur = r /\ Holding
  <2>1. PICK k \in 1..a : arrived[k] = r /\ Place(k) = "waiting"
    BY <1>10, <1>12
  <2>2. CASE k - t \in 1..n /\ k = kept(k - t)
    <3>1. items[k - t] = r
      BY <1>2, <2>1, <2>2
    <3>2. ASSUME NEW j \in 1..n, items[j] = r PROVE j = k - t
      <4>1. kept(j) = k
        <5>1. kept(j) \in 1..a /\ arrived[kept(j)] = arrived[k]
          BY <1>2, <1>7, <2>1, <3>2
        <5> HIDE DEF kept
        <5> QED
          BY <1>1, <5>1 DEF Arrivals
      <4> QED
        BY <1>1, <4>1
    <3>3. cur # r
      <4>1. cur = r => t = k
        BY <1>1, <1>3, <1>12, <2>1 DEF Arrivals
      <4> QED
        BY <1>1, <2>2, <4>1
    <3> QED
      BY <1>2, <2>2, <3>1, <3>2, <3>3 DEF OccursOnce
  <2>3. CASE k = t /\ Holding
    <3>1. cur = r
      BY <1>4, <2>1, <2>3
    <3>2. ASSUME NEW j \in 1..n PROVE items[j] # r
      <4>1. kept(j) # k
        BY <1>1, <2>3
      <4> QED
        BY <1>1, <1>2, <1>7, <2>1, <4>1 DEF Arrivals
    <3> QED
      BY <1>2, <2>3, <3>1, <3>2 DEF Occurs
  <2> QED
    BY <1>5, <2>1, <2>2, <2>3
<1> QED
  BY <1>8, <1>9, <1>11, <1>12

\* The caller whose request the loop holds is one that waits.
LEMMA HolderWaits ==
  ASSUME InOrder, Holding
  PROVE  cur \in Requests /\ caller[cur] = "waiting"
<1>1. /\ Queued /\ Taken \in Nat /\ Len(items) \in Nat /\ Len(senders) \in Nat
      /\ arrived \in Seq(Requests) /\ loop \in {"spacing", "execute"}
  BY DEF InOrder, Holding, TypeOK, Taken
<1>2. Taken \in 1..Len(arrived) /\ cur = arrived[Taken]
  BY <1>1 DEF Queued
<1> QED
  BY <1>1, <1>2, ElementOfSeq DEF Queued, Place

\* Until the loop exits no request is lost or duplicated.
THEOREM NoneLost == Spec => []NothingLost
  BY InOrderLosesNone, OrderKept, PTL

\* The counters account for every answered call, once.
THEOREM CountersCorrect == Spec => []CountersMatchAnswers
<1> DEFINE answered == {r \in Requests : caller[r] = "answered"}
           Counted == IsFiniteSet(answered) /\ CountersMatchAnswers
<1>1. Init => Counted
  <2> SUFFICES ASSUME Init PROVE Counted
    OBVIOUS
  <2>1. answered = {}
    BY DEF Init
  <2> HIDE DEF answered
  <2>2. IsFiniteSet(answered) /\ Cardinality(answered) = 0
    BY <2>1, FS_EmptySet
  <2> QED
    BY <2>2 DEF Init, CountersMatchAnswers, answered
<1>2. InOrder /\ Counted /\ [Next]_vars => Counted'
  <2> SUFFICES ASSUME InOrder, Counted, [Next]_vars PROVE Counted'
    OBVIOUS
  <2> DEFINE call == IF loop = "account" THEN 1 ELSE 0
  <2>1. /\ caller \in [Requests -> {"new", "sending", "waiting", "answered"}] /\ TypeOK
        /\ successfulCalls \in Nat /\ failedCalls \in Nat /\ totalCalls \in Nat
    BY DEF InOrder, TypeOK
  <2>2. /\ IsFiniteSet(answered) /\ Cardinality(answered) = totalCalls + call
        /\ totalCalls = successfulCalls + failedCalls
    BY DEF CountersMatchAnswers
  <2>3. ASSUME answered' = answered, call' = call, UNCHANGED counters
        PROVE  Counted'
    BY <2>2, <2>3 DEF CountersMatchAnswers, counters
  <2>4. ASSUME NEW r \in Requests, EnqueueBuffered(r) \/ EnqueueParked(r) PROVE Counted'
    BY <2>1, <2>3, <2>4 DEF EnqueueBuffered, EnqueueParked
  <2>5. CASE ReceiveExecute \/ ReceiveWait
    <3>1. ReceiveHead /\ call' = call /\ UNCHANGED counters
      BY <2>5 DEF ReceiveExecute, ReceiveWait
    <3>2. answered' = answered
      <4>1. CASE senders = <<>>
        BY <2>1, <3>1, <4>1, ReceiveShape
      <4>2. CASE senders # <<>>
        <5>1. senders[1] \in Requests /\ caller' = [caller EXCEPT ![senders[1]] = "waiting"]
              /\ 1 \in DOMAIN senders
          BY <2>1, <3>1, <4>2, ReceiveShape DEF TypeOK
        <5>2. caller[senders[1]] # "answered"
          <6>1. NothingLost /\ loop # "exited"
            BY <2>5, InOrderLosesNone DEF ReceiveExecute, ReceiveWait
          <6> QED
            BY <5>1, <6>1 DEF NothingLost, Occurs
        <5> QED
          BY <2>1, <5>1, <5>2
      <4> QED
        BY <4>1, <4>2
    <3> QED
      BY <2>3, <3>1, <3>2
  <2>6. CASE SpacingOver \/ LoopExit \/ Cancel \/ Tick \/ UNCHANGED vars
    BY <2>3, <2>6 DEF SpacingOver, LoopExit, Cancel, Tick, vars
  <2>7. ASSUME NEW err \in BOOLEAN, ExecuteReturn(err) PROVE Counted'
    <3>1. /\ loop = "execute" /\ loop' = "account" /\ UNCHANGED counters
          /\ caller' = [caller EXCEPT ![cur] = "answered"]
      BY <2>7 DEF ExecuteReturn
    <3>2. Holding => cur \in Requests /\ caller[cur] # "answered"
      BY HolderWaits
    <3>3. answered' = answered \cup {cur} /\ cur \notin answered
      BY <2>1, <3>1, <3>2 DEF Holding
    <3> HIDE DEF answered
    <3>4. IsFiniteSet(answered') /\ Cardinality(answered') = Cardinality(answered) + 1
      BY <2>2, <3>3, FS_AddElement
    <3>5. Cardinality(answered') = totalCalls' + 1 /\ totalCalls' = successfulCalls' + failedCalls'
      BY <2>1, <2>2, <3>1, <3>4 DEF counters
    <3> QED
      BY <3>1, <3>4, <3>5 DEF CountersMatchAnswers, answered
  <2>8. CASE Account
    <3>1. /\ loop = "account" /\ loop' = "select" /\ totalCalls' = totalCalls + 1
          /\ caller' = caller /\ totalCalls' = successfulCalls' + failedCalls'
      BY <2>1, <2>2, <2>8 DEF Account
    <3> QED
      BY <2>1, <2>2, <3>1 DEF CountersMatchAnswers
  <2> QED
    BY <2>4, <2>5, <2>6, <2>7, <2>8 DEF Next, ProcessLoop
<1> QED
  BY <1>1, <1>2, OrderKept, PTL DEF Spec

\* The queue implements the limiter of RateLimiter.tla: it starts as one, and each of its
\* steps is a step of the limiter or none (what fairness adds is checked by TLC).
THEOREM LimiterRefined == Spec => Limiter!Init /\ [][Limiter!Next]_(Limiter!vars)
<1> DEFINE serving == IF loop \in {"execute", "account"} THEN cur ELSE NoRequest
<1>1. Init => Limiter!Init
  BY DEF Init, Limiter!Init
<1>2. InOrder /\ WindowSpaced /\ [Next]_vars => [Limiter!Next]_(Limiter!vars)
  <2> SUFFICES ASSUME InOrder, WindowSpaced, [Next]_vars
               PROVE  [Limiter!Next]_(Limiter!vars)
    OBVIOUS
  <2>1. /\ TypeOK /\ Arrivals /\ begun \in Nat /\ Len(arrived) \in Nat /\ Len(items) \in Nat
        /\ Len(senders) \in Nat /\ DOMAIN arrived = 1..Len(arrived)
        /\ sinceLast \in 0..LongAgo /\ Rate \in Nat
    BY RateType DEF InOrder, TypeOK
  <2>2. ASSUME UNCHANGED <<arrived, begun, sinceLast, cancelled>>, serving' = serving
        PROVE  UNCHANGED Limiter!vars
    BY <2>2 DEF Limiter!vars
  <2>3. ASSUME NEW r \in Requests, EnqueueBuffered(r) \/ EnqueueParked(r)
        PROVE  Limiter!Arrive(r)
    <3>1. \A i \in DOMAIN arrived : arrived[i] # r
      BY <2>1, <2>3 DEF Arrivals, EnqueueBuffered, EnqueueParked
    <3>2. /\ arrived' = Append(arrived, r)
          /\ UNCHANGED <<begun, loop, cur, sinceLast, cancelled>>
      BY <2>3 DEF EnqueueBuffered, EnqueueParked
    <3> QED
      BY <3>1, <3>2 DEF Limiter!Arrive
  <2>4. ASSUME ReceiveExecute PROVE Limiter!Begin
    <3>1. /\ loop = "select" /\ loop' = "execute" /\ sinceLast >= Rate /\ begun' = begun + 1
          /\ ReceiveHead /\ UNCHANGED <<arrived, sinceLast, cancelled>>
      BY <2>4 DEF ReceiveExecute
    <3>2. Len(items) >= 1 /\ cur' = items[1]
      BY <2>1, <3>1, ReceiveShape
    <3>3. begun < Len(arrived) /\ cur' = arrived[begun + 1]
      BY <2>1, <3>1, <3>2 DEF InOrder, Queued, Taken
    <3> QED
      BY <3>1, <3>3 DEF Limiter!Begin
  <2>5. CASE ReceiveWait
    <3>1. loop = "select" /\ loop' = "spacing" /\ UNCHANGED <<arrived, begun, sinceLast, cancelled>>
      BY <2>5 DEF ReceiveWait, history
    <3> QED
      BY <2>2, <3>1
  <2>6. ASSUME SpacingOver PROVE Limiter!Begin
    <3>1. /\ loop = "spacing" /\ loop' = "execute" /\ begun' = begun + 1 /\ timer = 0
          /\ UNCHANGED <<cur, arrived, sinceLast, cancelled>>
      BY <2>6 DEF SpacingOver
    <3>2. sinceLast >= Rate
      BY <2>1, <3>1 DEF WindowSpaced
    <3>3. begun < Len(arrived) /\ cur = arrived[begun + 1]
      BY <2>1, <3>1 DEF InOrder, Queued, Taken
    <3> QED
      BY <3>1, <3>2, <3>3 DEF Limiter!Begin
  <2>7. ASSUME NEW err \in BOOLEAN, ExecuteReturn(err) PROVE UNCHANGED Limiter!vars
    <3>1. /\ loop = "execute" /\ loop' = "account"
          /\ UNCHANGED <<cur, arrived, begun, sinceLast, cancelled>>
      BY <2>7 DEF ExecuteReturn, history
    <3> QED
      BY <2>2, <3>1
  <2>8. ASSUME Account PROVE Limiter!Finish
    <3>1. /\ loop = "account" /\ loop' = "select" /\ sinceLast' = 0
          /\ UNCHANGED <<arrived, begun, cancelled>>
      BY <2>8 DEF Account, history
    <3>2. cur \in Requests
      <4>1. Queued /\ arrived \in Seq(Requests)
        BY <2>1, <3>1 DEF InOrder, TypeOK
      <4>2. Taken \in 1..Len(arrived) /\ cur = arrived[Taken]
        BY <2>1, <3>1, <4>1 DEF Queued, Taken
      <4> QED
        BY <4>1, <4>2, ElementOfSeq
    <3> QED
      BY <3>1, <3>2, QueueAssumption DEF Limiter!Finish
  <2>9. CASE LoopExit
    <3>1. /\ loop \in {"select", "spacing"} /\ loop' = "exited"
          /\ UNCHANGED <<arrived, begun, sinceLast, cancelled>>
      BY <2>9 DEF LoopExit, history
    <3> QED
      BY <2>2, <3>1
  <2>10. ASSUME Cancel PROVE Limiter!Close
    BY <2>10 DEF Cancel, history, Limiter!Close
  <2>11. ASSUME Tick PROVE Limiter!Tick
    BY <2>11 DEF Tick, history, Older, Limiter!Tick
  <2>12. CASE UNCHANGED vars
    BY <2>2, <2>12 DEF vars, history
  <2> QED
    BY <2>3, <2>4, <2>5, <2>6, <2>7, <2>8, <2>9, <2>10, <2>11, <2>12
       DEF Next, ProcessLoop, Limiter!Next
<1> QED
  BY <1>1, <1>2, OrderKept, SpacingKept, PTL DEF Spec
=============================================================================
