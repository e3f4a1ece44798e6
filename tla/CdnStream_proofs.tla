-------------------------- MODULE CdnStream_proofs --------------------------
(***************************************************************************)
(* For any number of requests, files, slots and repairs: no slot is lost   *)
(* or freed twice, and nobody is parked beside a free one.  WaitersExact   *)
(* adds what a hand-over relies on: the queue holds each parked goroutine  *)
(* once and nobody else.                                                   *)
(***************************************************************************)
EXTENDS CdnStream, FiniteSetTheorems, SequenceTheorems, TLAPS

Req == [pc : Points, file : Files, want : {"full", "range", "bad"}, link : Links,
        attempt : 0..RepairRetries,
        resp : {"none", "data", "text", "gone", "busy", "other"},
        hung : BOOLEAN, gone : BOOLEAN,
        sent : {"none", "success", "redirect", "error"},
        body : {"none", "data", "part", "errorText"}]

\* A repair is under way only where an attempt is left.
AttemptLeft(r) == r.pc = "refetch" => r.attempt < RepairRetries
AttemptsOK == \A p \in Procs : AttemptLeft(req[p])

WaitersExact ==
  /\ \A k \in 1..Len(waiters) : At(waiters[k], "parked")
  /\ \A j, k \in 1..Len(waiters) : waiters[j] = waiters[k] => j = k

Held == {"hangAsk", "copy", "release"}
StreamInv == TypeOK /\ AttemptsOK /\ SlotsConserved /\ WaitersExact

\* What every step of a goroutine on its own does: its record changes, the others' do not.
Moves(p) ==
  /\ req' = [req EXCEPT ![p] = req'[p]]
  /\ req'[p] \in Req /\ AttemptLeft(req'[p])
  /\ url' \in [Files -> Links] /\ shut' \in [Files -> BOOLEAN]
  /\ UNCHANGED <<slots, waiters, healthy>>

\* A fresh record, as after the end of a request.
LEMMA IdleType ==
  ASSUME NEW f \in Files
  PROVE  Idle(f) \in Req /\ Idle(f).pc = "idle"
  BY StreamAssumption DEF Idle, Req, Points, Links

\* A request that ends is idle again and keeps nothing but its file and its status.
LEMMA FinishMoves ==
  ASSUME TypeOK, NEW p \in Procs, NEW status \in {"none", "success", "redirect", "error"},
         req' = Finish(p, status)
  PROVE  req' = [req EXCEPT ![p] = req'[p]] /\ req'[p] \in Req /\ req'[p].pc = "idle"
<1>1. req[p].file \in Files
  BY DEF TypeOK
<1>2. req'[p] = [Idle(req[p].file) EXCEPT !.sent = status]
  BY DEF Finish, TypeOK
<1>3. req'[p] \in Req /\ req'[p].pc = "idle"
  <2>1. Idle(req[p].file) \in Req /\ Idle(req[p].file).pc = "idle"
    BY <1>1, IdleType
  <2> QED
    BY <1>2, <2>1 DEF Req
<1>4. req' = [req EXCEPT ![p] = req'[p]]
  BY <1>2 DEF Finish, TypeOK
<1> QED
  BY <1>3, <1>4

\* Neither before nor after the step does the goroutine hold a slot or wait for one.
Elsewhere(p) == {req[p].pc, req'[p].pc} \cap (Held \cup {"parked"}) = {}

\* What TypeOK says of one request.
LEMMA ReqTyped ==
  ASSUME TypeOK, AttemptsOK, NEW p \in Procs
  PROVE  /\ req \in [Procs -> Req] /\ req[p] \in Req /\ AttemptLeft(req[p])
         /\ req[p].file \in Files /\ url[req[p].file] \in Links
  BY DEF TypeOK, AttemptsOK, Req

\* An answered link request changes the cached link and the breaker, never a slot.
LEMMA FetchTypes ==
  ASSUME TypeOK, NEW p \in Procs, NEW link, FetchOk(p, link) \/ FetchFails(p)
  PROVE  /\ url' \in [Files -> Links] /\ shut' \in [Files -> BOOLEAN]
         /\ UNCHANGED <<slots, waiters, healthy>>
  BY DEF FetchOk, FetchFails, TypeOK

\* streamFileContent up to the slot.
LEMMA DirectMoves ==
  ASSUME TypeOK, AttemptsOK, NEW p \in Procs, Direct(p)
  PROVE  Moves(p) /\ Elsewhere(p)
<1>0. /\ req \in [Procs -> Req] /\ req[p] \in Req /\ AttemptLeft(req[p])
      /\ req[p].file \in Files /\ url[req[p].file] \in Links
      /\ url \in [Files -> Links] /\ shut \in [Files -> BOOLEAN]
  BY ReqTyped DEF TypeOK
<1> USE DEF At, Elsewhere, Held
<1>1. ASSUME NEW ok \in BOOLEAN, Redirect(p, ok) PROVE Moves(p) /\ Elsewhere(p)
  <2>1. CASE ok /\ url[req[p].file] # "none"
    BY <1>0, <1>1, <2>1, FinishMoves DEF Redirect, Moves, AttemptLeft
  <2>2. CASE ~(ok /\ url[req[p].file] # "none")
    BY <1>0, <1>1, <2>2 DEF Redirect, Moves, Req, Points, AttemptLeft
  <2> QED
    BY <2>1, <2>2
<1>2. ASSUME NEW ok \in BOOLEAN, Lookup(p, ok) PROVE Moves(p) /\ Elsewhere(p)
  <2>1. CASE ok
    BY <1>0, <1>2, <2>1 DEF Lookup, Moves, Req, Points, AttemptLeft
  <2>2. CASE ~ok
    BY <1>0, <1>2, <2>2, FinishMoves DEF Lookup, Moves, AttemptLeft
  <2> QED
    BY <2>1, <2>2
<1>3. CASE Fetch(p)
  BY <1>0, <1>3, FetchTypes DEF Fetch, Moves, Req, Points, Links, AttemptLeft
<1>4. CASE RangeCheck(p)
  <2>1. CASE req[p].want = "bad"
    BY <1>0, <1>4, <2>1, FinishMoves DEF RangeCheck, Moves, AttemptLeft
  <2>2. CASE req[p].want # "bad"
    BY <1>0, <1>4, <2>2 DEF RangeCheck, Moves, Req, Points, AttemptLeft
  <2> QED
    BY <2>1, <2>2
<1>5. CASE GiveUp(p)
  BY <1>0, <1>5, FinishMoves DEF GiveUp, Asked, Moves, AttemptLeft
<1>6. CASE DeadLink(p)
  <2>1. req[p].attempt < RepairRetries
    BY <1>0, <1>6, StreamAssumption DEF DeadLink, CanRepair, MaxAttempts, Req
  <2> QED
    BY <1>0, <1>6, <2>1 DEF DeadLink, Asked, Moves, Req, Points, AttemptLeft
<1>7. CASE Exhausted(p)
  <2>1. shut' \in [Files -> BOOLEAN]
    BY <1>0, <1>7 DEF Exhausted
  <2> QED
    BY <1>0, <1>7, <2>1, FinishMoves DEF Exhausted, Asked, Moves, AttemptLeft
<1>8. CASE Transient(p)
  <2>1. 0 \in 0..RepairRetries /\ "none" \in Links /\ "invalidate" \in Points
    BY StreamAssumption DEF Links, Points
  <2>2. req' = [req EXCEPT ![p].pc = "invalidate", ![p].link = "none", ![p].attempt = 0]
    BY <1>8 DEF Transient
  <2>3. req'[p] = [req[p] EXCEPT !.pc = "invalidate", !.link = "none", !.attempt = 0]
    BY <1>0, <2>2
  <2>4. req' = [req EXCEPT ![p] = req'[p]]
    BY <1>0, <2>2, <2>3
  <2>5. req'[p] \in Req
    BY <1>0, <2>1, <2>3 DEF Req
  <2>6. req'[p].pc = "invalidate"
    BY <1>0, <2>3 DEF Req
  <2>7. req[p].pc = "ask" /\ UNCHANGED <<url, shut, slots, waiters, healthy>>
    BY <1>8 DEF Transient, Asked
  <2> QED
    BY <1>0, <2>4, <2>5, <2>6, <2>7 DEF Moves, AttemptLeft
<1>9. CASE Data(p)
  <2>1. 0 \in 0..RepairRetries /\ "none" \in Links /\ "acquire" \in Points
    BY StreamAssumption DEF Links, Points
  <2>2. req' = [req EXCEPT ![p].pc = "acquire", ![p].resp = "data", ![p].sent = "success",
                           ![p].link = "none", ![p].attempt = 0]
    BY <1>9 DEF Data
  <2>3. req'[p] = [req[p] EXCEPT !.pc = "acquire", !.resp = "data", !.sent = "success",
                                 !.link = "none", !.attempt = 0]
    BY <1>0, <2>2
  <2>4. req' = [req EXCEPT ![p] = req'[p]]
    BY <1>0, <2>2, <2>3
  <2>5. req'[p] \in Req
    <3> DEFINE answered == [req[p] EXCEPT !.resp = "data", !.sent = "success"]
    <3>1. answered \in Req
      BY <1>0 DEF Req
    <3>2. req'[p] = [answered EXCEPT !.pc = "acquire", !.link = "none", !.attempt = 0]
      BY <2>3
    <3> HIDE DEF answered
    <3> QED
      BY <2>1, <3>1, <3>2 DEF Req
  <2>6. req'[p].pc = "acquire"
    BY <1>0, <2>3 DEF Req
  <2>7. req[p].pc = "ask" /\ UNCHANGED <<url, shut, slots, waiters, healthy>>
    BY <1>9 DEF Data, Asked
  <2> QED
    BY <1>0, <2>4, <2>5, <2>6, <2>7 DEF Moves, AttemptLeft
<1>10. CASE Refetch(p)
  <2>1. CASE FetchFails(p) /\ req' = Finish(p, "error")
    BY <1>0, <1>10, <2>1, FinishMoves, FetchTypes DEF Refetch, Moves, AttemptLeft
  <2>2. CASE \E link \in {"live", "none"} :
               /\ FetchOk(p, link)
               /\ req' = [req EXCEPT ![p].link = link, ![p].attempt = @ + 1, ![p].pc = "recache"]
    <3>1. req[p].attempt + 1 \in 0..RepairRetries
      BY <1>0, <1>10, StreamAssumption DEF Refetch, AttemptLeft, Req
    <3> QED
      BY <1>0, <1>10, <2>2, <3>1, FetchTypes DEF Refetch, Moves, Req, Points, Links, AttemptLeft
  <2> QED
    BY <1>10, <2>1, <2>2 DEF Refetch
<1> QED
  BY <1>1, <1>2, <1>3, <1>4, <1>5, <1>6, <1>7, <1>8, <1>9, <1>10 DEF Direct

\* The steps beside it: links are cached and dropped, and the poll of a hung request.
LEMMA HungMoves ==
  ASSUME TypeOK, AttemptsOK, NEW p \in Procs, NEW ok \in BOOLEAN,
         \/ CacheLink(p, ok) \/ Invalidate(p, ok)
         \/ Hang(p) \/ Poll(p) \/ PollAgain(p) \/ PollLeave(p)
  PROVE  Moves(p) /\ Elsewhere(p)
<1>0. /\ req \in [Procs -> Req] /\ req[p] \in Req /\ AttemptLeft(req[p])
      /\ req[p].file \in Files /\ url[req[p].file] \in Links
      /\ url \in [Files -> Links] /\ shut \in [Files -> BOOLEAN]
  BY ReqTyped DEF TypeOK
<1> USE DEF At, Elsewhere, Held
<1>1. CASE CacheLink(p, ok)
  <2>1. url' \in [Files -> Links]
    BY <1>0, <1>1 DEF CacheLink, Req
  <2>2. PICK to \in {"range", "ask", "acquire"} : req' = [req EXCEPT ![p].pc = to]
    BY <1>1 DEF CacheLink
  <2>3. req'[p] = [req[p] EXCEPT !.pc = to]
    BY <1>0, <2>2
  <2>4. req'[p] \in Req /\ AttemptLeft(req'[p]) /\ req'[p].pc = to
    BY <1>0, <2>3 DEF Req, Points, AttemptLeft
  <2>5. Elsewhere(p)
    BY <1>1, <2>4 DEF CacheLink
  <2>6. req' = [req EXCEPT ![p] = req'[p]]
    BY <1>0, <2>2, <2>3
  <2> QED
    BY <1>0, <1>1, <2>1, <2>4, <2>5, <2>6 DEF CacheLink, Moves
<1>2. CASE Invalidate(p, ok)
  <2>1. url' \in [Files -> Links]
    BY <1>0, <1>2 DEF Invalidate, Links
  <2> QED
    BY <1>0, <1>2, <2>1 DEF Invalidate, Moves, Req, Points, AttemptLeft
<1>3. CASE Hang(p)
  <2>1. CASE req[p].want = "bad"
    BY <1>0, <1>3, <2>1, FinishMoves DEF Hang, Moves, AttemptLeft
  <2>2. CASE req[p].want # "bad"
    BY <1>0, <1>3, <2>2 DEF Hang, Moves, Req, Points, AttemptLeft
  <2> QED
    BY <2>1, <2>2
<1>4. CASE Poll(p)
  BY <1>0, <1>4, FetchTypes DEF Poll, Moves, Req, Points, Links, AttemptLeft
<1>5. CASE PollAgain(p)
  BY <1>0, <1>5 DEF PollAgain, Moves, Req, Points, AttemptLeft
<1>6. CASE PollLeave(p)
  BY <1>0, <1>6, FinishMoves DEF PollLeave, Moves, AttemptLeft, Req
<1> QED
  BY <1>1, <1>2, <1>3, <1>4, <1>5, <1>6

\* The goroutine is a holder, or parked, after the step just if it was before.
SameClass(p) ==
  /\ req'[p].pc \in Held <=> req[p].pc \in Held
  /\ req'[p].pc = "parked" <=> req[p].pc = "parked"

\* A request that comes holds no slot.
LEMMA StartMoves ==
  ASSUME TypeOK, AttemptsOK, NEW p \in Procs, NEW f \in Files, NEW want \in Wants,
         Start(p, f, want)
  PROVE  Moves(p) /\ Elsewhere(p)
<1>0. req \in [Procs -> Req] /\ Idle(f) \in Req /\ want \in {"full", "range", "bad"}
  BY ReqTyped, IdleType, StreamAssumption
<1> DEFINE r == [Idle(f) EXCEPT !.want = want,
                                !.pc = IF want = "full" THEN "redirect" ELSE "lookup"]
<1>1. r \in Req /\ r.pc \in {"redirect", "lookup"}
  <2> DEFINE to == IF want = "full" THEN "redirect" ELSE "lookup"
  <2>1. to \in Points /\ to \in {"redirect", "lookup"}
    BY DEF Points
  <2> HIDE DEF to
  <2>2. [Idle(f) EXCEPT !.want = want] \in Req
    BY <1>0 DEF Req
  <2>3. r = [[Idle(f) EXCEPT !.want = want] EXCEPT !.pc = to]
    BY DEF to
  <2> DEFINE wanted == [Idle(f) EXCEPT !.want = want]
  <2>4. wanted \in Req /\ r = [wanted EXCEPT !.pc = to]
    BY <2>2, <2>3
  <2> HIDE DEF wanted, r
  <2> QED
    BY <2>1, <2>4 DEF Req
<1>2. req' = [req EXCEPT ![p] = r] /\ req[p].pc = "idle" /\ UNCHANGED <<url, shut, slots, waiters, healthy>>
  BY DEF Start, At
<1> HIDE DEF r
<1> QED
  BY <1>0, <1>1, <1>2 DEF Moves, Elsewhere, Held, TypeOK, AttemptLeft

\* With the slot in hand, and while the client leaves.
LEMMA ClassKept ==
  ASSUME TypeOK, AttemptsOK, NEW p \in Procs, NEW whole \in BOOLEAN,
         HangAsk(p) \/ Copy(p, whole) \/ Disconnect(p)
  PROVE  Moves(p) /\ SameClass(p)
<1>0. /\ req \in [Procs -> Req] /\ req[p] \in Req /\ AttemptLeft(req[p])
      /\ url \in [Files -> Links] /\ shut \in [Files -> BOOLEAN]
  BY ReqTyped DEF TypeOK
<1> USE DEF At, SameClass, Held
<1>1. CASE HangAsk(p)
  <2>1. PICK r \in Responses(p) :
          req' = [req EXCEPT ![p].resp = IF r = "error" THEN "none" ELSE r,
                             ![p].pc = IF r = "error" THEN "release" ELSE "copy",
                             ![p].link = "none"]
    BY <1>1 DEF HangAsk
  <2>2. r \in {"data", "text", "gone", "busy", "other", "error"}
    BY DEF Responses
  <2> DEFINE resp == IF r = "error" THEN "none" ELSE r
             to == IF r = "error" THEN "release" ELSE "copy"
  <2>3. /\ resp \in {"none", "data", "text", "gone", "busy", "other"}
        /\ to \in {"release", "copy"} /\ to \in Points /\ "none" \in Links
    BY <2>2 DEF Points, Links
  <2>4. req' = [req EXCEPT ![p].resp = resp, ![p].pc = to, ![p].link = "none"]
    BY <2>1
  <2> HIDE DEF resp, to
  <2>5. req'[p] = [[[req[p] EXCEPT !.resp = resp] EXCEPT !.pc = to] EXCEPT !.link = "none"]
    BY <1>0, <2>4
  <2>6. req'[p] \in Req /\ req'[p].pc = to
    <3>1. [req[p] EXCEPT !.resp = resp] \in Req
      BY <1>0, <2>3 DEF Req
    <3> DEFINE answered == [req[p] EXCEPT !.resp = resp]
               moved == [answered EXCEPT !.pc = to]
    <3> HIDE DEF answered
    <3>2. moved \in Req /\ moved.pc = to
      BY <2>3, <3>1 DEF Req, answered
    <3>3. req'[p] = [moved EXCEPT !.link = "none"]
      BY <2>5 DEF answered
    <3> HIDE DEF moved
    <3> QED
      BY <2>3, <3>2, <3>3 DEF Req
  <2>7. req' = [req EXCEPT ![p] = req'[p]]
    BY <1>0, <2>4, <2>5
  <2>8. req[p].pc = "hangAsk" /\ UNCHANGED <<url, shut, slots, waiters, healthy>>
    BY <1>1 DEF HangAsk
  <2> QED
    BY <1>0, <2>3, <2>6, <2>7, <2>8 DEF Moves, AttemptLeft
<1>2. CASE Copy(p, whole)
  <2>1. PICK body \in {"errorText", "data", "part"} :
          req' = [req EXCEPT ![p].pc = "release", ![p].body = body]
    BY <1>2 DEF Copy
  <2>2. req'[p] = [[req[p] EXCEPT !.pc = "release"] EXCEPT !.body = body]
    BY <1>0, <2>1
  <2>3. req'[p] \in Req /\ AttemptLeft(req'[p]) /\ req'[p].pc = "release"
    <3>1. "release" \in Points
      BY DEF Points
    <3>2. [req[p] EXCEPT !.pc = "release"] \in Req /\ [req[p] EXCEPT !.pc = "release"].pc = "release"
      BY <1>0, <3>1 DEF Req
    <3> DEFINE copied == [req[p] EXCEPT !.pc = "release"]
    <3>3. copied \in Req /\ copied.pc = "release" /\ req'[p] = [copied EXCEPT !.body = body]
      BY <2>2, <3>2
    <3> HIDE DEF copied
    <3> QED
      BY <3>3 DEF Req, AttemptLeft
  <2>4. req' = [req EXCEPT ![p] = req'[p]]
    BY <1>0, <2>1, <2>2
  <2>5. req[p].pc = "copy" /\ UNCHANGED <<url, shut, slots, waiters, healthy>>
    BY <1>2 DEF Copy
  <2> QED
    BY <1>0, <2>3, <2>4, <2>5 DEF Moves
<1>3. CASE Disconnect(p)
  <2>1. req' = [req EXCEPT ![p].gone = TRUE] /\ UNCHANGED <<url, shut, slots, waiters, healthy>>
    BY <1>3 DEF Disconnect
  <2>2. req'[p] = [req[p] EXCEPT !.gone = TRUE]
    BY <1>0, <2>1
  <2>3. req'[p] \in Req /\ req'[p].pc = req[p].pc /\ AttemptLeft(req'[p])
    <3>1. req'[p] \in Req
      BY <1>0, <2>2 DEF Req
    <3>2. req'[p].pc = req[p].pc /\ req'[p].attempt = req[p].attempt
      BY <1>0, <2>2 DEF Req
    <3> QED
      BY <1>0, <3>1, <3>2 DEF AttemptLeft
  <2>4. req' = [req EXCEPT ![p] = req'[p]]
    BY <1>0, <2>1, <2>2
  <2> QED
    BY <1>0, <2>1, <2>3, <2>4 DEF Moves
<1> QED
  BY <1>1, <1>2, <1>3

\* Holders and parked requests can be counted.
LEMMA SetsFinite ==
  /\ IsFiniteSet(Holders) /\ Cardinality(Holders) \in Nat
  /\ IsFiniteSet(Parked) /\ Cardinality(Parked) \in Nat
<1>1. IsFiniteSet(Holders) /\ IsFiniteSet(Parked)
  BY StreamAssumption, FS_Subset DEF Holders, Parked
<1> QED
  BY <1>1, FS_CardinalityType

\* A move is well typed, whatever it does to the slots.
LEMMA MoveTyped ==
  ASSUME TypeOK, AttemptsOK, NEW p \in Procs,
         req' = [req EXCEPT ![p] = req'[p]], req'[p] \in Req, AttemptLeft(req'[p])
  PROVE  /\ req' \in [Procs -> Req] /\ AttemptsOK'
         /\ \A q \in Procs : q # p => req'[q] = req[q]
<1>0. req \in [Procs -> Req]
  BY DEF TypeOK, Req
<1>1. req' \in [Procs -> Req] /\ \A q \in Procs : q # p => req'[q] = req[q]
  BY <1>0
<1> QED
  BY <1>1 DEF AttemptsOK

\* Where nobody gets, gives back or waits for a slot, the slots' bookkeeping holds on.
LEMMA ClassKeeps ==
  ASSUME StreamInv, NEW p \in Procs, Moves(p), SameClass(p)
  PROVE  StreamInv'
<1> USE DEF StreamInv
<1>1. /\ req' \in [Procs -> Req] /\ AttemptsOK'
      /\ \A q \in Procs : q # p => req'[q] = req[q]
  BY MoveTyped DEF Moves
<1>2. TypeOK'
  BY <1>1 DEF Moves, TypeOK, Req
<1>3. \A q \in Procs : /\ req'[q].pc \in Held <=> req[q].pc \in Held
                       /\ req'[q].pc = "parked" <=> req[q].pc = "parked"
  BY <1>1 DEF SameClass
<1>4. Holders' = Holders /\ Parked' = Parked
  BY <1>3 DEF Holders, Parked, At, Held
<1>5. SlotsConserved'
  BY <1>4 DEF SlotsConserved, Moves
<1>6. WaitersExact'
  <2>1. \A k \in 1..Len(waiters) : waiters[k] \in Procs
    BY DEF TypeOK
  <2> QED
    BY <2>1, <1>3 DEF WaitersExact, Moves, At
<1> QED
  BY <1>1, <1>2, <1>5, <1>6

\* Taking a slot, or parking behind the others when none is free.
LEMMA AcquireKeeps ==
  ASSUME StreamInv, NEW p \in Procs, Acquire(p)
  PROVE  StreamInv'
<1> USE DEF StreamInv
<1>0. /\ req \in [Procs -> Req] /\ req[p] \in Req /\ AttemptLeft(req[p])
      /\ req[p].pc = "acquire" /\ p \notin Holders /\ p \notin Parked
      /\ slots \in 0..MaxCDNConnections /\ waiters \in Seq(Procs)
  BY ReqTyped DEF Acquire, At, Holders, Parked, TypeOK
<1>1. CASE slots > 0
  <2>1. /\ req' = [req EXCEPT ![p].pc = Admitted(p)] /\ slots' = slots - 1
        /\ UNCHANGED <<waiters, url, shut, healthy>>
    BY <1>1 DEF Acquire
  <2>2. req'[p] = [req[p] EXCEPT !.pc = Admitted(p)] /\ Admitted(p) \in {"hangAsk", "copy"}
    BY <1>0, <2>1 DEF Admitted
  <2>3. req'[p] \in Req /\ AttemptLeft(req'[p]) /\ req'[p].pc \in {"hangAsk", "copy"}
    BY <1>0, <2>2 DEF Req, Points, AttemptLeft
  <2>4. req' = [req EXCEPT ![p] = req'[p]]
    BY <1>0, <2>1, <2>2
  <2>5. /\ req' \in [Procs -> Req] /\ AttemptsOK'
        /\ \A q \in Procs : q # p => req'[q] = req[q]
    BY <2>3, <2>4, MoveTyped
  <2>6. slots' \in 0..MaxCDNConnections
    BY <1>0, <1>1, <2>1, StreamAssumption
  <2>7. TypeOK'
    BY <2>1, <2>5, <2>6 DEF TypeOK, Req
  <2>8. Holders' = Holders \cup {p} /\ Parked' = Parked
    BY <1>0, <2>3, <2>5 DEF Holders, Parked, At
  <2>9. Cardinality(Holders') = Cardinality(Holders) + 1
    BY <1>0, <2>8, SetsFinite, FS_AddElement
  <2>10. SlotsConserved'
    BY <1>0, <1>1, <2>1, <2>8, <2>9, SetsFinite, StreamAssumption DEF SlotsConserved
  <2>11. WaitersExact'
    <3>1. \A k \in 1..Len(waiters) : waiters[k] \in Procs /\ waiters[k] # p
      BY <1>0 DEF WaitersExact, At
    <3> QED
      BY <2>1, <2>5, <3>1 DEF WaitersExact, At
  <2> QED
    BY <2>5, <2>7, <2>10, <2>11
<1>2. CASE ~(slots > 0)
  <2>1. /\ req' = [req EXCEPT ![p].pc = "parked"] /\ waiters' = Append(waiters, p)
        /\ UNCHANGED <<slots, url, shut, healthy>>
    BY <1>2 DEF Acquire
  <2>2. req'[p] = [req[p] EXCEPT !.pc = "parked"]
    BY <1>0, <2>1
  <2>3. req'[p] \in Req /\ AttemptLeft(req'[p]) /\ req'[p].pc = "parked"
    BY <1>0, <2>2 DEF Req, Points, AttemptLeft
  <2>4. req' = [req EXCEPT ![p] = req'[p]]
    BY <1>0, <2>1, <2>2
  <2>5. /\ req' \in [Procs -> Req] /\ AttemptsOK'
        /\ \A q \in Procs : q # p => req'[q] = req[q]
    BY <2>3, <2>4, MoveTyped
  <2>6. /\ waiters' \in Seq(Procs) /\ Len(waiters') = Len(waiters) + 1
        /\ waiters'[Len(waiters) + 1] = p
        /\ \A k \in 1..Len(waiters) : waiters'[k] = waiters[k]
    BY <1>0, <2>1
  <2>7. TypeOK'
    BY <2>1, <2>5, <2>6 DEF TypeOK, Req
  <2>8. Holders' = Holders /\ Parked' = Parked \cup {p}
    BY <1>0, <2>3, <2>5 DEF Holders, Parked, At
  <2>9. Cardinality(Parked') = Cardinality(Parked) + 1
    BY <1>0, <2>8, SetsFinite, FS_AddElement
  <2>10. \A q \in Parked' : \E k \in DOMAIN waiters' : waiters'[k] = q
    <3> SUFFICES ASSUME NEW q \in Parked'
                 PROVE  \E k \in 1..Len(waiters) + 1 : waiters'[k] = q
      BY <1>0, <2>6
    <3>1. CASE q = p
      BY <1>0, <2>6, <3>1
    <3>2. CASE q # p
      BY <1>0, <2>6, <2>8, <3>2 DEF SlotsConserved
    <3> QED
      BY <3>1, <3>2
  <2>11. SlotsConserved'
    BY <1>0, <1>2, <2>1, <2>6, <2>8, <2>9, <2>10, SetsFinite DEF SlotsConserved
  <2>12. WaitersExact'
    <3>1. \A k \in 1..Len(waiters) : waiters[k] \in Procs /\ waiters[k] # p
      BY <1>0 DEF WaitersExact, At
    <3>2. \A k \in 1..Len(waiters) + 1 : req'[waiters'[k]].pc = "parked"
      <4> SUFFICES ASSUME NEW k \in 1..Len(waiters) + 1
                   PROVE  req'[waiters'[k]].pc = "parked"
        OBVIOUS
      <4>1. CASE k \in 1..Len(waiters)
        BY <2>5, <2>6, <3>1, <4>1 DEF WaitersExact, At
      <4>2. CASE k = Len(waiters) + 1
        BY <2>3, <2>6, <4>2
      <4> QED
        BY <1>0, <4>1, <4>2
    <3>3. \A j, k \in 1..Len(waiters) + 1 : waiters'[j] = waiters'[k] => j = k
      BY <1>0, <2>6, <3>1 DEF WaitersExact
    <3> QED
      BY <2>6, <3>2, <3>3 DEF WaitersExact, At
  <2> QED
    BY <2>5, <2>7, <2>11, <2>12
<1> QED
  BY <1>1, <1>2

\* The token goes back to the pool, or straight to the head of the queue.
LEMMA ReleaseKeeps ==
  ASSUME StreamInv, NEW p \in Procs, Release(p)
  PROVE  StreamInv'
<1> USE DEF StreamInv
<1>0. /\ req \in [Procs -> Req] /\ req[p] \in Req /\ req[p].pc = "release"
      /\ p \in Holders /\ p \notin Parked
      /\ slots \in 0..MaxCDNConnections /\ waiters \in Seq(Procs)
  BY ReqTyped DEF Release, At, Holders, Parked, TypeOK
<1>1. Cardinality(Holders) >= 1 /\ Cardinality(Holders \ {p}) = Cardinality(Holders) - 1
  <2>1. Cardinality(Holders \ {p}) = Cardinality(Holders) - 1
    BY <1>0, SetsFinite, FS_RemoveElement
  <2>2. Cardinality(Holders \ {p}) \in Nat
    BY SetsFinite, FS_Subset, FS_CardinalityType
  <2> QED
    BY <2>1, <2>2, SetsFinite
<1>2. CASE waiters = <<>>
  <2>1. /\ req' = Finish(p, req[p].sent) /\ slots' = slots + 1
        /\ UNCHANGED <<waiters, url, shut, healthy>>
    BY <1>2 DEF Release
  <2>2. req' = [req EXCEPT ![p] = req'[p]] /\ req'[p] \in Req /\ req'[p].pc = "idle"
    BY <1>0, <2>1, FinishMoves DEF Req
  <2>3. /\ req' \in [Procs -> Req] /\ AttemptsOK'
        /\ \A q \in Procs : q # p => req'[q] = req[q]
    BY <2>2, MoveTyped DEF AttemptLeft
  <2>4. slots' \in 0..MaxCDNConnections
    BY <1>0, <1>1, <2>1, SetsFinite, StreamAssumption DEF SlotsConserved
  <2>5. TypeOK'
    BY <2>1, <2>3, <2>4 DEF TypeOK, Req
  <2>6. Holders' = Holders \ {p} /\ Parked' = Parked
    BY <1>0, <2>2, <2>3 DEF Holders, Parked, At
  <2>7. SlotsConserved'
    BY <1>0, <1>1, <1>2, <2>1, <2>6, SetsFinite, StreamAssumption DEF SlotsConserved
  <2>8. WaitersExact'
    BY <1>2, <2>1 DEF WaitersExact
  <2> QED
    BY <2>3, <2>5, <2>7, <2>8
<1>3. CASE waiters # <<>>
  <2> DEFINE h == Head(waiters)
             to == Admitted(h)
  <2>1. h = waiters[1] /\ h \in Procs /\ Len(waiters) \in Nat /\ Len(waiters) >= 1
    BY <1>0, <1>3
  <2>2. req[h].pc = "parked" /\ h \in Parked /\ h # p /\ to \in {"hangAsk", "copy"}
    BY <1>0, <2>1 DEF WaitersExact, At, Parked, Admitted
  <2>3. /\ req' = [Finish(p, req[p].sent) EXCEPT ![h].pc = to]
        /\ waiters' = Tail(waiters) /\ UNCHANGED <<slots, url, shut, healthy>>
    BY <1>3 DEF Release
  <2> HIDE DEF h, to
  <2>4. req'[p] = [Idle(req[p].file) EXCEPT !.sent = req[p].sent]
    BY <1>0, <2>1, <2>2, <2>3 DEF Finish
  <2>5. req'[p] \in Req /\ req'[p].pc = "idle"
    <3>1. Idle(req[p].file) \in Req /\ req[p].sent \in {"none", "success", "redirect", "error"}
      BY <1>0, IdleType DEF Req
    <3> QED
      BY <2>4, <3>1 DEF Idle, Req, Points
  <2>6. req'[h] = [req[h] EXCEPT !.pc = to] /\ req[h] \in Req
    BY <1>0, <2>1, <2>2, <2>3 DEF Finish
  <2>7. req'[h] \in Req /\ req'[h].pc \in {"hangAsk", "copy"}
    BY <2>2, <2>6 DEF Req, Points
  <2>8. \A q \in Procs : q \notin {p, h} => req'[q] = req[q]
    BY <1>0, <2>3 DEF Finish
  <2>9. req' \in [Procs -> Req]
    <3>1. DOMAIN req' = Procs /\ req' = [q \in Procs |-> req'[q]]
      BY <1>0, <2>3 DEF Finish
    <3>2. \A q \in Procs : req'[q] \in Req
      BY <1>0, <2>5, <2>7, <2>8
    <3> QED
      BY <3>1, <3>2
  <2>10. AttemptsOK'
    BY <2>5, <2>7, <2>8 DEF AttemptsOK, AttemptLeft
  <2>11. /\ waiters' \in Seq(Procs) /\ Len(waiters') = Len(waiters) - 1
         /\ \A k \in 1..Len(waiters) - 1 : waiters'[k] = waiters[k + 1]
    BY <1>0, <1>3, <2>3
  <2>12. TypeOK'
    BY <2>3, <2>9, <2>11 DEF TypeOK, Req
  <2>13. Holders' = (Holders \ {p}) \cup {h} /\ Parked' = Parked \ {h}
    <3>1. Holders' = {q \in Procs : req'[q].pc \in Held} /\ Holders = {q \in Procs : req[q].pc \in Held}
      BY DEF Holders, Held
    <3>2. Parked' = {q \in Procs : req'[q].pc = "parked"} /\ Parked = {q \in Procs : req[q].pc = "parked"}
      BY DEF Parked, At
    <3> QED
      BY <1>0, <2>1, <2>2, <2>5, <2>7, <2>8, <3>1, <3>2 DEF Held
  <2>14. Cardinality(Holders') = Cardinality(Holders)
    <3>1. h \notin Holders \ {p} /\ IsFiniteSet(Holders \ {p})
      BY <2>2, SetsFinite, FS_Subset DEF Holders
    <3>2. Cardinality((Holders \ {p}) \cup {h}) = Cardinality(Holders \ {p}) + 1
      BY <3>1, FS_AddElement
    <3>3. Cardinality(Holders) \in Nat
      BY SetsFinite
    <3> QED
      BY <1>1, <2>13, <3>2, <3>3
  <2>15. Cardinality(Parked') = Cardinality(Parked) - 1
    BY <2>2, <2>13, SetsFinite, FS_RemoveElement
  <2>16. \A q \in Parked' : \E k \in DOMAIN waiters' : waiters'[k] = q
    <3> SUFFICES ASSUME NEW q \in Parked, q # h
                 PROVE  \E k \in 1..Len(waiters) - 1 : waiters'[k] = q
      BY <2>11, <2>13
    <3>1. PICK k \in 1..Len(waiters) : waiters[k] = q
      BY <1>0 DEF SlotsConserved
    <3>2. k # 1 /\ k - 1 \in 1..Len(waiters) - 1 /\ (k - 1) + 1 = k
      BY <2>1, <3>1
    <3>3. waiters'[k - 1] = q
      BY <2>11, <3>1, <3>2
    <3> QED
      BY <3>2, <3>3
  <2>17. slots = 0
    BY <1>0, <1>3 DEF SlotsConserved
  <2>18. SlotsConserved'
    BY <1>0, <2>3, <2>11, <2>14, <2>15, <2>16, <2>17, SetsFinite DEF SlotsConserved
  <2>19. WaitersExact'
    <3>1. \A k \in 2..Len(waiters) :
            waiters[k] \in Procs \ {p, h} /\ req[waiters[k]].pc = "parked"
      BY <1>0, <2>1 DEF WaitersExact, At
    <3>2. \A k \in 1..Len(waiters) - 1 : k + 1 \in 2..Len(waiters)
      BY <2>1
    <3>3. \A k \in 1..Len(waiters) - 1 : req'[waiters'[k]].pc = "parked"
      BY <2>8, <2>11, <3>1, <3>2
    <3>4. ASSUME NEW j \in 1..Len(waiters) - 1, NEW k \in 1..Len(waiters) - 1,
                 waiters'[j] = waiters'[k]
          PROVE  j = k
      <4>1. waiters[j + 1] = waiters[k + 1] /\ {j + 1, k + 1} \subseteq 1..Len(waiters)
        BY <2>1, <2>11, <3>4
      <4>2. j + 1 = k + 1
        BY <4>1 DEF WaitersExact
      <4> QED
        BY <4>2
    <3> QED
      BY <2>11, <3>3, <3>4 DEF WaitersExact, At
  <2> QED
    BY <2>10, <2>12, <2>18, <2>19
<1> QED
  BY <1>2, <1>3

\* What happens beside the goroutines moves none of them.
LEMMA AsideKeeps ==
  ASSUME StreamInv, NEW f \in Files,
         UrlExpires(f) \/ LinksDie(f) \/ GuardOpens(f) \/ Health \/ UNCHANGED vars
  PROVE  StreamInv'
<1> USE DEF StreamInv
<1>0. req \in [Procs -> Req] /\ url \in [Files -> Links]
  BY DEF TypeOK, Req
<1>1. /\ req' \in [Procs -> Req] /\ url' \in [Files -> Links]
      /\ \A q \in Procs : req'[q].pc = req[q].pc /\ req'[q].attempt = req[q].attempt
  <2>1. CASE LinksDie(f)
    <3> DEFINE Withdrawn(link) == IF link = "live" THEN "dead" ELSE link
    <3>1. /\ url' = [url EXCEPT ![f] = Withdrawn(url[f])]
          /\ req' = [q \in Procs |-> IF req[q].file = f
                       THEN [req[q] EXCEPT !.link = Withdrawn(req[q].link)] ELSE req[q]]
      BY <1>0, <2>1 DEF LinksDie, Req
    <3>2. \A link \in Links : Withdrawn(link) \in Links
      BY DEF Links
    <3> HIDE DEF Withdrawn
    <3>3. url' \in [Files -> Links]
      BY <1>0, <3>1, <3>2
    <3>4. ASSUME NEW q \in Procs
          PROVE  req'[q] \in Req /\ req'[q].pc = req[q].pc /\ req'[q].attempt = req[q].attempt
      <4>1. req[q] \in Req /\ Withdrawn(req[q].link) \in Links
        BY <1>0, <3>2 DEF Req
      <4>2. req'[q] \in {[req[q] EXCEPT !.link = Withdrawn(req[q].link)], req[q]}
        BY <3>1
      <4> QED
        BY <4>1, <4>2 DEF Req
    <3> QED
      BY <3>1, <3>3, <3>4
  <2>2. CASE UrlExpires(f) \/ GuardOpens(f) \/ Health \/ UNCHANGED vars
    BY <1>0, <2>2 DEF UrlExpires, GuardOpens, Health, vars, Links
  <2> QED
    BY <2>1, <2>2
<1>2. /\ UNCHANGED <<slots, waiters>> /\ shut' \in [Files -> BOOLEAN] /\ healthy' \in BOOLEAN
  BY DEF UrlExpires, LinksDie, GuardOpens, Health, vars, TypeOK
<1>3. TypeOK'
  BY <1>1, <1>2 DEF TypeOK, Req
<1>4. AttemptsOK'
  BY <1>1 DEF AttemptsOK, AttemptLeft
<1>5. Holders' = Holders /\ Parked' = Parked
  BY <1>1 DEF Holders, Parked, At
<1>6. SlotsConserved'
  BY <1>2, <1>5 DEF SlotsConserved
<1>7. WaitersExact'
  <2>1. \A k \in 1..Len(waiters) : waiters[k] \in Procs
    BY DEF TypeOK
  <2> QED
    BY <1>1, <1>2, <2>1 DEF WaitersExact, At
<1> QED
  BY <1>3, <1>4, <1>6, <1>7

\* Initially every slot is free.
LEMMA InitEstablishes == Init => StreamInv
<1> SUFFICES ASSUME Init PROVE StreamInv
  OBVIOUS
<1>1. (CHOOSE f \in Files : TRUE) \in Files
  BY StreamAssumption
<1>2. req \in [Procs -> Req] /\ \A p \in Procs : req[p].pc = "idle"
  BY <1>1, IdleType DEF Init, Idle
<1>3. TypeOK
  BY <1>2, StreamAssumption DEF Init, TypeOK, Req, Links
<1>4. Holders = {} /\ Parked = {}
  BY <1>2 DEF Holders, Parked, At
<1>5. SlotsConserved
  BY <1>4, FS_EmptySet, StreamAssumption DEF Init, SlotsConserved
<1> QED
  BY <1>2, <1>3, <1>5 DEF Init, StreamInv, AttemptsOK, AttemptLeft, WaitersExact

\* Whatever requests come, fail, leave and hand over, the bookkeeping of the slots holds.
THEOREM StreamCorrect == Spec => []StreamInv
<1>1. StreamInv /\ [Next]_vars => StreamInv'
  <2> SUFFICES ASSUME StreamInv, [Next]_vars PROVE StreamInv'
    OBVIOUS
  <2>0. TypeOK /\ AttemptsOK /\ \E f \in Files : TRUE
    BY StreamAssumption DEF StreamInv
  <2>1. ASSUME NEW p \in Procs, Moves(p), Elsewhere(p) PROVE StreamInv'
    <3>1. SameClass(p)
      BY <2>1 DEF Elsewhere, SameClass, Held
    <3> QED
      BY <2>1, <3>1, ClassKeeps
  <2>2. ASSUME NEW p \in Procs, Continue(p) PROVE StreamInv'
    <3>1. CASE Direct(p)
      BY <2>0, <2>1, <3>1, DirectMoves
    <3>2. CASE \/ \E ok \in BOOLEAN : CacheLink(p, ok) \/ Invalidate(p, ok)
               \/ Hang(p) \/ Poll(p) \/ PollAgain(p) \/ PollLeave(p)
      BY <2>0, <2>1, <3>2, HungMoves
    <3>3. CASE HangAsk(p) \/ \E whole \in BOOLEAN : Copy(p, whole)
      BY <2>0, <3>3, ClassKept, ClassKeeps
    <3>4. CASE Acquire(p)
      BY <3>4, AcquireKeeps
    <3>5. CASE Release(p)
      BY <3>5, ReleaseKeeps
    <3> QED
      BY <2>2, <3>1, <3>2, <3>3, <3>4, <3>5 DEF Continue
  <2>3. ASSUME NEW p \in Procs, \E f \in Files, want \in Wants : Start(p, f, want)
        PROVE  StreamInv'
    BY <2>0, <2>1, <2>3, StartMoves
  <2>4. ASSUME NEW p \in Procs, Disconnect(p) PROVE StreamInv'
    BY <2>0, <2>4, ClassKept, ClassKeeps
  <2>5. CASE \E f \in Files : UrlExpires(f) \/ LinksDie(f) \/ GuardOpens(f)
    BY <2>5, AsideKeeps
  <2>6. CASE Health \/ UNCHANGED vars
    BY <2>0, <2>6, AsideKeeps
  <2> QED
    BY <2>2, <2>3, <2>4, <2>5, <2>6 DEF Next
<1> QED
  BY <1>1, InitEstablishes, PTL DEF Spec

\* Types, with the repair loop within its attempts.
THEOREM StreamTypes == Spec => []TypeOK
<1>1. StreamInv => TypeOK
  BY DEF StreamInv
<1> QED
  BY <1>1, StreamCorrect, PTL

\* Every slot is free or with one goroutine, and nobody is parked beside a free one.
THEOREM SlotsNeverLost == Spec => []SlotsConserved
<1>1. StreamInv => SlotsConserved
  BY DEF StreamInv
<1> QED
  BY <1>1, StreamCorrect, PTL

-----------------------------------------------------------------------------
\* The points a request reaches with a status sent.
Answered == {"idle", "poll", "pause", "hangCache", "acquire", "parked", "hangAsk", "copy", "release"}

\* What is under way for a client keeps what was promised: only the points past the
\* headers are reached with a status sent, those of hang and poll mode are reached hung,
\* and the direct path has file data in hand before it waits for a slot.
Promised(r) ==
  /\ r.sent # "none" => r.pc \in Answered
  /\ r.pc \in {"poll", "pause", "hangCache", "hangAsk"} => r.hung
  /\ r.pc \in {"acquire", "parked", "copy"} /\ ~r.hung => r.resp = "data"
  /\ r.body = "errorText" => r.hung

PromiseInv == TypeOK /\ \A p \in Procs : Promised(req[p])

StatusStays(p) == req[p].sent # "none" /\ req'[p].sent # req[p].sent => At(p, "idle")

Keeps(p) == Promised(req'[p]) /\ StatusStays(p)

\* The others keep theirs while one goroutine moves.
LEMMA OwnKeeps ==
  ASSUME PromiseInv, NEW p \in Procs, req' = [req EXCEPT ![p] = req'[p]], Keeps(p)
  PROVE  \A q \in Procs : Keeps(q)
<1>1. \A q \in Procs : q # p => req'[q] = req[q]
  BY DEF PromiseInv, TypeOK
<1> QED
  BY <1>1 DEF PromiseInv, Keeps, StatusStays

\* A request ends with the status that was sent, if one was.
LEMMA FinishKeeps ==
  ASSUME PromiseInv, NEW p \in Procs, NEW status, req' = Finish(p, status),
         req[p].sent = "none" \/ status = req[p].sent
  PROVE  Keeps(p)
<1>1. req'[p] = [Idle(req[p].file) EXCEPT !.sent = status]
  BY DEF Finish, PromiseInv, TypeOK
<1>2. req'[p].sent = status /\ req'[p].pc = "idle" /\ req'[p].body = "none"
  BY <1>1 DEF Idle
<1> QED
  BY <1>2 DEF Keeps, Promised, StatusStays, Answered

\* streamFileContent sends a status once it has file data, or ends with one.
LEMMA DirectKeeps ==
  ASSUME PromiseInv, NEW p \in Procs, Direct(p)
  PROVE  Keeps(p)
<1>0. req \in [Procs -> Req] /\ req[p] \in Req /\ Promised(req[p])
  BY DEF PromiseInv, TypeOK, Req
<1>1. req[p].pc \notin Answered
  BY DEF Direct, Redirect, Lookup, Fetch, RangeCheck, GiveUp, DeadLink, Exhausted, Transient, Data,
         Refetch, Asked, At, Answered
<1>2. req[p].sent = "none"
  BY <1>0, <1>1 DEF Promised
<1>3. ASSUME NEW status, req' = Finish(p, status) PROVE Keeps(p)
  BY <1>2, <1>3, FinishKeeps
<1>4. ASSUME NEW r, req' = [req EXCEPT ![p] = r], r.sent = "none", r.hung = req[p].hung,
             r.body = req[p].body, r.pc \notin Answered
      PROVE  Keeps(p)
  <2>1. req'[p] = r
    BY <1>0, <1>4
  <2> QED
    BY <1>0, <1>2, <1>4, <2>1 DEF Keeps, Promised, StatusStays, Answered
<1>5. ASSUME NEW to, req' = [req EXCEPT ![p].pc = to], to \notin Answered PROVE Keeps(p)
  <2> DEFINE r == [req[p] EXCEPT !.pc = to]
  <2>1. req' = [req EXCEPT ![p] = r]
    BY <1>0, <1>5
  <2>2. r.sent = "none" /\ r.hung = req[p].hung /\ r.body = req[p].body /\ r.pc = to
    BY <1>0, <1>2 DEF Req
  <2> HIDE DEF r
  <2> QED
    BY <1>4, <1>5, <2>1, <2>2
<1>6. ASSUME NEW to, NEW link, req' = [req EXCEPT ![p].link = link, ![p].pc = to], to \notin Answered
      PROVE  Keeps(p)
  <2> DEFINE r == [req[p] EXCEPT !.link = link, !.pc = to]
  <2>1. req' = [req EXCEPT ![p] = r]
    BY <1>0, <1>6
  <2>2. r.sent = "none" /\ r.hung = req[p].hung /\ r.body = req[p].body /\ r.pc = to
    BY <1>0, <1>2 DEF Req
  <2> HIDE DEF r
  <2> QED
    BY <1>4, <1>6, <2>1, <2>2
<1>7. {"lookup", "fetch", "cache", "range", "ask", "refetch", "recache", "invalidate", "hang"}
        \cap Answered = {}
  BY DEF Answered
<1>8. ASSUME NEW ok \in BOOLEAN, Redirect(p, ok) PROVE Keeps(p)
  <2>1. CASE ok /\ url[req[p].file] # "none"
    BY <1>3, <1>8, <2>1 DEF Redirect
  <2>2. CASE ~(ok /\ url[req[p].file] # "none")
    <3> DEFINE r == [req[p] EXCEPT !.pc = "lookup", !.want = "range"]
    <3>1. req' = [req EXCEPT ![p] = r]
      BY <1>0, <1>8, <2>2 DEF Redirect
    <3>2. r.sent = "none" /\ r.hung = req[p].hung /\ r.body = req[p].body /\ r.pc = "lookup"
      BY <1>0, <1>2 DEF Req
    <3> HIDE DEF r
    <3> QED
      BY <1>4, <1>7, <3>1, <3>2
  <2> QED
    BY <2>1, <2>2
<1>9. ASSUME NEW ok \in BOOLEAN, Lookup(p, ok) PROVE Keeps(p)
  <2>1. CASE ok
    <3> DEFINE to == IF url[req[p].file] = "none" THEN "fetch" ELSE "range"
    <3>1. req' = [req EXCEPT ![p].link = url[req[p].file], ![p].pc = to] /\ to \notin Answered
      BY <1>7, <1>9, <2>1 DEF Lookup
    <3> HIDE DEF to
    <3> QED
      BY <1>6, <3>1
  <2>2. CASE ~ok
    BY <1>3, <1>9, <2>2 DEF Lookup
  <2> QED
    BY <2>1, <2>2
<1>10. CASE Fetch(p)
  <2>1. CASE \E link \in {"live", "none"} : req' = [req EXCEPT ![p].link = link, ![p].pc = "cache"]
    BY <1>6, <1>7, <2>1
  <2>2. CASE req' = [req EXCEPT ![p].pc = "hang"]
    BY <1>5, <1>7, <2>2
  <2> QED
    BY <1>10, <2>1, <2>2 DEF Fetch
<1>11. CASE RangeCheck(p)
  <2>1. req' = Finish(p, "error") \/ req' = [req EXCEPT ![p].pc = "ask"]
    BY <1>11 DEF RangeCheck
  <2> QED
    BY <1>3, <1>5, <1>7, <2>1
<1>12. CASE GiveUp(p) \/ Exhausted(p)
  <2>1. req' = Finish(p, "error")
    BY <1>12 DEF GiveUp, Exhausted
  <2> QED
    BY <1>3, <2>1
<1>13. CASE DeadLink(p)
  BY <1>5, <1>7, <1>13 DEF DeadLink
<1>14. CASE Transient(p)
  <2> DEFINE r == [req[p] EXCEPT !.pc = "invalidate", !.link = "none", !.attempt = 0]
  <2>1. req' = [req EXCEPT ![p] = r]
    BY <1>0, <1>14 DEF Transient
  <2>2. r.sent = "none" /\ r.hung = req[p].hung /\ r.body = req[p].body /\ r.pc = "invalidate"
    BY <1>0, <1>2 DEF Req
  <2> HIDE DEF r
  <2> QED
    BY <1>4, <1>7, <2>1, <2>2
<1>15. CASE Data(p)
  <2>1. req'[p] = [req[p] EXCEPT !.pc = "acquire", !.resp = "data", !.sent = "success",
                                 !.link = "none", !.attempt = 0]
    BY <1>0, <1>15 DEF Data
  <2>2. /\ req'[p].pc = "acquire" /\ req'[p].resp = "data" /\ req'[p].hung = req[p].hung
        /\ req'[p].body = req[p].body
    BY <1>0, <2>1 DEF Req
  <2> QED
    BY <1>0, <1>2, <2>2 DEF Keeps, Promised, StatusStays, Answered
<1>16. CASE Refetch(p)
  <2>1. ASSUME NEW link, req' = [req EXCEPT ![p].link = link, ![p].attempt = @ + 1, ![p].pc = "recache"]
        PROVE  Keeps(p)
    <3> DEFINE r == [req[p] EXCEPT !.link = link, !.attempt = @ + 1, !.pc = "recache"]
    <3>1. req' = [req EXCEPT ![p] = r]
      BY <1>0, <2>1
    <3>2. r.sent = "none" /\ r.hung = req[p].hung /\ r.body = req[p].body /\ r.pc = "recache"
      BY <1>0, <1>2 DEF Req
    <3> HIDE DEF r
    <3> QED
      BY <1>4, <1>7, <3>1, <3>2
  <2> QED
    BY <1>3, <1>16, <2>1 DEF Refetch
<1> QED
  BY <1>8, <1>9, <1>10, <1>11, <1>12, <1>13, <1>14, <1>15, <1>16 DEF Direct

\* handleGetCDNHang has sent its status and keeps it.
LEMMA HungKeeps ==
  ASSUME PromiseInv, NEW p \in Procs, NEW ok \in BOOLEAN,
         \/ CacheLink(p, ok) \/ Invalidate(p, ok)
         \/ Hang(p) \/ Poll(p) \/ PollAgain(p) \/ PollLeave(p)
         \/ HangAsk(p) \/ Copy(p, ok) \/ Disconnect(p)
  PROVE  Keeps(p)
<1>0. req \in [Procs -> Req] /\ req[p] \in Req /\ Promised(req[p])
  BY DEF PromiseInv, TypeOK, Req
<1> USE DEF At
<1>1. CASE CacheLink(p, ok)
  <2>1. PICK to : /\ req' = [req EXCEPT ![p].pc = to]
                  /\ \/ req[p].pc \in {"cache", "recache"} /\ to \in {"range", "ask"}
                     \/ req[p].pc = "hangCache" /\ to = "acquire"
    BY <1>1 DEF CacheLink
  <2>2. req'[p] = [req[p] EXCEPT !.pc = to]
    BY <1>0, <2>1
  <2> QED
    BY <1>0, <2>1, <2>2 DEF Req, Keeps, Promised, StatusStays, Answered
<1>2. CASE Invalidate(p, ok)
  <2>1. req'[p] = [req[p] EXCEPT !.pc = "hang"] /\ req[p].pc = "invalidate"
    BY <1>0, <1>2 DEF Invalidate
  <2> QED
    BY <1>0, <2>1 DEF Req, Keeps, Promised, StatusStays, Answered
<1>3. CASE Hang(p)
  <2>0. req[p].pc = "hang" /\ req[p].sent = "none"
    BY <1>0, <1>3 DEF Hang, Promised, Answered
  <2>1. CASE req[p].want = "bad"
    BY <1>3, <2>0, <2>1, FinishKeeps DEF Hang
  <2>2. CASE req[p].want # "bad"
    <3>1. req'[p] = [req[p] EXCEPT !.pc = "poll", !.hung = TRUE, !.sent = "success"]
      BY <1>0, <1>3, <2>2 DEF Hang
    <3>2. req'[p].pc = "poll" /\ req'[p].hung = TRUE
      BY <1>0, <3>1 DEF Req
    <3> QED
      BY <2>0, <3>2 DEF Keeps, Promised, StatusStays, Answered
  <2> QED
    BY <2>1, <2>2
<1>4. CASE Poll(p)
  <2>0. req[p].pc = "poll" /\ req[p].hung
    BY <1>0, <1>4 DEF Poll, Promised
  <2>1. \/ \E link : req'[p] = [req[p] EXCEPT !.link = link, !.pc = "hangCache"]
        \/ req'[p] = [req[p] EXCEPT !.pc = "pause"]
    BY <1>0, <1>4 DEF Poll
  <2>2. /\ req'[p].pc \in {"hangCache", "pause"} /\ req'[p].hung = req[p].hung
        /\ req'[p].sent = req[p].sent
    BY <1>0, <2>1 DEF Req
  <2> QED
    BY <2>0, <2>2 DEF Keeps, Promised, StatusStays, Answered
<1>5. CASE PollAgain(p)
  <2>1. req'[p] = [req[p] EXCEPT !.pc = "poll"] /\ req[p].pc = "pause"
    BY <1>0, <1>5 DEF PollAgain
  <2> QED
    BY <1>0, <2>1 DEF Req, Keeps, Promised, StatusStays, Answered
<1>6. CASE PollLeave(p)
  BY <1>6, FinishKeeps DEF PollLeave
<1>7. CASE HangAsk(p)
  <2>0. req[p].pc = "hangAsk" /\ req[p].hung
    BY <1>0, <1>7 DEF HangAsk, Promised
  <2>1. PICK r : req' = [req EXCEPT ![p].resp = IF r = "error" THEN "none" ELSE r,
                                    ![p].pc = IF r = "error" THEN "release" ELSE "copy",
                                    ![p].link = "none"]
    BY <1>7 DEF HangAsk
  <2> DEFINE resp == IF r = "error" THEN "none" ELSE r
             to == IF r = "error" THEN "release" ELSE "copy"
  <2>3. to \in {"release", "copy"}
    OBVIOUS
  <2>4. req'[p] = [req[p] EXCEPT !.resp = resp, !.pc = to, !.link = "none"]
    BY <1>0, <2>1
  <2> HIDE DEF resp, to
  <2>2. req'[p].pc = to /\ req'[p].hung = req[p].hung /\ req'[p].sent = req[p].sent
    BY <1>0, <2>4 DEF Req
  <2> QED
    BY <2>0, <2>2, <2>3 DEF Keeps, Promised, StatusStays, Answered
<1>8. CASE Copy(p, ok)
  <2>0. req[p].pc = "copy"
    BY <1>8 DEF Copy
  <2>1. PICK b : /\ req'[p] = [req[p] EXCEPT !.pc = "release", !.body = b]
                 /\ b = "errorText" => req[p].resp # "data"
    <3> DEFINE b == IF req[p].resp # "data" THEN "errorText" ELSE IF ok THEN "data" ELSE "part"
    <3>1. req'[p] = [req[p] EXCEPT !.pc = "release", !.body = b]
      BY <1>0, <1>8 DEF Copy
    <3>2. b = "errorText" => req[p].resp # "data"
      OBVIOUS
    <3> HIDE DEF b
    <3> QED
      BY <3>1, <3>2
  <2>2. req'[p].pc = "release" /\ req'[p].body = b /\ req'[p].hung = req[p].hung /\ req'[p].sent = req[p].sent
    BY <1>0, <2>1 DEF Req
  <2> QED
    BY <1>0, <2>0, <2>1, <2>2 DEF Keeps, Promised, StatusStays, Answered
<1>9. CASE Disconnect(p)
  <2>1. req'[p] = [req[p] EXCEPT !.gone = TRUE]
    BY <1>0, <1>9 DEF Disconnect
  <2>2. \A g \in {"pc", "hung", "sent", "body", "resp"} : req'[p][g] = req[p][g]
    BY <1>0, <2>1 DEF Req
  <2> QED
    BY <1>0, <2>2 DEF Keeps, Promised, StatusStays
<1> QED
  BY <1>1, <1>2, <1>3, <1>4, <1>5, <1>6, <1>7, <1>8, <1>9

\* A slot that is taken, waited for or handed over changes where a goroutine is, and
\* nothing it has sent.
LEMMA SlotKeeps ==
  ASSUME PromiseInv, StreamInv, NEW p \in Procs, Acquire(p) \/ Release(p)
  PROVE  \A q \in Procs : Keeps(q)
<1>0. /\ req \in [Procs -> Req] /\ waiters \in Seq(Procs) /\ WaitersExact
      /\ \A q \in Procs : req[q] \in Req /\ Promised(req[q])
  BY DEF PromiseInv, StreamInv, TypeOK, Req
<1>1. ASSUME NEW q \in Procs, req[q].pc \in {"acquire", "parked"},
             req'[q] = [req[q] EXCEPT !.pc = Admitted(q)]
      PROVE  Keeps(q)
  <2> DEFINE to == Admitted(q)
  <2>1. IF req[q].hung THEN to = "hangAsk" ELSE to = "copy"
    BY DEF Admitted
  <2>2. req'[q] = [req[q] EXCEPT !.pc = to]
    BY <1>1
  <2> HIDE DEF to
  <2>3. /\ req'[q].pc = to /\ req'[q].hung = req[q].hung /\ req'[q].sent = req[q].sent
        /\ req'[q].body = req[q].body /\ req'[q].resp = req[q].resp
    BY <1>0, <2>2 DEF Req
  <2> QED
    BY <1>0, <1>1, <2>1, <2>3 DEF Keeps, Promised, StatusStays, Answered
<1>2. CASE Acquire(p)
  <2>0. req[p].pc = "acquire"
    BY <1>2 DEF Acquire, At
  <2>1. PICK to \in {"parked", Admitted(p)} : req' = [req EXCEPT ![p].pc = to]
    BY <1>2 DEF Acquire
  <2>2. req'[p] = [req[p] EXCEPT !.pc = to] /\ req' = [req EXCEPT ![p] = req'[p]]
    BY <1>0, <2>1
  <2>3. CASE to = "parked"
    <3>1. /\ req'[p].pc = "parked" /\ req'[p].hung = req[p].hung /\ req'[p].sent = req[p].sent
          /\ req'[p].body = req[p].body /\ req'[p].resp = req[p].resp
      BY <1>0, <2>2, <2>3 DEF Req
    <3>2. Keeps(p)
      BY <1>0, <2>0, <3>1 DEF Keeps, Promised, StatusStays, Answered
    <3> QED
      BY <2>2, <3>2, OwnKeeps
  <2>4. CASE to = Admitted(p)
    BY <1>1, <2>0, <2>2, <2>4, OwnKeeps
  <2> QED
    BY <2>1, <2>3, <2>4
<1>3. CASE Release(p) /\ waiters = <<>>
  <2>1. req' = Finish(p, req[p].sent)
    BY <1>3 DEF Release
  <2>2. req' = [req EXCEPT ![p] = req'[p]]
    BY <1>0, <2>1 DEF Finish
  <2> QED
    BY <2>1, <2>2, FinishKeeps, OwnKeeps
<1>4. CASE Release(p) /\ waiters # <<>>
  <2> DEFINE h == Head(waiters)
             to == Admitted(h)
  <2>1. h \in Procs /\ req[h].pc = "parked" /\ req[p].pc = "release"
    <3>1. h = waiters[1] /\ 1 \in 1..Len(waiters) /\ h \in Procs
      BY <1>0, <1>4
    <3> QED
      BY <1>0, <1>4, <3>1 DEF WaitersExact, At, Release
  <2>2. req' = [Finish(p, req[p].sent) EXCEPT ![h].pc = to]
    BY <1>4 DEF Release
  <2>3. /\ req'[p] = [Idle(req[p].file) EXCEPT !.sent = req[p].sent]
        /\ req'[h] = [req[h] EXCEPT !.pc = to]
        /\ \A q \in Procs : q \notin {p, h} => req'[q] = req[q]
    <3> HIDE DEF h, to
    <3> QED
      BY <1>0, <2>1, <2>2 DEF Finish
  <2>4. Keeps(h)
    BY <1>1, <2>1, <2>3
  <2>5. Keeps(p)
    <3>1. req'[p].pc = "idle" /\ req'[p].sent = req[p].sent /\ req'[p].body = "none"
      BY <2>3 DEF Idle
    <3> QED
      BY <3>1 DEF Keeps, Promised, StatusStays, Answered
  <2> QED
    BY <1>0, <2>3, <2>4, <2>5 DEF Keeps, StatusStays
<1> QED
  BY <1>2, <1>3, <1>4

\* A new request has sent nothing.
LEMMA StartKeeps ==
  ASSUME PromiseInv, NEW p \in Procs, NEW f \in Files, NEW want \in Wants, Start(p, f, want)
  PROVE  \A q \in Procs : Keeps(q)
<1> DEFINE to == IF want = "full" THEN "redirect" ELSE "lookup"
           r == [Idle(f) EXCEPT !.want = want, !.pc = to]
<1>1. /\ req \in [Procs -> Req] /\ req' = [req EXCEPT ![p] = r] /\ At(p, "idle")
  BY DEF Start, PromiseInv, TypeOK, Req
<1>2. to \in {"redirect", "lookup"}
  OBVIOUS
<1>3. r.pc = to /\ r.sent = "none" /\ r.body = "none"
  <2> HIDE DEF to
  <2> QED
    BY DEF Idle
<1> HIDE DEF to, r
<1>4. req'[p] = r /\ req' = [req EXCEPT ![p] = req'[p]]
  BY <1>1
<1>5. Keeps(p)
  BY <1>1, <1>2, <1>3, <1>4 DEF Keeps, Promised, StatusStays
<1> QED
  BY <1>4, <1>5, OwnKeeps

\* What happens beside the goroutines reaches their links at most.
LEMMA AsidePromises ==
  ASSUME PromiseInv, NEW f \in Files,
         UrlExpires(f) \/ LinksDie(f) \/ GuardOpens(f) \/ Health \/ UNCHANGED vars
  PROVE  \A q \in Procs : Keeps(q)
<1>0. \A q \in Procs : req[q] \in Req /\ Promised(req[q])
  BY DEF PromiseInv, TypeOK, Req
<1>1. CASE LinksDie(f)
  <2> SUFFICES ASSUME NEW q \in Procs PROVE Keeps(q)
    OBVIOUS
  <2>1. req'[q] = req[q] \/ \E link : req'[q] = [req[q] EXCEPT !.link = link]
    BY <1>1 DEF LinksDie
  <2>2. /\ req'[q].pc = req[q].pc /\ req'[q].hung = req[q].hung /\ req'[q].sent = req[q].sent
        /\ req'[q].body = req[q].body /\ req'[q].resp = req[q].resp
    BY <1>0, <2>1 DEF Req
  <2> QED
    BY <1>0, <2>2 DEF Keeps, Promised, StatusStays
<1>2. CASE UrlExpires(f) \/ GuardOpens(f) \/ Health \/ UNCHANGED vars
  BY <1>0, <1>2 DEF UrlExpires, GuardOpens, Health, vars, Keeps, StatusStays
<1> QED
  BY <1>1, <1>2

\* Every step keeps what was promised, to everybody.
LEMMA NextKeeps ==
  ASSUME PromiseInv, StreamInv, [Next]_vars
  PROVE  \A q \in Procs : Keeps(q)
<1>1. ASSUME NEW p \in Procs, Keeps(p), Moves(p) PROVE \A q \in Procs : Keeps(q)
  BY <1>1, OwnKeeps DEF Moves
<1>2. TypeOK /\ AttemptsOK /\ \E f \in Files : TRUE
  BY StreamAssumption DEF StreamInv
<1>3. ASSUME NEW p \in Procs, Continue(p) PROVE \A q \in Procs : Keeps(q)
  <2>1. CASE Direct(p)
    BY <1>1, <1>2, <2>1, DirectMoves, DirectKeeps
  <2>2. CASE \/ \E ok \in BOOLEAN : CacheLink(p, ok) \/ Invalidate(p, ok)
             \/ Hang(p) \/ Poll(p) \/ PollAgain(p) \/ PollLeave(p)
    BY <1>1, <1>2, <2>2, HungMoves, HungKeeps
  <2>3. CASE HangAsk(p) \/ \E whole \in BOOLEAN : Copy(p, whole)
    BY <1>1, <1>2, <2>3, ClassKept, HungKeeps
  <2>4. CASE Acquire(p) \/ Release(p)
    BY <2>4, SlotKeeps
  <2> QED
    BY <1>3, <2>1, <2>2, <2>3, <2>4 DEF Continue
<1>4. ASSUME NEW p \in Procs, Disconnect(p) PROVE \A q \in Procs : Keeps(q)
  BY <1>1, <1>2, <1>4, ClassKept, HungKeeps
<1>5. CASE \E p \in Procs, f \in Files, want \in Wants : Start(p, f, want)
  BY <1>5, StartKeeps
<1>6. CASE \E f \in Files : UrlExpires(f) \/ LinksDie(f) \/ GuardOpens(f)
  BY <1>6, AsidePromises
<1>7. CASE Health \/ UNCHANGED vars
  BY <1>2, <1>7, AsidePromises
<1> QED
  BY <1>3, <1>4, <1>5, <1>6, <1>7 DEF Next

\* Whatever is repaired, refetched or awaited, what was promised stands.
THEOREM PromisesKept == Spec => []PromiseInv
<1>1. Init => PromiseInv
  <2> SUFFICES ASSUME Init PROVE \A p \in Procs : Promised(req[p])
    BY InitEstablishes DEF PromiseInv, StreamInv
  <2>1. \A p \in Procs : req[p].pc = "idle" /\ req[p].body = "none"
    BY DEF Init, Idle
  <2> QED
    BY <2>1 DEF Promised, Answered
<1>2. PromiseInv /\ StreamInv /\ StreamInv' /\ [Next]_vars => PromiseInv'
  <2> SUFFICES ASSUME PromiseInv, StreamInv, StreamInv', [Next]_vars PROVE PromiseInv'
    OBVIOUS
  <2>1. \A q \in Procs : Promised(req'[q])
    BY NextKeeps DEF Keeps
  <2>2. TypeOK'
    BY DEF StreamInv
  <2> QED
    BY <2>1, <2>2 DEF PromiseInv
<1> QED
  BY <1>1, <1>2, StreamCorrect, PTL DEF Spec

\* On the direct path no client is ever sent an error page as file data (get.go:271-281).
THEOREM DirectGenuine == Spec => []DirectBodyGenuine
<1>1. PromiseInv => DirectBodyGenuine
  BY DEF PromiseInv, Promised, DirectBodyGenuine
<1> QED
  BY <1>1, PromisesKept, PTL

\* A client's status is sent once: no later step of any handler changes it.
THEOREM StatusSent == Spec => StatusSentOnce
<1> DEFINE Stands == \A p \in Procs :
             req[p].sent # "none" /\ req'[p].sent # req[p].sent => At(p, "idle")
<1>1. PromiseInv /\ StreamInv /\ [Next]_vars => Stands
  BY NextKeeps DEF Keeps, StatusStays
<1> HIDE DEF Stands
<1>2. Spec => [][Stands]_vars
  BY <1>1, PromisesKept, StreamCorrect, PTL DEF Spec
<1> QED
  BY <1>2, PTL DEF StatusSentOnce, Stands
=============================================================================
