------------------------------ MODULE CdnStream ------------------------------
(***************************************************************************)
(* internal/server/get.go: how a request for a file's bytes is served.     *)
(* handleGet redirects or falls through to streamFileContent, which finds  *)
(* a CDN link (cached in the store, else from TorBox), asks the CDN,       *)
(* repairs a dead link, and either streams or gives way to                 *)
(* handleGetCDNHang, which promises success at once and polls.  Streaming  *)
(* takes one of a fixed number of slots (server.go cdnSem).                *)
(*                                                                         *)
(* A link is "live" or "dead"; "none" is the empty string.  fetchCDNURL is *)
(* what CdnGuard.tla models in full: here it succeeds when the guard is    *)
(* open and TorBox answers, and a failure shuts the guard until it reopens.*)
(***************************************************************************)
EXTENDS Integers, Sequences, FiniteSets

CONSTANTS
  Procs,               \* request goroutines
  Files,
  MaxCDNConnections,
  AutoRepair,          \* CDNURLAutoRepair
  RepairRetries,       \* CDNURLRepairRetries
  Wants                \* what clients ask for, a subset of {"full", "range", "bad"}

ASSUME StreamAssumption ==
  /\ IsFiniteSet(Procs) /\ Files # {}
  /\ MaxCDNConnections \in Nat \ {0}
  /\ AutoRepair \in BOOLEAN
  /\ RepairRetries \in Nat
  /\ Wants \subseteq {"full", "range", "bad"}

VARIABLES
  req,      \* one record per goroutine, see Idle
  url,      \* url[f]: what GetCDNURL answers for the file's row
  shut,     \* shut[f]: the negative cache or the breaker refuses the file
  slots,    \* tokens in cdnSem
  waiters,  \* goroutines parked in AcquireCDNConn, oldest first
  healthy   \* TorBox answers and the CDN serves live links

vars == <<req, url, shut, slots, waiters, healthy>>

\* want: what the client asked for; link, attempt: local variables; resp: the CDN
\* response whose body is open; hung: in handleGetCDNHang; gone: the client has left;
\* sent, body: status and data the client got.
Idle(f) ==
  [pc |-> "idle", file |-> f, want |-> "full", link |-> "none", attempt |-> 0,
   resp |-> "none", hung |-> FALSE, gone |-> FALSE, sent |-> "none", body |-> "none"]

Init ==
  /\ req \in [Procs -> {Idle(f) : f \in {CHOOSE f \in Files : TRUE}}]
  /\ url = [f \in Files |-> "none"]
  /\ shut = [f \in Files |-> FALSE]
  /\ slots = MaxCDNConnections
  /\ waiters = <<>>
  /\ healthy \in BOOLEAN

At(p, where) == req[p].pc = where

\* The handler returns with the status it has sent.
Finish(p, status) == [req EXCEPT ![p] = [Idle(@.file) EXCEPT !.sent = status]]
MaxAttempts == RepairRetries + 1

-----------------------------------------------------------------------------
\* A request for a file: "full" is a WebDAV GET without a Range, "range" one with a
\* Range or any request under /http/, "bad" one whose Range parseRange rejects.
Start(p, f, want) ==
  /\ At(p, "idle")
  /\ req' = [req EXCEPT ![p] =
               [Idle(f) EXCEPT !.want = want,
                               !.pc = IF want = "full" THEN "redirect" ELSE "lookup"]]
  /\ UNCHANGED <<url, shut, slots, waiters, healthy>>

\* handleGet: without a Range a cached link is handed to the client; without a link, or
\* if GetCDNURL fails, the request is served like one with a Range.
Redirect(p, ok) ==
  /\ At(p, "redirect")
  /\ req' = IF ok /\ url[req[p].file] # "none" THEN Finish(p, "redirect")
            ELSE [req EXCEPT ![p].pc = "lookup", ![p].want = "range"]
  /\ UNCHANGED <<url, shut, slots, waiters, healthy>>

\* streamFileContent: GetCDNURL; a database error is answered with a 500.
Lookup(p, ok) ==
  LET cached == url[req[p].file] IN
  /\ At(p, "lookup")
  /\ req' = IF ok
            THEN [req EXCEPT ![p].link = cached,
                             ![p].pc = IF cached = "none" THEN "fetch" ELSE "range"]
            ELSE Finish(p, "error")
  /\ UNCHANGED <<url, shut, slots, waiters, healthy>>

\* fetchCDNURL answers a link; a troubled API may answer the empty string.
FetchOk(p, link) ==
  /\ ~shut[req[p].file]
  /\ link = "none" => ~healthy
  /\ UNCHANGED <<url, shut, slots, waiters, healthy>>

\* fetchCDNURL answers an error: refused by the guard, or failed and remembered there.
FetchFails(p) ==
  /\ shut[req[p].file] \/ ~healthy
  /\ shut' = [shut EXCEPT ![req[p].file] = TRUE]
  /\ UNCHANGED <<url, slots, waiters, healthy>>

\* No cached link: fetch one, or hang.
Fetch(p) ==
  /\ At(p, "fetch")
  /\ \/ \E link \in {"live", "none"} :
          /\ FetchOk(p, link)
          /\ req' = [req EXCEPT ![p].link = link, ![p].pc = "cache"]
     \/ /\ FetchFails(p)
        /\ req' = [req EXCEPT ![p].pc = "hang"]

\* SetCDNURL of a fetched link; a locked database is logged and ignored.
CacheLink(p, ok) ==
  /\ req[p].pc \in {"cache", "recache", "hangCache"}
  /\ url' = IF ok THEN [url EXCEPT ![req[p].file] = req[p].link] ELSE url
  /\ req' = [req EXCEPT ![p].pc = CASE At(p, "cache") -> "range"
                                     [] At(p, "recache") -> "ask"
                                     [] At(p, "hangCache") -> "acquire"]
  /\ UNCHANGED <<shut, slots, waiters, healthy>>

\* parseRange.
RangeCheck(p) ==
  /\ At(p, "range")
  /\ req' = IF req[p].want = "bad" THEN Finish(p, "error")
            ELSE [req EXCEPT ![p].pc = "ask"]
  /\ UNCHANGED <<url, shut, slots, waiters, healthy>>

-----------------------------------------------------------------------------
\* What client.Do can come back with: "error" is no response, "gone" a 403 or 404,
\* "busy" a 429 or 5xx, "text" a success with an error page, "other" any other status.
Responses(p) ==
  IF req[p].gone \/ req[p].link = "none" THEN {"error"}
  ELSE IF ~healthy THEN {"data", "text", "gone", "busy", "other", "error"}
  ELSE IF req[p].link = "dead" THEN {"gone"}
  ELSE {"data"}

Asked(p, r) == At(p, "ask") /\ r \in Responses(p)
\* Mutant: off by one, a repair after the last attempt.
CanRepairOnceMore(p) == AutoRepair /\ req[p].attempt < MaxAttempts

CanRepair(p) == AutoRepair /\ req[p].attempt < MaxAttempts - 1

\* The network failed, or a status nothing can be done about: 502.
GiveUp(p) ==
  /\ \E r \in {"error", "other"} : Asked(p, r)
  /\ req' = Finish(p, "error")
  /\ UNCHANGED <<url, shut, slots, waiters, healthy>>

\* 403 or 404 with attempts left: get a fresh link.
DeadLink(p) ==
  /\ Asked(p, "gone") /\ CanRepair(p)
  /\ req' = [req EXCEPT ![p].pc = "refetch"]
  /\ UNCHANGED <<url, shut, slots, waiters, healthy>>

\* 403 or 404 with none left: 502, remembered in the negative cache after the last.
Exhausted(p) ==
  /\ Asked(p, "gone") /\ ~CanRepair(p)
  /\ shut' = IF req[p].attempt = MaxAttempts - 1
             THEN [shut EXCEPT ![req[p].file] = TRUE] ELSE shut
  /\ req' = Finish(p, "error")
  /\ UNCHANGED <<url, slots, waiters, healthy>>

\* 429, 5xx or an error page: drop the cached link and hang.  Here and below a link and
\* an attempt number that are not used again are forgotten.
Transient(p) ==
  /\ \E r \in {"busy", "text"} : Asked(p, r)
  /\ req' = [req EXCEPT ![p].pc = "invalidate", ![p].link = "none", ![p].attempt = 0]
  /\ UNCHANGED <<url, shut, slots, waiters, healthy>>

\* Mutant: the Content-Type of a success is not looked at.
DataAnyType(p) ==
  /\ \E r \in {"data", "text"} :
       /\ Asked(p, r)
       /\ req' = [req EXCEPT ![p].pc = "acquire", ![p].resp = r, ![p].sent = "success",
                             ![p].link = "none", ![p].attempt = 0]
  /\ UNCHANGED <<url, shut, slots, waiters, healthy>>

\* File data: the headers go out, the body stays open while a slot is awaited.
Data(p) ==
  /\ Asked(p, "data")
  /\ req' = [req EXCEPT ![p].pc = "acquire", ![p].resp = "data", ![p].sent = "success",
                        ![p].link = "none", ![p].attempt = 0]
  /\ UNCHANGED <<url, shut, slots, waiters, healthy>>

\* The repair's fetchCDNURL: try again with the new link, or 502.
Refetch(p) ==
  /\ At(p, "refetch")
  /\ \/ \E link \in {"live", "none"} :
          /\ FetchOk(p, link)
          /\ req' = [req EXCEPT ![p].link = link, ![p].attempt = @ + 1, ![p].pc = "recache"]
     \/ FetchFails(p) /\ req' = Finish(p, "error")

Invalidate(p, ok) ==
  /\ At(p, "invalidate")
  /\ url' = IF ok THEN [url EXCEPT ![req[p].file] = "none"] ELSE url
  /\ req' = [req EXCEPT ![p].pc = "hang"]
  /\ UNCHANGED <<shut, slots, waiters, healthy>>

-----------------------------------------------------------------------------
\* handleGetCDNHang: success headers before anything is known.
Hang(p) ==
  /\ At(p, "hang")
  /\ req' = IF req[p].want = "bad" THEN Finish(p, "error")
            ELSE [req EXCEPT ![p].pc = "poll", ![p].hung = TRUE, ![p].sent = "success"]
  /\ UNCHANGED <<url, shut, slots, waiters, healthy>>

Poll(p) ==
  /\ At(p, "poll")
  /\ \/ \E link \in {"live", "none"} :
          /\ FetchOk(p, link)
          /\ req' = [req EXCEPT ![p].link = link, ![p].pc = "hangCache"]
     \/ FetchFails(p) /\ req' = [req EXCEPT ![p].pc = "pause"]

\* The select of the poll loop: the interval is over, or the client has left.
PollAgain(p) ==
  /\ At(p, "pause")
  /\ req' = [req EXCEPT ![p].pc = "poll"]
  /\ UNCHANGED <<url, shut, slots, waiters, healthy>>

\* Mutant: the select waits for the interval only.
PollStay(p) == FALSE /\ UNCHANGED vars

PollLeave(p) ==
  /\ At(p, "pause")
  /\ req[p].gone
  /\ req' = Finish(p, req[p].sent)
  /\ UNCHANGED <<url, shut, slots, waiters, healthy>>

\* Mutant: a failed client.Do returns before the release is deferred.
HangAskKeepsSlot(p) ==
  /\ At(p, "hangAsk")
  /\ \E r \in Responses(p) :
       req' = IF r = "error" THEN Finish(p, req[p].sent)
              ELSE [req EXCEPT ![p].resp = r, ![p].pc = "copy", ![p].link = "none"]
  /\ UNCHANGED <<url, shut, slots, waiters, healthy>>

\* Mutant: a failed client.Do is answered with an http.Error.
HangAskAnswers502(p) ==
  /\ At(p, "hangAsk")
  /\ \E r \in Responses(p) :
       req' = [req EXCEPT ![p].resp = IF r = "error" THEN "none" ELSE r,
                          ![p].sent = IF r = "error" THEN "error" ELSE @,
                          ![p].pc = IF r = "error" THEN "release" ELSE "copy",
                          ![p].link = "none"]
  /\ UNCHANGED <<url, shut, slots, waiters, healthy>>

\* With the slot in hand: any response is streamed, none ends the request.
HangAsk(p) ==
  /\ At(p, "hangAsk")
  /\ \E r \in Responses(p) :
       req' = [req EXCEPT ![p].resp = IF r = "error" THEN "none" ELSE r,
                          ![p].pc = IF r = "error" THEN "release" ELSE "copy",
                          ![p].link = "none"]
  /\ UNCHANGED <<url, shut, slots, waiters, healthy>>

-----------------------------------------------------------------------------
Admitted(p) == IF req[p].hung THEN "hangAsk" ELSE "copy"

\* AcquireCDNConn: take a token, or park.
Acquire(p) ==
  /\ At(p, "acquire")
  /\ IF slots > 0
     THEN /\ slots' = slots - 1
          /\ req' = [req EXCEPT ![p].pc = Admitted(p)]
          /\ UNCHANGED waiters
     ELSE /\ waiters' = Append(waiters, p)
          /\ req' = [req EXCEPT ![p].pc = "parked"]
          /\ UNCHANGED slots
  /\ UNCHANGED <<url, shut, healthy>>

\* io.Copy: the body to its end, or cut short (the client left, the 30 s of the HTTP
\* client are over, the CDN broke off).  It may also never end: the 30 s bound the reads
\* from the CDN, and nothing the writes to a client that stays and does not read.
Copy(p, whole) ==
  /\ At(p, "copy")
  /\ req[p].gone => ~whole
  /\ req' = [req EXCEPT ![p].pc = "release",
                        ![p].body = IF req[p].resp # "data" THEN "errorText"
                                    ELSE IF whole THEN "data" ELSE "part"]
  /\ UNCHANGED <<url, shut, slots, waiters, healthy>>

\* The deferred calls: the body is closed, the token goes back or to the oldest waiter.
Release(p) ==
  /\ At(p, "release")
  /\ IF waiters = <<>>
     THEN /\ slots' = slots + 1
          /\ req' = Finish(p, req[p].sent)
          /\ UNCHANGED waiters
     ELSE /\ waiters' = Tail(waiters)
          /\ req' = [Finish(p, req[p].sent) EXCEPT
                       ![Head(waiters)].pc = Admitted(Head(waiters))]
          /\ UNCHANGED slots
  /\ UNCHANGED <<url, shut, healthy>>

-----------------------------------------------------------------------------
Disconnect(p) ==
  /\ ~At(p, "idle") /\ ~req[p].gone
  /\ req' = [req EXCEPT ![p].gone = TRUE]
  /\ UNCHANGED <<url, shut, slots, waiters, healthy>>

\* The row's TTL runs out.
UrlExpires(f) ==
  /\ url' = [url EXCEPT ![f] = "none"]
  /\ UNCHANGED <<req, shut, slots, waiters, healthy>>

\* TorBox withdraws the links of a file, wherever they are; a healthy TorBox leaves
\* links alone for hours.
LinksDie(f) ==
  LET Withdrawn(link) == IF link = "live" THEN "dead" ELSE link IN
  /\ ~healthy
  /\ url' = [url EXCEPT ![f] = Withdrawn(@)]
  /\ req' = [p \in Procs |-> IF req[p].file = f
                             THEN [req[p] EXCEPT !.link = Withdrawn(@)] ELSE req[p]]
  /\ UNCHANGED <<shut, slots, waiters, healthy>>

\* The entries that refuse the file are over (CdnGuard!GuardReopens).
GuardOpens(f) ==
  /\ shut' = [shut EXCEPT ![f] = FALSE]
  /\ UNCHANGED <<req, url, slots, waiters, healthy>>

Health ==
  /\ healthy' = ~healthy
  /\ UNCHANGED <<req, url, shut, slots, waiters>>

Direct(p) ==
  \/ \E ok \in BOOLEAN : Redirect(p, ok) \/ Lookup(p, ok)
  \/ Fetch(p) \/ RangeCheck(p)
  \/ GiveUp(p) \/ DeadLink(p) \/ Exhausted(p) \/ Transient(p) \/ Data(p)
  \/ Refetch(p)

Continue(p) ==
  \/ Direct(p)
  \/ \E ok \in BOOLEAN : CacheLink(p, ok) \/ Invalidate(p, ok)
  \/ Hang(p) \/ Poll(p) \/ PollAgain(p) \/ PollLeave(p) \/ HangAsk(p)
  \/ Acquire(p) \/ Release(p)
  \/ \E whole \in BOOLEAN : Copy(p, whole)

Next ==
  \/ \E p \in Procs, f \in Files, want \in Wants : Start(p, f, want)
  \/ \E p \in Procs : Continue(p) \/ Disconnect(p)
  \/ \E f \in Files : UrlExpires(f) \/ LinksDie(f) \/ GuardOpens(f)
  \/ Health

Spec == Init /\ [][Next]_vars

\* io.Copy writes to a client that is there.
Streaming(p) == At(p, "copy") /\ ~req[p].gone

\* Fetches return (CdnGuard!FetchEnds), a write to a client that has left fails, timers
\* fire, a select that keeps coming back with the client gone takes that branch, and a
\* shut guard reopens.  Clients need not leave, nor read what they are sent: the server
\* has no WriteTimeout (server.go:778).  Nothing forces TorBox to recover.
FairSpec ==
  /\ Spec
  /\ \A p \in Procs : WF_vars(~Streaming(p) /\ Continue(p)) /\ SF_vars(PollLeave(p))
  /\ \A f \in Files : WF_vars(GuardOpens(f))

-----------------------------------------------------------------------------
Links == {"none", "live", "dead"}
Points == {"idle", "redirect", "lookup", "fetch", "cache", "range", "ask", "refetch",
           "recache", "invalidate", "hang", "poll", "pause", "hangCache", "acquire",
           "parked", "hangAsk", "copy", "release"}

\* Types; the repair loop of streamFileContent stays within its attempts (get.go:157-159).
TypeOK ==
  /\ req \in [Procs ->
       [pc : Points, file : Files, want : {"full", "range", "bad"}, link : Links,
        attempt : 0..RepairRetries,
        resp : {"none", "data", "text", "gone", "busy", "other"},
        hung : BOOLEAN, gone : BOOLEAN,
        sent : {"none", "success", "redirect", "error"},
        body : {"none", "data", "part", "errorText"}]]
  /\ url \in [Files -> Links]
  /\ shut \in [Files -> BOOLEAN]
  /\ slots \in 0..MaxCDNConnections
  /\ waiters \in Seq(Procs)
  /\ healthy \in BOOLEAN

Holders == {p \in Procs : req[p].pc \in {"hangAsk", "copy", "release"}}
Parked == {p \in Procs : At(p, "parked")}

\* Every token is in the channel or with exactly one goroutine that will give it back,
\* on every path out of both handlers; a goroutine is parked, once, only while no token
\* is free (server.go:256-263, get.go:315-317, 658-659).
SlotsConserved ==
  /\ slots + Cardinality(Holders) = MaxCDNConnections
  /\ slots > 0 => waiters = <<>>
  /\ Len(waiters) = Cardinality(Parked)
  /\ \A p \in Parked : \E k \in DOMAIN waiters : waiters[k] = p

\* get.go:271-281: an error page is never streamed as file data.  On the direct path it
\* is not, whatever was repaired, invalidated or refetched before.
DirectBodyGenuine == \A p \in Procs : req[p].body = "errorText" => req[p].hung

\* The same promise for every body, whichever path streamed it.
BodyGenuine == \A p \in Procs : req[p].body # "errorText"

\* Once headers promise success, no path answers that request with another status
\* (get.go:303-311, 591-600 against the http.Error calls).
StatusSentOnce ==
  [][\A p \in Procs :
       req[p].sent # "none" /\ req'[p].sent # req[p].sent => At(p, "idle")]_vars

\* All slots are with clients that are there, reading or not.
SlotsStreaming == Cardinality({p \in Procs : Streaming(p)}) = MaxCDNConnections

\* A client that leaves is cleaned up whatever state TorBox and the CDN are in
\* (get.go:559, 638-645).  The only thing that can hold it is the wait for a slot, which
\* cannot be interrupted (server.go:257), once every slot streams to a client that stays
\* and never finishes reading.
LeaverReleased ==
  \A p \in Procs :
    req[p].gone ~> (At(p, "idle") \/ [](At(p, "parked") /\ SlotsStreaming))

\* Once TorBox has recovered for good, every request ends, also the hung ones, those
\* waiting for a slot and those with a dead link (get.go:159-334, 602-683), if every
\* client reads what it is sent or leaves.
RequestEnds ==
  <>[]healthy /\ (\A p \in Procs : []<>~Streaming(p)) =>
    \A p \in Procs : ~At(p, "idle") ~> At(p, "idle")
=============================================================================
