----------------------------- MODULE RateLimiter -----------------------------
(***************************************************************************)
(* What the throttle queue promises its callers: requests are served one   *)
(* at a time, in the order they came, with at least Gap between the end of  *)
(* one and the beginning of the next, until the limiter is closed.         *)
(* The buffer, the parked senders and the timer are not visible here.      *)
(***************************************************************************)
EXTENDS Integers, Sequences

CONSTANTS Clients, Nobody, Gap, Horizon

VARIABLES
  arrived,    \* the clients in order of arrival
  begun,      \* how many of them have been served or are being served
  serving,    \* the client being served, or Nobody
  idle,       \* ticks since the last service ended, saturating at Horizon
  closing     \* no promise to serve anyone any more

vars == <<arrived, begun, serving, idle, closing>>

Init == arrived = <<>> /\ begun = 0 /\ serving = Nobody /\ idle = Horizon /\ closing = FALSE

Arrive(c) ==
  /\ \A i \in DOMAIN arrived : arrived[i] # c
  /\ arrived' = Append(arrived, c)
  /\ UNCHANGED <<begun, serving, idle, closing>>

Begin ==
  /\ serving = Nobody
  /\ begun < Len(arrived)
  /\ idle >= Gap
  /\ begun' = begun + 1
  /\ serving' = arrived[begun + 1]
  /\ UNCHANGED <<arrived, idle, closing>>

Finish ==
  /\ serving # Nobody
  /\ serving' = Nobody
  /\ idle' = 0
  /\ UNCHANGED <<arrived, begun, closing>>

Close == closing' = TRUE /\ UNCHANGED <<arrived, begun, serving, idle>>

Tick ==
  /\ idle' = IF idle < Horizon THEN idle + 1 ELSE idle
  /\ UNCHANGED <<arrived, begun, serving, closing>>

Next == (\E c \in Clients : Arrive(c)) \/ Begin \/ Finish \/ Close \/ Tick

\* Someone waiting is served in the end unless the limiter closes.
Spec ==
  /\ Init /\ [][Next]_vars
  /\ WF_vars(~closing /\ Begin)
  /\ WF_vars(Finish)
  /\ WF_vars(Tick)
=============================================================================
