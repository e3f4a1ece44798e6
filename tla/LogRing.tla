------------------------------ MODULE LogRing -------------------------------
(***************************************************************************)
(* internal/server/logs.go ringBufferHandler: the last lines that were     *)
(* logged, for the page /logs.  Handle and Lines are locked sections.      *)
(***************************************************************************)
EXTENDS Integers, Sequences

CONSTANTS
  Capacity,    \* ringBufferCapacity
  Line,        \* the lines that are logged
  NoLine       \* the empty string of a slot never written

ASSUME RingAssumption == Capacity \in Nat \ {0}

VARIABLES
  buf,         \* the slots, from 0
  pos,         \* the slot the next line goes to
  full,        \* every slot has been written
  handled      \* the lines handled since the process began, oldest first (history)

ringVars == <<buf, pos, full, handled>>

RingInit ==
  /\ buf = [i \in 0..Capacity - 1 |-> NoLine]
  /\ pos = 0 /\ full = FALSE
  /\ handled = <<>>

\* Mutant: full says whether the last line went to the last slot.
HandleForgetsFull(line) ==
  /\ buf' = [buf EXCEPT ![pos] = line]
  /\ pos' = (pos + 1) % Capacity
  /\ full' = (pos' = 0)
  /\ handled' = Append(handled, line)

Handle(line) ==
  /\ buf' = [buf EXCEPT ![pos] = line]
  /\ pos' = (pos + 1) % Capacity
  /\ full' = (full \/ pos' = 0)
  /\ handled' = Append(handled, line)

AtMost(a, b) == IF a < b THEN a ELSE b

\* A request for no lines, or for more than there are slots, is one for all of them.
Wanted(n) == IF n <= 0 \/ n > Capacity THEN Capacity ELSE n
Lines(n) ==
  [i \in 1..AtMost(Wanted(n), IF full THEN Capacity ELSE pos) |->
     buf[(pos - i + Capacity) % Capacity]]

\* What Lines promises: the last lines, the newest first.
Newest(n) ==
  [i \in 1..AtMost(Wanted(n), Len(handled)) |-> handled[Len(handled) + 1 - i]]

\* The page shows the lines logged last, the newest first and none twice, before and after
\* the ring has wrapped (logs.go:90-98).
NewestFirst == \A n \in 0..Capacity + 1 : Lines(n) = Newest(n)

RingNext == \E line \in Line : Handle(line)
RingSpec == RingInit /\ [][RingNext]_ringVars
=============================================================================
