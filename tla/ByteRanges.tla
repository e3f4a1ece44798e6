----------------------------- MODULE ByteRanges ------------------------------
(***************************************************************************)
(* internal/server/get.go parseRange: the one Range header rclone and the  *)
(* players send, checked against the size of the file.  A header that is   *)
(* not of the form bytes=a-b, a- or -n is an error before any arithmetic   *)
(* and is left out.                                                        *)
(***************************************************************************)
EXTENDS Integers

\* The three forms: first and last byte, from a byte on, the last n bytes.  The number
\* of a suffix is not checked: it may be zero or, as in bytes=--5, negative.
FromTo(first, last) == [form |-> "from-to", first |-> first, last |-> last]
From(first) == [form |-> "from", first |-> first]
LastBytes(n) == [form |-> "suffix", n |-> n]

RangeHeaders ==
  [form : {"from-to"}, first : Nat, last : Nat] \cup [form : {"from"}, first : Nat]
    \cup [form : {"suffix"}, n : Int]

\* Mutant: the last N bytes start one byte too early.
SuffixStartEarly(n, size) == IF n >= size THEN 0 ELSE size - n - 1

\* fileSize minus the suffix, or 0 when the suffix is the whole file or more.
SuffixStart(n, size) == IF n >= size THEN 0 ELSE size - n

OutOfBounds(start, end, size) == start > end \/ start < 0 \/ end >= size

\* parseRange: only a range with a first byte is held against the bounds.
ParseRange(header, size) ==
  LET start == IF header.form = "suffix" THEN SuffixStart(header.n, size) ELSE header.first
      end == IF header.form = "from-to" THEN header.last ELSE size - 1
  IN IF header.form # "suffix" /\ OutOfBounds(start, end, size)
     THEN [ok |-> FALSE, start |-> 0, end |-> 0, length |-> 0]
     ELSE [ok |-> TRUE, start |-> start, end |-> end, length |-> end - start + 1]

-----------------------------------------------------------------------------
\* What the header asks of a file of this size, byte by byte.
Asked(header, size) ==
  {b \in 0..(size - 1) :
     CASE header.form = "from-to" -> header.first <= b /\ b <= header.last
       [] header.form = "from" -> header.first <= b
       [] header.form = "suffix" -> size - header.n <= b}

\* A range within the file, as clients send that know its size.
Within(header, size) ==
  CASE header.form = "from-to" -> header.first <= header.last /\ header.last < size
    [] header.form = "from" -> header.first < size
    [] header.form = "suffix" -> header.n > 0 /\ size > 0

\* The answer to a header is exactly what it asks for.
Exact(header, size, answer) ==
  /\ answer.ok
  /\ answer.start..answer.end = Asked(header, size)
  /\ answer.length = answer.end - answer.start + 1
  /\ answer.length > 0
=============================================================================
