------------------------- MODULE FileBrowser_proofs -------------------------
(***************************************************************************)
(* For any tree, any names, filters and rows, and whatever the sync does:  *)
(* parseRange gives a range within the file exactly what it asks for, and  *)
(* so a client that asked for the size first is answered; the handlers     *)
(* name the same children; a client that walks the tree finds every file   *)
(* that was there all along, and no file that its mount does not show.     *)
(* WalkInv is what makes the walk complete: such a file is found, or below *)
(* a directory that is still to be listed.                                 *)
(***************************************************************************)
EXTENDS FileBrowser, Selection_proofs

\* A range of three numbers: from the first of two bytes to the last.
LEMMA FromToExact ==
  ASSUME NEW size \in Nat, NEW first \in Nat, NEW last \in Nat, first <= last, last < size
  PROVE  Exact(FromTo(first, last), size, ParseRange(FromTo(first, last), size))
<1> DEFINE header == FromTo(first, last)
<1>1. ParseRange(header, size)
        = [ok |-> TRUE, start |-> first, end |-> last, length |-> last - first + 1]
  BY DEF ParseRange, FromTo, OutOfBounds
<1>2. first..last = Asked(header, size)
  BY DEF Asked, FromTo
<1> QED
  BY <1>1, <1>2 DEF Exact

\* An open range runs to the end of the file.
LEMMA FromExact ==
  ASSUME NEW size \in Nat, NEW first \in Nat, first < size
  PROVE  Exact(From(first), size, ParseRange(From(first), size))
<1>1. ParseRange(From(first), size)
        = [ok |-> TRUE, start |-> first, end |-> size - 1, length |-> size - 1 - first + 1]
  BY DEF ParseRange, From, OutOfBounds
<1>2. first..(size - 1) = Asked(From(first), size)
  BY DEF Asked, From
<1> QED
  BY <1>1, <1>2 DEF Exact

\* A suffix may be longer than the file.
LEMMA LastBytesExact ==
  ASSUME NEW size \in Nat, NEW n \in Int, n > 0, size > 0
  PROVE  Exact(LastBytes(n), size, ParseRange(LastBytes(n), size))
<1> DEFINE start == SuffixStart(n, size)
<1>1. start \in 0..(size - 1) /\ \A b \in 0..(size - 1) : start <= b <=> size - n <= b
  BY DEF SuffixStart
<1>2. ParseRange(LastBytes(n), size)
        = [ok |-> TRUE, start |-> start, end |-> size - 1, length |-> size - 1 - start + 1]
  BY DEF ParseRange, LastBytes
<1>3. start..(size - 1) = Asked(LastBytes(n), size)
  BY <1>1 DEF Asked, LastBytes
<1> HIDE DEF start
<1> QED
  BY <1>1, <1>2, <1>3 DEF Exact

\* parseRange, for every size and every header of the three forms.
THEOREM RangeExact ==
  ASSUME NEW size \in Nat, NEW header \in RangeHeaders, Within(header, size)
  PROVE  Exact(header, size, ParseRange(header, size))
<1>1. CASE header.form = "from-to"
  <2>1. header = FromTo(header.first, header.last) /\ header.first \in Nat /\ header.last \in Nat
    BY <1>1 DEF RangeHeaders, FromTo
  <2> QED
    BY <1>1, <2>1, FromToExact DEF Within
<1>2. CASE header.form = "from"
  <2>1. header = From(header.first) /\ header.first \in Nat
    BY <1>2 DEF RangeHeaders, From
  <2> QED
    BY <1>2, <2>1, FromExact DEF Within
<1>3. CASE header.form = "suffix"
  <2>1. header = LastBytes(header.n) /\ header.n \in Int
    BY <1>3 DEF RangeHeaders, LastBytes
  <2> QED
    BY <1>3, <2>1, LastBytesExact DEF Within
<1> QED
  BY <1>1, <1>2, <1>3 DEF RangeHeaders

\* Every row has a size.
Sized == \A p \in Paths : table[p] # NoRow => table[p].size \in Nat

\* An answer is for the row it was looked up with, after a HEAD that found one.
ReplyOK ==
  /\ Sized
  /\ reply # NoReply =>
       /\ reply.header \in RangeHeaders
       /\ reply.promised # NoRow
       /\ reply.row # NoRow => /\ reply.row.size \in Nat
                               /\ reply.answer = ParseRange(reply.header, reply.row.size)

\* The table has a row or none for each path.
TableOK == table \in [Paths -> Rows \cup {NoRow}]

\* A row that is found has a size.
LEMMA RowHasSize ==
  ASSUME ReplyOK, NEW url, RowOf(url) # NoRow
  PROVE  RowOf(url).size \in Nat
  BY DEF ReplyOK, RowOf, Sized

\* A sync that changes a row does not change what was already answered.
LEMMA EditKeepsReply ==
  ASSUME ReplyOK, TableOK,
         NEW p \in Paths, NEW row \in RowsAt[p] \cup {NoRow}, Edit(p, row)
  PROVE  ReplyOK'
<1>1. \A q \in Paths : table'[q] = IF q = p THEN row ELSE table[q]
  BY DEF Edit, TableOK
<1>2. row # NoRow => row.size \in Nat
  BY BrowserAssumption
<1> QED
  BY <1>1, <1>2 DEF Edit, ReplyOK, Sized

\* A GET answers from the row it finds.
LEMMA GetKeepsReply ==
  ASSUME ReplyOK, NEW header \in Headers, HandleGet(header)
  PROVE  ReplyOK'
<1> DEFINE row == RowOf(opened.url)
<1>1. /\ reply'.header = header /\ reply'.promised = opened.row /\ reply'.row = row
      /\ reply'.answer = IF row = NoRow THEN [ok |-> FALSE] ELSE ParseRange(header, row.size)
      /\ opened.row # NoRow
      /\ table' = table
  BY DEF HandleGet
<1>2. row # NoRow => row.size \in Nat
  BY RowHasSize
<1>3. header \in RangeHeaders
  BY BrowserAssumption
<1> HIDE DEF row
<1> QED
  BY <1>1, <1>2, <1>3 DEF ReplyOK, Sized

\* Every step leaves a row or none at each path.
LEMMA TableInductive == TableOK /\ [Next]_vars => TableOK'
<1> SUFFICES ASSUME TableOK, [Next]_vars PROVE TableOK'
  OBVIOUS
<1>1. ASSUME NEW p \in Paths, UpsertFile(p) \/ Prune(p) PROVE TableOK'
  <2>1. PICK row \in RowsAt[p] \cup {NoRow} : Edit(p, row)
    BY <1>1 DEF UpsertFile, Prune
  <2>2. row \in Rows \cup {NoRow}
    BY DEF Rows
  <2>3. table' = [table EXCEPT ![p] = row]
    BY <2>1 DEF Edit
  <2> QED
    BY <2>2, <2>3 DEF TableOK
<1>2. CASE UNCHANGED table
  BY <1>2 DEF TableOK
<1> QED
  BY <1>1, <1>2 DEF Next, List, HandleHead, HandleGet, vars

\* Every step keeps the answers within the files they are of.
LEMMA ReplyInductive == ReplyOK /\ TableOK /\ [Next]_vars => ReplyOK'
<1> SUFFICES ASSUME ReplyOK, TableOK, [Next]_vars PROVE ReplyOK'
  OBVIOUS
<1>1. ASSUME NEW url \in pending, List(url) PROVE ReplyOK'
  BY <1>1 DEF List, ReplyOK, Sized
<1>2. ASSUME NEW p \in Paths, UpsertFile(p) \/ Prune(p) PROVE ReplyOK'
  <2>1. PICK row \in RowsAt[p] \cup {NoRow} : Edit(p, row)
    BY <1>2 DEF UpsertFile, Prune
  <2> QED
    BY <2>1, EditKeepsReply
<1>3. ASSUME NEW url \in found, HandleHead(url) PROVE ReplyOK'
  BY <1>3 DEF HandleHead, ReplyOK, Sized
<1>4. ASSUME NEW header \in Headers, HandleGet(header) PROVE ReplyOK'
  BY <1>4, GetKeepsReply
<1>5. CASE UNCHANGED vars
  BY <1>5 DEF vars, ReplyOK, Sized
<1> QED
  BY <1>1, <1>2, <1>3, <1>4, <1>5 DEF Next

\* Reads are answered, for any tree, any edits and any ranges.
THEOREM ReadsCorrect == Spec => []ReadsAnswered
<1>1. Init => ReplyOK /\ TableOK
  BY BrowserAssumption DEF Init, ReplyOK, TableOK, Sized, Rows
<1>2. ReplyOK => ReadsAnswered
  BY RangeExact DEF ReplyOK, ReadsAnswered
<1> QED
  BY <1>1, <1>2, TableInductive, ReplyInductive, PTL DEF Spec

-----------------------------------------------------------------------------
\* Prefixes, entry by entry.
LEMMA PrefixIs ==
  ASSUME NEW S, NEW s \in Seq(S), NEW t \in Seq(S)
  PROVE  IsPrefix(s, t) <=> Len(s) <= Len(t) /\ \A i \in 1..Len(s) : s[i] = t[i]
<1>0. Len(s) \in Nat /\ Len(t) \in Nat
  OBVIOUS
<1>1. SubSeq(s, 1, Len(s)) = s
  BY SubSeqFull
<1> SUFFICES ASSUME Len(s) <= Len(t)
             PROVE  s = SubSeq(t, 1, Len(s)) <=> \A i \in 1..Len(s) : s[i] = t[i]
  BY <1>1 DEF IsPrefix
<1> DEFINE u == SubSeq(t, 1, Len(s))
<1>2. u \in Seq(S) /\ Len(u) = Len(s) /\ \A i \in 1..Len(s) : u[i] = t[i]
  <2>1. \A i \in 1..Len(s) : t[i] \in S
    BY <1>0
  <2>2. /\ u \in Seq(S) /\ Len(u) = (IF 1 <= Len(s) THEN Len(s) - 1 + 1 ELSE 0)
        /\ \A i \in 1..Len(s) - 1 + 1 : u[i] = t[1 + i - 1]
    BY <1>0, <2>1, SubSeqProperties
  <2> HIDE DEF u
  <2> QED
    BY <1>0, <2>2
<1> HIDE DEF u
<1>3. (\A i \in 1..Len(s) : s[i] = u[i]) => s = u
  BY <1>2, SeqEqual
<1> QED
  BY <1>2, <1>3 DEF u

\* What is left of a path beside its first n names.
LEMMA Cut ==
  ASSUME NEW S, NEW s \in Seq(S), NEW n \in 0..Len(s)
  PROVE  /\ SubSeq(s, 1, n) \in Seq(S) /\ Len(SubSeq(s, 1, n)) = n
         /\ \A i \in 1..n : SubSeq(s, 1, n)[i] = s[i]
         /\ SubSeq(s, n + 1, Len(s)) \in Seq(S)
         /\ Len(SubSeq(s, n + 1, Len(s))) = Len(s) - n
         /\ \A i \in 1..(Len(s) - n) : SubSeq(s, n + 1, Len(s))[i] = s[n + i]
<1>0. Len(s) \in Nat /\ n \in Nat /\ n <= Len(s) /\ \A i \in 1..Len(s) : s[i] \in S
  OBVIOUS
<1>1. /\ SubSeq(s, 1, n) \in Seq(S) /\ Len(SubSeq(s, 1, n)) = (IF 1 <= n THEN n - 1 + 1 ELSE 0)
      /\ \A i \in 1..n - 1 + 1 : SubSeq(s, 1, n)[i] = s[1 + i - 1]
  <2>1. \A i \in 1..n : s[i] \in S
    BY <1>0
  <2> QED
    BY <1>0, <2>1, SubSeqProperties
<1>2. /\ SubSeq(s, n + 1, Len(s)) \in Seq(S)
      /\ Len(SubSeq(s, n + 1, Len(s)))
           = (IF n + 1 <= Len(s) THEN Len(s) - (n + 1) + 1 ELSE 0)
      /\ \A i \in 1..Len(s) - (n + 1) + 1 : SubSeq(s, n + 1, Len(s))[i] = s[n + 1 + i - 1]
  <2>1. \A i \in n + 1..Len(s) : s[i] \in S
    BY <1>0
  <2>2. n + 1 \in Int /\ Len(s) \in Int
    BY <1>0
  <2> QED
    BY <2>1, <2>2, SubSeqProperties
<1> DEFINE up == SubSeq(s, 1, n)
           down == SubSeq(s, n + 1, Len(s))
<1> HIDE DEF up, down
<1>3. /\ up \in Seq(S) /\ Len(up) = (IF 1 <= n THEN n - 1 + 1 ELSE 0)
      /\ \A i \in 1..n - 1 + 1 : up[i] = s[1 + i - 1]
  BY <1>1 DEF up
<1>4. /\ down \in Seq(S)
      /\ Len(down) = (IF n + 1 <= Len(s) THEN Len(s) - (n + 1) + 1 ELSE 0)
      /\ \A i \in 1..Len(s) - (n + 1) + 1 : down[i] = s[n + 1 + i - 1]
  BY <1>2 DEF down
<1>5. /\ Len(up) = n /\ \A i \in 1..n : up[i] = s[i]
      /\ Len(down) = Len(s) - n /\ \A i \in 1..(Len(s) - n) : down[i] = s[n + i]
  BY <1>0, <1>3, <1>4
<1> QED
  BY <1>3, <1>4, <1>5 DEF up, down

\* A strict prefix is a shorter one.
LEMMA StrictShorter ==
  ASSUME NEW S, NEW s \in Seq(S), NEW t \in Seq(S)
  PROVE  IsStrictPrefix(s, t) <=> IsPrefix(s, t) /\ Len(s) < Len(t)
<1>1. Len(s) \in Nat /\ Len(t) \in Nat
  OBVIOUS
<1>2. IsPrefix(s, t) /\ s # t => Len(s) # Len(t)
  BY PrefixIs, SeqEqual
<1> QED
  BY <1>1, <1>2, PrefixIs DEF IsStrictPrefix

-----------------------------------------------------------------------------
\* Paths are sequences of segments, and finitely many.
LEMMA PathsTyped == Paths \subseteq Seq(Segments) /\ IsFiniteSet(Paths)
<1>1. PathOrder \in Seq(Seq(Segments)) /\ Len(PathOrder) \in Nat
  BY BrowserAssumption
<1>2. Paths \subseteq Seq(Segments)
  BY <1>1 DEF Paths, ToSet
<1>3. IsFiniteSet({PathOrder[i] : i \in 1..Len(PathOrder)})
  <2>1. IsFiniteSet(1..Len(PathOrder))
    BY <1>1, FS_Interval
  <2> DEFINE T == {PathOrder[i] : i \in 1..Len(PathOrder)}
  <2>2. PathOrder \in Surjection(1..Len(PathOrder), T)
    BY <1>1 DEF Surjection
  <2> QED
    BY <2>1, <2>2, FS_Surjection
<1> QED
  <2>1. DOMAIN PathOrder = 1..Len(PathOrder)
    BY <1>1
  <2> QED
    BY <1>2, <1>3, <2>1 DEF Paths, ToSet

\* The path a row has below a directory that it is in.
LEMMA RelBelow ==
  ASSUME NEW a \in Seq(Segments), NEW q \in Seq(Segments), IsPrefix(a, q)
  PROVE  RelPath(a, q) = SubSeq(q, Len(a) + 1, Len(q))
<1>0. Len(a) \in Nat /\ Len(q) \in Nat /\ Len(a) <= Len(q) /\ \A i \in 1..Len(a) : a[i] = q[i]
  BY PrefixIs
<1>1. CASE Len(a) = 0
  <2>1. SubSeq(q, 0 + 1, Len(q)) = q
    BY SubSeqFull
  <2> QED
    BY <1>1, <2>1 DEF RelPath
<1>2. CASE Len(a) > 0
  <2> DEFINE n == Len(a)
             s == SubSeq(q, 1, n - 1)
             t == SubSeq(a, 1, n - 1)
  <2>1. n - 1 \in 0..Len(q) /\ n - 1 \in 0..Len(a)
    <3>1. n \in Nat /\ n > 0 /\ n <= Len(q) /\ Len(q) \in Nat /\ n = Len(a)
      BY <1>0, <1>2
    <3> HIDE DEF n
    <3>2. n - 1 \in 0..Len(q) /\ n - 1 \in 0..n
      BY <3>1
    <3> QED
      BY <3>1, <3>2, Zenon
  <2>2. /\ s \in Seq(Segments) /\ Len(s) = n - 1 /\ \A i \in 1..(n - 1) : s[i] = q[i]
        /\ t \in Seq(Segments) /\ Len(t) = n - 1 /\ \A i \in 1..(n - 1) : t[i] = a[i]
    <3> DEFINE k == n - 1
    <3> HIDE DEF k
    <3>1. k \in 0..Len(q) /\ k \in 0..Len(a)
      BY <2>1 DEF k
    <3>2. /\ SubSeq(q, 1, k) \in Seq(Segments) /\ Len(SubSeq(q, 1, k)) = k
          /\ \A i \in 1..k : SubSeq(q, 1, k)[i] = q[i]
      BY <3>1, Cut
    <3>3. /\ SubSeq(a, 1, k) \in Seq(Segments) /\ Len(SubSeq(a, 1, k)) = k
          /\ \A i \in 1..k : SubSeq(a, 1, k)[i] = a[i]
      BY <3>1, Cut
    <3> QED
      BY <3>2, <3>3 DEF k
  <2>3. s = t
    <3> HIDE DEF s, t
    <3>1. \A i \in 1..Len(s) : s[i] = t[i]
      BY <1>0, <2>2
    <3> QED
      BY <2>2, <3>1, SeqEqual
  <2>4. q[n] = a[n]
    BY <1>0, <1>2
  <2> QED
    BY <1>0, <1>2, <2>3, <2>4 DEF RelPath
<1> QED
  BY <1>0, <1>1, <1>2

\* A row is in the listing of every directory that it is in, with and without the slash.
LEMMA PrefixMatches ==
  ASSUME NEW a \in Seq(Segments), NEW q \in Seq(Segments), IsPrefix(a, q)
  PROVE  Matches(a, FALSE, q) /\ (Len(a) < Len(q) => Matches(a, TRUE, q))
<1>1. Len(a) \in Nat /\ Len(q) \in Nat /\ Len(a) <= Len(q) /\ \A i \in 1..Len(a) : a[i] = q[i]
  BY PrefixIs
<1> QED
  BY <1>1 DEF Matches

\* What TrimPrefix leaves is a path.
LEMMA RelTyped ==
  ASSUME NEW a \in Seq(Segments), NEW q \in Seq(Segments)
  PROVE  RelPath(a, q) \in Seq(Segments)
<1> DEFINE n == Len(a)
           below == SubSeq(q, n + 1, Len(q))
<1>0. Len(a) \in Nat /\ Len(q) \in Nat
  OBVIOUS
<1>1. n <= Len(q) => below \in Seq(Segments)
  BY <1>0, Cut
<1>2. ASSUME NEW pair \in DOMAIN Rest, n <= Len(q) PROVE <<Rest[pair]>> \o below \in Seq(Segments)
  <2>1. Rest[pair] \in Segments
    BY DEF Segments
  <2>2. <<Rest[pair]>> \in Seq(Segments)
    BY <2>1
  <2> HIDE DEF below
  <2> QED
    BY <1>1, <1>2, <2>2, ConcatProperties
<1> HIDE DEF below, n
<1>3. \/ RelPath(a, q) = q
      \/ n <= Len(q) /\ RelPath(a, q) = below
      \/ n <= Len(q) /\ \E pair \in DOMAIN Rest : RelPath(a, q) = <<Rest[pair]>> \o below
  BY DEF RelPath, n, below
<1> QED
  BY <1>1, <1>2, <1>3

\* The order of the listings is an order: no two paths are at one place.
LEMMA IndexTyped ==
  ASSUME NEW p \in Paths
  PROVE  IndexOf(p) \in Nat /\ PathOrder[IndexOf(p)] = p
<1>1. PathOrder \in Seq(Seq(Segments)) /\ \E i \in DOMAIN PathOrder : PathOrder[i] = p
  BY BrowserAssumption DEF Paths, ToSet
<1>2. IndexOf(p) \in DOMAIN PathOrder /\ PathOrder[IndexOf(p)] = p
  BY <1>1 DEF IndexOf
<1> QED
  BY <1>1, <1>2

\* ListDir answers the rows that match.
LEMMA ListDirSet ==
  ASSUME NEW a, NEW slash
  PROVE  /\ ListDir(a, slash) \in Seq(Stored)
         /\ ToSet(ListDir(a, slash)) = {p \in Stored : Matches(a, slash, p)}
<1> DEFINE S == {p \in Stored : Matches(a, slash, p)}
<1>1. PathOrder \in Seq(Paths)
  <2>1. PathOrder \in Seq(Seq(Segments))
    BY BrowserAssumption
  <2>2. PathOrder \in Seq(Range(PathOrder))
    BY <2>1, SeqOfRange
  <2> QED
    BY <2>2 DEF Range, Paths, ToSet
<1>2. S \subseteq Stored /\ Stored \subseteq Paths
  BY DEF Stored
<1> HIDE DEF S
<1>3. /\ Select(PathOrder, S) \in Seq(Paths \cap S)
      /\ {Select(PathOrder, S)[k] : k \in DOMAIN Select(PathOrder, S)}
           = {PathOrder[k] : k \in DOMAIN PathOrder} \cap S
  BY <1>1, SelectEntries
<1>4. {PathOrder[k] : k \in DOMAIN PathOrder} = Paths
  BY DEF Paths, ToSet
<1>5. Paths \cap S = S
  BY <1>2
<1>6. Select(PathOrder, S) \in Seq(Stored) /\ ToSet(Select(PathOrder, S)) = S
  <2>1. Select(PathOrder, S) \in Seq(S)
    BY <1>3, <1>5
  <2>2. Select(PathOrder, S) \in Seq(Stored)
    BY <1>2, <2>1, SeqMonotonic
  <2> QED
    BY <1>3, <1>4, <1>5, <2>2 DEF ToSet
<1> QED
  BY <1>6 DEF ListDir, S

\* Of the files of one item, one is the largest, or the first of several as large.
LEMMA LargestExists ==
  ASSUME Sized, NEW files \in SUBSET Stored, NEW p \in files
  PROVE  /\ LargestOf(files, p) \in files /\ SameItem(p, LargestOf(files, p))
         /\ \A r \in files : SameItem(p, r) =>
              \/ table[LargestOf(files, p)].size > table[r].size
              \/ /\ table[LargestOf(files, p)].size = table[r].size
                 /\ ~Before(r, LargestOf(files, p))
<1> DEFINE T == {q \in files : SameItem(p, q)}
           R == {pair \in T \X T :
                   \/ table[pair[1]].size > table[pair[2]].size
                   \/ table[pair[1]].size = table[pair[2]].size /\ Before(pair[1], pair[2])}
<1>1. \A q \in T : table[q].size \in Nat /\ q \in Paths /\ IndexOf(q) \in Nat
  BY IndexTyped DEF Sized, Stored
<1>2. IsFiniteSet(T) /\ T # {}
  <2>1. T \subseteq Paths /\ p \in T
    BY DEF Stored, SameItem
  <2> QED
    BY <2>1, PathsTyped, FS_Subset
<1>3. \A x \in T : <<x, x>> \notin R
  BY <1>1 DEF Before
<1>4. \A x, y, z \in T : <<x, y>> \in R /\ <<y, z>> \in R => <<x, z>> \in R
  <2> SUFFICES ASSUME NEW x \in T, NEW y \in T, NEW z \in T, <<x, y>> \in R, <<y, z>> \in R
               PROVE  <<x, z>> \in R
    OBVIOUS
  <2> DEFINE sx == table[x].size
             sy == table[y].size
             sz == table[z].size
  <2>1. /\ sx \in Nat /\ sy \in Nat /\ sz \in Nat
        /\ IndexOf(x) \in Nat /\ IndexOf(y) \in Nat /\ IndexOf(z) \in Nat
    BY <1>1
  <2>2. /\ sx > sy \/ (sx = sy /\ IndexOf(x) < IndexOf(y))
        /\ sy > sz \/ (sy = sz /\ IndexOf(y) < IndexOf(z))
    BY DEF Before
  <2>3. (sx > sz \/ (sx = sz /\ IndexOf(x) < IndexOf(z))) => <<x, z>> \in R
    BY DEF Before
  <2> HIDE DEF sx, sy, sz, R
  <2> QED
    BY <2>1, <2>2, <2>3
<1> HIDE DEF R, T
<1>5. PICK x \in T : \A y \in T : <<y, x>> \notin R
  BY <1>2, <1>3, <1>4, Unbeaten
<1>6. ASSUME NEW r \in files, SameItem(p, r)
      PROVE  \/ table[x].size > table[r].size
             \/ table[x].size = table[r].size /\ ~Before(r, x)
  <2> DEFINE sx == table[x].size
             sr == table[r].size
  <2>1. r \in T /\ x \in T
    BY <1>6 DEF T
  <2>2. ~(sr > sx) /\ ~(sr = sx /\ Before(r, x))
    BY <1>5, <2>1 DEF R
  <2>3. sx \in Nat /\ sr \in Nat
    BY <1>1, <2>1
  <2> HIDE DEF sx, sr
  <2>4. sx > sr \/ (sx = sr /\ ~Before(r, x))
    BY <2>2, <2>3
  <2> QED
    BY <2>4 DEF sx, sr
<1>7. x \in files /\ SameItem(p, x)
  BY DEF T
<1> DEFINE Best(q) == /\ SameItem(p, q)
                      /\ \A r \in files : SameItem(p, r) =>
                           \/ table[q].size > table[r].size
                           \/ table[q].size = table[r].size /\ ~Before(r, q)
<1>8. LargestOf(files, p) = CHOOSE q \in files : Best(q)
  BY Zenon DEF LargestOf
<1>9. Best(x)
  BY <1>6, <1>7, Zenon
<1>10. Best(CHOOSE q \in files : Best(q)) /\ (CHOOSE q \in files : Best(q)) \in files
  <2> HIDE DEF Best
  <2> QED
    BY <1>7, <1>9, Zenon
<1> QED
  BY <1>8, <1>10, Zenon

\* Two files of one item that are both the largest are the same.
LEMMA LargestUnique ==
  ASSUME Sized, NEW x \in Stored, NEW y \in Stored,
         table[x].size > table[y].size \/ (table[x].size = table[y].size /\ ~Before(y, x)),
         table[y].size > table[x].size \/ (table[y].size = table[x].size /\ ~Before(x, y))
  PROVE  x = y
<1> DEFINE sx == table[x].size
           sy == table[y].size
<1>1. sx \in Nat /\ sy \in Nat /\ IndexOf(x) \in Nat /\ IndexOf(y) \in Nat
  BY IndexTyped DEF Sized, Stored
<1>2. /\ sx > sy \/ (sx = sy /\ ~(IndexOf(y) < IndexOf(x)))
      /\ sy > sx \/ (sy = sx /\ ~(IndexOf(x) < IndexOf(y)))
  BY DEF Before
<1> HIDE DEF sx, sy
<1>3. IndexOf(x) = IndexOf(y)
  BY <1>1, <1>2
<1> QED
  BY <1>3, IndexTyped DEF Stored

\* Of the files of one item, one comes first.
LEMMA FirstExists ==
  ASSUME NEW files \in SUBSET Stored, NEW p \in files
  PROVE  \E f \in files : SameItem(p, f) /\ \A q \in files : SameItem(f, q) => ~Before(q, f)
<1> DEFINE T == {q \in files : SameItem(p, q)}
           I == {IndexOf(q) : q \in T}
<1>1. \A q \in T : q \in Paths /\ IndexOf(q) \in Nat
  BY IndexTyped DEF Stored
<1>2. I \in SUBSET Nat /\ I # {}
  BY <1>1 DEF SameItem
<1> HIDE DEF I
<1>3. PICK i \in I : \A j \in I : i <= j
  BY <1>2, LeastNumber
<1>4. PICK f \in T : IndexOf(f) = i
  BY DEF I
<1>5. ASSUME NEW q \in files, SameItem(f, q) PROVE ~Before(q, f)
  <2>1. SameItem(p, f) /\ f \in files
    OBVIOUS
  <2>2. q \in T
    BY <1>5, <2>1 DEF SameItem
  <2>3. IndexOf(q) \in I
    BY <2>2 DEF I
  <2>4. IndexOf(f) <= IndexOf(q) /\ IndexOf(q) \in Nat /\ IndexOf(f) \in Nat
    BY <1>1, <1>3, <1>4, <2>2, <2>3
  <2> QED
    BY <2>4 DEF Before
<1> QED
  BY <1>5

\* KeepLargest keeps, of each item, the file that is the largest.
LEMMA KeepLargestSet ==
  ASSUME Sized, NEW records \in Seq(Stored)
  PROVE  /\ KeepLargest(records) \in Seq(Stored)
         /\ \A p \in ToSet(KeepLargest(records)) :
              /\ p \in ToSet(records)
              /\ \A r \in ToSet(records) : SameItem(p, r) => table[r].size <= table[p].size
         /\ \A p \in ToSet(records) :
              (\A r \in ToSet(records) : SameItem(p, r) =>
                 \/ table[r].size < table[p].size
                 \/ table[r].size = table[p].size /\ ~Before(r, p))
              => p \in ToSet(KeepLargest(records))
<1> DEFINE files == ToSet(records)
           leading == {p \in files : \A q \in files : SameItem(p, q) => ~Before(q, p)}
           firsts == Select(records, leading)
<1>1. files \in SUBSET Stored /\ files = {records[k] : k \in DOMAIN records}
  BY DEF ToSet
<1> HIDE DEF files
<1>2. firsts \in Seq(leading) /\ {firsts[k] : k \in DOMAIN firsts} = leading
  <2>1. leading \subseteq files
    OBVIOUS
  <2> HIDE DEF leading
  <2>2. /\ firsts \in Seq(Stored \cap leading)
        /\ {firsts[k] : k \in DOMAIN firsts} = {records[k] : k \in DOMAIN records} \cap leading
    BY SelectEntries
  <2>3. Stored \cap leading = leading /\ files \cap leading = leading
    BY <1>1, <2>1
  <2> QED
    BY <1>1, <2>2, <2>3
<1>3. KeepLargest(records) = [i \in DOMAIN firsts |-> LargestOf(files, firsts[i])]
  BY DEF KeepLargest, files
<1> HIDE DEF firsts
<1> DEFINE kept == KeepLargest(records)
<1>4. /\ Len(firsts) \in Nat /\ DOMAIN firsts = 1..Len(firsts)
      /\ \A i \in 1..Len(firsts) : firsts[i] \in files
  BY <1>2
<1>5. /\ DOMAIN kept = 1..Len(firsts) /\ kept = [i \in 1..Len(firsts) |-> kept[i]]
      /\ \A i \in 1..Len(firsts) : kept[i] = LargestOf(files, firsts[i])
  BY <1>3, <1>4
<1> HIDE DEF kept, leading
<1>6. \A i \in 1..Len(firsts) :
        /\ kept[i] \in files /\ SameItem(firsts[i], kept[i])
        /\ \A r \in files : SameItem(firsts[i], r) =>
             \/ table[kept[i]].size > table[r].size
             \/ table[kept[i]].size = table[r].size /\ ~Before(r, kept[i])
  <2> SUFFICES ASSUME NEW i \in 1..Len(firsts)
               PROVE  /\ kept[i] \in files /\ SameItem(firsts[i], kept[i])
                      /\ \A r \in files : SameItem(firsts[i], r) =>
                           \/ table[kept[i]].size > table[r].size
                           \/ table[kept[i]].size = table[r].size /\ ~Before(r, kept[i])
    BY Zenon
  <2>1. firsts[i] \in files /\ kept[i] = LargestOf(files, firsts[i])
    BY <1>4, <1>5
  <2>2. /\ LargestOf(files, firsts[i]) \in files
        /\ SameItem(firsts[i], LargestOf(files, firsts[i]))
        /\ \A r \in files : SameItem(firsts[i], r) =>
             \/ table[LargestOf(files, firsts[i])].size > table[r].size
             \/ /\ table[LargestOf(files, firsts[i])].size = table[r].size
                /\ ~Before(r, LargestOf(files, firsts[i]))
    BY <1>1, <2>1, LargestExists
  <2> QED
    BY <2>1, <2>2, Zenon
<1>7. kept \in Seq(Stored)
  <2>1. kept \in [1..Len(firsts) -> Stored]
    BY <1>1, <1>5, <1>6
  <2> QED
    BY <1>4, <2>1
<1>8. ASSUME NEW p \in ToSet(kept), NEW r \in files, SameItem(p, r)
      PROVE  table[r].size <= table[p].size
  <2>1. PICK i \in 1..Len(firsts) : p = kept[i]
    BY <1>5 DEF ToSet
  <2>2. SameItem(firsts[i], r)
    BY <1>6, <1>8, <2>1 DEF SameItem
  <2>3. table[p].size > table[r].size \/ table[p].size = table[r].size
    BY <1>6, <2>1, <2>2
  <2>4. table[p].size \in Nat /\ table[r].size \in Nat
    BY <1>1, <1>6, <2>1 DEF Sized, Stored
  <2> DEFINE sp == table[p].size
             sr == table[r].size
  <2> HIDE DEF sp, sr
  <2>5. (sp > sr \/ sp = sr) /\ sp \in Nat /\ sr \in Nat => sr <= sp
    OBVIOUS
  <2> QED
    BY <2>3, <2>4, <2>5 DEF sp, sr
<1>9. ASSUME NEW p \in files,
             \A r \in files : SameItem(p, r) =>
               \/ table[r].size < table[p].size
               \/ table[r].size = table[p].size /\ ~Before(r, p)
      PROVE  p \in ToSet(kept)
  <2>1. PICK f \in files : SameItem(p, f) /\ \A q \in files : SameItem(f, q) => ~Before(q, f)
    BY <1>1, FirstExists
  <2>2. f \in leading
    BY <2>1 DEF leading
  <2>3. PICK i \in 1..Len(firsts) : firsts[i] = f
    BY <1>2, <1>4, <2>2
  <2>4. /\ kept[i] \in files /\ SameItem(f, kept[i]) /\ SameItem(f, p) /\ SameItem(p, kept[i])
        /\ table[kept[i]].size > table[p].size
           \/ (table[kept[i]].size = table[p].size /\ ~Before(p, kept[i]))
    <3>1. kept[i] \in files /\ SameItem(f, kept[i]) /\ SameItem(f, p)
      BY <1>6, <2>1, <2>3 DEF SameItem
    <3>2. SameItem(p, kept[i])
      BY <2>1, <3>1 DEF SameItem
    <3> QED
      BY <1>6, <2>3, <3>1, <3>2
  <2>5. table[kept[i]].size < table[p].size
           \/ (table[kept[i]].size = table[p].size /\ ~Before(kept[i], p))
    BY <1>9, <2>4
  <2>6. table[p].size > table[kept[i]].size
           \/ (table[p].size = table[kept[i]].size /\ ~Before(kept[i], p))
    <3>1. table[p].size \in Nat /\ table[kept[i]].size \in Nat
      BY <1>1, <2>4 DEF Sized, Stored
    <3> DEFINE sp == table[p].size
               sk == table[kept[i]].size
    <3> HIDE DEF sp, sk
    <3>2. sp \in Nat /\ sk \in Nat /\ sk < sp => sp > sk
      OBVIOUS
    <3> QED
      BY <2>5, <3>1, <3>2 DEF sp, sk
  <2>7. p = kept[i]
    BY <1>1, <2>4, <2>6, LargestUnique
  <2> QED
    BY <1>5, <2>7 DEF ToSet
<1> QED
  <2>1. \A p \in ToSet(kept) : p \in files
    BY <1>5, <1>6 DEF ToSet
  <2> QED
    BY <1>7, <1>8, <1>9, <2>1 DEF kept, files

\* A mount.
LEMMA ApplySet ==
  ASSUME Sized, NEW m, NEW records \in Seq(Stored)
  PROVE  /\ Apply(m, records) \in Seq(Stored)
         /\ \A p \in ToSet(Apply(m, records)) :
              /\ p \in ToSet(records) /\ Accepts(m, p)
              /\ LargestFileOnly[m] =>
                   \A r \in ToSet(records) :
                     Accepts(m, r) /\ SameItem(p, r) => table[r].size <= table[p].size
         /\ \A p \in ToSet(records) : Shows(m, p) => p \in ToSet(Apply(m, records))
<1> DEFINE S == {p \in Paths : Accepts(m, p)}
           accepted == Select(records, S)
<1>0. ToSet(records) \subseteq Stored /\ Stored \subseteq Paths
  BY DEF ToSet, Stored
<1>1. Apply(m, records) = IF LargestFileOnly[m] THEN KeepLargest(accepted) ELSE accepted
  BY DEF Apply
<1> HIDE DEF S
<1>2. /\ accepted \in Seq(Stored \cap S)
      /\ {accepted[k] : k \in DOMAIN accepted} = {records[k] : k \in DOMAIN records} \cap S
  BY SelectEntries
<1>3. accepted \in Seq(Stored) /\ ToSet(accepted) = ToSet(records) \cap S
  <2>1. Stored \cap S \subseteq Stored
    OBVIOUS
  <2>2. accepted \in Seq(Stored)
    BY <1>2, <2>1, SeqMonotonic, Zenon
  <2> QED
    BY <1>2, <2>2 DEF ToSet
<1>4. \A p \in ToSet(accepted) : p \in ToSet(records) /\ Accepts(m, p)
  BY <1>3 DEF S
<1>5. \A p \in ToSet(records) : Accepts(m, p) => p \in ToSet(accepted)
  BY <1>0, <1>3 DEF S
<1> HIDE DEF accepted
<1>6. CASE ~LargestFileOnly[m]
  <2>1. Apply(m, records) = accepted
    BY <1>1, <1>6
  <2> QED
    BY <1>3, <1>4, <1>5, <1>6, <2>1 DEF Shows
<1>7. CASE LargestFileOnly[m]
  <2>1. Apply(m, records) = KeepLargest(accepted)
    BY <1>1, <1>7
  <2>2. /\ KeepLargest(accepted) \in Seq(Stored)
        /\ \A p \in ToSet(KeepLargest(accepted)) :
             /\ p \in ToSet(accepted)
             /\ \A r \in ToSet(accepted) : SameItem(p, r) => table[r].size <= table[p].size
        /\ \A p \in ToSet(accepted) :
             (\A r \in ToSet(accepted) : SameItem(p, r) =>
                \/ table[r].size < table[p].size
                \/ table[r].size = table[p].size /\ ~Before(r, p))
             => p \in ToSet(KeepLargest(accepted))
    BY <1>3, KeepLargestSet
  <2>3. ASSUME NEW p \in ToSet(records), Shows(m, p) PROVE p \in ToSet(KeepLargest(accepted))
    <3>1. p \in ToSet(accepted)
      BY <1>5, <2>3 DEF Shows
    <3>2. \A r \in ToSet(accepted) : r \in Stored /\ Accepts(m, r)
      BY <1>0, <1>4
    <3>3. \A r \in ToSet(accepted) : SameItem(p, r) =>
            \/ table[r].size < table[p].size
            \/ table[r].size = table[p].size /\ ~Before(r, p)
      BY <1>7, <2>3, <3>2 DEF Shows
    <3> QED
      BY <2>2, <3>1, <3>3
  <2> QED
    BY <1>4, <1>5, <1>7, <2>1, <2>2, <2>3
<1> QED
  BY <1>6, <1>7

\* What a listing is made of: rows that match, and with a mount, ones it accepts.
LEMMA VisibleSet ==
  ASSUME Sized, NEW at, NEW slash
  PROVE  /\ Visible(at, slash) \in Seq(Stored)
         /\ \A p \in ToSet(Visible(at, slash)) :
              /\ p \in Stored /\ Matches(at.prefix, slash, p)
              /\ at.filter # All =>
                   /\ Accepts(at.filter, p)
                   /\ LargestFileOnly[at.filter] =>
                        \A r \in Stored :
                          Matches(at.prefix, slash, r) /\ Accepts(at.filter, r) /\ SameItem(p, r)
                            => table[r].size <= table[p].size
         /\ \A p \in Stored :
              Matches(at.prefix, slash, p) /\ (at.filter # All => Shows(at.filter, p))
                => p \in ToSet(Visible(at, slash))
<1> DEFINE records == ListDir(at.prefix, slash)
           m == at.filter
<1>1. records \in Seq(Stored) /\ ToSet(records) = {p \in Stored : Matches(at.prefix, slash, p)}
  BY ListDirSet
<1>2. Visible(at, slash) = IF m = All THEN records ELSE Apply(m, records)
  BY DEF Visible
<1> HIDE DEF records, m
<1>3. CASE m = All
  BY <1>1, <1>2, <1>3 DEF m
<1>4. CASE m # All
  <2>1. /\ Apply(m, records) \in Seq(Stored)
        /\ \A p \in ToSet(Apply(m, records)) :
             /\ p \in ToSet(records) /\ Accepts(m, p)
             /\ LargestFileOnly[m] =>
                  \A r \in ToSet(records) :
                    Accepts(m, r) /\ SameItem(p, r) => table[r].size <= table[p].size
        /\ \A p \in ToSet(records) : Shows(m, p) => p \in ToSet(Apply(m, records))
    BY <1>1, ApplySet
  <2>2. Visible(at, slash) = Apply(m, records)
    BY <1>2, <1>4
  <2>3. \A r \in Stored : Matches(at.prefix, slash, r) => r \in ToSet(records)
    BY <1>1
  <2>4. \A r \in ToSet(records) : r \in Stored /\ Matches(at.prefix, slash, r)
    BY <1>1
  <2> QED
    BY <1>4, <2>1, <2>2, <2>3, <2>4 DEF m
<1> QED
  BY <1>3, <1>4

-----------------------------------------------------------------------------
\* The entry that a row makes in the map of immediate children.
Child(url, a, p) ==
  Entry(RelPath(a, p)[1], IF Len(RelPath(a, p)) > 1 THEN "dir" ELSE "file",
        Append(url, RelPath(a, p)[1]))

\* Every child is some row's, and every row's name is some child's.
LEMMA ImmediateSet ==
  ASSUME NEW url, NEW a, NEW records \in Seq(Stored)
  PROVE  /\ \A e \in Immediate(url, a, records) : \E p \in ToSet(records) :
              RelPath(a, p) # <<>> /\ e = Child(url, a, p)
         /\ \A p \in ToSet(records) : RelPath(a, p) # <<>> =>
              \E q \in ToSet(records) :
                /\ RelPath(a, q) # <<>> /\ RelPath(a, q)[1] = RelPath(a, p)[1]
                /\ Child(url, a, q) \in Immediate(url, a, records)
<1> DEFINE rel == [i \in DOMAIN records |-> RelPath(a, records[i])]
           Leads(i) == rel[i] # <<>> /\ \A j \in 1..(i - 1) : rel[j] # <<>> => rel[j][1] # rel[i][1]
           E(i) == Entry(rel[i][1], IF Len(rel[i]) > 1 THEN "dir" ELSE "file", Append(url, rel[i][1]))
<1>1. Immediate(url, a, records) = {E(i) : i \in {i \in DOMAIN records : Leads(i)}}
  BY DEF Immediate
<1>2. \A i \in DOMAIN records : /\ rel[i] = RelPath(a, records[i]) /\ records[i] \in ToSet(records)
                                /\ E(i) = Child(url, a, records[i])
  BY DEF ToSet, Child
<1>3. Len(records) \in Nat /\ DOMAIN records = 1..Len(records)
  OBVIOUS
<1> HIDE DEF rel, E
<1>4. ASSUME NEW e \in Immediate(url, a, records)
      PROVE  \E p \in ToSet(records) : RelPath(a, p) # <<>> /\ e = Child(url, a, p)
  <2>1. PICK i \in DOMAIN records : Leads(i) /\ e = E(i)
    BY <1>1, <1>4
  <2> QED
    BY <1>2, <2>1
<1>5. ASSUME NEW p \in ToSet(records), RelPath(a, p) # <<>>
      PROVE  \E q \in ToSet(records) :
               /\ RelPath(a, q) # <<>> /\ RelPath(a, q)[1] = RelPath(a, p)[1]
               /\ Child(url, a, q) \in Immediate(url, a, records)
  <2> DEFINE T == {i \in DOMAIN records : rel[i] # <<>> /\ rel[i][1] = RelPath(a, p)[1]}
  <2>1. T \in SUBSET Nat /\ T # {}
    <3>1. PICK i \in DOMAIN records : records[i] = p
      BY DEF ToSet
    <3>2. i \in T
      BY <1>2, <1>5, <3>1
    <3> QED
      BY <1>3, <3>2
  <2> HIDE DEF T
  <2>2. PICK i \in T : \A j \in T : i <= j
    BY <2>1, LeastNumber
  <2>3. i \in DOMAIN records /\ rel[i] # <<>> /\ rel[i][1] = RelPath(a, p)[1]
    BY DEF T
  <2>4. Leads(i)
    <3> SUFFICES ASSUME NEW j \in 1..(i - 1), rel[j] # <<>>, rel[j][1] = rel[i][1] PROVE FALSE
      BY <2>3
    <3>1. j \in DOMAIN records /\ j < i
      BY <1>3, <2>3
    <3>2. j \in T
      BY <2>3, <3>1 DEF T
    <3> QED
      BY <1>3, <2>2, <2>3, <3>1, <3>2
  <2>5. E(i) \in Immediate(url, a, records)
    BY <1>1, <2>3, <2>4
  <2> QED
    BY <1>2, <2>3, <2>5
<1> QED
  BY <1>4, <1>5

\* The parts of a URL.
LEMMA ResolveTyped ==
  ASSUME NEW url \in Seq(Segments)
  PROVE  /\ Resolve(url).prefix \in Seq(Segments)
         /\ Resolve(url).mounted \in BOOLEAN
         /\ Resolve(url).mounted =>
              /\ url # <<>> /\ Head(url) \in Mounts \cup {All}
              /\ Resolve(url).filter = Head(url) /\ Resolve(url).prefix = Tail(url)
         /\ ~Resolve(url).mounted =>
              /\ url # <<>> => Head(url) \notin Mounts \cup {All}
              /\ Resolve(url).filter = All /\ Resolve(url).prefix = url
<1>1. CASE url # <<>> /\ Head(url) \in Mounts \cup {All}
  <2>1. Resolve(url) = [mounted |-> TRUE, filter |-> Head(url), prefix |-> Tail(url)]
    BY <1>1 DEF Resolve
  <2>2. Tail(url) \in Seq(Segments)
    BY <1>1
  <2> QED
    BY <1>1, <2>1, <2>2
<1>2. CASE ~(url # <<>> /\ Head(url) \in Mounts \cup {All})
  <2>1. Resolve(url) = [mounted |-> FALSE, filter |-> All, prefix |-> url]
    BY <1>2 DEF Resolve
  <2> QED
    BY <1>2, <2>1
<1> QED
  BY <1>1, <1>2

\* Only the root is no mount and has no path below it.
LEMMA RootOnly ==
  ASSUME NEW url \in Seq(Segments)
  PROVE  (Resolve(url).prefix = <<>> /\ ~Resolve(url).mounted) <=> url = <<>>
<1>1. Resolve(<<>>) = [mounted |-> FALSE, filter |-> All, prefix |-> <<>>]
  BY DEF Resolve
<1> QED
  BY <1>1, ResolveTyped

\* The children that the pages show: the same names, but directories and files apart.
LEMMA HttpSet ==
  ASSUME Sized, NEW url \in Seq(Segments), url # <<>>, Resolve(url).prefix \notin Stored
  PROVE  \A e : e \in HttpEntries(url) <=>
           \E p \in ToSet(Visible(Resolve(url), FALSE)) :
             LET rel == RelPath(Resolve(url).prefix, p) IN
             \/ Len(rel) > 1 /\ e = Entry(rel[1], "dir", Append(url, rel[1]))
             \/ Len(rel) = 1 /\ e = Entry(rel[1], "file",
                  (IF Resolve(url).mounted THEN <<Resolve(url).filter>> ELSE <<>>) \o p)
  BY DEF HttpEntries

\* Leaving the hrefs out loses no name.
LEMMA NamesOf ==
  ASSUME NEW entries
  PROVE  \A x : x \in {e.name : e \in Named(entries)} <=> \E h \in entries : h.name = x
<1> DEFINE N(h) == [name |-> h.name, kind |-> h.kind]
<1>1. ASSUME NEW h \in entries PROVE h.name \in {e.name : e \in Named(entries)}
  <2>1. N(h) \in Named(entries) /\ N(h).name = h.name
    BY DEF Named
  <2> QED
    BY <2>1
<1>2. ASSUME NEW e \in Named(entries) PROVE \E h \in entries : h.name = e.name
  <2>1. PICK h \in entries : e = N(h)
    BY DEF Named
  <2> QED
    BY <2>1
<1> HIDE DEF Named
<1> QED
  BY <1>1, <1>2

\* PROPFIND and the pages name the same children.
LEMMA PagesAgree ==
  ASSUME Sized, NEW url \in Seq(Segments), Resolve(url).prefix \notin Stored
  PROVE  /\ Named(PropfindEntries(url)) \subseteq Named(HttpEntries(url))
         /\ {e.name : e \in Named(HttpEntries(url))} = {e.name : e \in Named(PropfindEntries(url))}
<1> DEFINE at == Resolve(url)
           a == at.prefix
           records == Visible(at, FALSE)
           prop == PropfindEntries(url)
           http == HttpEntries(url)
<1>1. CASE url = <<>>
  <2>1. prop = MountEntries /\ http = MountEntries
    BY <1>1, RootOnly DEF PropfindEntries, HttpEntries
  <2> QED
    BY <2>1
<1>2. CASE url # <<>>
  <2>1. prop = Immediate(url, a, records)
    BY <1>2, RootOnly DEF PropfindEntries
  <2>2. records \in Seq(Stored) /\ ToSet(records) \subseteq Seq(Segments) /\ a \in Seq(Segments)
    <3>1. records \in Seq(Stored)
      BY VisibleSet
    <3>2. ToSet(records) \subseteq Stored /\ Stored \subseteq Seq(Segments)
      <4>1. Stored \subseteq Seq(Segments)
        BY PathsTyped DEF Stored
      <4>2. ToSet(records) \subseteq Stored
        <5> HIDE DEF records
        <5> QED
          BY <3>1 DEF ToSet
      <4> QED
        BY <4>1, <4>2
    <3>3. a \in Seq(Segments)
      BY ResolveTyped
    <3> HIDE DEF records, a, at
    <3>4. ToSet(records) \subseteq Seq(Segments)
      BY <3>2, Zenon
    <3> QED
      BY <3>1, <3>3, <3>4
  <2> HIDE DEF records, a, at
  <2>3. /\ \A e \in prop : \E p \in ToSet(records) : RelPath(a, p) # <<>> /\ e = Child(url, a, p)
        /\ \A p \in ToSet(records) : RelPath(a, p) # <<>> =>
             \E q \in ToSet(records) :
               /\ RelPath(a, q) # <<>> /\ RelPath(a, q)[1] = RelPath(a, p)[1]
               /\ Child(url, a, q) \in prop
    BY <2>1, <2>2, ImmediateSet
  <2>4. ASSUME NEW p \in ToSet(records)
        PROVE  /\ Len(RelPath(a, p)) \in Nat
               /\ RelPath(a, p) # <<>> <=> (Len(RelPath(a, p)) > 1 \/ Len(RelPath(a, p)) = 1)
    <3>1. RelPath(a, p) \in Seq(Segments)
      BY <2>2, RelTyped
    <3>2. Len(RelPath(a, p)) \in Nat /\ (RelPath(a, p) # <<>> <=> Len(RelPath(a, p)) # 0)
      BY <3>1, EmptySeq, LenProperties
    <3> DEFINE n == Len(RelPath(a, p))
    <3> HIDE DEF n
    <3>3. n \in Nat => (n # 0 <=> (n > 1 \/ n = 1))
      OBVIOUS
    <3> QED
      BY <3>2, <3>3, Zenon DEF n
  <2>5. \A e : e \in http <=>
          \E p \in ToSet(records) :
             LET rel == RelPath(a, p) IN
             \/ Len(rel) > 1 /\ e = Entry(rel[1], "dir", Append(url, rel[1]))
             \/ Len(rel) = 1 /\ e = Entry(rel[1], "file",
                                          (IF at.mounted THEN <<at.filter>> ELSE <<>>) \o p)
    BY <1>2, HttpSet DEF records, a, at
  <2> HIDE DEF prop, http
  <2>6. ASSUME NEW e \in prop
        PROVE  \E h \in http : h.name = e.name /\ h.kind = e.kind
    <3>1. PICK p \in ToSet(records) : RelPath(a, p) # <<>> /\ e = Child(url, a, p)
      BY <2>3, <2>6
    <3> DEFINE rel == RelPath(a, p)
               href == (IF at.mounted THEN <<at.filter>> ELSE <<>>) \o p
    <3>2. CASE Len(rel) > 1
      <4>1. Entry(rel[1], "dir", Append(url, rel[1])) \in http
        BY <2>5, <3>2
      <4> QED
        BY <3>1, <3>2, <4>1 DEF Child, Entry
    <3>3. CASE Len(rel) = 1
      <4>1. Entry(rel[1], "file", href) \in http
        BY <2>5, <3>3
      <4>2. e.name = rel[1] /\ e.kind = "file"
        BY <3>1, <3>3 DEF Child, Entry
      <4>3. Entry(rel[1], "file", href).name = rel[1] /\ Entry(rel[1], "file", href).kind = "file"
        BY DEF Entry
      <4> QED
        BY <4>1, <4>2, <4>3
    <3> QED
      BY <2>4, <3>1, <3>2, <3>3
  <2>7. ASSUME NEW h \in http
        PROVE  \E e \in prop : e.name = h.name
    <3>1. PICK p \in ToSet(records) :
             LET rel == RelPath(a, p) IN
             \/ Len(rel) > 1 /\ h = Entry(rel[1], "dir", Append(url, rel[1]))
             \/ Len(rel) = 1 /\ h = Entry(rel[1], "file",
                                          (IF at.mounted THEN <<at.filter>> ELSE <<>>) \o p)
      BY <2>5, <2>7
    <3>2. h.name = RelPath(a, p)[1] /\ RelPath(a, p) # <<>>
      BY <2>4, <3>1 DEF Entry
    <3>3. PICK q \in ToSet(records) : /\ RelPath(a, q)[1] = RelPath(a, p)[1]
                                      /\ Child(url, a, q) \in prop
      BY <2>3, <3>2
    <3>4. Child(url, a, q).name = RelPath(a, q)[1]
      BY DEF Child, Entry
    <3> QED
      BY <3>2, <3>3, <3>4
  <2>8. Named(prop) \subseteq Named(http)
    BY <2>6 DEF Named
  <2>9. {e.name : e \in Named(http)} = {e.name : e \in Named(prop)}
    <3> DEFINE H == {e.name : e \in Named(http)}
               P == {e.name : e \in Named(prop)}
    <3>1. \A x : x \in H <=> \E h \in http : h.name = x
      BY NamesOf
    <3>2. \A x : x \in P <=> \E e \in prop : e.name = x
      BY NamesOf
    <3> HIDE DEF H, P
    <3>3. H = P
      BY <2>6, <2>7, <3>1, <3>2
    <3> QED
      BY <3>3 DEF H, P
  <2> QED
    BY <2>8, <2>9 DEF prop, http
<1> QED
  BY <1>1, <1>2

\* GET lists what PROPFIND lists, if anything is there.
LEMMA GetAgrees ==
  ASSUME NEW url, ListDir(Resolve(url).prefix, Resolve(url).prefix # <<>>) # <<>>
  PROVE  GetEntries(url) = PropfindEntries(url)
<1> DEFINE a == Resolve(url).prefix
<1>1. ~(a # <<>> /\ ListDir(a, TRUE) = <<>>)
  <2>1. a # <<>> => (a # <<>>) = TRUE
    OBVIOUS
  <2> QED
    BY <2>1
<1> QED
  BY <1>1 DEF GetEntries, PropfindEntries

Doors == {"propfind", "get", "http"}

\* The path of a row as the pages link to it.
MountOf(url) == IF Resolve(url).mounted THEN <<Resolve(url).filter>> ELSE <<>>

\* What an entry of a directory other than the root can be.
LEMMA EntryOf ==
  ASSUME Sized, NEW how \in Doors, NEW url \in Seq(Segments), NEW e \in Entries(how, url)
  PROVE  \/ url = <<>> /\ e \in MountEntries
         \/ /\ url # <<>>
            /\ \E p \in ToSet(Visible(Resolve(url), FALSE)) :
                 LET a == Resolve(url).prefix IN
                 /\ RelPath(a, p) # <<>>
                 /\ \/ e = Child(url, a, p)
                    \/ /\ Len(RelPath(a, p)) = 1
                       /\ e = Entry(RelPath(a, p)[1], "file", MountOf(url) \o p)
<1> DEFINE at == Resolve(url)
           a == at.prefix
           records == Visible(at, FALSE)
<1>0. records \in Seq(Stored)
  BY VisibleSet
<1>1. CASE e \in PropfindEntries(url)
  <2>1. CASE url = <<>>
    BY <1>1, <2>1, RootOnly DEF PropfindEntries
  <2>2. CASE url # <<>>
    <3>1. e \in Immediate(url, a, records)
      BY <1>1, <2>2, RootOnly DEF PropfindEntries
    <3>2. \E p \in ToSet(records) : RelPath(a, p) # <<>> /\ e = Child(url, a, p)
      <4> HIDE DEF records, a
      <4> QED
        BY <1>0, <3>1, ImmediateSet
    <3> QED
      BY <2>2, <3>2
  <2> QED
    BY <2>1, <2>2
<1>2. CASE how = "get"
  <2>1. e \in GetEntries(url)
    BY <1>2 DEF Entries
  <2>2. GetEntries(url) \in {{}, PropfindEntries(url)}
    BY DEF GetEntries, PropfindEntries
  <2> QED
    BY <1>1, <2>1, <2>2
<1>3. CASE how = "http"
  <2>1. e \in HttpEntries(url)
    BY <1>3 DEF Entries
  <2>2. CASE url = <<>>
    BY <2>1, <2>2, RootOnly DEF HttpEntries
  <2>3. CASE url # <<>>
    <3>1. Resolve(url).prefix \notin Stored
      BY <2>1 DEF HttpEntries
    <3>2. PICK p \in ToSet(Visible(Resolve(url), FALSE)) :
             LET rel == RelPath(Resolve(url).prefix, p) IN
             \/ Len(rel) > 1 /\ e = Entry(rel[1], "dir", Append(url, rel[1]))
             \/ Len(rel) = 1 /\ e = Entry(rel[1], "file",
                  (IF Resolve(url).mounted THEN <<Resolve(url).filter>> ELSE <<>>) \o p)
      BY <2>1, <2>3, <3>1, HttpSet
    <3>3. RelPath(a, p) # <<>>
      <4>1. Len(<<>>) = 0
        OBVIOUS
      <4>2. Len(RelPath(a, p)) > 1 \/ Len(RelPath(a, p)) = 1
        BY <3>2
      <4> QED
        BY <4>1, <4>2
    <3> QED
      BY <2>3, <3>2, <3>3 DEF Child, MountOf
  <2> QED
    BY <2>2, <2>3
<1>4. how = "propfind" => e \in PropfindEntries(url)
  BY DEF Entries
<1> QED
  BY <1>1, <1>2, <1>3, <1>4 DEF Doors

\* The rows that are shown are paths of segments.
LEMMA ShownTyped ==
  ASSUME Sized, NEW url \in Seq(Segments), NEW p \in ToSet(Visible(Resolve(url), FALSE))
  PROVE  /\ p \in Stored /\ p \in Seq(Segments) /\ p # <<>>
         /\ RelPath(Resolve(url).prefix, p) \in Seq(Segments)
         /\ RelPath(Resolve(url).prefix, p) # <<>> =>
              RelPath(Resolve(url).prefix, p)[1] \in Segments
<1>1. p \in Stored
  BY VisibleSet
<1>2. p \in Paths /\ p \in Seq(Segments) /\ p # <<>>
  BY <1>1, PathsTyped, BrowserAssumption DEF Stored
<1>3. RelPath(Resolve(url).prefix, p) \in Seq(Segments)
  BY <1>2, RelTyped, ResolveTyped
<1>4. RelPath(Resolve(url).prefix, p) # <<>> => RelPath(Resolve(url).prefix, p)[1] \in Segments
  <2> DEFINE r == RelPath(Resolve(url).prefix, p)
  <2> HIDE DEF r
  <2>1. r \in Seq(Segments)
    BY <1>3 DEF r
  <2>2. r # <<>> => r[1] \in Segments
    BY <2>1
  <2> QED
    BY <2>2 DEF r
<1> QED
  BY <1>1, <1>2, <1>3, <1>4

\* A directory that is seen is a URL.
LEMMA DirectoriesTyped ==
  ASSUME Sized, NEW how \in Doors, NEW url \in Seq(Segments), NEW e \in Entries(how, url),
         e.kind = "dir"
  PROVE  e.href \in Seq(Segments) /\ e.href # <<>>
<1>1. CASE url = <<>> /\ e \in MountEntries
  <2>1. PICK m \in Mounts \cup {All} : e = Entry(m, "dir", <<m>>)
    BY <1>1 DEF MountEntries
  <2>2. m \in Segments /\ e.href = <<m>>
    BY <2>1 DEF Segments, Entry
  <2> QED
    BY <2>2
<1>2. CASE url # <<>>
  <2> DEFINE a == Resolve(url).prefix
  <2>1. PICK p \in ToSet(Visible(Resolve(url), FALSE)) :
          /\ RelPath(a, p) # <<>>
          /\ \/ e = Child(url, a, p)
             \/ e = Entry(RelPath(a, p)[1], "file", MountOf(url) \o p)
    BY <1>2, EntryOf
  <2>2. e = Child(url, a, p)
    BY <2>1 DEF Entry
  <2> DEFINE x == RelPath(a, p)[1]
  <2>3. x \in Segments
    BY <2>1, ShownTyped
  <2>4. e.href = Append(url, x)
    BY <2>2 DEF Child, Entry
  <2> HIDE DEF x
  <2> QED
    BY <2>3, <2>4
<1> QED
  BY <1>1, <1>2, EntryOf

\* Below a directory other than the root, a URL resolves as the directory does.
LEMMA ResolveBelow ==
  ASSUME NEW d \in Seq(Segments), NEW u \in Seq(Segments), d # <<>>, IsPrefix(d, u)
  PROVE  /\ u # <<>> /\ Resolve(u).mounted = Resolve(d).mounted
         /\ Resolve(u).filter = Resolve(d).filter
         /\ IsPrefix(Resolve(d).prefix, Resolve(u).prefix)
         /\ Len(u) - Len(Resolve(u).prefix) = Len(d) - Len(Resolve(d).prefix)
         /\ MountOf(d) \o Resolve(u).prefix = u
<1>1. /\ Len(d) \in Nat /\ Len(u) \in Nat /\ Len(d) <= Len(u) /\ Len(d) > 0
      /\ \A i \in 1..Len(d) : d[i] = u[i]
  BY PrefixIs
<1>2. u # <<>> /\ Head(u) = Head(d)
  BY <1>1
<1>3. CASE Head(d) \in Mounts \cup {All}
  <2>1. Resolve(d) = [mounted |-> TRUE, filter |-> Head(d), prefix |-> Tail(d)]
    BY <1>3 DEF Resolve
  <2>2. Resolve(u) = [mounted |-> TRUE, filter |-> Head(d), prefix |-> Tail(u)]
    BY <1>2, <1>3 DEF Resolve
  <2>3. /\ Tail(d) \in Seq(Segments) /\ Len(Tail(d)) = Len(d) - 1
        /\ \A i \in 1..Len(Tail(d)) : Tail(d)[i] = d[i + 1]
        /\ Tail(u) \in Seq(Segments) /\ Len(Tail(u)) = Len(u) - 1
        /\ \A i \in 1..Len(Tail(u)) : Tail(u)[i] = u[i + 1]
    BY <1>2, HeadTailProperties
  <2>4. IsPrefix(Tail(d), Tail(u))
    <3> DEFINE td == Tail(d)
               tu == Tail(u)
    <3> HIDE DEF td, tu
    <3>1. /\ td \in Seq(Segments) /\ Len(td) = Len(d) - 1
          /\ \A i \in 1..Len(td) : td[i] = d[i + 1]
          /\ tu \in Seq(Segments) /\ Len(tu) = Len(u) - 1
          /\ \A i \in 1..Len(tu) : tu[i] = u[i + 1]
      BY <2>3 DEF td, tu
    <3>2. Len(td) <= Len(tu) /\ \A i \in 1..Len(td) : td[i] = tu[i]
      <4>1. Len(td) \in Nat /\ Len(td) + 1 = Len(d) /\ Len(td) <= Len(tu)
        BY <1>1, <3>1
      <4>2. ASSUME NEW i \in 1..Len(td) PROVE td[i] = tu[i]
        <5>1. i + 1 \in 1..Len(d) /\ i \in 1..Len(tu)
          BY <1>1, <3>1, <4>1
        <5> QED
          BY <1>1, <3>1, <5>1
      <4> QED
        BY <4>1, <4>2
    <3> QED
      BY <3>1, <3>2, PrefixIs DEF td, tu
  <2>5. <<Head(u)>> \o Tail(u) = u
    BY <1>2
  <2> QED
    BY <1>1, <1>2, <2>1, <2>2, <2>3, <2>4, <2>5 DEF MountOf
<1>4. CASE Head(d) \notin Mounts \cup {All}
  <2>1. Resolve(d) = [mounted |-> FALSE, filter |-> All, prefix |-> d]
    BY <1>4 DEF Resolve
  <2>2. Resolve(u) = [mounted |-> FALSE, filter |-> All, prefix |-> u]
    BY <1>2, <1>4 DEF Resolve
  <2>3. MountOf(d) \o u = u
    BY <2>1, ConcatEmptySeq DEF MountOf
  <2> QED
    BY <1>1, <1>2, <2>1, <2>2, <2>3
<1> QED
  BY <1>3, <1>4

-----------------------------------------------------------------------------
\* The next name of a URL is the next name of its path.
LEMMA NameBelow ==
  ASSUME NEW d \in Seq(Segments), NEW u \in Seq(Segments), d # <<>>, IsStrictPrefix(d, u)
  PROVE  Resolve(u).prefix[Len(Resolve(d).prefix) + 1] = u[Len(d) + 1]
<1> DEFINE a == Resolve(d).prefix
           p == Resolve(u).prefix
           n == Len(a)
           m == MountOf(d)
<1>1. IsPrefix(d, u) /\ Len(d) < Len(u) /\ Len(d) \in Nat /\ Len(u) \in Nat
  BY StrictShorter
<1>2. Len(u) - Len(p) = Len(d) - n /\ m \o p = u
  BY <1>1, ResolveBelow
<1>3. a \in Seq(Segments) /\ p \in Seq(Segments)
  BY ResolveTyped
<1>4. m \in Seq(Segments)
  <2>1. Resolve(d).mounted => Resolve(d).filter \in Segments
    BY ResolveTyped DEF Segments
  <2> QED
    BY <2>1, ResolveTyped DEF MountOf
<1> HIDE DEF a, p, m
<1>5. /\ Len(u) = Len(m) + Len(p)
      /\ \A i \in 1..Len(m) + Len(p) : u[i] = IF i <= Len(m) THEN m[i] ELSE p[i - Len(m)]
  BY <1>2, <1>3, <1>4, ConcatProperties
<1>6. Len(m) \in Nat /\ Len(p) \in Nat /\ n \in Nat
  BY <1>3, <1>4
<1> HIDE DEF n
<1>7. /\ Len(m) = Len(d) - n /\ Len(d) + 1 \in 1..Len(m) + Len(p) /\ (Len(d) + 1) - Len(m) = n + 1
      /\ ~(Len(d) + 1 <= Len(m))
  BY <1>1, <1>2, <1>5, <1>6
<1>8. p[n + 1] = u[Len(d) + 1]
  BY <1>5, <1>7
<1> QED
  BY <1>8 DEF p, n, a

\* The row that a URL names is in the listing of every directory above it, and what it
\* leaves there begins with the next name.
LEMMA NextShown ==
  ASSUME Sized, NEW d \in Seq(Segments), NEW u \in Seq(Segments), d # <<>>,
         IsStrictPrefix(d, u), Names(u)
  PROVE  LET a == Resolve(d).prefix
             p == Resolve(u).prefix
             n == Len(a)
         IN /\ a \in Seq(Segments) /\ p \in Seq(Segments) /\ n \in Nat /\ Len(p) \in Nat
            /\ n < Len(p) /\ IsPrefix(a, p) /\ Len(u) - Len(d) = Len(p) - n
            /\ p \in ToSet(Visible(Resolve(d), FALSE))
            /\ ListDir(a, TRUE) # <<>>
            /\ RelPath(a, p) \in Seq(Segments) /\ Len(RelPath(a, p)) = Len(p) - n
            /\ RelPath(a, p)[1] = p[n + 1] /\ p[n + 1] = u[Len(d) + 1]
<1> DEFINE a == Resolve(d).prefix
           p == Resolve(u).prefix
           n == Len(a)
<1>1. IsPrefix(d, u) /\ Len(d) < Len(u) /\ Len(d) \in Nat /\ Len(u) \in Nat
  BY StrictShorter
<1>2. /\ u # <<>> /\ Resolve(u).filter = Resolve(d).filter
      /\ IsPrefix(a, p) /\ Len(u) - Len(p) = Len(d) - n /\ MountOf(d) \o p = u
  BY <1>1, ResolveBelow
<1>3. a \in Seq(Segments) /\ p \in Seq(Segments)
  BY ResolveTyped
<1>4. p \in Stored /\ (Resolve(u).filter # All => Shows(Resolve(u).filter, p))
  BY DEF Names
<1> HIDE DEF a, p
<1>5. n \in Nat /\ Len(p) \in Nat /\ n < Len(p) /\ Len(u) - Len(d) = Len(p) - n
  BY <1>1, <1>2, <1>3
<1>6. Matches(a, FALSE, p) /\ Matches(a, TRUE, p)
  BY <1>2, <1>3, <1>5, PrefixMatches
<1>7. p \in ToSet(Visible(Resolve(d), FALSE))
  <2>1. Resolve(d).filter # All => Shows(Resolve(d).filter, p)
    BY <1>2, <1>4
  <2>2. Matches(Resolve(d).prefix, FALSE, p)
    BY <1>6 DEF a
  <2> QED
    BY <1>4, <2>1, <2>2, VisibleSet
<1>8. ListDir(a, TRUE) # <<>>
  <2>1. p \in ToSet(ListDir(a, TRUE))
    BY <1>4, <1>6, ListDirSet
  <2>2. ToSet(<<>>) = {}
    BY DEF ToSet
  <2> QED
    BY <2>1, <2>2, Zenon
<1>9. /\ RelPath(a, p) \in Seq(Segments) /\ Len(RelPath(a, p)) = Len(p) - n
      /\ RelPath(a, p)[1] = p[n + 1]
  <2>1. RelPath(a, p) = SubSeq(p, n + 1, Len(p))
    BY <1>2, <1>3, RelBelow
  <2>2. n \in 0..Len(p) /\ 1 \in 1..(Len(p) - n)
    BY <1>5
  <2> QED
    BY <1>3, <2>1, <2>2, Cut
<1>10. p[n + 1] = u[Len(d) + 1]
  BY NameBelow DEF a, p
<1> QED
  BY <1>2, <1>3, <1>5, <1>7, <1>8, <1>9, <1>10 DEF a, p

\* One name further down.
LEMMA OneFurther ==
  ASSUME NEW d \in Seq(Segments), NEW u \in Seq(Segments), IsStrictPrefix(d, u),
         NEW x, x = u[Len(d) + 1]
  PROVE  /\ Append(d, x) \in Seq(Segments) /\ Append(d, x) # <<>>
         /\ IF Len(u) = Len(d) + 1 THEN Append(d, x) = u ELSE IsStrictPrefix(Append(d, x), u)
<1>1. /\ IsPrefix(d, u) /\ Len(d) < Len(u) /\ Len(d) \in Nat /\ Len(u) \in Nat
      /\ \A i \in 1..Len(d) : d[i] = u[i]
  BY StrictShorter, PrefixIs
<1>2. x \in Segments
  BY <1>1
<1> DEFINE dx == Append(d, x)
<1>3. /\ dx \in Seq(Segments) /\ Len(dx) = Len(d) + 1 /\ dx # <<>>
      /\ \A i \in 1..Len(d) + 1 : dx[i] = u[i]
  <2>1. /\ dx \in Seq(Segments) /\ Len(dx) = Len(d) + 1 /\ dx[Len(d) + 1] = x
        /\ \A i \in 1..Len(d) : dx[i] = d[i]
    BY <1>2, AppendProperties
  <2> HIDE DEF dx
  <2>2. dx # <<>>
    BY <1>1, <2>1
  <2>3. \A i \in 1..Len(d) + 1 : dx[i] = u[i]
    BY <1>1, <2>1
  <2> QED
    BY <2>1, <2>2, <2>3
<1> HIDE DEF dx
<1>4. IsPrefix(dx, u)
  <2>1. Len(dx) <= Len(u) /\ \A i \in 1..Len(dx) : dx[i] = u[i]
    BY <1>1, <1>3
  <2> QED
    BY <1>3, <2>1, PrefixIs
<1>5. CASE Len(u) = Len(d) + 1
  <2>1. Len(dx) = Len(u) /\ \A i \in 1..Len(dx) : dx[i] = u[i]
    BY <1>3, <1>5
  <2>2. dx = u
    BY <1>3, <2>1, SeqEqual
  <2> QED
    BY <1>3, <1>5, <2>2 DEF dx
<1>6. CASE Len(u) # Len(d) + 1
  <2>1. Len(dx) < Len(u)
    BY <1>1, <1>3, <1>6
  <2>2. IsStrictPrefix(dx, u)
    BY <1>3, <1>4, <2>1, StrictShorter
  <2> QED
    BY <1>3, <1>6, <2>2 DEF dx
<1> QED
  BY <1>5, <1>6

\* No row below the directory gives its name to the other kind of child.
LEMMA SameKind ==
  ASSUME NEW p \in Seq(Segments), ~Clashes(p), NEW a \in Seq(Segments), IsPrefix(a, p),
         Len(a) < Len(p), NEW q \in Stored, Matches(a, FALSE, q),
         RelPath(a, q) # <<>>, RelPath(a, q)[1] = p[Len(a) + 1]
  PROVE  (Len(RelPath(a, q)) > 1) = (Len(p) > Len(a) + 1)
<1>1. Len(a) \in 0..(Len(p) - 1) /\ SubSeq(p, 1, Len(a)) = a
  <2>1. Len(a) \in Nat /\ Len(p) \in Nat
    OBVIOUS
  <2>2. SubSeq(a, 1, Len(a)) = a
    BY SubSeqFull
  <2> QED
    BY <2>1, <2>2 DEF IsPrefix
<1> DEFINE bad(n, r) ==
             LET dir == SubSeq(p, 1, n)
                 rel == RelPath(dir, r)
             IN /\ Matches(dir, FALSE, r)
                /\ rel # <<>> /\ rel[1] = p[n + 1]
                /\ (Len(rel) > 1) # (Len(p) > n + 1)
<1>2. ~bad(Len(a), q)
  <2>1. Clashes(p) <=> \E n \in 0..(Len(p) - 1), r \in Stored : bad(n, r)
    BY Zenon DEF Clashes
  <2> HIDE DEF bad
  <2> QED
    BY <1>1, <2>1
<1> QED
  BY <1>1, <1>2

\* No row has the path of the directory: it would be a file with the name of one.
LEMMA NotAFile ==
  ASSUME NEW p \in Seq(Segments), ~Clashes(p), NEW a \in Seq(Segments), IsPrefix(a, p),
         Len(a) < Len(p)
  PROVE  a \notin Stored
<1> SUFFICES ASSUME a \in Stored PROVE FALSE
  OBVIOUS
<1>1. a # <<>> /\ Len(a) \in Nat /\ Len(p) \in Nat /\ \A i \in 1..Len(a) : a[i] = p[i]
  BY PrefixIs, BrowserAssumption DEF Stored
<1>2. Len(a) > 0
  BY <1>1, EmptySeq
<1> DEFINE n == Len(a) - 1
           up == SubSeq(a, 1, n)
<1>3. n \in 0..Len(a) /\ n + 1 = Len(a) /\ Len(a) - n = 1
  BY <1>1, <1>2
<1>4. /\ up \in Seq(Segments) /\ Len(up) = n /\ \A i \in 1..n : up[i] = a[i]
      /\ Len(SubSeq(a, n + 1, Len(a))) = 1 /\ SubSeq(a, n + 1, Len(a))[1] = a[n + 1]
  BY <1>3, Cut
<1> HIDE DEF up, n
<1>5. IsPrefix(up, a) /\ IsPrefix(up, p)
  <2>1. n <= Len(a) /\ n <= Len(p) /\ \A i \in 1..n : a[i] = p[i]
    BY <1>1, <1>3
  <2> QED
    BY <1>4, <2>1, PrefixIs
<1>6. RelPath(up, a) = SubSeq(a, n + 1, Len(a)) /\ Matches(up, FALSE, a)
  BY <1>4, <1>5, RelBelow, PrefixMatches
<1>7. Len(RelPath(up, a)) = 1 /\ RelPath(up, a) # <<>> /\ RelPath(up, a)[1] = p[Len(up) + 1]
  <2>1. Len(RelPath(up, a)) = 1 /\ RelPath(up, a)[1] = a[n + 1]
    BY <1>4, <1>6
  <2>2. RelPath(up, a) # <<>>
    <3>1. Len(<<>>) = 0
      OBVIOUS
    <3>2. Len(RelPath(up, a)) # 0
      BY <2>1
    <3> QED
      BY <3>1, <3>2, Zenon
  <2>3. a[n + 1] = p[n + 1]
    BY <1>1, <1>2, <1>3
  <2> QED
    BY <1>4, <2>1, <2>2, <2>3
<1>8. Len(up) < Len(p) /\ Len(p) > Len(up) + 1
  BY <1>1, <1>3, <1>4
<1>9. (Len(RelPath(up, a)) > 1) = (Len(p) > Len(up) + 1)
  BY <1>4, <1>5, <1>6, <1>7, <1>8, SameKind
<1> QED
  BY <1>7, <1>8, <1>9

\* A client that lists a directory above a file learns of the file, or of a directory
\* above it that is nearer.
LEMMA NextEntry ==
  ASSUME Sized, NEW how \in Doors, NEW d \in Seq(Segments), NEW u \in Seq(Segments), d # <<>>,
         IsStrictPrefix(d, u), Names(u)
  PROVE  \E e \in Entries(how, d) :
           \/ e.kind = "file" /\ e.href = u
           \/ e.kind = "dir" /\ e.href # <<>> /\ IsStrictPrefix(e.href, u)
<1> DEFINE at == Resolve(d)
           a == at.prefix
           p == Resolve(u).prefix
           n == Len(a)
           x == p[n + 1]
           records == Visible(at, FALSE)
<1>1. /\ a \in Seq(Segments) /\ p \in Seq(Segments) /\ n \in Nat /\ Len(p) \in Nat
      /\ n < Len(p) /\ IsPrefix(a, p) /\ Len(u) - Len(d) = Len(p) - n
      /\ p \in ToSet(records) /\ ListDir(a, TRUE) # <<>>
      /\ RelPath(a, p) \in Seq(Segments) /\ Len(RelPath(a, p)) = Len(p) - n
      /\ RelPath(a, p)[1] = x /\ x = u[Len(d) + 1]
  BY NextShown
<1>2. ~Clashes(p)
  BY DEF Names
<1>3. Len(d) \in Nat /\ Len(u) \in Nat
  OBVIOUS
<1> DEFINE nearer(e) == \/ e.kind = "file" /\ e.href = u
                        \/ e.kind = "dir" /\ e.href # <<>> /\ IsStrictPrefix(e.href, u)
<1>4. \A e : e.kind = (IF Len(p) > n + 1 THEN "dir" ELSE "file") /\ e.href = Append(d, x) => nearer(e)
  <2>1. /\ Append(d, x) # <<>>
        /\ IF Len(u) = Len(d) + 1 THEN Append(d, x) = u ELSE IsStrictPrefix(Append(d, x), u)
    BY <1>1, OneFurther
  <2> HIDE DEF n, x, p
  <2>2. Len(u) = Len(d) + 1 <=> ~(Len(p) > n + 1)
    BY <1>1, <1>3
  <2> QED
    BY <2>1, <2>2
<1>5. a \notin Stored
  BY <1>1, <1>2, NotAFile
<1>6. records \in Seq(Stored) /\ \A q \in ToSet(records) : q \in Stored /\ Matches(a, FALSE, q)
  BY VisibleSet
<1>7. \E e \in Immediate(d, a, records) : nearer(e)
  <2>1. RelPath(a, p) # <<>>
    <3>1. Len(<<>>) = 0
      OBVIOUS
    <3>2. Len(RelPath(a, p)) # 0
      <4> HIDE DEF n
      <4> QED
        BY <1>1
    <3> QED
      BY <3>1, <3>2
  <2> HIDE DEF records, a, p, x, nearer
  <2>2. PICK q \in ToSet(records) :
          /\ RelPath(a, q) # <<>> /\ RelPath(a, q)[1] = x
          /\ Child(d, a, q) \in Immediate(d, a, records)
    BY <1>1, <1>6, <2>1, ImmediateSet
  <2>3. (Len(RelPath(a, q)) > 1) = (Len(p) > n + 1)
    BY <1>1, <1>2, <1>6, <2>2, SameKind DEF x
  <2>4. /\ Child(d, a, q).href = Append(d, x)
        /\ Child(d, a, q).kind = (IF Len(p) > n + 1 THEN "dir" ELSE "file")
    BY <2>2, <2>3 DEF Child, Entry
  <2> QED
    BY <1>4, <2>2, <2>4
<1>8. CASE how = "propfind"
  <2>1. Entries(how, d) = Immediate(d, a, records)
    BY <1>8, RootOnly DEF Entries, PropfindEntries
  <2> QED
    BY <1>7, <2>1
<1>9. CASE how = "get"
  <2>1. Entries(how, d) = Immediate(d, a, records)
    BY <1>1, <1>9, RootOnly DEF Entries, GetEntries
  <2> QED
    BY <1>7, <2>1
<1>10. CASE how = "http"
  <2>1. Entries(how, d) = HttpEntries(d)
    BY <1>10 DEF Entries
  <2>2. CASE Len(p) > n + 1
    <3>1. Len(RelPath(a, p)) > 1
      <4> HIDE DEF n, p
      <4> QED
        BY <1>1, <2>2
    <3> DEFINE e == Entry(x, "dir", Append(d, x))
    <3>2. e \in HttpEntries(d)
      BY <1>1, <1>5, <3>1, HttpSet
    <3>3. e.kind = (IF Len(p) > n + 1 THEN "dir" ELSE "file") /\ e.href = Append(d, x)
      BY <2>2 DEF Entry
    <3> HIDE DEF e, nearer
    <3>4. nearer(e)
      BY <1>4, <3>3
    <3> QED
      BY <2>1, <3>2, <3>4 DEF nearer
  <2>3. CASE ~(Len(p) > n + 1)
    <3>1. Len(RelPath(a, p)) = 1
      <4> HIDE DEF n, p
      <4> QED
        BY <1>1, <2>3
    <3> DEFINE e == Entry(x, "file", MountOf(d) \o p)
    <3>2. e \in HttpEntries(d)
      BY <1>1, <1>5, <3>1, HttpSet DEF MountOf
    <3>3. MountOf(d) \o p = u
      BY StrictShorter, ResolveBelow
    <3>4. e.kind = "file" /\ e.href = u
      BY <3>3 DEF Entry
    <3> HIDE DEF e
    <3> QED
      BY <2>1, <3>2, <3>4
  <2> QED
    BY <2>2, <2>3
<1> QED
  BY <1>8, <1>9, <1>10 DEF Doors

-----------------------------------------------------------------------------
\* What is true of the client's walk at any time: the table has sizes, the directories
\* to list are URLs, and whatever has named a file all along is found or below one of them.
Tracked(u) == u \in found \/ \E d \in pending : d # <<>> /\ IsStrictPrefix(d, u)

WalkInv ==
  /\ Sized /\ door \in Doors
  /\ pending \subseteq Seq(Segments) /\ steady \subseteq Seq(Segments)
  /\ \A u \in steady : Names(u) /\ Tracked(u)

\* A listing brings the client nearer to every file there is.
LEMMA ListKeeps ==
  ASSUME WalkInv, NEW url \in pending, List(url)
  PROVE  WalkInv'
<1> DEFINE entries == Entries(door, url)
           Hrefs(kind) == {e.href : e \in {e \in entries : e.kind = kind}}
<1>1. /\ Sized /\ door \in Doors /\ url \in Seq(Segments)
      /\ pending' = (pending \ {url}) \cup Hrefs("dir")
      /\ found' = found \cup Hrefs("file")
      /\ UNCHANGED <<table, door, steady>>
  BY DEF List, WalkInv
<1>2. Sized' /\ door' \in Doors /\ steady' \subseteq Seq(Segments)
  BY <1>1 DEF Sized, WalkInv
<1>3. pending' \subseteq Seq(Segments)
  <2>1. Hrefs("dir") \subseteq Seq(Segments)
    BY <1>1, DirectoriesTyped
  <2> HIDE DEF Hrefs
  <2> QED
    BY <1>1, <2>1 DEF WalkInv
<1>4. ASSUME NEW u \in steady PROVE Names(u)' /\ Tracked(u)'
  <2>1. Names(u) /\ Tracked(u) /\ u \in Seq(Segments)
    BY <1>4 DEF WalkInv
  <2>2. Names(u)'
    BY <1>1, <2>1 DEF Names, Clashes, Shows, SameItem, Stored
  <2>3. CASE u \in found
    BY <1>1, <2>2, <2>3 DEF Tracked
  <2>4. CASE \E d \in pending \ {url} : d # <<>> /\ IsStrictPrefix(d, u)
    BY <1>1, <2>2, <2>4 DEF Tracked
  <2>5. CASE url # <<>> /\ IsStrictPrefix(url, u)
    <3>1. PICK e \in entries :
            \/ e.kind = "file" /\ e.href = u
            \/ e.kind = "dir" /\ e.href # <<>> /\ IsStrictPrefix(e.href, u)
      BY <1>1, <2>1, <2>5, NextEntry
    <3>2. CASE e.kind = "file" /\ e.href = u
      <4>1. u \in Hrefs("file")
        BY <3>2
      <4> QED
        BY <1>1, <2>2, <4>1 DEF Tracked
    <3>3. CASE e.kind = "dir" /\ e.href # <<>> /\ IsStrictPrefix(e.href, u)
      <4>1. e.href \in Hrefs("dir")
        BY <3>3
      <4> HIDE DEF Hrefs
      <4> QED
        BY <1>1, <2>2, <3>3, <4>1 DEF Tracked
    <3> QED
      BY <3>1, <3>2, <3>3
  <2> QED
    BY <2>1, <2>2, <2>3, <2>4, <2>5 DEF Tracked
<1> QED
  BY <1>1, <1>2, <1>3, <1>4 DEF WalkInv

\* A row that comes, goes or changes names fewer or other files, and moves nobody.
LEMMA EditKeeps ==
  ASSUME WalkInv, TableOK, NEW p \in Paths, NEW row \in RowsAt[p] \cup {NoRow}, Edit(p, row)
  PROVE  WalkInv'
<1>1. /\ table' = [table EXCEPT ![p] = row] /\ steady' = {u \in steady : Names(u)'}
      /\ UNCHANGED <<door, pending, found>>
  BY DEF Edit
<1>2. Sized'
  <2>1. \A q \in Paths : table'[q] = IF q = p THEN row ELSE table[q]
    BY <1>1 DEF TableOK
  <2>2. row # NoRow => row.size \in Nat
    BY BrowserAssumption
  <2> QED
    BY <2>1, <2>2 DEF Sized, WalkInv
<1>3. \A u \in steady' : u \in steady /\ Names(u)'
  BY <1>1
<1>4. \A u \in steady' : Tracked(u)'
  BY <1>1, <1>3 DEF WalkInv, Tracked
<1> QED
  BY <1>1, <1>2, <1>3, <1>4 DEF WalkInv


\* All that can happen to a walk.
LEMMA WalkInductive == WalkInv /\ TableOK /\ [Next]_vars => WalkInv'
<1> SUFFICES ASSUME WalkInv, TableOK, [Next]_vars PROVE WalkInv'
  OBVIOUS
<1>1. ASSUME NEW url \in pending, List(url) PROVE WalkInv'
  BY <1>1, ListKeeps
<1>2. ASSUME NEW p \in Paths, UpsertFile(p) \/ Prune(p) PROVE WalkInv'
  <2>1. PICK row \in RowsAt[p] \cup {NoRow} : Edit(p, row)
    BY <1>2 DEF UpsertFile, Prune
  <2> QED
    BY <2>1, EditKeeps
<1>3. CASE UNCHANGED <<table, door, pending, found, steady>>
  <2>1. \A u : Names(u)' <=> Names(u)
    BY <1>3 DEF Names, Clashes, Shows, SameItem, Stored
  <2>2. \A u : Tracked(u)' <=> Tracked(u)
    BY <1>3 DEF Tracked
  <2> QED
    BY <1>3, <2>1, <2>2 DEF WalkInv, Sized
<1>4. ASSUME NEW url \in found, HandleHead(url) PROVE WalkInv'
  BY <1>3, <1>4 DEF HandleHead
<1>5. ASSUME NEW header \in Headers, HandleGet(header) PROVE WalkInv'
  BY <1>3, <1>5 DEF HandleGet
<1>6. CASE UNCHANGED vars
  BY <1>3, <1>6 DEF vars
<1> QED
  BY <1>1, <1>2, <1>4, <1>5, <1>6 DEF Next

\* A walk begins above the files it has to find.
LEMMA WalkBegins == Init => WalkInv
<1> SUFFICES ASSUME Init PROVE WalkInv
  OBVIOUS
<1>1. Sized /\ door \in Doors
  BY BrowserAssumption DEF Init, Sized, Doors
<1>2. PICK start \in Starts : pending = {start} /\ steady = {u \in Below(start) : Names(u)}
  BY DEF Init
<1>3. start \in Seq(Segments) /\ start # <<>>
  BY BrowserAssumption
<1>4. Urls \subseteq Seq(Segments)
  <2>1. ASSUME NEW m \in Mounts \cup {All}, NEW p \in Paths PROVE <<m>> \o p \in Seq(Segments)
    <3>1. m \in Segments /\ p \in Seq(Segments)
      BY PathsTyped DEF Segments
    <3>2. <<m>> \in Seq(Segments)
      BY <3>1
    <3> QED
      BY <3>1, <3>2, ConcatProperties
  <2> SUFFICES ASSUME NEW u \in Urls, u \notin Paths PROVE u \in Seq(Segments)
    BY PathsTyped
  <2>2. PICK m \in Mounts \cup {All}, p \in Paths : u = <<m>> \o p
    BY DEF Urls
  <2> QED
    BY <2>1, <2>2
<1>5. \A u \in steady : u \in Urls /\ IsStrictPrefix(start, u) /\ Names(u)
  BY <1>2 DEF Below
<1> QED
  BY <1>1, <1>2, <1>3, <1>4, <1>5 DEF WalkInv, Tracked

\* However far a walk has come, WalkInv holds.
THEOREM WalkCorrect == Spec => [](WalkInv /\ TableOK)
<1>1. Init => TableOK
  BY DEF Init, TableOK
<1>2. TableOK /\ [Next]_vars => TableOK'
  BY TableInductive
<1> QED
  BY <1>1, <1>2, WalkBegins, WalkInductive, PTL DEF Spec

\* A file that was there all along is found, by every handler (store.go:155-174).
THEOREM FilesFound == Spec => []StableFilesFound
<1>1. WalkInv => StableFilesFound
  BY DEF WalkInv, Tracked, StableFilesFound
<1> QED
  BY <1>1, WalkCorrect, PTL

\* The three handlers name the same children, with the exceptions the property states
\* (propfind.go:134-185, get.go:860-913, http_browser.go:164-210).
THEOREM ListingsCorrect == Spec => []ListingsAgree
<1>1. WalkInv => ListingsAgree
  <2> SUFFICES ASSUME WalkInv, NEW url \in pending \cup {<<>>}
               PROVE  /\ ListDir(Resolve(url).prefix, Resolve(url).prefix # <<>>) # <<>> =>
                           Named(PropfindEntries(url)) = Named(GetEntries(url))
                      /\ Resolve(url).prefix \notin Stored =>
                           /\ Named(PropfindEntries(url)) \subseteq Named(HttpEntries(url))
                           /\ {e.name : e \in Named(HttpEntries(url))}
                                = {e.name : e \in Named(PropfindEntries(url))}
    BY Zenon DEF ListingsAgree
  <2>1. url \in Seq(Segments) /\ Sized
    BY EmptySeq DEF WalkInv
  <2> QED
    BY <2>1, PagesAgree, GetAgrees
<1> QED
  BY <1>1, WalkCorrect, PTL

-----------------------------------------------------------------------------
\* A file that is found below the directory listed is the row with its path, and it lies
\* in that directory.
LEMMA FoundIn ==
  ASSUME Sized, NEW how \in Doors, NEW d \in Seq(Segments), NEW e \in Entries(how, d),
         e.kind = "file", IsPrefix(d, e.href), Plain(Resolve(e.href).prefix)
  PROVE  LET p == Resolve(e.href).prefix
             a == Resolve(d).prefix
         IN /\ p \in ToSet(Visible(Resolve(d), FALSE)) /\ p \in Seq(Segments)
            /\ a \in Seq(Segments) /\ IsPrefix(a, p) /\ Len(p) = Len(a) + 1
            /\ Resolve(e.href).filter = Resolve(d).filter
<1> DEFINE u == e.href
           p == Resolve(u).prefix
           a == Resolve(d).prefix
           n == Len(a)
           m == MountOf(d)
<1>1. d # <<>>
  <2>1. \A f \in MountEntries : f.kind = "dir"
    BY DEF MountEntries, Entry
  <2> QED
    BY <2>1, EntryOf
<1>2. PICK q \in ToSet(Visible(Resolve(d), FALSE)) :
        /\ RelPath(a, q) # <<>>
        /\ \/ e = Child(d, a, q)
           \/ /\ Len(RelPath(a, q)) = 1
              /\ e = Entry(RelPath(a, q)[1], "file", m \o q)
  BY <1>1, EntryOf
<1> DEFINE rel == RelPath(a, q)
           x == rel[1]
<1>3. /\ q \in Stored /\ q \in Seq(Segments) /\ rel \in Seq(Segments) /\ x \in Segments
      /\ Matches(a, FALSE, q)
  BY <1>2, ShownTyped, VisibleSet
<1>4. Len(rel) = 1 /\ (u = Append(d, x) \/ u = m \o q)
  <2> HIDE DEF a, rel, m, x
  <2>1. CASE e = Child(d, a, q)
    <3>1. ~(Len(RelPath(a, q)) > 1) /\ e.href = Append(d, RelPath(a, q)[1])
      BY <2>1 DEF Child, Entry
    <3>2. ~(Len(rel) > 1) /\ rel # <<>> /\ rel \in Seq(Segments)
      BY <1>2, <1>3, <3>1 DEF rel
    <3>3. Len(rel) = 1
      <4>1. Len(rel) \in Nat /\ Len(rel) # 0 /\ ~(Len(rel) > 1)
        BY <3>2, EmptySeq
      <4>2. \A k \in Nat : k # 0 /\ ~(k > 1) => k = 1
        OBVIOUS
      <4> QED
        BY <4>1, <4>2, Zenon
    <3> QED
      BY <3>1, <3>3 DEF rel, x
  <2>2. CASE Len(RelPath(a, q)) = 1 /\ e = Entry(RelPath(a, q)[1], "file", m \o q)
    BY <2>2 DEF Entry, rel
  <2> QED
    BY <1>2, <2>1, <2>2
<1>5. a \in Seq(Segments) /\ m \in Seq(Segments)
  <2>1. Resolve(d).mounted => Resolve(d).filter \in Segments
    BY ResolveTyped DEF Segments
  <2> QED
    BY <2>1, ResolveTyped DEF MountOf
<1>6. u \in Seq(Segments)
  <2> HIDE DEF u, x, m, rel
  <2>1. Append(d, x) \in Seq(Segments)
    BY <1>3
  <2>2. m \o q \in Seq(Segments)
    BY <1>3, <1>5, ConcatProperties
  <2> QED
    BY <1>4, <2>1, <2>2
<1>7. /\ Resolve(u).filter = Resolve(d).filter /\ IsPrefix(a, p)
      /\ Len(u) - Len(p) = Len(d) - n /\ m \o p = u /\ p \in Seq(Segments)
  <2> HIDE DEF u
  <2>1. IsPrefix(d, u)
    BY DEF u
  <2>2. p \in Seq(Segments)
    BY <1>6, ResolveTyped
  <2> QED
    BY <1>1, <1>6, <2>1, <2>2, ResolveBelow
<1>8. CASE u = m \o q
  <2> HIDE DEF a, p, m, u, rel
  <2>1. p = q
    BY <1>3, <1>5, <1>7, <1>8, ConcatSimplifications
  <2>2. rel = SubSeq(p, Len(a) + 1, Len(p))
    BY <1>5, <1>7, <2>1, RelBelow DEF rel
  <2>3. Len(a) \in Nat /\ Len(p) \in Nat /\ Len(a) <= Len(p)
    BY <1>5, <1>7, PrefixIs
  <2>4. Len(SubSeq(p, Len(a) + 1, Len(p))) = Len(p) - Len(a)
    BY <1>7, <2>3, Cut
  <2>5. Len(p) = Len(a) + 1
    BY <1>4, <2>2, <2>3, <2>4
  <2> QED
    BY <1>2, <1>5, <1>7, <2>1, <2>5 DEF a, p, u
<1>9. CASE u = Append(d, x)
  <2>0. Len(d) \in Nat /\ Len(u) = Len(d) + 1 /\ u[Len(d) + 1] = x
    <3> HIDE DEF u, x
    <3> QED
      BY <1>3, <1>9, AppendProperties
  <2>1. IsStrictPrefix(d, u)
    BY <1>6, <2>0, StrictShorter
  <2>2. p[n + 1] = x
    <3> HIDE DEF x
    <3> QED
      BY <1>1, <1>6, <2>0, <2>1, NameBelow
  <2> HIDE DEF a, p, m, u, rel, x
  <2>3. /\ n \in Nat /\ Len(p) = n + 1 /\ \A i \in 1..n : a[i] = p[i]
    BY <1>5, <1>7, <2>0, PrefixIs
  <2>4. IsPrefix(a, q)
    <3>1. CASE n = 0
      <4>1. Len(a) <= Len(q) /\ \A i \in 1..Len(a) : a[i] = q[i]
        BY <1>3, <3>1
      <4> QED
        BY <1>3, <1>5, <4>1, PrefixIs
    <3>2. CASE n # 0
      <4>1. SubSeq(p, 1, n) = a
        <5>1. SubSeq(a, 1, Len(a)) = a
          BY <1>5, SubSeqFull
        <5> QED
          BY <1>7, <5>1 DEF IsPrefix
      <4>2. n \in 1..(Len(p) - 1)
        BY <2>3, <3>2
      <4>3. Matches(SubSeq(p, 1, n), FALSE, q) => IsPrefix(SubSeq(p, 1, n), q)
        BY <1>3, <4>2 DEF Plain, p, u
      <4> QED
        BY <1>3, <4>1, <4>3
    <3> QED
      BY <3>1, <3>2
  <2>5. rel = SubSeq(q, Len(a) + 1, Len(q))
    BY <1>3, <1>5, <2>4, RelBelow DEF rel
  <2>6. Len(q) \in Nat /\ n <= Len(q) /\ \A i \in 1..n : a[i] = q[i]
    BY <1>3, <1>5, <2>4, PrefixIs
  <2>7. /\ Len(SubSeq(q, n + 1, Len(q))) = Len(q) - n
        /\ \A i \in 1..(Len(q) - n) : SubSeq(q, n + 1, Len(q))[i] = q[n + i]
    <3>1. n \in 0..Len(q)
      BY <2>3, <2>6
    <3> HIDE DEF n
    <3> QED
      BY <1>3, <3>1, Cut
  <2>8. Len(q) = n + 1 /\ q[n + 1] = x
    <3>1. Len(q) - n = 1
      BY <1>4, <2>5, <2>7
    <3>2. rel[1] = q[n + 1]
      BY <2>5, <2>7, <3>1
    <3> HIDE DEF n
    <3> QED
      BY <2>3, <2>6, <3>1, <3>2 DEF x
  <2>9. p = q
    <3>1. \A i \in 1..Len(p) : p[i] = q[i]
      <4> HIDE DEF n
      <4> QED
        BY <2>2, <2>3, <2>6, <2>8
    <3> QED
      BY <1>3, <1>7, <2>3, <2>8, <3>1, SeqEqual
  <2> QED
    BY <1>2, <1>5, <1>7, <2>3, <2>9 DEF a, p, u
<1> QED
  BY <1>4, <1>8, <1>9

\* The directory a path lies in.
LEMMA FrontIs ==
  ASSUME NEW r \in Seq(Segments), r # <<>>
  PROVE  /\ Front(r) \in Seq(Segments) /\ IsPrefix(Front(r), r)
         /\ \A a \in Seq(Segments) : IsPrefix(a, r) /\ Len(r) = Len(a) + 1 => Front(r) = a
<1>1. Len(r) \in Nat /\ Len(r) > 0
  BY EmptySeq
<1>2. Len(r) - 1 \in 0..Len(r)
  BY <1>1
<1> DEFINE f == Front(r)
<1>3. f \in Seq(Segments) /\ Len(f) = Len(r) - 1 /\ \A i \in 1..(Len(r) - 1) : f[i] = r[i]
  <2> DEFINE k == Len(r) - 1
  <2>1. k \in 0..Len(r) /\ f = SubSeq(r, 1, k)
    BY <1>2 DEF Front
  <2> HIDE DEF f, k
  <2>2. f \in Seq(Segments) /\ Len(f) = k /\ \A i \in 1..k : f[i] = r[i]
    BY <2>1, Cut
  <2> QED
    BY <2>2 DEF k
<1> HIDE DEF f
<1>4. IsPrefix(f, r)
  BY <1>1, <1>3, PrefixIs
<1>5. ASSUME NEW a \in Seq(Segments), IsPrefix(a, r), Len(r) = Len(a) + 1 PROVE f = a
  <2>1. Len(a) = Len(f) /\ \A i \in 1..Len(f) : f[i] = a[i]
    <3>1. Len(a) \in Nat /\ \A i \in 1..Len(a) : a[i] = r[i]
      BY <1>5, PrefixIs
    <3>2. Len(a) = Len(r) - 1
      BY <1>1, <1>5, <3>1
    <3> QED
      BY <1>3, <3>1, <3>2
  <2> QED
    BY <1>3, <2>1, SeqEqual
<1> QED
  BY <1>3, <1>4, <1>5 DEF f

\* What a mount shows of a directory, for a file that is found in it.
LEMMA KeptIn ==
  ASSUME Sized, NEW how \in Doors, NEW d \in Seq(Segments), NEW e \in Entries(how, d),
         e.kind = "file", IsPrefix(d, e.href), Plain(Resolve(e.href).prefix)
  PROVE  LET at == Resolve(e.href)
             p == at.prefix
         IN /\ p \in Stored
            /\ at.filter # All =>
                 /\ Accepts(at.filter, p)
                 /\ LargestFileOnly[at.filter] =>
                      \A q \in Stored :
                        Front(q) = Front(p) /\ SameItem(p, q) /\ Accepts(at.filter, q)
                          => table[q].size <= table[p].size
<1> DEFINE at == Resolve(e.href)
           p == at.prefix
           dat == Resolve(d)
           a == dat.prefix
<1>1. /\ p \in ToSet(Visible(dat, FALSE)) /\ p \in Seq(Segments)
      /\ a \in Seq(Segments) /\ IsPrefix(a, p) /\ Len(p) = Len(a) + 1
      /\ at.filter = dat.filter
  BY FoundIn
<1>2. /\ p \in Stored
      /\ dat.filter # All =>
           /\ Accepts(dat.filter, p)
           /\ LargestFileOnly[dat.filter] =>
                \A r \in Stored :
                  Matches(a, FALSE, r) /\ Accepts(dat.filter, r) /\ SameItem(p, r)
                    => table[r].size <= table[p].size
  BY <1>1, VisibleSet
<1>3. \A r \in Stored : r \in Seq(Segments) /\ r # <<>>
  BY PathsTyped, BrowserAssumption DEF Stored
<1> HIDE DEF a, p, dat, at
<1>4. Front(p) = a
  BY <1>1, <1>2, <1>3, FrontIs
<1>5. \A r \in Stored : Front(r) = Front(p) => Matches(a, FALSE, r)
  BY <1>3, <1>4, FrontIs, PrefixMatches
<1>6. /\ p \in Stored
      /\ at.filter # All =>
           /\ Accepts(at.filter, p)
           /\ LargestFileOnly[at.filter] =>
                \A q \in Stored :
                  Front(q) = Front(p) /\ SameItem(p, q) /\ Accepts(at.filter, q)
                    => table[q].size <= table[p].size
  BY <1>1, <1>2, <1>5
<1> QED
  BY <1>6 DEF at, p

\* A client finds nothing that its mount does not show (filter.go:75-125).
THEOREM OnlyKept == Spec => OnlyKeptFound
<1> DEFINE Kept(url) ==
             LET at == Resolve(url)
                 p == at.prefix
             IN /\ p \in Stored
                /\ at.filter # All =>
                     /\ Accepts(at.filter, p)
                     /\ LargestFileOnly[at.filter] =>
                          \A q \in Stored :
                            Front(q) = Front(p) /\ SameItem(p, q) /\ Accepts(at.filter, q)
                              => table[q].size <= table[p].size
           Bound(dir, url) == IsPrefix(dir, url) /\ Plain(Resolve(url).prefix) => Kept(url)
           AllKept == \A dir \in pending \ pending', url \in found' \ found : Bound(dir, url)
<1>1. ASSUME WalkInv, NEW seen \in pending, List(seen),
             NEW dir \in pending \ pending', NEW url \in found' \ found,
             IsPrefix(dir, url), Plain(Resolve(url).prefix)
      PROVE  Kept(url)
  <2>1. dir = seen
    BY <1>1 DEF List
  <2>2. PICK e \in Entries(door, seen) : e.kind = "file" /\ e.href = url
    BY <1>1 DEF List
  <2>3. Sized /\ door \in Doors /\ seen \in Seq(Segments)
    BY <1>1 DEF WalkInv
  <2> QED
    BY <1>1, <2>1, <2>2, <2>3, KeptIn
<1> HIDE DEF Kept
<1>2. WalkInv /\ [Next]_vars => AllKept
  <2> SUFFICES ASSUME WalkInv, [Next]_vars, NEW dir \in pending \ pending', NEW url \in found' \ found,
                      IsPrefix(dir, url), Plain(Resolve(url).prefix)
               PROVE  Kept(url)
    OBVIOUS
  <2>1. PICK seen \in pending : List(seen)
    BY DEF Next, vars, UpsertFile, Prune, Edit, HandleHead, HandleGet
  <2> QED
    BY <1>1, <2>1
<1>3. Spec => [][AllKept]_vars
  <2> HIDE DEF AllKept
  <2> QED
    BY <1>2, WalkCorrect, PTL DEF Spec
<1> QED
  BY <1>3, PTL DEF OnlyKeptFound, Kept
=============================================================================
