----------------------- MODULE RuntimeServices_proofs -----------------------
(***************************************************************************)
(* For any number of requests for a level, levels, lines and faults: the   *)
(* log page shows the last lines, newest first, also across crashes, and   *)
(* the level on disk is the one the process runs with.  The invariant      *)
(* follows the inodes: as long as requests do not overlap, one of them at  *)
(* most holds the temp file; as long as nothing fails, torn content has a  *)
(* writer that is still to complete it.                                    *)
(***************************************************************************)
EXTENDS RuntimeServices, Selection_proofs, FiniteSetTheorems, TLAPS

-----------------------------------------------------------------------------
\* The ring of LogRing, for every capacity and after any number of lines.  The invariant
\* says where in the ring the lines are, without a modulus.
\* The slots below pos hold the last pos lines, the others the ones before them.
RingInv ==
  /\ handled \in Seq(Line)
  /\ buf \in [0..Capacity - 1 -> Line \cup {NoLine}]
  /\ pos \in 0..Capacity - 1
  /\ full \in BOOLEAN
  /\ ~full => Len(handled) = pos
  /\ full => Len(handled) >= Capacity + pos
  /\ \A i \in 0..pos - 1 : buf[i] = handled[Len(handled) - pos + 1 + i]
  /\ full => \A i \in pos..Capacity - 1 :
               buf[i] = handled[Len(handled) - pos - Capacity + 1 + i]

\* The remainder of a number below twice the divisor.
LEMMA SmallMod ==
  ASSUME NEW c \in Nat \ {0}, NEW x \in 0..2 * c - 1
  PROVE  x % c = IF x < c THEN x ELSE x - c
<1>1. ASSUME NEW y \in 0..c - 1
      PROVE  y % c = y
  BY <1>1, SMT
<1>2. (x - c) % c = x % c
  BY SMT
<1> QED
  BY <1>1, <1>2

\* A line handled keeps the shape of the ring, whether or not it goes to the last slot.
LEMMA HandleKeeps ==
  ASSUME RingInv, NEW line \in Line, Handle(line)
  PROVE  RingInv'
<1> DEFINE n == Len(handled)
<1>1. /\ handled' \in Seq(Line) /\ Len(handled') = n + 1 /\ handled'[n + 1] = line
      /\ \A i \in 1..n : handled'[i] = handled[i]
      /\ n \in Nat
  BY DEF RingInv, Handle
<1>2. pos' = IF pos + 1 < Capacity THEN pos + 1 ELSE 0
  <2> DEFINE x == pos + 1
  <2>1. Capacity \in Nat \ {0} /\ x \in 0..2 * Capacity - 1 /\ x <= Capacity
    BY RingAssumption DEF RingInv
  <2>2. pos' = x % Capacity
    BY DEF Handle
  <2> HIDE DEF x
  <2>3. x % Capacity = IF x < Capacity THEN x ELSE x - Capacity
    BY <2>1, SmallMod
  <2>4. x % Capacity = IF x < Capacity THEN x ELSE 0
    BY <2>1, <2>3
  <2> QED
    BY <2>2, <2>4, Zenon DEF x
<1>3. /\ buf' \in [0..Capacity - 1 -> Line \cup {NoLine}]
      /\ buf'[pos] = line
      /\ \A i \in 0..Capacity - 1 : i # pos => buf'[i] = buf[i]
  BY DEF RingInv, Handle
<1>4. CASE pos + 1 < Capacity
  <2>1. pos' = pos + 1 /\ full' = full
    BY <1>2, <1>4 DEF RingInv, Handle
  <2>2. ASSUME NEW i \in 0..pos' - 1
        PROVE  buf'[i] = handled'[Len(handled') - pos' + 1 + i]
    <3>1. CASE i = pos
      <4>1. Len(handled') - pos' + 1 + i = n + 1
        BY <3>1, <2>1, <1>1 DEF RingInv
      <4> QED
        BY <4>1, <3>1, <1>1, <1>3
    <3>2. CASE i # pos
      <4>1. i \in 0..pos - 1 /\ i \in 0..Capacity - 1 /\ n - pos + 1 + i \in 1..n
        BY <3>2, <2>1, <1>1, RingAssumption DEF RingInv
      <4>2. handled'[n - pos + 1 + i] = handled[n - pos + 1 + i]
        BY <4>1, <1>1
      <4>3. Len(handled') - pos' + 1 + i = n - pos + 1 + i
        BY <2>1, <1>1 DEF RingInv
      <4>4. buf'[i] = buf[i]
        BY <4>1, <3>2, <1>3
      <4>5. buf[i] = handled[n - pos + 1 + i]
        BY <4>1 DEF RingInv
      <4> QED
        BY <4>2, <4>3, <4>4, <4>5
    <3> QED
      BY <3>1, <3>2
  <2>3. ASSUME full', NEW i \in pos'..Capacity - 1
        PROVE  buf'[i] = handled'[Len(handled') - pos' - Capacity + 1 + i]
    <3>1. i \in pos..Capacity - 1 /\ i # pos /\ n - pos - Capacity + 1 + i \in 1..n
      BY <2>1, <2>3, RingAssumption DEF RingInv
    <3>2. handled'[n - pos - Capacity + 1 + i] = handled[n - pos - Capacity + 1 + i]
      BY <3>1, <1>1
    <3>3. Len(handled') - pos' - Capacity + 1 + i = n - pos - Capacity + 1 + i
      BY <2>1, <1>1, RingAssumption DEF RingInv
    <3> QED
      BY <3>1, <3>2, <3>3, <2>1, <2>3, <1>3 DEF RingInv
  <2>4. /\ ~full' => n + 1 = pos'
        /\ full' => n + 1 >= Capacity + pos'
    BY <2>1, <1>1, RingAssumption DEF RingInv
  <2>5. pos' \in 0..Capacity - 1 /\ full' \in BOOLEAN
    BY <2>1, <1>4, RingAssumption DEF RingInv
  <2>6. (~full' => Len(handled') = pos') /\ (full' => Len(handled') >= Capacity + pos')
    BY <2>4, <1>1
  <2> QED
    BY <2>2, <2>3, <2>5, <2>6, <1>1, <1>3, Zenon DEF RingInv
<1>5. CASE ~(pos + 1 < Capacity)
  <2>1. pos' = 0 /\ full' = TRUE /\ pos = Capacity - 1
    BY <1>2, <1>5, RingAssumption DEF RingInv, Handle
  <2>2. n >= pos
    BY RingAssumption, <1>1 DEF RingInv
  <2>3. ASSUME NEW i \in pos'..Capacity - 1
        PROVE  buf'[i] = handled'[Len(handled') - pos' - Capacity + 1 + i]
    <3>1. CASE i = pos
      <4>1. Len(handled') - pos' - Capacity + 1 + i = n + 1
        BY <3>1, <2>1, <1>1, RingAssumption
      <4> QED
        BY <4>1, <3>1, <1>1, <1>3
    <3>2. CASE i # pos
      <4>1. i \in 0..pos - 1 /\ n - pos + 1 + i \in 1..n
        BY <3>2, <2>1, <2>2, RingAssumption DEF RingInv
      <4>2. handled'[n - pos + 1 + i] = handled[n - pos + 1 + i]
        BY <4>1, <1>1
      <4>3. Len(handled') - pos' - Capacity + 1 + i = n - pos + 1 + i
        BY <2>1, <1>1, RingAssumption
      <4> QED
        BY <4>1, <4>2, <4>3, <3>2, <1>3 DEF RingInv
    <3> QED
      BY <3>1, <3>2
  <2>4. pos' \in 0..Capacity - 1 /\ Len(handled') >= Capacity + pos'
    BY <2>1, <2>2, <1>1, RingAssumption
  <2>5. \A i \in 0..pos' - 1 : FALSE
    BY <2>1
  <2>6. full' \in BOOLEAN /\ full'
    BY <2>1
  <2> QED
    BY <2>3, <2>4, <2>5, <2>6, <1>1, <1>3, Zenon DEF RingInv
<1> QED
  BY <1>4, <1>5

\* An empty ring has the shape.
LEMMA RingStarts == RingInit => RingInv
<1> SUFFICES ASSUME RingInit PROVE RingInv
  OBVIOUS
<1>1. handled \in Seq(Line) /\ Len(handled) = 0 /\ pos = 0 /\ full = FALSE
  BY DEF RingInit
<1>2. buf \in [0..Capacity - 1 -> Line \cup {NoLine}]
  BY DEF RingInit
<1>3. pos \in 0..Capacity - 1 /\ full \in BOOLEAN /\ ~full /\ Len(handled) = pos
  <2>1. 0 \in 0..Capacity - 1
    BY RingAssumption
  <2> QED
    BY <2>1, <1>1
<1>4. \A i \in 0..pos - 1 : buf[i] = handled[Len(handled) - pos + 1 + i]
  <2>1. \A i \in 0..pos - 1 : FALSE
    BY <1>1
  <2> QED
    BY <2>1
<1> QED
  BY <1>1, <1>2, <1>3, <1>4, Zenon DEF RingInv

\* RingSpec keeps the shape of the ring.
THEOREM RingCorrect == RingSpec => []RingInv
<1>1. RingInit => RingInv
  BY RingStarts
<1>2. RingInv /\ [RingNext]_ringVars => RingInv'
  <2>1. ASSUME RingInv, RingNext PROVE RingInv'
    BY <2>1, HandleKeeps DEF RingNext
  <2>2. ASSUME RingInv, UNCHANGED ringVars PROVE RingInv'
    BY <2>2 DEF RingInv, ringVars
  <2> QED
    BY <2>1, <2>2
<1> QED
  BY <1>1, <1>2, PTL DEF RingSpec

\* In a ring of that shape Lines is what the page promises.
LEMMA LinesAreNewest ==
  ASSUME RingInv
  PROVE  NewestFirst
<1> SUFFICES ASSUME NEW n \in 0..Capacity + 1
             PROVE  Lines(n) = Newest(n)
  BY DEF NewestFirst
<1> DEFINE k == AtMost(Wanted(n), Len(handled))
<1>1. Wanted(n) \in 1..Capacity
  BY RingAssumption DEF Wanted
<1>2. AtMost(Wanted(n), IF full THEN Capacity ELSE pos) = k
  BY <1>1, RingAssumption DEF RingInv, AtMost
<1>3. k \in 0..Capacity /\ k <= Len(handled) /\ (~full => k <= pos)
  BY <1>1, RingAssumption DEF RingInv, AtMost
<1>4. ASSUME NEW i \in 1..k
      PROVE  buf[(pos - i + Capacity) % Capacity] = handled[Len(handled) + 1 - i]
  <2> HIDE DEF k
  <2>1. CASE i <= pos
    <3>1. (pos - i + Capacity) % Capacity = pos - i
      <4> DEFINE x == pos - i + Capacity
      <4>1. Capacity \in Nat \ {0} /\ x \in 0..2 * Capacity - 1 /\ ~(x < Capacity)
        BY <2>1, <1>3, RingAssumption DEF RingInv
      <4>2. x - Capacity = pos - i
        BY RingAssumption DEF RingInv
      <4> HIDE DEF x
      <4>3. x % Capacity = x - Capacity
        BY <4>1, SmallMod
      <4> QED
        BY <4>2, <4>3 DEF x
    <3> QED
      BY <3>1, <2>1, <1>3, RingAssumption DEF RingInv
  <2>2. CASE i > pos
    <3>1. (pos - i + Capacity) % Capacity = pos - i + Capacity
      <4>1. pos - i + Capacity \in 0..2 * Capacity - 1 /\ pos - i + Capacity < Capacity
        BY <2>2, <1>3, RingAssumption DEF RingInv
      <4> QED
        BY <4>1, SmallMod, RingAssumption
    <3>2. full
      BY <2>2, <1>3, RingAssumption DEF RingInv
    <3> QED
      BY <3>1, <3>2, <2>2, <1>3, RingAssumption DEF RingInv
  <2> QED
    BY <2>1, <2>2, <1>3 DEF RingInv
<1> QED
  BY <1>2, <1>4 DEF Lines, Newest

\* The last lines, the newest first, for every capacity of the ring.
THEOREM NewestShown == RingSpec => []NewestFirst
  BY RingCorrect, LinesAreNewest, PTL

-----------------------------------------------------------------------------

Stages == {"idle", "open", "write", "rename", "remove", "set"}
SetRequest == [pc : Stages, new : Level \cup {None}, fd : Inodes \cup {None}]

SetterOK(s) ==
  /\ setter[s].pc = "idle" <=> setter[s] = Idle
  /\ setter[s].pc # "idle" => setter[s].new \in Level
  /\ setter[s].pc = "write" <=> setter[s].fd # None

Shape ==
  /\ {running, overlapped, faulted} \subseteq BOOLEAN
  /\ level \in Level
  /\ file.config \in Inodes /\ file.tmp \in Inodes \cup {None} /\ file.config # file.tmp
  /\ file = [config |-> file.config, tmp |-> file.tmp]
  /\ data \in [Inodes -> Level \cup {Torn}]
  /\ setter \in [Setters -> SetRequest] /\ \A s \in Setters : SetterOK(s)
  /\ ~running => AtRest

\* What the config holds.
Stored == data[file.config]

\* Requests that do not overlap: the one under way writes the temp file, and renames what
\* it has written.
InOrder ==
  ~overlapped =>
    /\ \A s, t \in Setters : setter[s].pc # "idle" /\ setter[t].pc # "idle" => s = t
    /\ Stored # Torn
    /\ \A s \in Setters : setter[s].pc = "set" => Stored = setter[s].new
    /\ running /\ (\A s \in Setters : setter[s].pc # "set") => Stored = level
    /\ \A s \in Setters : setter[s].pc = "write" => setter[s].fd = file.tmp
    /\ \A s \in Setters : setter[s].pc = "rename" =>
         file.tmp # None /\ data[file.tmp] = setter[s].new

\* As long as nothing has failed, an inode is torn only under a request that writes to it,
\* or when it was left behind by an earlier process and nobody has written since.
NoTear ==
  ~faulted =>
    /\ Stored = Torn => \E s \in Setters : setter[s].fd = file.config
    /\ file.tmp # None /\ data[file.tmp] = Torn =>
         \/ \E s \in Setters : setter[s].fd = file.tmp
         \/ \A s \in Setters : setter[s].pc \notin {"write", "rename"}

LevelInv == Shape /\ InOrder /\ NoTear

\* Another request than s keeps its record.
LEMMA OneSetter ==
  ASSUME setter \in [Setters -> SetRequest], NEW s \in Setters, NEW r \in SetRequest,
         setter' = [setter EXCEPT ![s] = r]
  PROVE  /\ setter' \in [Setters -> SetRequest] /\ setter'[s] = r
         /\ \A t \in Setters : t # s => setter'[t] = setter[t]
  OBVIOUS

\* A setter between requests has no file open.
LEMMA IdleRequest ==
  Idle \in SetRequest /\ Idle.pc = "idle" /\ Idle.fd = None
  BY DEF Idle, SetRequest, Stages

\* An inode that no name and no request refers to exists: there are two more than
\* requests, and the one that opens has none.
LEMMA FreshInode ==
  ASSUME Shape, file.tmp = None
  PROVE  (CHOOSE i \in Inodes : i \notin Referenced) \in Inodes \ Referenced
<1> DEFINE T == {setter[s].fd : s \in Setters}
           g == [s \in Setters |-> setter[s].fd]
           n == Cardinality(Setters)
<1>1. IsFiniteSet(Setters) /\ n \in Nat /\ None \notin Nat
  BY ServicesAssumption, FS_CardinalityType
<1>2. IsFiniteSet(T) /\ Cardinality(T) <= n /\ Cardinality(T) \in Nat
  <2>1. g \in Surjection(Setters, T)
    BY DEF Surjection
  <2> HIDE DEF g, T
  <2>2. IsFiniteSet(T) /\ Cardinality(T) <= n
    BY <1>1, <2>1, FS_Surjection
  <2> QED
    BY <2>2, FS_CardinalityType
<1> HIDE DEF T, g
<1>3. /\ IsFiniteSet(T \cup {file.config})
      /\ Cardinality(T \cup {file.config}) \in Nat /\ Cardinality(T \cup {file.config}) <= n + 1
  <2>1. /\ IsFiniteSet(T \cup {file.config})
        /\ Cardinality(T \cup {file.config}) =
             IF file.config \in T THEN Cardinality(T) ELSE Cardinality(T) + 1
    BY <1>2, FS_AddElement
  <2> QED
    BY <1>1, <1>2, <2>1
<1>4. Cardinality(Inodes) = n + 2
  BY <1>1, FS_Interval DEF Inodes
<1>5. ~(Inodes \subseteq T \cup {file.config})
  <2>1. SUFFICES ASSUME Inodes \subseteq T \cup {file.config} PROVE FALSE
    OBVIOUS
  <2>2. Cardinality(Inodes) <= Cardinality(T \cup {file.config})
    BY <1>3, <2>1, FS_Subset
  <2> QED
    BY <1>1, <1>3, <1>4, <2>2
<1>6. None \notin Inodes
  BY <1>1 DEF Inodes
<1>7. \E i \in Inodes : i \notin Referenced
  BY <1>5, <1>6 DEF T, Referenced
<1> QED
  BY <1>7

\* What a request refers to; no name refers to None.
LEMMA NoneIsNoInode ==
  None \notin Inodes /\ Torn \notin Level
<1>1. Cardinality(Setters) \in Nat
  BY ServicesAssumption, FS_CardinalityType
<1> QED
  BY <1>1, ServicesAssumption DEF Inodes

\* A request replaces its record, which holds no inode before and after; the files stay,
\* but a fault may be noted.
LEMMA RequestMoves ==
  ASSUME LevelInv, NEW s \in Setters, NEW r \in SetRequest, setter' = [setter EXCEPT ![s] = r],
         r.pc \notin {"write", "rename"}, r.fd = None, setter[s].pc # "write",
         r.pc = "idle" <=> r = Idle, r.pc # "idle" => r.new \in Level,
         UNCHANGED <<file, data, running>>, running,
         faulted' \in BOOLEAN, faulted => faulted',
         {overlapped'} \subseteq BOOLEAN, overlapped => overlapped', level' \in Level,
         ~overlapped' =>
           /\ \A t \in Setters : t # s => setter[t].pc = "idle"
           /\ r.pc = "set" => Stored = r.new
           /\ r.pc # "set" => Stored = level'
  PROVE  LevelInv'
<1> USE DEF LevelInv
<1>1. /\ setter' \in [Setters -> SetRequest] /\ setter'[s] = r
      /\ \A t \in Setters : t # s => setter'[t] = setter[t]
  BY OneSetter DEF Shape
<1>2. ASSUME NEW t \in Setters PROVE SetterOK(t)'
  <2>1. CASE t = s
    BY <1>1, <2>1 DEF SetterOK, Idle
  <2>2. CASE t # s
    BY <1>1, <2>2 DEF SetterOK, Idle, Shape
  <2> QED
    BY <2>1, <2>2
<1>3. Shape'
  BY <1>1, <1>2 DEF Shape
<1>4. InOrder'
  <2> SUFFICES ASSUME ~overlapped' PROVE InOrder'
    BY DEF InOrder
  <2>1. \A t \in Setters : t # s => setter'[t].pc = "idle"
    BY <1>1
  <2>2. Stored' = Stored /\ Stored # Torn
    BY DEF InOrder, Stored
  <2> QED
    BY <1>1, <2>1, <2>2 DEF InOrder
<1>5. NoTear'
  <2>1. \A t \in Setters : setter[t].fd # None => t # s /\ setter'[t] = setter[t]
    BY <1>1 DEF Shape, SetterOK
  <2>2. file.config # None
    BY NoneIsNoInode DEF Shape
  <2>3. ASSUME ~faulted, Stored = Torn
        PROVE  \E t \in Setters : setter'[t].fd = file.config
    BY <2>1, <2>2, <2>3 DEF NoTear
  <2>4. ASSUME ~faulted, file.tmp # None, data[file.tmp] = Torn
        PROVE  \/ \E t \in Setters : setter'[t].fd = file.tmp
               \/ \A t \in Setters : setter'[t].pc \notin {"write", "rename"}
    <3>1. CASE \E t \in Setters : setter[t].fd = file.tmp
      BY <2>1, <2>4, <3>1
    <3>2. CASE \A t \in Setters : setter[t].pc \notin {"write", "rename"}
      BY <1>1, <3>2
    <3> QED
      BY <2>4, <3>1, <3>2 DEF NoTear
  <2> QED
    BY <2>3, <2>4 DEF NoTear, Stored
<1> QED
  BY <1>3, <1>4, <1>5

\* A handler that loads the configuration has written nothing yet.
LEMMA ReadKeeps ==
  ASSUME LevelInv, NEW s \in Setters, NEW l \in Level, ReadConfig(s, l)
  PROVE  LevelInv'
<1> DEFINE r == [pc |-> IF Stored = l THEN "set" ELSE "open", new |-> l, fd |-> None]
<1>1. /\ setter[s] = Idle /\ setter[s].pc = "idle" /\ running /\ running' = running
      /\ overlapped' = (overlapped \/ ~AtRest) /\ UNCHANGED <<file, data, faulted>>
  BY IdleRequest DEF ReadConfig, Event
<1>2. {overlapped'} \subseteq BOOLEAN /\ level \in Level /\ faulted' \in BOOLEAN
  BY <1>1 DEF LevelInv, Shape
<1>3. ~overlapped' => /\ \A t \in Setters : setter[t].pc = "idle"
                      /\ Stored = level /\ Stored # Torn
  BY <1>1 DEF LevelInv, InOrder, AtRest, Idle
<1>4. CASE Stored = Torn
  <2>1. setter' = [setter EXCEPT ![s] = Idle] /\ level' = level
    BY <1>4 DEF ReadConfig, PersistFails, Stored
  <2> QED
    BY <1>1, <1>2, <1>3, <1>4, <2>1, IdleRequest, RequestMoves
<1>5. CASE Stored # Torn
  <2>1. setter' = [setter EXCEPT ![s] = r] /\ level' = level
    BY <1>5 DEF ReadConfig, Stored
  <2>2. /\ r \in SetRequest /\ r.pc \in {"set", "open"} /\ r.new = l /\ r.fd = None
        /\ r.pc = "set" <=> Stored = l
    BY DEF SetRequest, Stages
  <2> HIDE DEF r
  <2>3. r # Idle
    BY <2>2, IdleRequest
  <2> QED
    BY <1>1, <1>2, <1>3, <2>1, <2>2, <2>3, RequestMoves
<1> QED
  BY <1>4, <1>5

\* The level is set after the file was renamed, or when it needs no change.
LEMMA SetKeeps ==
  ASSUME LevelInv, NEW s \in Setters, SetLevel(s)
  PROVE  LevelInv'
<1>1. /\ running /\ setter[s].pc = "set" /\ level' = setter[s].new
      /\ setter' = [setter EXCEPT ![s] = Idle]
      /\ UNCHANGED <<file, data, overlapped, faulted, running>>
  BY DEF SetLevel
<1>2. {overlapped'} \subseteq BOOLEAN /\ level' \in Level /\ faulted' \in BOOLEAN
  BY <1>1 DEF LevelInv, Shape, SetterOK
<1>3. ~overlapped' => /\ \A t \in Setters : t # s => setter[t].pc = "idle"
                      /\ Stored = level'
  BY <1>1 DEF LevelInv, InOrder
<1> QED
  BY <1>1, <1>2, <1>3, IdleRequest, RequestMoves

\* Opening the temporary file creates an inode or empties the one of that name.
LEMMA OpenKeeps ==
  ASSUME LevelInv, NEW s \in Setters, OpenTmp(s)
  PROVE  LevelInv'
<1> USE DEF LevelInv
<1> DEFINE inode == IF file.tmp # None THEN file.tmp
                    ELSE CHOOSE i \in Inodes : i \notin Referenced
<1>1. /\ file' = [file EXCEPT !.tmp = inode]
      /\ data' = [data EXCEPT ![inode] = Torn]
      /\ setter' = [setter EXCEPT ![s].pc = "write", ![s].fd = inode]
  BY DEF OpenTmp
<1>2. running /\ setter[s].pc = "open" /\ UNCHANGED <<level, overlapped, faulted, running>>
  BY DEF OpenTmp
<1>3. inode \in Inodes /\ inode # file.config /\ inode # None
  <2>1. CASE file.tmp # None
    BY <2>1 DEF Shape
  <2>2. CASE file.tmp = None
    BY <2>2, FreshInode, NoneIsNoInode DEF Referenced
  <2> QED
    BY <2>1, <2>2
<1> HIDE DEF inode
<1>4. /\ file'.config = file.config /\ file'.tmp = inode
      /\ file' = [config |-> file'.config, tmp |-> file'.tmp]
      /\ data' \in [Inodes -> Level \cup {Torn}] /\ data'[inode] = Torn
      /\ data'[file.config] = data[file.config]
  BY <1>1, <1>3 DEF Shape
<1> DEFINE r == [setter[s] EXCEPT !.pc = "write", !.fd = inode]
<1>5. r \in SetRequest /\ r.pc = "write" /\ r.fd = inode /\ r.new = setter[s].new
  BY <1>3 DEF Shape, SetRequest, Stages
<1>6. setter' = [setter EXCEPT ![s] = r]
  BY <1>1 DEF Shape
<1> HIDE DEF r
<1>7. /\ setter' \in [Setters -> SetRequest] /\ setter'[s] = r
      /\ \A t \in Setters : t # s => setter'[t] = setter[t]
  BY <1>5, <1>6, OneSetter DEF Shape
<1>8. ASSUME NEW t \in Setters PROVE SetterOK(t)'
  <2>1. CASE t = s
    BY <1>2, <1>3, <1>5, <1>7, <2>1, IdleRequest DEF SetterOK, Shape, Idle
  <2>2. CASE t # s
    BY <1>7, <2>2 DEF SetterOK, Idle, Shape
  <2> QED
    BY <2>1, <2>2
<1>9. Shape'
  BY <1>2, <1>3, <1>4, <1>7, <1>8 DEF Shape
<1>10. InOrder'
  <2> SUFFICES ASSUME ~overlapped' PROVE InOrder'
    BY DEF InOrder
  <2>1. \A t \in Setters : t # s => setter'[t].pc = "idle"
    BY <1>2, <1>7 DEF InOrder
  <2>2. Stored' = Stored /\ Stored # Torn /\ Stored = level
    BY <1>2, <1>4, <2>1, <1>7 DEF InOrder, Stored
  <2> QED
    BY <1>2, <1>4, <1>5, <1>7, <2>1, <2>2 DEF InOrder
<1>11. NoTear'
  <2>1. setter'[s].fd = file'.tmp
    BY <1>4, <1>5, <1>7
  <2>2. ASSUME NEW t \in Setters, setter[t].fd = file.config
        PROVE  setter'[t].fd = file'.config
    <3>1. t # s
      BY <1>2, <2>2, NoneIsNoInode DEF Shape, SetterOK
    <3> QED
      BY <1>4, <1>7, <2>2, <3>1
  <2> QED
    BY <1>2, <1>4, <2>1, <2>2 DEF NoTear, Stored
<1> QED
  BY <1>9, <1>10, <1>11

\* A write fills the inode the handler opened.
LEMMA WriteKeeps ==
  ASSUME LevelInv, NEW s \in Setters, WriteTmp(s)
  PROVE  LevelInv'
<1> USE DEF LevelInv
<1> DEFINE inode == setter[s].fd
           new == setter[s].new
           r == [setter[s] EXCEPT !.pc = "rename", !.fd = None]
<1>1. /\ running /\ setter[s].pc = "write" /\ data' = [data EXCEPT ![inode] = new]
      /\ setter' = [setter EXCEPT ![s].pc = "rename", ![s].fd = None]
      /\ UNCHANGED <<level, file, overlapped, faulted, running>>
  BY DEF WriteTmp
<1>2. inode \in Inodes /\ new \in Level
  BY <1>1 DEF Shape, SetterOK, SetRequest
<1>3. /\ data' \in [Inodes -> Level \cup {Torn}] /\ data'[inode] = new /\ new # Torn
      /\ \A i \in Inodes : i # inode => data'[i] = data[i]
  BY <1>1, <1>2, NoneIsNoInode DEF Shape
<1>4. r \in SetRequest /\ r.pc = "rename" /\ r.fd = None /\ r.new = new
  BY DEF Shape, SetRequest, Stages
<1>5. setter' = [setter EXCEPT ![s] = r]
  BY <1>1 DEF Shape
<1> HIDE DEF r
<1>6. /\ setter' \in [Setters -> SetRequest] /\ setter'[s] = r
      /\ \A t \in Setters : t # s => setter'[t] = setter[t]
  BY <1>4, <1>5, OneSetter DEF Shape
<1>7. ASSUME NEW t \in Setters PROVE SetterOK(t)'
  <2>1. CASE t = s
    BY <1>2, <1>4, <1>6, <2>1, IdleRequest DEF SetterOK, Idle
  <2>2. CASE t # s
    BY <1>6, <2>2 DEF SetterOK, Idle, Shape
  <2> QED
    BY <2>1, <2>2
<1>8. Shape'
  BY <1>1, <1>3, <1>6, <1>7 DEF Shape
<1>9. InOrder'
  <2> SUFFICES ASSUME ~overlapped' PROVE InOrder'
    BY DEF InOrder
  <2>1. \A t \in Setters : t # s => setter'[t].pc = "idle"
    BY <1>1, <1>6 DEF InOrder
  <2>2. inode = file.tmp /\ inode # file.config
    BY <1>1 DEF InOrder, Shape
  <2>3. Stored' = Stored /\ Stored # Torn /\ Stored = level
    BY <1>1, <1>3, <1>6, <2>1, <2>2 DEF InOrder, Stored, Shape
  <2>4. file.tmp # None
    BY <1>2, <2>2, NoneIsNoInode
  <2> QED
    BY <1>1, <1>3, <1>4, <1>6, <2>1, <2>2, <2>3, <2>4 DEF InOrder
<1>10. NoTear'
  <2>1. ASSUME NEW i \in Inodes, data'[i] = Torn, NEW t \in Setters, setter[t].fd = i
        PROVE  setter'[t].fd = i
    <3>1. t # s
      BY <1>3, <2>1
    <3> QED
      BY <1>6, <2>1, <3>1
  <2>2. \A i \in Inodes : data'[i] = Torn => data[i] = Torn
    BY <1>3
  <2>3. ASSUME ~faulted, Stored' = Torn
        PROVE  \E t \in Setters : setter'[t].fd = file.config
    <3>1. file.config \in Inodes /\ data'[file.config] = Torn
      BY <1>1, <2>3 DEF Shape, Stored
    <3> QED
      BY <2>1, <2>2, <2>3, <3>1 DEF NoTear, Stored
  <2>4. ASSUME ~faulted, file.tmp # None, data'[file.tmp] = Torn
        PROVE  \E t \in Setters : setter'[t].fd = file.tmp
    <3>1. file.tmp \in Inodes /\ data[file.tmp] = Torn
      BY <2>2, <2>4 DEF Shape
    <3>2. PICK t \in Setters : setter[t].fd = file.tmp
      BY <1>1, <2>4, <3>1 DEF NoTear
    <3> QED
      BY <2>1, <2>4, <3>1, <3>2
  <2> QED
    BY <1>1, <2>3, <2>4 DEF NoTear
<1> QED
  BY <1>8, <1>9, <1>10

\* A request that gives up: the files stay, but for the name of the temp file; only the
\* removal of that name needs no fault.
LEMMA FaultKeeps ==
  ASSUME LevelInv, NEW s \in Setters, setter' = [setter EXCEPT ![s] = Idle],
         running, setter[s].pc \in {"open", "write", "remove"},
         file' \in {file, [file EXCEPT !.tmp = None]},
         faulted' \/ (setter[s].pc = "remove" /\ file' = [file EXCEPT !.tmp = None]),
         faulted' \in BOOLEAN, faulted => faulted', UNCHANGED <<level, data, overlapped, running>>
  PROVE  LevelInv'
<1> USE DEF LevelInv
<1>1. /\ setter' \in [Setters -> SetRequest] /\ setter'[s] = Idle
      /\ \A t \in Setters : t # s => setter'[t] = setter[t]
  BY OneSetter, IdleRequest DEF Shape
<1>2. /\ file'.config = file.config /\ file'.tmp \in {file.tmp, None}
      /\ file' = [config |-> file'.config, tmp |-> file'.tmp]
  BY DEF Shape
<1>3. ASSUME NEW t \in Setters PROVE SetterOK(t)'
  <2>1. CASE t = s
    BY <1>1, <2>1, IdleRequest DEF SetterOK, Idle
  <2>2. CASE t # s
    BY <1>1, <2>2 DEF SetterOK, Idle, Shape
  <2> QED
    BY <2>1, <2>2
<1>4. Shape'
  <2>1. file'.config # file'.tmp
    BY <1>2, NoneIsNoInode DEF Shape
  <2> QED
    BY <1>1, <1>2, <1>3, <2>1 DEF Shape
<1>5. InOrder'
  <2> SUFFICES ASSUME ~overlapped' PROVE InOrder'
    BY DEF InOrder
  <2>1. \A t \in Setters : setter'[t].pc = "idle"
    BY <1>1, IdleRequest DEF InOrder
  <2>2. Stored' = Stored /\ Stored # Torn
    BY <1>2 DEF InOrder, Stored
  <2>3. Stored = level
    <3>1. \A t \in Setters : setter[t].pc # "set"
      BY DEF InOrder
    <3> QED
      BY <3>1 DEF InOrder
  <2> QED
    BY <2>1, <2>2, <2>3 DEF InOrder
<1>6. NoTear'
  <2> SUFFICES ASSUME ~faulted' PROVE NoTear'
    BY DEF NoTear
  <2>1. \A t \in Setters : setter[t].fd # None => t # s /\ setter'[t] = setter[t]
    BY <1>1 DEF Shape, SetterOK
  <2>2. file.config # None
    BY NoneIsNoInode DEF Shape
  <2>3. Stored = Torn => \E t \in Setters : setter'[t].fd = file.config
    BY <2>1, <2>2 DEF NoTear
  <2>4. file'.tmp = None /\ file'.config = file.config /\ ~faulted
    BY <1>2 DEF Shape
  <2> QED
    BY <2>3, <2>4 DEF NoTear, Stored
<1> QED
  BY <1>4, <1>5, <1>6

\* A rename moves the temporary file over the configuration.
LEMMA RenameKeeps ==
  ASSUME LevelInv, NEW s \in Setters, RenameTmp(s)
  PROVE  LevelInv'
<1> USE DEF LevelInv
<1> DEFINE r == [setter[s] EXCEPT !.pc = "set"]
<1>1. /\ running /\ setter[s].pc = "rename" /\ file.tmp # None
      /\ file' = [config |-> file.tmp, tmp |-> None]
      /\ setter' = [setter EXCEPT ![s].pc = "set"]
      /\ UNCHANGED <<level, data, overlapped, faulted, running>>
  BY DEF RenameTmp, Goto
<1>2. r \in SetRequest /\ r.pc = "set" /\ r.fd = setter[s].fd /\ r.new = setter[s].new
  BY DEF Shape, SetRequest, Stages
<1>3. setter' = [setter EXCEPT ![s] = r]
  BY <1>1 DEF Shape
<1> HIDE DEF r
<1>4. /\ setter' \in [Setters -> SetRequest] /\ setter'[s] = r
      /\ \A t \in Setters : t # s => setter'[t] = setter[t]
  BY <1>2, <1>3, OneSetter DEF Shape
<1>5. ASSUME NEW t \in Setters PROVE SetterOK(t)'
  <2>1. CASE t = s
    BY <1>1, <1>2, <1>4, <2>1, IdleRequest DEF SetterOK, Shape
  <2>2. CASE t # s
    BY <1>4, <2>2 DEF SetterOK, Idle, Shape
  <2> QED
    BY <2>1, <2>2
<1>6. Shape'
  BY <1>1, <1>4, <1>5, NoneIsNoInode DEF Shape
<1>7. Stored' = data[file.tmp]
  BY <1>1 DEF Stored
<1>8. InOrder'
  <2> SUFFICES ASSUME ~overlapped' PROVE InOrder'
    BY DEF InOrder
  <2>1. \A t \in Setters : t # s => setter'[t].pc = "idle"
    BY <1>1, <1>4 DEF InOrder
  <2>2. Stored' = r.new /\ r.new \in Level
    BY <1>1, <1>2, <1>7 DEF InOrder, Shape, SetterOK
  <2> QED
    BY <1>2, <1>4, <2>1, <2>2, NoneIsNoInode DEF InOrder
<1>9. NoTear'
  <2> SUFFICES ASSUME ~faulted', Stored' = Torn
               PROVE  \E t \in Setters : setter'[t].fd = file'.config
    BY <1>1 DEF NoTear
  <2>1. PICK t \in Setters : setter[t].fd = file.tmp
    BY <1>1, <1>7 DEF NoTear
  <2>2. setter'[t].fd = setter[t].fd
    BY <1>2, <1>4
  <2> QED
    BY <1>1, <2>1, <2>2
<1> QED
  BY <1>6, <1>8, <1>9

\* A failed rename changes no file.
LEMMA RenameFailsKeeps ==
  ASSUME LevelInv, NEW s \in Setters, RenameFails(s)
  PROVE  LevelInv'
<1> USE DEF LevelInv
<1> DEFINE r == [setter[s] EXCEPT !.pc = "remove"]
<1>1. /\ running /\ setter[s].pc = "rename"
      /\ setter' = [setter EXCEPT ![s].pc = "remove"]
      /\ UNCHANGED <<level, file, data, overlapped, running>>
  BY DEF RenameFails, Goto
<1>2. faulted' \in BOOLEAN /\ (faulted => faulted')
  <2>1. faulted \in BOOLEAN
    BY DEF Shape
  <2>2. faulted' = faulted \/ faulted' = TRUE
    BY DEF RenameFails
  <2> QED
    BY <2>1, <2>2, Zenon
<1>3. /\ r \in SetRequest /\ r.pc = "remove" /\ r.new = setter[s].new
      /\ r.fd = None /\ r.new \in Level
  BY <1>1 DEF Shape, SetterOK, SetRequest, Stages
<1>4. setter' = [setter EXCEPT ![s] = r]
  BY <1>1 DEF Shape
<1>5. r # Idle
  BY <1>3, IdleRequest
<1> HIDE DEF r
<1>6. ~overlapped' => /\ \A t \in Setters : t # s => setter[t].pc = "idle"
                      /\ Stored = level'
  BY <1>1 DEF InOrder
<1>7. {overlapped'} \subseteq BOOLEAN /\ level' \in Level /\ (overlapped => overlapped')
  BY <1>1 DEF Shape
<1> QED
  BY <1>1, <1>2, <1>3, <1>4, <1>5, <1>6, <1>7, RequestMoves

\* A handler that gives up leaves the configuration and the level alone.
LEMMA FailuresKeep ==
  ASSUME LevelInv, NEW s \in Setters, WriteFails(s) \/ RemoveTmp(s)
  PROVE  LevelInv'
<1>1. /\ setter' = [setter EXCEPT ![s] = Idle] /\ UNCHANGED <<level, data, overlapped, running>>
      /\ running
  BY DEF WriteFails, RemoveTmp, PersistFails, Event
<1>2. CASE WriteFails(s)
  <2>1. setter[s].pc \in {"open", "write"} /\ faulted' /\ file' = file
    BY <1>2 DEF WriteFails
  <2>2. faulted' \in BOOLEAN
    BY <1>2 DEF WriteFails
  <2> QED
    BY <1>1, <2>1, <2>2, FaultKeeps
<1>3. CASE RemoveTmp(s)
  <2>1. /\ setter[s].pc = "remove" /\ file' \in {file, [file EXCEPT !.tmp = None]}
        /\ faulted' \/ file' = [file EXCEPT !.tmp = None]
    BY <1>3 DEF RemoveTmp
  <2>2. faulted' \in BOOLEAN /\ (faulted => faulted')
    <3>1. faulted \in BOOLEAN
      BY DEF LevelInv, Shape
    <3>2. faulted' = faulted \/ faulted' = TRUE
      BY <1>3 DEF RemoveTmp
    <3> QED
      BY <3>1, <3>2, Zenon
  <2> QED
    BY <1>1, <2>1, <2>2, FaultKeeps
<1> QED
  BY <1>2, <1>3

\* An idle setter satisfies what is said of each setter.
LEMMA NobodyWrites ==
  ASSUME NEW s \in Setters, setter[s] = Idle
  PROVE  setter[s].pc = "idle" /\ setter[s].fd = None /\ SetterOK(s)
  BY IdleRequest DEF SetterOK

\* The process dies; the files are what they were.
LEMMA CrashKeeps ==
  ASSUME LevelInv, Crash
  PROVE  LevelInv'
<1> USE DEF LevelInv
<1>1. /\ running' = FALSE /\ faulted' = TRUE /\ setter' = [s \in Setters |-> Idle]
      /\ UNCHANGED <<level, file, data, overlapped>>
  BY DEF Crash
<1>2. \A s \in Setters : setter'[s] = Idle /\ setter'[s].pc = "idle" /\ setter'[s].fd = None
  BY <1>1, IdleRequest
<1>3. Shape'
  BY <1>1, <1>2, IdleRequest DEF Shape, SetterOK, AtRest
<1>4. InOrder'
  BY <1>1, <1>2 DEF InOrder, Stored
<1>5. NoTear'
  BY <1>1 DEF NoTear
<1> QED
  BY <1>3, <1>4, <1>5

\* A start reads the level from the configuration.
LEMMA RestartKeeps ==
  ASSUME LevelInv, Restart
  PROVE  LevelInv'
<1> USE DEF LevelInv
<1>1. /\ Stored # Torn /\ level' = Stored /\ ~running /\ running' = TRUE
      /\ overlapped' = FALSE /\ faulted' = FALSE /\ UNCHANGED <<file, data, setter>>
  BY DEF Restart, Stored
<1>2. \A s \in Setters : setter'[s].pc = "idle" /\ setter'[s].fd = None
  BY <1>1, IdleRequest DEF Shape, AtRest
<1>3. Shape'
  BY <1>1 DEF Shape, SetterOK, Stored
<1>4. InOrder' /\ NoTear'
  BY <1>1, <1>2 DEF InOrder, NoTear, Stored
<1> QED
  BY <1>3, <1>4

\* A restart empties the ring.
LEMMA RingStartsAgain == RingInit' => RingInv'
  BY RingStarts, PTL

\* A line reaches the ring or not.
LEMMA RecordKeeps ==
  ASSUME RingInv, NEW l \in Level, NEW at, Record(l, at)
  PROVE  RingInv'
<1>1. CASE Handle(l)
  BY <1>1, HandleKeeps, ServicesAssumption
<1>2. CASE UNCHANGED ringVars
  BY <1>2 DEF RingInv, ringVars
<1> QED
  BY <1>1, <1>2 DEF Record

ServicesInv == RingInv /\ LevelInv

\* A step that leaves the level and its files alone.
LEMMA LevelStays ==
  ASSUME LevelInv, UNCHANGED <<levelVars, running>>
  PROVE  LevelInv'
  BY DEF LevelInv, levelVars, Shape, SetterOK, AtRest, InOrder, NoTear, Stored

\* A step that writes no line keeps the ring.
LEMMA RingStays ==
  ASSUME RingInv, UNCHANGED ringVars
  PROVE  RingInv'
  BY DEF RingInv, ringVars

\* Every step keeps the ring and the level files as the invariant says.
LEMMA ServicesKeep == ServicesInv /\ [Next]_vars => ServicesInv'
<1> SUFFICES ASSUME ServicesInv, [Next]_vars PROVE ServicesInv'
  OBVIOUS
<1> USE DEF ServicesInv
<1>1. ASSUME NEW l \in Level, Log(l) PROVE ServicesInv'
  BY <1>1, HandleKeeps, LevelStays, ServicesAssumption DEF Log
<1>2. ASSUME NEW s \in Setters, NEW l \in Level, ReadConfig(s, l) PROVE ServicesInv'
  <2>1. UNCHANGED ringVars \/ Record(Error, level)
    BY <1>2 DEF ReadConfig, PersistFails
  <2> QED
    BY <1>2, <2>1, ReadKeeps, RecordKeeps, RingStays, ServicesAssumption
<1>3. ASSUME NEW s \in Setters, OpenTmp(s) PROVE ServicesInv'
  BY <1>3, OpenKeeps, RingStays DEF OpenTmp
<1>4. ASSUME NEW s \in Setters, WriteTmp(s) PROVE ServicesInv'
  BY <1>4, WriteKeeps, RingStays DEF WriteTmp
<1>5. ASSUME NEW s \in Setters, WriteFails(s) \/ RemoveTmp(s) PROVE ServicesInv'
  <2>1. Record(Error, level)
    BY <1>5 DEF WriteFails, RemoveTmp, PersistFails
  <2> QED
    BY <1>5, <2>1, FailuresKeep, RecordKeeps, ServicesAssumption
<1>6. ASSUME NEW s \in Setters, RenameTmp(s) \/ RenameFails(s) PROVE ServicesInv'
  BY <1>6, RenameKeeps, RenameFailsKeeps, RingStays DEF RenameTmp, RenameFails
<1>7. ASSUME NEW s \in Setters, SetLevel(s) PROVE ServicesInv'
  <2>1. Record(Info, level')
    BY <1>7 DEF SetLevel
  <2> QED
    BY <1>7, <2>1, SetKeeps, RecordKeeps, ServicesAssumption
<1>8. ASSUME \/ \E m \in Metrics : Count(m)
             \/ RecordStats \/ InsertStats \/ InsertFails
      PROVE  ServicesInv'
  <2>1. UNCHANGED <<ringVars, levelVars, running>>
    BY <1>8 DEF Count, RecordStats, InsertStats, InsertFails
  <2> QED
    BY <2>1, LevelStays, RingStays
<1>9. CASE Crash
  <2>1. RingInit'
    BY <1>9 DEF Crash, RingInit
  <2>2. RingInv'
    BY <2>1, RingStartsAgain
  <2> QED
    BY <1>9, <2>1, <2>2, CrashKeeps
<1>10. CASE Restart
  BY <1>10, RestartKeeps, RingStays DEF Restart
<1>11. CASE UNCHANGED vars
  BY <1>11, LevelStays, RingStays DEF vars
<1> QED
  BY <1>1, <1>2, <1>3, <1>4, <1>5, <1>6, <1>7, <1>8, <1>9, <1>10, <1>11 DEF Next

\* The first start establishes the invariant.
LEMMA ServicesStart == Init => ServicesInv
<1> SUFFICES ASSUME Init PROVE ServicesInv
  OBVIOUS
<1>1. RingInv
  BY RingStarts DEF Init
<1>2. 1 \in Inodes
  <2>1. Cardinality(Setters) \in Nat
    BY ServicesAssumption, FS_CardinalityType
  <2> QED
    BY <2>1 DEF Inodes
<1>3. /\ running = TRUE /\ level \in Level /\ file = [config |-> 1, tmp |-> None]
      /\ data \in [Inodes -> Level \cup {Torn}] /\ data[1] = level
      /\ overlapped = FALSE /\ faulted = FALSE
      /\ setter \in [Setters -> SetRequest] /\ \A s \in Setters : setter[s] = Idle
  BY <1>2, IdleRequest DEF Init
<1>4. Shape
  BY <1>2, <1>3, NobodyWrites, NoneIsNoInode DEF Shape
<1>5. InOrder /\ NoTear
  BY <1>3, NobodyWrites, NoneIsNoInode DEF InOrder, NoTear, Stored
<1> QED
  BY <1>1, <1>4, <1>5 DEF ServicesInv, LevelInv

\* The invariant behind the two properties: the ring of logrus entries and the level files of PATCH /config/log-level.
THEOREM ServicesCorrect == Spec => []ServicesInv
  BY ServicesStart, ServicesKeep, PTL DEF Spec

\* The log page, with the level deciding what is a line and crashes that empty the ring.
THEOREM LogShown == Spec => []NewestFirst
<1>1. ServicesInv => NewestFirst
  BY LinesAreNewest DEF ServicesInv
<1> QED
  BY <1>1, ServicesCorrect, PTL

\* The level on disk and the one in use agree, and the config can be loaded, but for
\* requests that overlap.
THEOREM LevelOnDisk == Spec => []LevelPersisted
<1>1. ServicesInv => LevelPersisted
  <2> SUFFICES ASSUME LevelInv PROVE LevelPersisted
    BY DEF ServicesInv
  <2>1. AtRest => \A s \in Setters : setter[s].pc = "idle" /\ setter[s].fd = None
    BY IdleRequest DEF AtRest
  <2>2. running /\ AtRest /\ ~overlapped => Stored = level
    BY <2>1 DEF LevelInv, InOrder
  <2>3. Stored = Torn => overlapped
    BY DEF LevelInv, InOrder
  <2>4. Stored = Torn /\ AtRest => faulted
    BY <2>1, NoneIsNoInode DEF LevelInv, NoTear, Shape
  <2> QED
    BY <2>2, <2>3, <2>4 DEF LevelPersisted, Stored
<1> QED
  BY <1>1, ServicesCorrect, PTL

-----------------------------------------------------------------------------
Growth == [Metrics -> Nat]

\* The sum over rows is that of a recursion along them.
SumsTo(rs, m, sum) ==
  /\ sum[0] = 0
  /\ \A n \in 1..Len(rs) : sum[n] = sum[n - 1] + rs[n][m]

\* The sum of a metric is the last of the partial sums.
LEMMA SumLoop ==
  ASSUME NEW rs \in Seq(Growth), NEW m \in Metrics
  PROVE  \E sum \in [0..Len(rs) -> Nat] : SumsTo(rs, m, sum) /\ Sum(rs)[m] = sum[Len(rs)]
<1> DEFINE n == Len(rs)
           first == 0
           next == [x \in (1..n) \X Nat |-> x[2] + rs[x[1]][m]]
           Sums(f) == f = [k \in 0..n |-> IF k = 0 THEN 0 ELSE f[k - 1] + rs[k][m]]
<1>1. n \in Nat /\ \A k \in 1..n : rs[k][m] \in Nat
  BY DEF Growth
<1>2. first \in Nat
  OBVIOUS
<1>3. next \in [(1..n) \X Nat -> Nat]
  <2>1. ASSUME NEW x \in (1..n) \X Nat PROVE x[2] + rs[x[1]][m] \in Nat
    <3>1. x[1] \in 1..n /\ x[2] \in Nat
      OBVIOUS
    <3>2. rs[x[1]][m] \in Nat
      BY <1>1, <3>1
    <3> QED
      BY <3>1, <3>2
  <2> QED
    BY <2>1
<1>4. PICK f \in [0..n -> Nat] : Solves(f, n, first, next)
  <2>1. n \in Nat
    BY <1>1
  <2> HIDE DEF n, first, next
  <2> QED
    BY <2>1, <1>2, <1>3, Recursion, Zenon
<1>5. f[0] = 0
  BY <1>4 DEF Solves
<1>6. ASSUME NEW k \in 1..n PROVE f[k] = f[k - 1] + rs[k][m]
  <2>1. k - 1 \in 0..n
    BY <1>1
  <2>2. <<k, f[k - 1]>> \in (1..n) \X Nat
    BY <1>4, <2>1
  <2>3. f[k] = next[<<k, f[k - 1]>>]
    BY <1>4 DEF Solves
  <2> QED
    BY <2>2, <2>3
<1>7. Sums(f)
  <2>1. ASSUME NEW k \in 0..n PROVE f[k] = IF k = 0 THEN 0 ELSE f[k - 1] + rs[k][m]
    <3>1. k = 0 \/ k \in 1..n
      BY <1>1
    <3> QED
      BY <1>5, <1>6, <3>1
  <2>2. f = [k \in 0..n |-> f[k]]
    BY Zenon
  <2> HIDE DEF n
  <2> QED
    BY <2>1, <2>2
<1> DEFINE sum == CHOOSE g : Sums(g)
<1>8. Sums(sum)
  <2> HIDE DEF Sums
  <2> QED
    BY <1>7
<1>9. Sum(rs)[m] = sum[n]
  BY DEF Sum
<1> HIDE DEF sum
<1>10. SumsTo(rs, m, sum)
  <2>1. sum[0] = 0
    BY <1>1, <1>8
  <2>2. ASSUME NEW k \in 1..n PROVE sum[k] = sum[k - 1] + rs[k][m]
    <3>1. k \in 0..n /\ k # 0
      BY <1>1
    <3> QED
      BY <1>8, <3>1
  <2> QED
    BY <2>1, <2>2 DEF SumsTo
<1> DEFINE P == {k \in 0..n : sum[k] \in Nat}
<1>11. \A k \in 0..n : k \in P
  <2>1. 0 \in P
    BY <1>1, <1>10 DEF SumsTo
  <2>2. ASSUME NEW k \in 0..(n - 1), k \in P PROVE k + 1 \in P
    <3>1. k + 1 \in 1..n /\ k + 1 \in 0..n /\ (k + 1) - 1 = k
      BY <1>1
    <3>2. sum[k + 1] = sum[k] + rs[k + 1][m] /\ rs[k + 1][m] \in Nat
      BY <1>1, <1>10, <3>1 DEF SumsTo
    <3> QED
      BY <2>2, <3>1, <3>2
  <2>3. n \in Nat
    BY <1>1
  <2> HIDE DEF P, n
  <2> QED
    BY <2>1, <2>2, <2>3, UpTo
<1>12. sum \in [0..n -> Nat]
  <2>1. sum = [k \in 0..n |-> sum[k]]
    BY <1>8
  <2>2. \A k \in 0..n : sum[k] \in Nat
    BY <1>11
  <2> HIDE DEF n
  <2> QED
    BY <2>1, <2>2
<1> QED
  BY <1>9, <1>10, <1>12

\* Each sum is a number.
LEMMA SumType ==
  ASSUME NEW rs \in Seq(Growth)
  PROVE  Sum(rs) \in [Metrics -> Nat]
<1>1. ASSUME NEW m \in Metrics PROVE Sum(rs)[m] \in Nat
  <2>1. PICK sum \in [0..Len(rs) -> Nat] : SumsTo(rs, m, sum) /\ Sum(rs)[m] = sum[Len(rs)]
    BY SumLoop
  <2>2. Len(rs) \in 0..Len(rs)
    OBVIOUS
  <2> QED
    BY <2>1, <2>2
<1>2. Sum(rs) = [m \in Metrics |-> Sum(rs)[m]]
  BY DEF Sum
<1> QED
  BY <1>1, <1>2

\* A sequence is summed in two parts: the rows up to k, and those after.
LEMMA SumSplit ==
  ASSUME NEW rs \in Seq(Growth), NEW k \in 0..Len(rs), NEW m \in Metrics
  PROVE  Sum(rs)[m] = Sum(SubSeq(rs, 1, k))[m] + Sum(SubSeq(rs, k + 1, Len(rs)))[m]
<1> DEFINE n == Len(rs)
           old == SubSeq(rs, 1, k)
           new == SubSeq(rs, k + 1, n)
<1>1. n \in Nat /\ k \in Nat /\ k <= n
  OBVIOUS
<1>2. old \in Seq(Growth) /\ Len(old) = k /\ \A i \in 1..k : old[i] = rs[i]
  BY <1>1
<1>3. new \in Seq(Growth) /\ Len(new) = n - k /\ \A i \in 1..(n - k) : new[i] = rs[k + i]
  BY <1>1
<1> HIDE DEF old, new
<1>4. PICK all \in [0..n -> Nat] : SumsTo(rs, m, all) /\ Sum(rs)[m] = all[n]
  BY SumLoop
<1>5. PICK a \in [0..k -> Nat] : SumsTo(old, m, a) /\ Sum(old)[m] = a[k]
  BY <1>2, SumLoop
<1>6. PICK b \in [0..Len(new) -> Nat] : SumsTo(new, m, b) /\ Sum(new)[m] = b[Len(new)]
  BY <1>3, SumLoop
<1>7. b \in [0..(n - k) -> Nat] /\ SumsTo(new, m, b) /\ Sum(new)[m] = b[n - k]
  BY <1>3, <1>6
<1> HIDE DEF n
<1> DEFINE P == {i \in 0..k : all[i] = a[i]}
           Q == {i \in 0..(n - k) : all[k + i] = a[k] + b[i]}
<1>8. \A i \in 0..k : i \in P
  <2>1. 0 \in P
    BY <1>1, <1>4, <1>5 DEF SumsTo
  <2>2. ASSUME NEW i \in 0..(k - 1), i \in P PROVE i + 1 \in P
    <3>1. i + 1 \in 1..k /\ i + 1 \in 1..n /\ i + 1 \in 0..k /\ (i + 1) - 1 = i
      BY <1>1
    <3>2. all[i + 1] = all[i] + rs[i + 1][m]
      BY <1>4, <3>1 DEF SumsTo, n
    <3>3. a[i + 1] = a[i] + rs[i + 1][m]
      BY <1>2, <1>5, <3>1 DEF SumsTo
    <3> QED
      BY <2>2, <3>1, <3>2, <3>3
  <2> HIDE DEF P
  <2> QED
    BY <1>1, <2>1, <2>2, UpTo
<1>9. \A i \in 0..(n - k) : i \in Q
  <2>0. n - k \in Nat
    BY <1>1
  <2>1. 0 \in Q
    <3>1. all[k] = a[k] /\ a[k] \in Nat /\ b[0] = 0 /\ 0 \in 0..(n - k) /\ k + 0 = k
      BY <1>1, <1>5, <1>7, <1>8 DEF SumsTo
    <3> QED
      BY <3>1
  <2>2. ASSUME NEW i \in 0..(n - k - 1), i \in Q PROVE i + 1 \in Q
    <3>1. /\ i + 1 \in 1..(n - k) /\ i + 1 \in 0..(n - k) /\ (i + 1) - 1 = i /\ i \in 0..(n - k)
          /\ k + (i + 1) \in 1..n /\ (k + (i + 1)) - 1 = k + i /\ k \in 0..k /\ i + 1 \in Nat
      BY <1>1
    <3>2. all[k + (i + 1)] = all[k + i] + rs[k + (i + 1)][m]
      BY <1>4, <3>1 DEF SumsTo, n
    <3>3. b[i + 1] = b[i] + rs[k + (i + 1)][m]
      BY <1>3, <1>7, <3>1 DEF SumsTo
    <3>4. a[k] \in Nat /\ b[i] \in Nat /\ rs[k + (i + 1)][m] \in Nat
      <4>1. rs[k + (i + 1)] \in Growth
        BY <3>1 DEF n
      <4> QED
        BY <1>5, <1>7, <3>1, <4>1 DEF Growth
    <3>5. all[k + i] = a[k] + b[i]
      BY <2>2
    <3>6. all[k + (i + 1)] = a[k] + b[i + 1]
      BY <3>2, <3>3, <3>4, <3>5
    <3> QED
      BY <3>1, <3>6
  <2> DEFINE h == n - k
  <2>3. \A i \in 0..(h - 1) : i \in Q => i + 1 \in Q
    BY <2>2
  <2>4. h \in Nat
    BY <2>0
  <2> HIDE DEF Q, h
  <2>5. \A i \in 0..h : i \in Q
    BY <2>1, <2>3, <2>4, UpTo
  <2> QED
    BY <2>5 DEF h
<1>10. n - k \in 0..(n - k) /\ k + (n - k) = n
  BY <1>1
<1>11. all[n] = a[k] + b[n - k]
  BY <1>9, <1>10
<1> QED
  BY <1>4, <1>5, <1>7, <1>11 DEF old, new, n

\* A row appended adds what it has, and no rows have no sum.
LEMMA SumAppend ==
  ASSUME NEW rs \in Seq(Growth), NEW r \in Growth, NEW m \in Metrics
  PROVE  Sum(Append(rs, r))[m] = Sum(rs)[m] + r[m]
<1> DEFINE more == Append(rs, r)
           n == Len(rs)
<1>1. /\ n \in Nat /\ more \in Seq(Growth) /\ Len(more) = n + 1 /\ more[n + 1] = r
      /\ \A i \in 1..n : more[i] = rs[i]
  OBVIOUS
<1> HIDE DEF more
<1>2. PICK a \in [0..n -> Nat] : SumsTo(rs, m, a) /\ Sum(rs)[m] = a[n]
  BY SumLoop
<1>3. PICK b \in [0..(n + 1) -> Nat] : SumsTo(more, m, b) /\ Sum(more)[m] = b[n + 1]
  BY <1>1, SumLoop
<1> DEFINE P == {i \in 0..n : a[i] = b[i]}
<1>4. \A i \in 0..n : i \in P
  <2>1. 0 \in P
    BY <1>1, <1>2, <1>3 DEF SumsTo
  <2>2. ASSUME NEW i \in 0..(n - 1), i \in P PROVE i + 1 \in P
    <3>1. i + 1 \in 1..n /\ i + 1 \in 1..(n + 1) /\ i + 1 \in 0..n /\ (i + 1) - 1 = i
      BY <1>1
    <3>2. a[i + 1] = a[i] + rs[i + 1][m]
      BY <1>2, <3>1 DEF SumsTo
    <3>3. b[i + 1] = b[i] + rs[i + 1][m]
      BY <1>1, <1>3, <3>1 DEF SumsTo
    <3> QED
      BY <2>2, <3>1, <3>2, <3>3
  <2>3. n \in Nat
    BY <1>1
  <2> HIDE DEF P, n
  <2> QED
    BY <2>1, <2>2, <2>3, UpTo
<1>5. n + 1 \in 1..(n + 1) /\ (n + 1) - 1 = n /\ n \in 0..n
  BY <1>1
<1>6. b[n + 1] = b[n] + r[m]
  BY <1>1, <1>3, <1>5 DEF SumsTo
<1>7. b[n] = a[n]
  BY <1>4, <1>5
<1> QED
  BY <1>2, <1>3, <1>6, <1>7 DEF more

\* No rows sum to nothing.
LEMMA SumNone == \A m \in Metrics : Sum(<<>>)[m] = 0
<1> SUFFICES ASSUME NEW m \in Metrics PROVE Sum(<<>>)[m] = 0
  OBVIOUS
<1> DEFINE rs == <<>>
<1>1. rs \in Seq(Growth) /\ Len(rs) = 0
  OBVIOUS
<1> HIDE DEF rs
<1>2. PICK sum \in [0..Len(rs) -> Nat] : SumsTo(rs, m, sum) /\ Sum(rs)[m] = sum[Len(rs)]
  BY <1>1, SumLoop
<1> QED
  BY <1>1, <1>2 DEF SumsTo, rs

-----------------------------------------------------------------------------
\* The counters only grow past their baselines, and what is written is a growth.
CountersTyped ==
  /\ counted \in Growth /\ baseline \in Growth /\ \A m \in Metrics : baseline[m] <= counted[m]
  /\ pending \in Growth \cup {None} /\ rows \in Seq(Growth)
  /\ total \in Growth /\ pruned \in Growth /\ missing \in Growth

PendingOf(m) == IF pending = None THEN 0 ELSE pending[m]

\* Where the events of a counter are.
Accounted(m) ==
  total[m] = Sum(rows)[m] + pruned[m] + missing[m] + (counted[m] - baseline[m]) + PendingOf(m)

StatsInv == CountersTyped /\ \A m \in Metrics : Accounted(m)

\* Where each metric is accounted for and the counters have their types, so are the events.
LEMMA StatsInvAccounts == StatsInv => StatsAccounted
<1> SUFFICES ASSUME StatsInv PROVE StatsAccounted
  OBVIOUS
<1>1. ASSUME NEW i \in DOMAIN rows, NEW m \in Metrics PROVE rows[i][m] >= 0
  <2>1. rows[i] \in Growth
    BY DEF StatsInv, CountersTyped
  <2> QED
    BY <2>1 DEF Growth
<1> QED
  BY <1>1 DEF StatsInv, Accounted, PendingOf, StatsAccounted

\* A sum or a difference of counters is a counter.
LEMMA GrowthPlus ==
  ASSUME NEW f \in Growth, NEW g \in Growth
  PROVE  /\ Plus(f, g) \in Growth /\ \A m \in Metrics : Plus(f, g)[m] = f[m] + g[m]
         /\ (\A m \in Metrics : g[m] <= f[m]) =>
              /\ Minus(f, g) \in Growth
              /\ \A m \in Metrics : Minus(f, g)[m] = f[m] - g[m]
<1>1. \A m \in Metrics : f[m] \in Nat /\ g[m] \in Nat
  BY DEF Growth
<1>2. \A m \in Metrics : f[m] + g[m] \in Nat /\ (g[m] <= f[m] => f[m] - g[m] \in Nat)
  BY <1>1
<1> QED
  BY <1>2 DEF Plus, Minus, Growth

\* The mark of no snapshot is no snapshot, and a snapshot of nothing is one.
LEMMA NoneIsNoGrowth == None \notin Growth /\ Zero \in Growth /\ \A m \in Metrics : Zero[m] = 0
  BY ServicesAssumption DEF Growth, Zero

\* Steps that leave the charts alone.
LEMMA StatsStay ==
  ASSUME StatsInv, UNCHANGED statVars
  PROVE  StatsInv'
  BY DEF StatsInv, CountersTyped, Accounted, PendingOf, statVars

\* An event counted is since the last interval.
LEMMA CountAccounts ==
  ASSUME StatsInv, NEW c \in Metrics, Count(c)
  PROVE  StatsInv'
<1>1. /\ counted' = [counted EXCEPT ![c] = @ + 1] /\ total' = [total EXCEPT ![c] = @ + 1]
      /\ UNCHANGED <<baseline, pending, rows, pruned, missing>>
  BY DEF Count
<1>2. CountersTyped
  BY DEF StatsInv
<1>3. /\ \A m \in Metrics : counted[m] \in Nat /\ total[m] \in Nat /\ baseline[m] \in Nat
      /\ counted' \in Growth /\ total' \in Growth
      /\ \A m \in Metrics : \E d \in {0, 1} : counted'[m] = counted[m] + d /\ total'[m] = total[m] + d
  <2>1. \A m \in Metrics : counted[m] \in Nat /\ total[m] \in Nat /\ baseline[m] \in Nat
    BY <1>2 DEF CountersTyped, Growth
  <2>2. counted' \in Growth /\ total' \in Growth
    BY <1>1, <1>2 DEF CountersTyped, Growth
  <2>3. ASSUME NEW m \in Metrics
        PROVE  \E d \in {0, 1} : counted'[m] = counted[m] + d /\ total'[m] = total[m] + d
    <3>1. CASE m = c
      <4>1. counted'[m] = counted[m] + 1 /\ total'[m] = total[m] + 1
        BY <1>1, <1>2, <3>1 DEF CountersTyped, Growth
      <4> QED
        BY <4>1
    <3>2. CASE m # c
      <4>1. counted'[m] = counted[m] /\ total'[m] = total[m]
        BY <1>1, <1>2, <3>2 DEF CountersTyped, Growth
      <4>2. counted'[m] = counted[m] + 0 /\ total'[m] = total[m] + 0
        BY <2>1, <4>1
      <4> QED
        BY <4>2
    <3> QED
      BY <3>1, <3>2
  <2> QED
    BY <2>1, <2>2, <2>3
<1>4. CountersTyped'
  BY <1>1, <1>2, <1>3 DEF CountersTyped
<1>5. ASSUME NEW m \in Metrics PROVE Accounted(m)'
  <2>1. PICK d \in {0, 1} : counted'[m] = counted[m] + d /\ total'[m] = total[m] + d
    BY <1>3
  <2>2. Accounted(m) /\ PendingOf(m)' = PendingOf(m)
    BY <1>1 DEF StatsInv, PendingOf
  <2>3. /\ counted[m] \in Nat /\ baseline[m] \in Nat /\ total[m] \in Nat /\ pruned[m] \in Nat
        /\ missing[m] \in Nat /\ Sum(rows)[m] \in Nat /\ PendingOf(m) \in Nat
    BY <1>2, SumType DEF CountersTyped, Growth, PendingOf
  <2> QED
    BY <1>1, <2>1, <2>2, <2>3 DEF Accounted
<1> QED
  BY <1>4, <1>5 DEF StatsInv

\* What has been counted becomes the growth to write.
LEMMA RecordAccounts ==
  ASSUME StatsInv, RecordStats
  PROVE  StatsInv'
<1>1. /\ pending = None /\ pending' = Minus(counted, baseline) /\ baseline' = counted
      /\ UNCHANGED <<counted, rows, total, pruned, missing>>
  BY DEF RecordStats
<1>2. CountersTyped
  BY DEF StatsInv
<1>3. pending' \in Growth /\ \A m \in Metrics : pending'[m] = counted[m] - baseline[m]
  BY <1>1, <1>2, GrowthPlus DEF CountersTyped
<1>4. CountersTyped'
  <2>1. \A m \in Metrics : counted[m] <= counted[m]
    BY <1>2 DEF CountersTyped, Growth
  <2> QED
    BY <1>1, <1>2, <1>3, <2>1 DEF CountersTyped
<1>5. ASSUME NEW m \in Metrics PROVE Accounted(m)'
  <2>1. PendingOf(m) = 0 /\ PendingOf(m)' = counted[m] - baseline[m]
    BY <1>1, <1>3, NoneIsNoGrowth DEF PendingOf
  <2>2. /\ counted[m] \in Nat /\ baseline[m] \in Nat /\ total[m] \in Nat /\ pruned[m] \in Nat
        /\ missing[m] \in Nat /\ Sum(rows)[m] \in Nat
    BY <1>2, SumType DEF CountersTyped, Growth
  <2>3. Accounted(m)
    BY DEF StatsInv
  <2> QED
    BY <1>1, <2>1, <2>2, <2>3 DEF Accounted
<1> QED
  BY <1>4, <1>5 DEF StatsInv

\* Pruning moves what old rows hold to what is pruned.
LEMMA PruneMoves ==
  ASSUME CountersTyped, NEW rs \in Seq(Growth), PruneStats(rs)
  PROVE  /\ rows' \in Seq(Growth) /\ pruned' \in Growth
         /\ \A m \in Metrics : Sum(rows')[m] + pruned'[m] = Sum(rs)[m] + pruned[m]
<1>1. PICK k \in 0..Len(rs) : /\ rows' = SubSeq(rs, k + 1, Len(rs))
                              /\ pruned' = Plus(pruned, Sum(SubSeq(rs, 1, k)))
  BY DEF PruneStats
<1>2. SubSeq(rs, k + 1, Len(rs)) \in Seq(Growth) /\ SubSeq(rs, 1, k) \in Seq(Growth)
  OBVIOUS
<1>3. Sum(SubSeq(rs, 1, k)) \in Growth /\ Sum(SubSeq(rs, k + 1, Len(rs))) \in Growth
  BY <1>2, SumType DEF Growth
<1>4. pruned \in Growth
  BY DEF CountersTyped
<1>5. pruned' \in Growth /\ \A m \in Metrics : pruned'[m] = pruned[m] + Sum(SubSeq(rs, 1, k))[m]
  BY <1>1, <1>3, <1>4, GrowthPlus
<1>6. ASSUME NEW m \in Metrics
      PROVE  Sum(rows')[m] + pruned'[m] = Sum(rs)[m] + pruned[m]
  <2> DEFINE a == Sum(SubSeq(rs, 1, k))[m]
             b == Sum(SubSeq(rs, k + 1, Len(rs)))[m]
  <2>1. a \in Nat /\ b \in Nat /\ pruned[m] \in Nat
    BY <1>3, <1>4 DEF Growth
  <2>2. Sum(rs)[m] = a + b
    BY SumSplit
  <2>3. Sum(rows')[m] = b /\ pruned'[m] = pruned[m] + a
    BY <1>1, <1>5
  <2> HIDE DEF a, b
  <2> QED
    BY <2>1, <2>2, <2>3
<1> QED
  BY <1>1, <1>2, <1>5, <1>6

\* The growth becomes a row, or is lost with its transaction.
LEMMA InsertAccounts ==
  ASSUME StatsInv, InsertStats \/ InsertFails
  PROVE  StatsInv'
<1>1. CountersTyped /\ pending # None /\ pending' = None /\ UNCHANGED <<counted, baseline, total>>
  BY DEF StatsInv, InsertStats, InsertFails
<1>2. pending \in Growth /\ \A m \in Metrics : pending[m] \in Nat
  BY <1>1 DEF CountersTyped, Growth
<1>3. PICK rs \in Seq(Growth) :
        /\ PruneStats(rs) /\ missing' \in Growth
        /\ \A m \in Metrics : Sum(rs)[m] + missing'[m] = Sum(rows)[m] + missing[m] + pending[m]
  <2>1. rows \in Seq(Growth) /\ missing \in Growth
    BY <1>1 DEF CountersTyped
  <2>2. \A m \in Metrics : missing[m] \in Nat /\ Sum(rows)[m] \in Nat
    BY <2>1, SumType DEF Growth
  <2>3. CASE InsertStats
    <3>1. PruneStats(Append(rows, pending)) /\ missing' = missing
      BY <2>3 DEF InsertStats
    <3>2. Append(rows, pending) \in Seq(Growth)
      BY <1>2, <2>1
    <3>3. \A m \in Metrics : Sum(Append(rows, pending))[m] = Sum(rows)[m] + pending[m]
      BY <1>2, <2>1, SumAppend
    <3>4. \A m \in Metrics :
            Sum(Append(rows, pending))[m] + missing'[m] = Sum(rows)[m] + missing[m] + pending[m]
      BY <1>2, <2>2, <3>1, <3>3
    <3> QED
      BY <2>1, <3>1, <3>2, <3>4
  <2>4. CASE InsertFails
    <3>1. PruneStats(rows) /\ missing' = Plus(missing, pending)
      BY <2>4 DEF InsertFails
    <3>2. missing' \in Growth /\ \A m \in Metrics : missing'[m] = missing[m] + pending[m]
      BY <1>2, <2>1, <3>1, GrowthPlus
    <3>3. \A m \in Metrics : Sum(rows)[m] + missing'[m] = Sum(rows)[m] + missing[m] + pending[m]
      BY <1>2, <2>2, <3>2
    <3> QED
      BY <2>1, <3>1, <3>2, <3>3
  <2> QED
    BY <2>3, <2>4
<1>4. /\ rows' \in Seq(Growth) /\ pruned' \in Growth
      /\ \A m \in Metrics : Sum(rows')[m] + pruned'[m] = Sum(rs)[m] + pruned[m]
  BY <1>1, <1>3, PruneMoves
<1>5. CountersTyped'
  BY <1>1, <1>3, <1>4 DEF CountersTyped
<1>6. ASSUME NEW m \in Metrics PROVE Accounted(m)'
  <2>1. PendingOf(m) = pending[m] /\ PendingOf(m)' = 0 /\ Accounted(m)
    BY <1>1 DEF PendingOf, StatsInv
  <2>2. /\ counted[m] \in Nat /\ baseline[m] \in Nat /\ total[m] \in Nat /\ pruned[m] \in Nat
        /\ missing[m] \in Nat /\ pruned'[m] \in Nat /\ missing'[m] \in Nat /\ pending[m] \in Nat
    BY <1>1, <1>2, <1>3, <1>4 DEF CountersTyped, Growth
  <2>3. Sum(rows)[m] \in Nat /\ Sum(rows')[m] \in Nat /\ Sum(rs)[m] \in Nat
    BY <1>1, <1>4, SumType DEF CountersTyped
  <2>4. /\ Sum(rs)[m] + missing'[m] = Sum(rows)[m] + missing[m] + pending[m]
        /\ Sum(rows')[m] + pruned'[m] = Sum(rs)[m] + pruned[m]
    BY <1>3, <1>4
  <2>5. total[m] = Sum(rows)[m] + pruned[m] + missing[m] + (counted[m] - baseline[m]) + pending[m]
    BY <2>1 DEF Accounted
  <2> DEFINE old == Sum(rows)[m]
             new == Sum(rows')[m]
             all == Sum(rs)[m]
             lost == missing'[m]
             lostBefore == missing[m]
             gone == pruned'[m]
             goneBefore == pruned[m]
             since == counted[m] - baseline[m]
             grown == pending[m]
             ever == total[m]
  <2>6. /\ old \in Nat /\ new \in Nat /\ all \in Nat /\ lost \in Nat /\ gone \in Nat
        /\ lostBefore \in Nat /\ goneBefore \in Nat /\ grown \in Nat /\ ever \in Nat
    BY <2>2, <2>3, Zenon
  <2>7. since \in Int
    BY <2>2
  <2>8. all + lost = old + lostBefore + grown /\ new + gone = all + goneBefore
    BY <2>4, Zenon
  <2>9. ever = old + goneBefore + lostBefore + since + grown
    BY <2>5, Zenon
  <2> HIDE DEF old, new, all, lost, lostBefore, gone, goneBefore, since, grown, ever
  <2>10. ever = new + gone + lost + since + 0
    BY <2>6, <2>7, <2>8, <2>9
  <2> QED
    BY <1>1, <2>1, <2>10 DEF Accounted, ever, new, gone, lost, since
<1> QED
  BY <1>5, <1>6 DEF StatsInv

\* A crash loses what is counted and not written.
LEMMA CrashAccounts ==
  ASSUME StatsInv, Crash
  PROVE  StatsInv'
<1> DEFINE lost == IF pending = None THEN Zero ELSE pending
<1>1. /\ missing' = Plus(missing, Plus(Minus(counted, baseline), lost))
      /\ counted' = Zero /\ baseline' = Zero /\ pending' = None /\ UNCHANGED <<rows, total, pruned>>
  BY DEF Crash
<1>2. CountersTyped
  BY DEF StatsInv
<1>3. lost \in Growth /\ \A m \in Metrics : lost[m] = PendingOf(m)
  BY <1>2, NoneIsNoGrowth DEF CountersTyped, PendingOf
<1> HIDE DEF lost
<1>4. /\ Minus(counted, baseline) \in Growth
      /\ \A m \in Metrics : Minus(counted, baseline)[m] = counted[m] - baseline[m]
  BY <1>2, GrowthPlus DEF CountersTyped
<1>5. /\ Plus(Minus(counted, baseline), lost) \in Growth
      /\ \A m \in Metrics : Plus(Minus(counted, baseline), lost)[m] =
                              (counted[m] - baseline[m]) + PendingOf(m)
  BY <1>3, <1>4, GrowthPlus
<1>6. /\ missing' \in Growth
      /\ \A m \in Metrics : missing'[m] = missing[m] + ((counted[m] - baseline[m]) + PendingOf(m))
  BY <1>1, <1>2, <1>5, GrowthPlus DEF CountersTyped
<1>7. CountersTyped'
  <2>1. \A m \in Metrics : Zero[m] <= Zero[m]
    BY NoneIsNoGrowth
  <2> QED
    BY <1>1, <1>2, <1>6, <2>1, NoneIsNoGrowth DEF CountersTyped
<1>8. ASSUME NEW m \in Metrics PROVE Accounted(m)'
  <2>1. PendingOf(m)' = 0 /\ counted'[m] = 0 /\ baseline'[m] = 0
    BY <1>1, NoneIsNoGrowth DEF PendingOf
  <2>2. /\ counted[m] \in Nat /\ baseline[m] \in Nat /\ total[m] \in Nat /\ pruned[m] \in Nat
        /\ missing[m] \in Nat /\ Sum(rows)[m] \in Nat /\ PendingOf(m) \in Nat
    BY <1>2, <1>3, SumType DEF CountersTyped, Growth
  <2>3. Accounted(m) /\ missing'[m] = missing[m] + ((counted[m] - baseline[m]) + PendingOf(m))
    BY <1>6 DEF StatsInv
  <2> QED
    BY <1>1, <2>1, <2>2, <2>3 DEF Accounted
<1> QED
  BY <1>7, <1>8 DEF StatsInv

\* The accounts hold of every behaviour.
THEOREM StatsCorrect == Spec => []StatsInv
<1>1. Init => StatsInv
  <2> SUFFICES ASSUME Init PROVE StatsInv
    OBVIOUS
  <2>1. /\ counted = Zero /\ baseline = Zero /\ pending = None /\ rows = <<>>
        /\ total = Zero /\ pruned = Zero /\ missing = Zero
    BY DEF Init
  <2>2. CountersTyped
    BY <2>1, NoneIsNoGrowth DEF CountersTyped
  <2>3. ASSUME NEW m \in Metrics PROVE Accounted(m)
    BY <2>1, NoneIsNoGrowth, SumNone DEF Accounted, PendingOf
  <2> QED
    BY <2>2, <2>3 DEF StatsInv
<1>2. StatsInv /\ [Next]_vars => StatsInv'
  <2> SUFFICES ASSUME StatsInv, [Next]_vars PROVE StatsInv'
    OBVIOUS
  <2>1. ASSUME NEW l \in Level, Log(l) PROVE StatsInv'
    BY <2>1, StatsStay DEF Log
  <2>2. ASSUME NEW s \in Setters, NEW l \in Level, ReadConfig(s, l) PROVE StatsInv'
    BY <2>2, StatsStay DEF ReadConfig
  <2>3. ASSUME NEW s \in Setters, \/ OpenTmp(s) \/ WriteTmp(s) \/ WriteFails(s)
                                  \/ RenameTmp(s) \/ RenameFails(s) \/ RemoveTmp(s) \/ SetLevel(s)
        PROVE  StatsInv'
    BY <2>3, StatsStay DEF OpenTmp, WriteTmp, WriteFails, RenameTmp, RenameFails, RemoveTmp, SetLevel
  <2>4. ASSUME NEW m \in Metrics, Count(m) PROVE StatsInv'
    BY <2>4, CountAccounts
  <2>5. CASE RecordStats
    BY <2>5, RecordAccounts
  <2>6. CASE InsertStats \/ InsertFails
    BY <2>6, InsertAccounts
  <2>7. CASE Crash
    BY <2>7, CrashAccounts
  <2>8. CASE Restart \/ UNCHANGED vars
    BY <2>8, StatsStay DEF Restart, vars
  <2> QED
    BY <2>1, <2>2, <2>3, <2>4, <2>5, <2>6, <2>7, <2>8 DEF Next
<1> QED
  BY <1>1, <1>2, PTL DEF Spec

\* Every event counted is in exactly one place, across failed writes and crashes.
THEOREM EventsAccounted == Spec => []StatsAccounted
<1> QED
  BY StatsInvAccounts, StatsCorrect, PTL
=============================================================================
