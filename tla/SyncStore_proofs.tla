-------------------------- MODULE SyncStore_proofs --------------------------
(***************************************************************************)
(* For any number of syncs, clients, items and faults: a batch tag marks   *)
(* the rows of one sync, a clean sync leaves what it listed and prunes     *)
(* nothing else, and a listener of the hooks keeps up.  The invariant adds *)
(* to these what a sync knows of the others: two that write have different *)
(* tags, and one that is clean runs alone and has written, with its tag,   *)
(* every file it has crossed off its list.  What the listener knows is an  *)
(* invariant of its own: a sync that will report to it runs alone, on a    *)
(* snapshot of what it was told.                                           *)
(***************************************************************************)
EXTENDS SyncStore, TLAPS

Listings == {"torrents", "usenet"}
Stages == {"idle", "torrents", "usenet", "tag", "upsert", "prune", "compare"}
Record == [pc : Stages, before : SUBSET Items, failed : SUBSET Listings,
           listed : SUBSET Items, tag : Nat, todo : SUBSET (Items \X Paths),
           seen : SUBSET Items, clean : BOOLEAN]
Row == [item : Items, tag : Nat, url : Items \cup {None}]
Lookup == [row : Paths \cup {None}, item : Items \cup {None}, alive : BOOLEAN]

Typed ==
  /\ DOMAIN files \subseteq Paths /\ files \in [DOMAIN files -> Row]
  /\ tag \in Nat
  /\ sync \in [Workers -> Record]
  /\ client \in [Clients -> Lookup]
  /\ lastError \subseteq Listings

RowsOK ==
  \A p \in DOMAIN files : p \in PathsOf[files[p].item] /\ files[p].tag \in 1..tag

\* The record of a sync: its tag was drawn, its list comes from what it fetched.
SyncOK(w) ==
  /\ sync[w].tag <= tag /\ (Writing(w) => sync[w].tag >= 1)
  /\ sync[w].listed \subseteq sync[w].seen
  /\ \A i \in sync[w].seen \ sync[w].listed : Unfetched(i, w)
  /\ \A r \in sync[w].todo : r[1] \in sync[w].listed /\ r[2] \in PathsOf[r[1]]
  /\ sync[w].pc \in {"prune", "compare"} => sync[w].todo = {}

TagsDiffer ==
  \A v, w \in Workers : v # w /\ Writing(v) /\ Writing(w) => sync[v].tag # sync[w].tag

\* A clean sync has the table to itself.
Alone ==
  \A w \in Workers : sync[w].clean =>
    ~At(w, "idle") /\ \A v \in Workers : v # w => At(v, "idle")

\* What a clean sync has crossed off is in the table with its tag; once it has pruned
\* without an error, nothing else is; the status it has published is its own.
CleanOK(w) ==
  sync[w].clean =>
    /\ Writing(w) => \A i \in sync[w].listed : \A p \in PathsOf[i] :
         <<i, p>> \notin sync[w].todo => p \in DOMAIN files /\ files[p].tag = sync[w].tag
    /\ sync[w].pc \in {"prune", "compare"} => lastError = sync[w].failed
    /\ At(w, "compare") /\ sync[w].failed = {} => Untouched(w) = {}

SyncInv ==
  /\ Typed /\ RowsOK /\ TagsDiffer /\ TagMarksOwnRows /\ Alone
  /\ \A w \in Workers : SyncOK(w) /\ CleanOK(w)

\* A step of one sync: its record becomes r, the others stay.
LEMMA OneSync ==
  ASSUME sync \in [Workers -> Record], NEW w \in Workers, NEW r \in Record,
         sync' = [sync EXCEPT ![w] = r]
  PROVE  /\ sync' \in [Workers -> Record] /\ sync'[w] = r
         /\ \A v \in Workers : v # w => sync'[v] = sync[v]
  OBVIOUS

\* A worker between syncs has an empty record.
LEMMA NoSyncTyped ==
  NoSync \in Record /\ NoSync.pc = "idle" /\ NoSync.clean = FALSE
  BY DEF NoSync, Record, Stages

\* The items that own a row stay the same while no row changes its item.
LEMMA SameItems ==
  ASSUME DOMAIN files' = DOMAIN files,
         \A p \in DOMAIN files : files'[p].item = files[p].item
  PROVE  ListItemDirs' = ListItemDirs
  BY DEF ListItemDirs

\* A step of a sync that leaves the tables alone and keeps what its listings gave.
LEMMA QuietStep ==
  ASSUME SyncInv, NEW w \in Workers, UNCHANGED <<files, tag, client>>,
         lastError' \subseteq Listings,
         NEW r \in Record, sync' = [sync EXCEPT ![w] = r],
         r.pc \in Stages \ {"idle"}, Writing(w) <=> r.pc \in {"upsert", "prune", "compare"},
         r.tag = sync[w].tag, r.todo = sync[w].todo,
         Writing(w) => r.listed = sync[w].listed,
         ~At(w, "idle"), r.clean => sync[w].clean,
         r.listed \subseteq r.seen, sync[w].listed \subseteq r.listed,
         \A i \in r.seen \ r.listed :
           (IF i \in Torrents THEN "torrents" ELSE "usenet") \in r.failed,
         r.pc \in {"prune", "compare"} => r.todo = {} /\ (r.clean => lastError' = r.failed),
         \A v \in Workers : v # w /\ sync[v].clean => lastError' = lastError,
         r.clean /\ r.pc = "compare" /\ r.failed = {} => \A p \in DOMAIN files : files[p].tag = r.tag
  PROVE  SyncInv'
<1> USE DEF SyncInv
<1>1. /\ sync' \in [Workers -> Record] /\ sync'[w] = r
      /\ \A v \in Workers : v # w => sync'[v] = sync[v]
  BY OneSync DEF Typed
<1>2. Typed'
  BY <1>1 DEF Typed
<1>3. RowsOK'
  BY DEF RowsOK
<1>4. \A v \in Workers : /\ Writing(v)' <=> Writing(v)
                         /\ At(v, "idle")' <=> At(v, "idle")
                         /\ sync'[v].tag = sync[v].tag /\ sync'[v].todo = sync[v].todo
                         /\ sync'[v].clean => sync[v].clean
                         /\ Writing(v) => sync'[v].listed = sync[v].listed
  <2> SUFFICES ASSUME NEW v \in Workers
               PROVE  /\ Writing(v)' <=> Writing(v)
                      /\ At(v, "idle")' <=> At(v, "idle")
                      /\ sync'[v].tag = sync[v].tag /\ sync'[v].todo = sync[v].todo
                      /\ sync'[v].clean => sync[v].clean
                      /\ Writing(v) => sync'[v].listed = sync[v].listed
    OBVIOUS
  <2>1. CASE v = w
    BY <1>1, <2>1 DEF Writing, At
  <2>2. CASE v # w
    BY <1>1, <2>2 DEF Writing, At
  <2> QED
    BY <2>1, <2>2
<1>5. TagsDiffer'
  BY <1>4 DEF TagsDiffer
<1>6. TagMarksOwnRows'
  BY <1>4 DEF TagMarksOwnRows
<1>7. Alone'
  BY <1>4 DEF Alone
<1>9. ASSUME NEW v \in Workers PROVE SyncOK(v)'
  <2>1. CASE v = w
    <3>1. \A t \in r.todo : t[1] \in r.listed /\ t[2] \in PathsOf[t[1]]
      BY DEF SyncOK
    <3> QED
      BY <1>1, <1>4, <2>1, <3>1 DEF SyncOK, Unfetched
  <2>2. CASE v # w
    BY <1>1, <1>4, <2>2 DEF SyncOK, Unfetched
  <2> QED
    BY <2>1, <2>2
<1>10. ASSUME NEW v \in Workers PROVE CleanOK(v)'
  <2> SUFFICES ASSUME sync'[v].clean
               PROVE  CleanOK(v)'
    BY DEF CleanOK
  <2>0. sync[v].clean /\ CleanOK(v)
    BY <1>4
  <2>1. Writing(v)' => \A i \in sync'[v].listed : \A p \in PathsOf[i] :
           <<i, p>> \notin sync'[v].todo => p \in DOMAIN files' /\ files'[p].tag = sync'[v].tag
    BY <1>4, <2>0 DEF CleanOK
  <2>2. CASE v = w
    BY <1>1, <2>1, <2>2 DEF CleanOK, At, Untouched
  <2>3. CASE v # w
    BY <1>1, <2>0, <2>1, <2>3 DEF CleanOK, At, Untouched
  <2> QED
    BY <2>2, <2>3
<1> QED
  BY <1>2, <1>3, <1>5, <1>6, <1>7, <1>9, <1>10

\* A listing, fetched or not.
LEMMA FetchKeeps ==
  ASSUME SyncInv, NEW w \in Workers, NEW cached \in SUBSET Items, NEW ok \in BOOLEAN,
         ListTorrents(w, cached, ok) \/ ListUsenet(w, cached, ok)
  PROVE  SyncInv'
<1>1. PICK name \in Listings, next \in {"usenet", "tag"} :
        /\ FetchListing(w, name, cached, next, ok)
        /\ \A i \in cached : (IF i \in Torrents THEN "torrents" ELSE "usenet") = name
  BY DEF ListTorrents, ListUsenet, Listings
<1> DEFINE r == [sync[w] EXCEPT !.pc = next,
                                !.failed = IF ok THEN @ ELSE @ \cup {name},
                                !.listed = IF ok THEN @ \cup cached ELSE @,
                                !.seen = @ \cup cached]
<1>2. sync[w] \in Record /\ sync[w].pc = name
  BY <1>1 DEF SyncInv, Typed, FetchListing, At
<1>3. /\ r \in Record /\ r.pc = next /\ r.tag = sync[w].tag /\ r.todo = sync[w].todo
      /\ r.before = sync[w].before /\ r.clean = sync[w].clean
      /\ r.failed = (IF ok THEN sync[w].failed ELSE sync[w].failed \cup {name})
      /\ r.listed = (IF ok THEN sync[w].listed \cup cached ELSE sync[w].listed)
      /\ r.seen = sync[w].seen \cup cached
  <2>1. next \in Stages
    BY DEF Stages
  <2> QED
    BY <1>2, <2>1 DEF Record
<1>4. sync' = [sync EXCEPT ![w] = r] /\ UNCHANGED <<files, tag, client, lastError>>
  BY <1>1 DEF FetchListing, SyncInv, Typed
<1> HIDE DEF r
<1>5. r.listed \subseteq r.seen /\ sync[w].listed \subseteq r.listed
  BY <1>3 DEF SyncInv, SyncOK
<1>6. \A i \in r.seen \ r.listed :
        (IF i \in Torrents THEN "torrents" ELSE "usenet") \in r.failed
  <2> SUFFICES ASSUME NEW i \in r.seen \ r.listed
               PROVE  (IF i \in Torrents THEN "torrents" ELSE "usenet") \in r.failed
    OBVIOUS
  <2>1. CASE i \in sync[w].seen
    BY <1>3, <2>1 DEF SyncInv, SyncOK, Unfetched
  <2>2. CASE i \notin sync[w].seen
    <3>1. i \in cached /\ ~ok
      BY <1>3, <2>2
    <3> QED
      BY <1>1, <1>3, <3>1
  <2> QED
    BY <2>1, <2>2
<1>7. ~Writing(w) /\ ~At(w, "idle") /\ r.pc \in Stages \ {"idle", "upsert", "prune", "compare"}
  BY <1>2, <1>3 DEF Writing, At, Listings, Stages
<1> QED
  BY <1>3, <1>4, <1>5, <1>6, <1>7, QuietStep DEF SyncInv, Typed

\* A clean sync is alone: while one is under way every other is idle.
LEMMA OthersUnclean ==
  ASSUME SyncInv, NEW w \in Workers, ~At(w, "idle")
  PROVE  \A v \in Workers : v # w => ~sync[v].clean
  BY DEF SyncInv, Alone

\* SetSyncStatus after the upserts of a pass.
LEMMA SetStatusKeeps ==
  ASSUME SyncInv, NEW w \in Workers, SetStatus(w)
  PROVE  SyncInv'
<1> DEFINE to == IF sync[w].failed = {"torrents", "usenet"} THEN "compare" ELSE "prune"
           r == [sync[w] EXCEPT !.pc = to]
<1>1. sync[w] \in Record /\ sync[w].pc = "upsert" /\ sync[w].todo = {}
  BY DEF SyncInv, Typed, SetStatus, At
<1>2. /\ sync' = [sync EXCEPT ![w] = r] /\ lastError' = sync[w].failed
      /\ UNCHANGED <<files, tag, client>>
  BY DEF SetStatus, SyncInv, Typed
<1>3. to \in Stages /\ to \in {"prune", "compare"} /\ (to = "compare" => sync[w].failed # {})
  BY DEF Stages
<1> HIDE DEF to
<1>4. /\ r \in Record /\ r.pc = to /\ r.tag = sync[w].tag /\ r.todo = {}
      /\ r.todo = sync[w].todo
      /\ r.before = sync[w].before /\ r.clean = sync[w].clean /\ r.failed = sync[w].failed
      /\ r.listed = sync[w].listed /\ r.seen = sync[w].seen
  BY <1>1, <1>3 DEF Record
<1> HIDE DEF r
<1>5. lastError' \subseteq Listings
  BY <1>1, <1>2 DEF Record
<1>6. /\ r.listed \subseteq r.seen
      /\ \A i \in r.seen \ r.listed :
           (IF i \in Torrents THEN "torrents" ELSE "usenet") \in r.failed
  BY <1>4 DEF SyncInv, SyncOK, Unfetched
<1>7. Writing(w) /\ ~At(w, "idle") /\ to \in Stages \ {"idle"}
  BY <1>1, <1>3 DEF Writing, At
<1>8. \A v \in Workers : v # w => ~sync[v].clean
  BY <1>7, OthersUnclean
<1>9. r.failed = {} => to # "compare"
  BY <1>3, <1>4
<1>10. r.clean => lastError' = r.failed
  BY <1>2, <1>4
<1> QED
  BY <1>2, <1>3, <1>4, <1>5, <1>6, <1>7, <1>8, <1>9, <1>10, QuietStep

\* The end of a prune: it is clean if no row of the listed kinds is left behind.
LEMMA PruneEndsKeeps ==
  ASSUME SyncInv, NEW w \in Workers, PruneEnds(w)
  PROVE  SyncInv'
<1> DEFINE done == Untouched(w) = {}
           r == [sync[w] EXCEPT !.pc = "compare", !.clean = @ /\ done]
<1>1. sync[w] \in Record /\ sync[w].pc = "prune" /\ done \in BOOLEAN
  BY DEF SyncInv, Typed, PruneEnds, At
<1>2. sync' = [sync EXCEPT ![w] = r] /\ UNCHANGED <<files, tag, client, lastError>>
  BY DEF PruneEnds, SyncInv, Typed
<1> HIDE DEF done
<1>3. /\ r \in Record /\ r.pc = "compare" /\ r.tag = sync[w].tag /\ r.todo = sync[w].todo
      /\ r.before = sync[w].before /\ r.failed = sync[w].failed
      /\ r.listed = sync[w].listed /\ r.seen = sync[w].seen
      /\ r.clean = (sync[w].clean /\ done)
  <2>1. "compare" \in Stages /\ (sync[w].clean /\ done) \in BOOLEAN
    BY <1>1 DEF Stages
  <2> QED
    BY <1>1, <2>1 DEF Record
<1> HIDE DEF r
<1>4. /\ r.listed \subseteq r.seen
      /\ \A i \in r.seen \ r.listed :
           (IF i \in Torrents THEN "torrents" ELSE "usenet") \in r.failed
  BY <1>3 DEF SyncInv, SyncOK, Unfetched
<1>5. Writing(w) /\ ~At(w, "idle") /\ r.todo = {} /\ r.pc \in Stages \ {"idle"}
  BY <1>1, <1>3 DEF Writing, At, SyncInv, SyncOK, Stages
<1>6. \A v \in Workers : v # w => ~sync[v].clean
  BY <1>5, OthersUnclean
<1>7. r.clean => lastError' = r.failed
  BY <1>1, <1>2, <1>3 DEF SyncInv, CleanOK
<1>8. r.clean => \A p \in DOMAIN files : files[p].tag = r.tag
  BY <1>3 DEF done, Untouched
<1>9. lastError' \subseteq Listings
  BY <1>2 DEF SyncInv, Typed
<1> QED
  BY <1>2, <1>3, <1>4, <1>5, <1>6, <1>7, <1>8, <1>9, QuietStep

\* A sync ends and leaves the table to the others.
LEMMA EndKeeps ==
  ASSUME SyncInv, NEW w \in Workers, ~At(w, "idle"),
         sync' = [sync EXCEPT ![w] = NoSync], UNCHANGED <<files, tag, client, lastError>>
  PROVE  SyncInv'
<1> USE DEF SyncInv
<1>1. /\ sync' \in [Workers -> Record] /\ sync'[w] = NoSync
      /\ \A v \in Workers : v # w => sync'[v] = sync[v]
  BY OneSync, NoSyncTyped DEF Typed
<1>2. sync'[w].pc = "idle" /\ sync'[w].clean = FALSE /\ ~Writing(w)'
  BY <1>1, NoSyncTyped DEF Writing
<1>3. \A v \in Workers : v # w => ~sync'[v].clean
  BY <1>1, OthersUnclean
<1>4. Typed' /\ RowsOK'
  BY <1>1 DEF Typed, RowsOK
<1>5. \A v \in Workers : Writing(v)' => v # w /\ Writing(v) /\ sync'[v] = sync[v]
  BY <1>1, <1>2 DEF Writing
<1>6. TagsDiffer' /\ TagMarksOwnRows'
  BY <1>5 DEF TagsDiffer, TagMarksOwnRows
<1>7. Alone'
  BY <1>2, <1>3 DEF Alone
<1>10. ASSUME NEW v \in Workers PROVE SyncOK(v)' /\ CleanOK(v)'
  <2>1. CleanOK(v)'
    BY <1>2, <1>3 DEF CleanOK
  <2>2. CASE v = w
    <3>1. SyncOK(w)'
      BY <1>1, <1>2 DEF SyncOK, NoSync, Typed, Unfetched
    <3> QED
      BY <2>1, <2>2, <3>1
  <2>3. CASE v # w
    BY <1>1, <2>1, <2>3 DEF SyncOK, Writing, Unfetched
  <2> QED
    BY <2>2, <2>3
<1> QED
  BY <1>4, <1>6, <1>7, <1>10

\* A tag transaction that fails, and the report of the hooks, leave the table.
LEMMA EndsKeep ==
  ASSUME SyncInv, NEW w \in Workers,
         TagFails(w) \/ \E ok \in BOOLEAN : FireChangeHooks(w, ok)
  PROVE  SyncInv'
<1>1. /\ ~At(w, "idle")
      /\ sync' = [sync EXCEPT ![w] = NoSync] /\ UNCHANGED <<files, tag, client, lastError>>
  BY DEF TagFails, FireChangeHooks, At
<1> QED
  BY <1>1, EndKeeps

\* A sync begins: whoever else is under way is no longer clean.
LEMMA SnapshotKeeps ==
  ASSUME SyncInv, NEW w \in Workers, NEW ok \in BOOLEAN, Snapshot(w, ok)
  PROVE  SyncInv'
<1> USE DEF SyncInv
<1> DEFINE alone == AllIdle
           dirs == IF ok THEN ListItemDirs ELSE {}
           r == [NoSync EXCEPT !.pc = "torrents", !.before = dirs, !.clean = ok /\ alone]
           Soiled(v) == [sync[v] EXCEPT !.clean = FALSE]
<1>1. /\ sync' = [v \in Workers |-> IF v = w THEN r ELSE Soiled(v)]
      /\ UNCHANGED <<files, tag, client, lastError>>
      /\ At(w, "idle")
  BY DEF Snapshot
<1>2. dirs \subseteq Items
  BY DEF Typed, ListItemDirs, Row
<1> HIDE DEF alone, dirs
<1>3. /\ r \in Record /\ r.pc = "torrents" /\ r.before = dirs /\ r.clean = (ok /\ alone)
      /\ r.listed = {} /\ r.seen = {} /\ r.failed = {} /\ r.todo = {} /\ r.tag = 0
  <2>1. "torrents" \in Stages /\ (ok /\ alone) \in BOOLEAN
    BY DEF Stages, alone, AllIdle
  <2> QED
    BY <1>2, <2>1 DEF NoSync, Record
<1>4. ASSUME NEW v \in Workers
      PROVE  /\ Soiled(v) \in Record /\ ~Soiled(v).clean /\ Soiled(v).pc = sync[v].pc
             /\ Soiled(v).before = sync[v].before /\ Soiled(v).failed = sync[v].failed
             /\ Soiled(v).listed = sync[v].listed /\ Soiled(v).seen = sync[v].seen
             /\ Soiled(v).todo = sync[v].todo /\ Soiled(v).tag = sync[v].tag
  <2>1. sync[v] \in Record
    BY DEF Typed
  <2> QED
    BY <2>1 DEF Record
<1> HIDE DEF r, Soiled
<1>5. sync'[w] = r /\ \A v \in Workers : v # w => sync'[v] = Soiled(v)
  BY <1>1
<1>6. Typed'
  <2>1. \A v \in Workers : (IF v = w THEN r ELSE Soiled(v)) \in Record
    BY <1>3, <1>4
  <2> QED
    BY <1>1, <2>1 DEF Typed
<1>7. RowsOK'
  BY <1>1 DEF RowsOK
<1>8. ~Writing(w) /\ ~Writing(w)' /\ \A v \in Workers : Writing(v)' <=> Writing(v)
  BY <1>1, <1>3, <1>4, <1>5 DEF Writing, At
<1>9. \A v \in Workers : Writing(v)' =>
        /\ sync'[v].tag = sync[v].tag /\ sync'[v].listed = sync[v].listed
        /\ sync'[v].todo = sync[v].todo
  BY <1>4, <1>5, <1>8
<1>10. TagsDiffer' /\ TagMarksOwnRows'
  BY <1>1, <1>8, <1>9 DEF TagsDiffer, TagMarksOwnRows
<1>11. \A v \in Workers : sync'[v].clean => v = w /\ alone /\ ok
  BY <1>3, <1>4, <1>5
<1>12. Alone'
  <2>1. ASSUME alone PROVE \A v \in Workers : v # w => sync'[v].pc = "idle"
    BY <1>4, <1>5, <2>1 DEF alone, AllIdle, At
  <2>2. sync'[w].pc # "idle"
    BY <1>3, <1>5
  <2> QED
    BY <1>11, <2>1, <2>2 DEF Alone, At
<1>15. ASSUME NEW v \in Workers PROVE SyncOK(v)'
  <2>1. CASE v = w
    BY <1>1, <1>3, <1>5, <1>8, <2>1 DEF SyncOK, Typed, Unfetched
  <2>2. CASE v # w
    BY <1>1, <1>4, <1>5, <1>8, <2>2 DEF SyncOK, Unfetched
  <2> QED
    BY <2>1, <2>2
<1>16. ASSUME NEW v \in Workers, sync'[v].clean PROVE CleanOK(v)'
  <2>1. v = w /\ alone /\ ok
    BY <1>11, <1>16
  <2>2. sync'[v] = r
    BY <1>5, <2>1
  <2> QED
    BY <1>1, <1>3, <1>8, <2>1, <2>2 DEF CleanOK, At
<1>17. \A v \in Workers : CleanOK(v)'
  BY <1>16 DEF CleanOK
<1> QED
  BY <1>6, <1>7, <1>10, <1>12, <1>15, <1>17

\* The tag drawn is in no row and with no other sync.
LEMMA TagKeeps ==
  ASSUME SyncInv, NEW w \in Workers, GetNextSyncTag(w)
  PROVE  SyncInv'
<1> USE DEF SyncInv
<1> DEFINE todo == {t \in Items \X Paths : t[1] \in sync[w].listed /\ t[2] \in PathsOf[t[1]]}
           r == [sync[w] EXCEPT !.pc = "upsert", !.tag = tag + 1, !.todo = todo]
<1>1. sync[w] \in Record /\ sync[w].pc = "tag" /\ tag \in Nat
  BY DEF Typed, GetNextSyncTag, At
<1>2. /\ sync' = [sync EXCEPT ![w] = r] /\ tag' = tag + 1
      /\ UNCHANGED <<files, client, lastError>>
  BY DEF GetNextSyncTag, Typed
<1>3. todo \in SUBSET (Items \X Paths) /\ tag + 1 \in Nat /\ "upsert" \in Stages
  BY <1>1 DEF Stages
<1>4. \A i \in sync[w].listed : \A p \in PathsOf[i] : <<i, p>> \in todo
  <2>1. sync[w].listed \subseteq Items
    BY <1>1 DEF Record
  <2> QED
    BY <2>1 DEF Paths
<1>5. \A t \in todo : t[1] \in sync[w].listed /\ t[2] \in PathsOf[t[1]]
  OBVIOUS
<1> HIDE DEF todo
<1>6. /\ r \in Record /\ r.pc = "upsert" /\ r.tag = tag + 1 /\ r.todo = todo
      /\ r.before = sync[w].before /\ r.clean = sync[w].clean /\ r.failed = sync[w].failed
      /\ r.listed = sync[w].listed /\ r.seen = sync[w].seen
  BY <1>1, <1>3 DEF Record
<1> HIDE DEF r
<1>7. /\ sync' \in [Workers -> Record] /\ sync'[w] = r
      /\ \A v \in Workers : v # w => sync'[v] = sync[v]
  BY <1>2, <1>6, OneSync DEF Typed
<1>8. Typed' /\ RowsOK'
  BY <1>1, <1>2, <1>7 DEF Typed, RowsOK
<1>9. \A v \in Workers : v # w => (Writing(v)' <=> Writing(v)) /\ (At(v, "idle")' <=> At(v, "idle"))
  BY <1>7 DEF Writing, At
<1>10. \A v \in Workers : sync[v].tag \in Nat /\ sync[v].tag <= tag
  BY DEF Typed, Record, SyncOK
<1>11. TagsDiffer'
  <2> SUFFICES ASSUME NEW u \in Workers, NEW v \in Workers, u # v, Writing(u)', Writing(v)'
               PROVE  sync'[u].tag # sync'[v].tag
    BY DEF TagsDiffer
  <2>1. CASE u = w
    BY <1>1, <1>6, <1>7, <1>10, <2>1
  <2>2. CASE v = w
    BY <1>1, <1>6, <1>7, <1>10, <2>2
  <2>3. CASE u # w /\ v # w
    BY <1>7, <1>9, <2>3 DEF TagsDiffer
  <2> QED
    BY <2>1, <2>2, <2>3
<1>12. \A p \in DOMAIN files : files[p].tag # tag + 1
  BY <1>1 DEF RowsOK
<1>13. TagMarksOwnRows'
  <2> SUFFICES ASSUME NEW v \in Workers, Writing(v)',
                      NEW p \in DOMAIN files, files[p].tag = sync'[v].tag
               PROVE  files[p].item \in sync'[v].listed /\ <<files[p].item, p>> \notin sync'[v].todo
    BY <1>2 DEF TagMarksOwnRows
  <2>1. v # w
    BY <1>6, <1>7, <1>12
  <2> QED
    BY <1>7, <1>9, <2>1 DEF TagMarksOwnRows
<1>14. Alone'
  <2>1. ~At(w, "idle") /\ ~At(w, "idle")'
    BY <1>1, <1>6, <1>7 DEF At
  <2>2. \A v \in Workers : sync'[v].clean = sync[v].clean
    BY <1>6, <1>7
  <2> QED
    BY <1>9, <2>1, <2>2 DEF Alone
<1>16. ASSUME NEW v \in Workers PROVE SyncOK(v)'
  <2>1. CASE v = w
    BY <1>1, <1>2, <1>5, <1>6, <1>7, <2>1 DEF SyncOK, Unfetched
  <2>2. CASE v # w
    BY <1>1, <1>2, <1>7, <1>9, <1>10, <2>2 DEF SyncOK, Unfetched
  <2> QED
    BY <2>1, <2>2
<1>17. ASSUME NEW v \in Workers PROVE CleanOK(v)'
  <2>1. CASE v = w
    BY <1>2, <1>4, <1>6, <1>7, <2>1 DEF CleanOK, At
  <2>2. CASE v # w
    <3>1. ~sync'[v].clean
      BY <1>1, <1>7, <2>2, OthersUnclean DEF At
    <3> QED
      BY <3>1 DEF CleanOK
  <2> QED
    BY <2>1, <2>2
<1> QED
  BY <1>8, <1>11, <1>13, <1>14, <1>16, <1>17

\* One record written, or lost to a locked database.
LEMMA UpsertKeeps ==
  ASSUME SyncInv, NEW w \in Workers, NEW r \in Items \X Paths, NEW ok \in BOOLEAN,
         UpsertFile(w, r, ok)
  PROVE  SyncInv'
<1> USE DEF SyncInv
<1> DEFINE new == [item |-> r[1], tag |-> sync[w].tag, url |-> None]
           done == [sync[w] EXCEPT !.todo = @ \ {r}, !.clean = @ /\ ok]
<1>1. /\ sync[w] \in Record /\ sync[w].pc = "upsert" /\ r \in sync[w].todo
      /\ r[1] \in Items /\ r[2] \in Paths /\ r = <<r[1], r[2]>>
  BY DEF Typed, UpsertFile, At
<1>2. /\ sync' = [sync EXCEPT ![w] = done] /\ UNCHANGED <<tag, client, lastError>>
      /\ files' = IF ~ok THEN files
                  ELSE [p \in DOMAIN files \cup {r[2]} |-> IF p = r[2] THEN new ELSE files[p]]
  BY DEF UpsertFile, Typed
<1>3. new \in Row /\ new.item = r[1] /\ new.tag = sync[w].tag /\ new.url = None
  BY <1>1 DEF Row, Record
<1>4. /\ done \in Record /\ done.pc = "upsert" /\ done.tag = sync[w].tag
      /\ done.todo = sync[w].todo \ {r} /\ done.before = sync[w].before
      /\ done.clean = (sync[w].clean /\ ok) /\ done.failed = sync[w].failed
      /\ done.listed = sync[w].listed /\ done.seen = sync[w].seen
  <2>1. (sync[w].clean /\ ok) \in BOOLEAN /\ sync[w].todo \ {r} \in SUBSET (Items \X Paths)
    BY <1>1 DEF Record
  <2> QED
    BY <1>1, <2>1 DEF Record
<1> HIDE DEF new, done
<1>5. /\ sync' \in [Workers -> Record] /\ sync'[w] = done
      /\ \A v \in Workers : v # w => sync'[v] = sync[v]
  BY <1>2, <1>4, OneSync DEF Typed
<1>6. /\ \A p \in DOMAIN files : p \in DOMAIN files'
      /\ \A p \in DOMAIN files' :
           \/ p \in DOMAIN files /\ files'[p] = files[p] /\ (ok => p # r[2])
           \/ ok /\ p = r[2] /\ files'[p] = new
  BY <1>2
<1>7. r[1] \in sync[w].listed /\ r[2] \in PathsOf[r[1]] /\ sync[w].tag \in 1..tag
  <2>1. SyncOK(w) /\ Writing(w)
    BY <1>1 DEF Writing
  <2> QED
    BY <1>1, <2>1 DEF SyncOK, Typed, Record
<1>8. Typed'
  <2>1. DOMAIN files' \subseteq Paths
    BY <1>1, <1>6 DEF Typed
  <2>2. files' \in [DOMAIN files' -> Row]
    <3>1. \A p \in DOMAIN files' : files'[p] \in Row
      BY <1>3, <1>6 DEF Typed
    <3>2. files' = [p \in DOMAIN files' |-> files'[p]]
      BY <1>2 DEF Typed
    <3> QED
      BY <3>1, <3>2
  <2> QED
    BY <1>2, <1>5, <2>1, <2>2 DEF Typed
<1>9. RowsOK'
  BY <1>2, <1>3, <1>6, <1>7 DEF RowsOK
<1>10. Writing(w) /\ Writing(w)' /\ ~At(w, "idle") /\ ~At(w, "idle")'
  BY <1>1, <1>4, <1>5 DEF Writing, At
<1>18. \A v \in Workers : /\ Writing(v)' <=> Writing(v)
                          /\ At(v, "idle")' <=> At(v, "idle")
                          /\ sync'[v].tag = sync[v].tag
                          /\ sync'[v].listed = sync[v].listed
                          /\ sync'[v].todo \subseteq sync[v].todo
                          /\ sync'[v].clean => sync[v].clean
  <2> SUFFICES ASSUME NEW v \in Workers
               PROVE  /\ Writing(v)' <=> Writing(v)
                      /\ At(v, "idle")' <=> At(v, "idle")
                      /\ sync'[v].tag = sync[v].tag
                      /\ sync'[v].listed = sync[v].listed
                      /\ sync'[v].todo \subseteq sync[v].todo
                      /\ sync'[v].clean => sync[v].clean
    OBVIOUS
  <2>1. CASE v = w
    BY <1>4, <1>5, <1>10, <2>1
  <2>2. CASE v # w
    BY <1>5, <2>2 DEF Writing, At
  <2> QED
    BY <2>1, <2>2
<1>11. TagsDiffer'
  BY <1>10, <1>18 DEF TagsDiffer
<1>12. TagMarksOwnRows'
  <2> SUFFICES ASSUME NEW v \in Workers, Writing(v),
                      NEW p \in DOMAIN files', files'[p].tag = sync[v].tag
               PROVE  files'[p].item \in sync[v].listed /\ <<files'[p].item, p>> \notin sync'[v].todo
    BY <1>10, <1>18 DEF TagMarksOwnRows
  <2>1. CASE p \in DOMAIN files /\ files'[p] = files[p]
    BY <1>10, <1>18, <2>1 DEF TagMarksOwnRows
  <2>2. CASE p = r[2] /\ files'[p] = new
    <3>1. v = w
      BY <1>3, <1>10, <1>18, <2>2 DEF TagsDiffer
    <3>2. <<files'[p].item, p>> = r
      BY <1>1, <1>3, <2>2
    <3> QED
      BY <1>3, <1>4, <1>5, <1>7, <2>2, <3>1, <3>2
  <2> QED
    BY <1>6, <2>1, <2>2
<1>13. Alone'
  BY <1>10, <1>18 DEF Alone
<1>15. ASSUME NEW v \in Workers PROVE SyncOK(v)'
  <2>1. CASE v = w
    BY <1>2, <1>4, <1>5, <1>10, <1>18, <2>1 DEF SyncOK, Unfetched
  <2>2. CASE v # w
    BY <1>2, <1>5, <1>10, <1>18, <2>2 DEF SyncOK, Unfetched
  <2> QED
    BY <2>1, <2>2
<1>16. ASSUME NEW v \in Workers PROVE CleanOK(v)'
  <2>1. CASE v # w
    <3>1. ~sync'[v].clean
      BY <1>5, <1>10, <1>18, <2>1, OthersUnclean
    <3> QED
      BY <3>1 DEF CleanOK
  <2>2. CASE v = w
    <3> SUFFICES ASSUME sync'[w].clean PROVE CleanOK(w)'
      BY <2>2 DEF CleanOK
    <3>1. sync[w].clean /\ ok
      BY <1>4, <1>5
    <3>2. ASSUME NEW i \in sync[w].listed, NEW p \in PathsOf[i], <<i, p>> \notin done.todo
          PROVE  p \in DOMAIN files' /\ files'[p].tag = sync[w].tag
      <4>1. CASE p = r[2]
        BY <1>2, <1>3, <3>1, <4>1
      <4>2. CASE p # r[2]
        <5>1. <<i, p>> # r
          BY <1>1, <4>2
        <5>2. <<i, p>> \notin sync[w].todo
          BY <1>4, <3>2, <5>1
        <5>3. p \in DOMAIN files /\ files[p].tag = sync[w].tag
          BY <1>10, <1>18, <3>1, <5>2 DEF CleanOK
        <5> QED
          BY <1>6, <4>2, <5>3
      <4> QED
        BY <4>1, <4>2
    <3> QED
      BY <1>4, <1>5, <3>2 DEF CleanOK, At
  <2> QED
    BY <2>1, <2>2
<1> QED
  BY <1>8, <1>9, <1>11, <1>12, <1>13, <1>15, <1>16

\* Rows lose links, get links or go, but none that a clean sync has written: its own
\* prune spares its tag, and nobody else prunes.
LEMMA TableKeeps ==
  ASSUME SyncInv, UNCHANGED <<tag, sync, lastError>>,
         client' \in [Clients -> Lookup],
         DOMAIN files' \subseteq DOMAIN files, files' \in [DOMAIN files' -> Row],
         \A p \in DOMAIN files' : files'[p].item = files[p].item /\ files'[p].tag = files[p].tag,
         \/ DOMAIN files' = DOMAIN files
         \/ \E w \in Workers : At(w, "prune") /\ DOMAIN files \ DOMAIN files' \subseteq Untouched(w)
  PROVE  SyncInv'
<1> USE DEF SyncInv
<1>1. Typed' /\ RowsOK'
  BY DEF Typed, RowsOK
<1>2. \A v \in Workers : (Writing(v)' <=> Writing(v)) /\ (At(v, "idle")' <=> At(v, "idle"))
  BY DEF Writing, At
<1>3. TagsDiffer' /\ TagMarksOwnRows' /\ Alone'
  BY <1>2 DEF TagsDiffer, TagMarksOwnRows, Alone
<1>5. \A v \in Workers : SyncOK(v)'
  BY <1>2 DEF SyncOK, Unfetched
<1>6. ASSUME NEW v \in Workers, sync[v].clean
      PROVE  CleanOK(v)'
  <2>1. \A p \in DOMAIN files : files[p].tag = sync[v].tag => p \in DOMAIN files'
    <3>1. CASE DOMAIN files' = DOMAIN files
      BY <3>1
    <3>2. CASE \E w \in Workers : At(w, "prune") /\ DOMAIN files \ DOMAIN files' \subseteq Untouched(w)
      <4>1. PICK w \in Workers : At(w, "prune") /\ DOMAIN files \ DOMAIN files' \subseteq Untouched(w)
        BY <3>2
      <4>2. w = v
        BY <1>6, <4>1 DEF Alone, At
      <4> QED
        BY <4>1, <4>2 DEF Untouched
    <3> QED
      BY <3>1, <3>2
  <2>2. CleanOK(v)
    OBVIOUS
  <2>3. Writing(v) => \A i \in sync[v].listed : \A p \in PathsOf[i] :
          <<i, p>> \notin sync[v].todo => p \in DOMAIN files' /\ files'[p].tag = sync[v].tag
    BY <1>6, <2>1, <2>2 DEF CleanOK
  <2>4. Untouched(v) = {} => Untouched(v)' = {}
    BY DEF Untouched
  <2> QED
    BY <1>2, <1>6, <2>2, <2>3, <2>4 DEF CleanOK, At
<1>7. \A v \in Workers : CleanOK(v)'
  BY <1>6 DEF CleanOK
<1> QED
  BY <1>1, <1>3, <1>5, <1>7

\* A batch of the prune deletes rows no pass has touched.
LEMMA PruneKeeps ==
  ASSUME SyncInv, NEW w \in Workers, PruneBatch(w)
  PROVE  SyncInv'
<1>1. PICK gone \in SUBSET Untouched(w) :
        /\ files' = [p \in DOMAIN files \ gone |-> files[p]]
        /\ client' = [c \in Clients |->
                        IF client[c].row \in gone THEN [client[c] EXCEPT !.alive = FALSE]
                        ELSE client[c]]
  BY DEF PruneBatch, kSubset
<1>2. At(w, "prune") /\ UNCHANGED <<tag, sync, lastError>>
  BY DEF PruneBatch
<1>3. client' \in [Clients -> Lookup]
  <2>1. \A c \in Clients : client[c] \in Lookup /\ [client[c] EXCEPT !.alive = FALSE] \in Lookup
    BY DEF SyncInv, Typed, Lookup
  <2> QED
    BY <1>1, <2>1
<1>4. /\ DOMAIN files' \subseteq DOMAIN files /\ files' \in [DOMAIN files' -> Row]
      /\ DOMAIN files \ DOMAIN files' \subseteq Untouched(w)
      /\ \A p \in DOMAIN files' : files'[p] = files[p]
  BY <1>1 DEF SyncInv, Typed
<1> QED
  BY <1>2, <1>3, <1>4, TableKeeps

\* A client looks a row up and caches its link.
LEMMA RequestKeeps ==
  ASSUME SyncInv, NEW c \in Clients, Request(c)
  PROVE  SyncInv'
<1>0. client[c] \in Lookup /\ client \in [Clients -> Lookup] /\ NoRow \in Lookup
  BY DEF SyncInv, Typed, NoRow, Lookup
<1>1. CASE \E p \in Paths : GetFileByPath(c, p)
  <2>1. PICK p \in Paths : GetFileByPath(c, p)
    BY <1>1
  <2>2. files[p].item \in Items
    BY <2>1 DEF GetFileByPath, SyncInv, Typed, Row
  <2>3. [row |-> p, item |-> files[p].item, alive |-> TRUE] \in Lookup
    BY <2>2 DEF Lookup
  <2>4. client' \in [Clients -> Lookup] /\ UNCHANGED <<files, tag, sync, lastError>>
    BY <1>0, <2>1, <2>3 DEF GetFileByPath
  <2> QED
    BY <2>4, TableKeeps DEF SyncInv, Typed
<1>2. CASE \E link \in {client[c].item, None} : SetCDNURL(c, link)
  <2>1. PICK link \in {client[c].item, None} : SetCDNURL(c, link)
    BY <1>2
  <2>2. link \in Items \cup {None}
    BY <1>0 DEF Lookup
  <2> DEFINE p == client[c].row
  <2>3. /\ files' = IF client[c].alive THEN [files EXCEPT ![p].url = link] ELSE files
        /\ client' = [client EXCEPT ![c] = NoRow] /\ UNCHANGED <<tag, sync, lastError>>
    BY <2>1 DEF SetCDNURL
  <2> HIDE DEF p
  <2>4. DOMAIN files' = DOMAIN files /\ files' = [q \in DOMAIN files |-> files'[q]]
    BY <2>3 DEF SyncInv, Typed
  <2>5. ASSUME NEW q \in DOMAIN files
        PROVE  files'[q] \in Row /\ files'[q].item = files[q].item /\ files'[q].tag = files[q].tag
    <3>1. files[q] \in Row /\ files'[q] \in {files[q], [files[q] EXCEPT !.url = link]}
      BY <2>3 DEF SyncInv, Typed
    <3> QED
      BY <2>2, <3>1 DEF Row
  <2>6. files' \in [DOMAIN files' -> Row]
    BY <2>4, <2>5
  <2>7. client' \in [Clients -> Lookup]
    BY <1>0, <2>3
  <2> QED
    BY <2>3, <2>4, <2>5, <2>6, <2>7, TableKeeps
<1>3. CASE GiveUpLink(c)
  <2>1. client' \in [Clients -> Lookup] /\ UNCHANGED <<files, tag, sync, lastError>>
    BY <1>0, <1>3 DEF GiveUpLink
  <2> QED
    BY <2>1, TableKeeps DEF SyncInv, Typed
<1> QED
  BY <1>1, <1>2, <1>3 DEF Request

\* A crash ends the syncs and the lookups; the table survives.
LEMMA CrashKeeps ==
  ASSUME SyncInv, Crash
  PROVE  SyncInv'
<1> USE DEF SyncInv
<1>1. /\ UNCHANGED <<files, tag>> /\ lastError' = {}
      /\ sync' = [w \in Workers |-> NoSync] /\ client' = [c \in Clients |-> NoRow]
  BY DEF Crash
<1>2. NoSync \in Record /\ NoSync.pc = "idle" /\ NoSync.clean = FALSE /\ NoRow \in Lookup
  BY NoSyncTyped DEF NoRow, Lookup
<1>3. \A w \in Workers : sync'[w] = NoSync
  BY <1>1
<1>4. \A w \in Workers : ~Writing(w)' /\ ~sync'[w].clean
  BY <1>2, <1>3 DEF Writing
<1>6. Typed' /\ RowsOK'
  BY <1>1, <1>2 DEF Typed, RowsOK
<1>7. TagsDiffer' /\ TagMarksOwnRows' /\ Alone'
  BY <1>4 DEF TagsDiffer, TagMarksOwnRows, Alone
<1>9. ASSUME NEW w \in Workers PROVE SyncOK(w)' /\ CleanOK(w)'
  <2>1. /\ sync'[w].tag = 0 /\ sync'[w].listed = {} /\ sync'[w].seen = {}
        /\ sync'[w].todo = {} /\ sync'[w].pc = "idle"
    BY <1>3 DEF NoSync
  <2>2. SyncOK(w)'
    BY <1>1, <1>4, <2>1 DEF SyncOK, Typed
  <2> QED
    BY <1>4, <2>2 DEF CleanOK
<1> QED
  BY <1>6, <1>7, <1>9

\* At the start no sync runs.
LEMMA InitEstablishes == Init => SyncInv
<1> SUFFICES ASSUME Init PROVE SyncInv
  OBVIOUS
<1>1. NoSync \in Record /\ NoSync.pc = "idle" /\ NoSync.clean = FALSE /\ NoRow \in Lookup
  BY NoSyncTyped DEF NoRow, Lookup
<1>2. \A w \in Workers : sync[w] = NoSync /\ ~Writing(w) /\ ~sync[w].clean
  BY <1>1 DEF Init, Writing
<1>3. DOMAIN files = {} /\ files = [p \in {} |-> 0]
  BY DEF Init
<1>4. Typed /\ RowsOK
  <2>1. files \in [DOMAIN files -> Row]
    BY <1>3
  <2> QED
    BY <1>1, <1>3, <2>1 DEF Init, Typed, RowsOK
<1>5. TagsDiffer /\ TagMarksOwnRows /\ Alone
  BY <1>2 DEF TagsDiffer, TagMarksOwnRows, Alone
<1>7. ASSUME NEW w \in Workers PROVE SyncOK(w) /\ CleanOK(w)
  <2>1. /\ sync[w].tag = 0 /\ sync[w].listed = {} /\ sync[w].seen = {}
        /\ sync[w].todo = {} /\ sync[w].pc = "idle" /\ tag = 0
    BY <1>2 DEF NoSync, Init
  <2> QED
    BY <1>2, <2>1 DEF SyncOK, CleanOK
<1> QED
  BY <1>4, <1>5, <1>7 DEF SyncInv

\* A step keeps the invariant, whoever takes it.
LEMMA NextKeeps == SyncInv /\ [Next]_vars => SyncInv'
<1> SUFFICES ASSUME SyncInv, [Next]_vars PROVE SyncInv'
  OBVIOUS
<1>1. ASSUME NEW w \in Workers, SyncOnce(w)
      PROVE  SyncInv'
  <2>1. Outcomes("database") \subseteq BOOLEAN /\ Outcomes("fetch") \subseteq BOOLEAN
    BY DEF Outcomes
  <2>2. CASE \E ok \in Outcomes("database") : Snapshot(w, ok)
    BY <2>1, <2>2, SnapshotKeeps
  <2>3. CASE \E ok \in Outcomes("database") : FireChangeHooks(w, ok)
    BY <2>1, <2>3, EndsKeep
  <2>4. CASE \E cached \in SUBSET Items, ok \in Outcomes("fetch") : ListTorrents(w, cached, ok)
    BY <2>1, <2>4, FetchKeeps DEF ListTorrents
  <2>5. CASE \E cached \in SUBSET Items, ok \in Outcomes("fetch") : ListUsenet(w, cached, ok)
    BY <2>1, <2>5, FetchKeeps DEF ListUsenet
  <2>6. CASE GetNextSyncTag(w)
    BY <2>6, TagKeeps
  <2>7. CASE TagFails(w)
    BY <2>7, EndsKeep
  <2>8. CASE \E r \in Items \X Paths, ok \in Outcomes("database") : UpsertFile(w, r, ok)
    BY <2>1, <2>8, UpsertKeeps
  <2>9. CASE SetStatus(w)
    BY <2>9, SetStatusKeeps
  <2>10. CASE PruneBatch(w)
    BY <2>10, PruneKeeps
  <2>11. CASE PruneEnds(w)
    BY <2>11, PruneEndsKeeps
  <2> QED
    BY <1>1, <2>2, <2>3, <2>4, <2>5, <2>6, <2>7, <2>8, <2>9, <2>10, <2>11 DEF SyncOnce
<1>2. ASSUME NEW c \in Clients, Request(c)
      PROVE  SyncInv'
  BY <1>2, RequestKeeps
<1>3. CASE Crash
  BY <1>3, CrashKeeps
<1>4. CASE ListenerLooks \/ UNCHANGED vars
  <2>0. UNCHANGED <<files, tag, sync, client, lastError>>
    BY <1>4 DEF ListenerLooks, vars
  <2>1. client \in [Clients -> Lookup] /\ files \in [DOMAIN files -> Row]
    BY DEF SyncInv, Typed
  <2> QED
    BY <2>0, <2>1, TableKeeps
<1> QED
  BY <1>1, <1>2, <1>3, <1>4 DEF Next

\* The invariant, with all it takes to be inductive, holds of every behaviour.
THEOREM SyncCorrect == Spec => []SyncInv
  BY InitEstablishes, NextKeeps, PTL DEF Spec

-----------------------------------------------------------------------------
\* A sync that will report to a listener: no other runs, and what the listener was told
\* is the snapshot, which is still the library until the sync writes.
Reporting(w) ==
  /\ ~At(w, "idle") /\ \A v \in Workers : v # w => At(v, "idle")
  /\ told = sync[w].before
  /\ Writing(w) \/ told = ListItemDirs

\* A listener that was not left behind knows the library or is about to be told.
HookInv ==
  /\ told \in {None} \cup SUBSET Items
  /\ told # None => (AllIdle /\ told = ListItemDirs) \/ \E w \in Workers : Reporting(w)

\* The sync that runs is the one that reports.
LEMMA RunnerReports ==
  ASSUME HookInv, told # None, NEW w \in Workers, ~At(w, "idle")
  PROVE  Reporting(w)
  BY DEF HookInv, Reporting, AllIdle

\* The step of a sync that goes on, and has written if it changes the table.
LEMMA RunnerStep ==
  ASSUME HookInv, NEW w \in Workers, ~At(w, "idle"), told' = told,
         sync'[w].pc # "idle", sync'[w].before = sync[w].before,
         \A v \in Workers : v # w => sync'[v] = sync[v],
         sync'[w].pc \in {"upsert", "prune", "compare"} \/ (~Writing(w) /\ files' = files)
  PROVE  HookInv'
<1>1. CASE told = None
  BY <1>1 DEF HookInv
<1>2. CASE told # None
  <2>1. Reporting(w)
    BY <1>2, RunnerReports
  <2>2. Writing(w)' \/ told' = ListItemDirs'
    <3>1. CASE ~Writing(w) /\ files' = files
      BY <2>1, <3>1 DEF Reporting, ListItemDirs
    <3> QED
      BY <3>1 DEF Writing
  <2>3. Reporting(w)'
    BY <2>1, <2>2 DEF Reporting, At
  <2> QED
    BY <2>3 DEF HookInv
<1> QED
  BY <1>1, <1>2

\* A snapshot is what the listener knows, or the listener is left behind.
LEMMA SnapshotTold ==
  ASSUME SyncInv, HookInv, NEW w \in Workers, NEW ok \in BOOLEAN, Snapshot(w, ok)
  PROVE  HookInv'
<1>0. sync \in [Workers -> Record] /\ UNCHANGED files
  BY DEF SyncInv, Typed, Snapshot
<1>1. CASE told' = None
  BY <1>1 DEF HookInv
<1>2. CASE told' # None
  <2>1. ok /\ AllIdle /\ told' = told /\ told # None
    BY <1>2 DEF Snapshot
  <2>2. told = ListItemDirs /\ ListItemDirs' = ListItemDirs
    BY <1>0, <2>1 DEF HookInv, Reporting, AllIdle, ListItemDirs
  <2>3. sync'[w].pc = "torrents" /\ sync'[w].before = ListItemDirs
    BY <2>1 DEF Snapshot, NoSync
  <2>4. \A v \in Workers : v # w => sync'[v].pc = "idle"
    <3> SUFFICES ASSUME NEW v \in Workers, v # w PROVE sync'[v].pc = "idle"
      OBVIOUS
    <3>1. sync[v] \in Record /\ sync[v].pc = "idle"
      BY <1>0, <2>1 DEF AllIdle, At
    <3>2. sync'[v] = [sync[v] EXCEPT !.clean = FALSE]
      BY DEF Snapshot
    <3> QED
      BY <3>1, <3>2 DEF Record
  <2>5. Reporting(w)'
    BY <2>1, <2>2, <2>3, <2>4 DEF Reporting, At
  <2> QED
    BY <2>1, <2>5 DEF HookInv
<1> QED
  BY <1>1, <1>2

\* The report takes a listener that knew the snapshot to the library as it is, and the
\* end of a sync without a tag leaves it there.
LEMMA EndsTold ==
  ASSUME SyncInv, HookInv, NEW w \in Workers,
         TagFails(w) \/ \E ok \in BOOLEAN : FireChangeHooks(w, ok)
  PROVE  HookInv'
<1>0. /\ sync \in [Workers -> Record] /\ ListItemDirs \subseteq Items
      /\ ListItemDirs' = ListItemDirs /\ ~At(w, "idle")
      /\ sync' = [sync EXCEPT ![w] = NoSync]
  BY DEF SyncInv, Typed, Row, ListItemDirs, TagFails, FireChangeHooks, Reported, At
<1>1. CASE told' = None
  BY <1>1 DEF HookInv
<1>2. CASE told' # None
  <2>1. told # None
    BY <1>2 DEF TagFails, FireChangeHooks
  <2>2. Reporting(w)
    BY <1>0, <2>1, RunnerReports
  <2>3. AllIdle'
    BY <1>0, <2>2, NoSyncTyped DEF AllIdle, Reporting, At
  <2>4. told' = ListItemDirs
    <3>1. CASE TagFails(w)
      BY <2>2, <3>1 DEF TagFails, Reporting, Writing, At
    <3>2. CASE \E ok \in BOOLEAN : FireChangeHooks(w, ok)
      <4> DEFINE before == sync[w].before
                 after == ListItemDirs
      <4>1. (told' = told /\ before = after) \/ told' = (told \cup (after \ before)) \ (before \ after)
        BY <1>2, <2>1, <3>2 DEF FireChangeHooks, Reported
      <4>2. told = before
        BY <2>2 DEF Reporting
      <4> HIDE DEF before, after
      <4> QED
        BY <4>1, <4>2 DEF after
    <3> QED
      BY <3>1, <3>2
  <2> QED
    BY <1>0, <2>3, <2>4 DEF HookInv
<1> QED
  BY <1>1, <1>2

\* A step of a sync between its snapshot and its report.
LEMMA WorkTold ==
  ASSUME SyncInv, HookInv, NEW w \in Workers,
         \/ \E cached \in SUBSET Items, ok \in BOOLEAN :
              ListTorrents(w, cached, ok) \/ ListUsenet(w, cached, ok)
         \/ GetNextSyncTag(w) \/ SetStatus(w) \/ PruneBatch(w) \/ PruneEnds(w)
         \/ \E r \in Items \X Paths, ok \in BOOLEAN : UpsertFile(w, r, ok)
  PROVE  HookInv'
<1>0. sync \in [Workers -> Record] /\ sync[w] \in Record
  BY DEF SyncInv, Typed
<1>1. CASE \E cached \in SUBSET Items, ok \in BOOLEAN :
              ListTorrents(w, cached, ok) \/ ListUsenet(w, cached, ok)
  <2>0. PICK cached \in SUBSET Items, ok \in BOOLEAN :
          ListTorrents(w, cached, ok) \/ ListUsenet(w, cached, ok)
    BY <1>1
  <2>1. PICK name \in Listings, next \in {"usenet", "tag"} : FetchListing(w, name, cached, next, ok)
    BY <2>0 DEF ListTorrents, ListUsenet, Listings
  <2>2. /\ sync'[w].pc = next /\ sync'[w].before = sync[w].before
        /\ \A v \in Workers : v # w => sync'[v] = sync[v]
    BY <1>0, <2>1 DEF FetchListing, Record
  <2>3. ~At(w, "idle") /\ ~Writing(w) /\ told' = told /\ files' = files
    BY <2>1 DEF FetchListing, Listings, At, Writing
  <2> QED
    BY <2>2, <2>3, RunnerStep
<1>2. CASE GetNextSyncTag(w)
  <2>1. /\ sync'[w].pc = "upsert" /\ sync'[w].before = sync[w].before
        /\ \A v \in Workers : v # w => sync'[v] = sync[v]
    BY <1>0, <1>2 DEF GetNextSyncTag, Record
  <2>2. ~At(w, "idle") /\ told' = told
    BY <1>2 DEF GetNextSyncTag, At
  <2> QED
    BY <2>1, <2>2, RunnerStep
<1>3. CASE SetStatus(w)
  <2>1. /\ sync'[w].pc \in {"prune", "compare"} /\ sync'[w].before = sync[w].before
        /\ \A v \in Workers : v # w => sync'[v] = sync[v]
    BY <1>0, <1>3 DEF SetStatus, Record
  <2>2. ~At(w, "idle") /\ told' = told
    BY <1>3 DEF SetStatus, At
  <2> QED
    BY <2>1, <2>2, RunnerStep
<1>4. CASE PruneBatch(w)
  <2>1. sync' = sync /\ told' = told /\ sync[w].pc = "prune" /\ ~At(w, "idle")
    BY <1>4 DEF PruneBatch, At
  <2> QED
    BY <2>1, RunnerStep
<1>5. CASE PruneEnds(w)
  <2>1. /\ sync'[w].pc = "compare" /\ sync'[w].before = sync[w].before
        /\ \A v \in Workers : v # w => sync'[v] = sync[v]
    BY <1>0, <1>5 DEF PruneEnds, Record
  <2>2. ~At(w, "idle") /\ told' = told
    BY <1>5 DEF PruneEnds, At
  <2> QED
    BY <2>1, <2>2, RunnerStep
<1>6. CASE \E r \in Items \X Paths, ok \in BOOLEAN : UpsertFile(w, r, ok)
  <2>1. PICK r \in Items \X Paths, ok \in BOOLEAN : UpsertFile(w, r, ok)
    BY <1>6
  <2>2. /\ sync'[w].pc = "upsert" /\ sync'[w].before = sync[w].before
        /\ \A v \in Workers : v # w => sync'[v] = sync[v]
    BY <1>0, <2>1 DEF UpsertFile, Record, At
  <2>3. ~At(w, "idle") /\ told' = told
    BY <2>1 DEF UpsertFile, At
  <2> QED
    BY <2>2, <2>3, RunnerStep
<1> QED
  BY <1>1, <1>2, <1>3, <1>4, <1>5, <1>6

\* The steps that are no sync's change neither what is told nor which items own a row.
LEMMA RestTold ==
  ASSUME SyncInv, HookInv,
         (\E c \in Clients : Request(c)) \/ ListenerLooks \/ Crash \/ UNCHANGED vars
  PROVE  HookInv'
<1>1. CASE (\E c \in Clients : Request(c)) \/ UNCHANGED vars
  <2>1. UNCHANGED <<sync, told>>
    BY <1>1 DEF Request, GetFileByPath, SetCDNURL, GiveUpLink, vars
  <2>2. DOMAIN files' = DOMAIN files /\ \A p \in DOMAIN files : files'[p].item = files[p].item
    <3>1. CASE UNCHANGED files
      BY <3>1
    <3>2. CASE \E p, link : files' = [files EXCEPT ![p].url = link]
      <4>1. PICK p, link : files' = [files EXCEPT ![p].url = link]
        BY <3>2
      <4>2. DOMAIN files' = DOMAIN files
        BY <4>1
      <4>3. ASSUME NEW q \in DOMAIN files PROVE files'[q].item = files[q].item
        <5>1. files[q] \in Row /\ files'[q] \in {files[q], [files[q] EXCEPT !.url = link]}
          BY <4>1 DEF SyncInv, Typed
        <5> QED
          BY <5>1 DEF Row
      <4> QED
        BY <4>2, <4>3
    <3>3. UNCHANGED files \/ \E p, link : files' = [files EXCEPT ![p].url = link]
      BY <1>1 DEF Request, GetFileByPath, SetCDNURL, GiveUpLink, vars
    <3> QED
      BY <3>1, <3>2, <3>3
  <2>3. ListItemDirs' = ListItemDirs
    BY <2>2, SameItems
  <2> QED
    BY <2>1, <2>3 DEF HookInv, Reporting, AllIdle, Writing, At
<1>2. CASE ListenerLooks
  <2>1. ListItemDirs \subseteq Items
    BY DEF SyncInv, Typed, Row, ListItemDirs
  <2>2. AllIdle' /\ ListItemDirs' = ListItemDirs /\ told' = ListItemDirs
    BY <1>2 DEF ListenerLooks, AllIdle, At, ListItemDirs
  <2> QED
    BY <2>1, <2>2 DEF HookInv
<1>3. CASE Crash
  <2>1. AllIdle' /\ ListItemDirs' = ListItemDirs
    BY <1>3, NoSyncTyped DEF Crash, AllIdle, At, ListItemDirs
  <2>2. told' = None \/ (AllIdle /\ told' = told)
    BY <1>3 DEF Crash
  <2> QED
    BY <2>1, <2>2 DEF HookInv, Reporting, AllIdle
<1> QED
  BY <1>1, <1>2, <1>3

\* The listener's invariant, on that of the table.
LEMMA ToldCorrect == Spec => []HookInv
<1>1. Init => HookInv
  BY NoSyncTyped DEF Init, HookInv, AllIdle, At, ListItemDirs
<1>2. SyncInv /\ HookInv /\ [Next]_vars => HookInv'
  <2> SUFFICES ASSUME SyncInv, HookInv, [Next]_vars PROVE HookInv'
    OBVIOUS
  <2>1. ASSUME NEW w \in Workers, SyncOnce(w) PROVE HookInv'
    <3>1. Outcomes("database") \subseteq BOOLEAN /\ Outcomes("fetch") \subseteq BOOLEAN
      BY DEF Outcomes
    <3>2. CASE \E ok \in Outcomes("database") : Snapshot(w, ok)
      BY <3>1, <3>2, SnapshotTold
    <3>3. CASE TagFails(w) \/ \E ok \in Outcomes("database") : FireChangeHooks(w, ok)
      BY <3>1, <3>3, EndsTold
    <3>4. CASE \/ \E cached \in SUBSET Items, ok \in Outcomes("fetch") :
                    ListTorrents(w, cached, ok) \/ ListUsenet(w, cached, ok)
               \/ GetNextSyncTag(w) \/ SetStatus(w) \/ PruneBatch(w) \/ PruneEnds(w)
               \/ \E r \in Items \X Paths, ok \in Outcomes("database") : UpsertFile(w, r, ok)
      BY <3>1, <3>4, WorkTold
    <3> QED
      BY <2>1, <3>2, <3>3, <3>4 DEF SyncOnce
  <2> QED
    BY <2>1, RestTold DEF Next
<1> QED
  BY <1>1, <1>2, SyncCorrect, PTL DEF Spec

\* Between syncs a listener that knew the library and applied every report knows it, for
\* any items, workers, faults and crashes.
THEOREM HooksTold == Spec => []HooksKeepUp
<1>1. HookInv => HooksKeepUp
  BY DEF HookInv, HooksKeepUp, AllIdle, Reporting
<1> QED
  BY <1>1, ToldCorrect, PTL

-----------------------------------------------------------------------------
\* The types, and the row that belongs to an item with a file of its path.
THEOREM SyncTypes == Spec => []TypeOK
<1>1. SyncInv /\ HookInv => TypeOK
  <2> SUFFICES ASSUME SyncInv, HookInv PROVE TypeOK
    OBVIOUS
  <2>1. ASSUME NEW w \in Workers
        PROVE  /\ sync[w].clean \in BOOLEAN
               /\ sync[w].pc \in {"idle", "torrents", "usenet", "tag", "upsert", "prune", "compare"}
               /\ sync[w].before \subseteq Items
               /\ sync[w].failed \subseteq {"torrents", "usenet"}
               /\ sync[w].listed \subseteq sync[w].seen /\ sync[w].seen \subseteq Items
               /\ sync[w].tag \in 0..tag
               /\ sync[w].todo \subseteq Items \X Paths
    <3>1. sync[w] \in Record /\ SyncOK(w) /\ tag \in Nat
      BY DEF SyncInv, Typed
    <3> QED
      BY <3>1 DEF Record, Stages, Listings, SyncOK
  <2>2. \A p \in DOMAIN files : files[p] \in Row
    BY DEF SyncInv, Typed
  <2>3. \A c \in Clients : client[c] \in Lookup
    BY DEF SyncInv, Typed
  <2> QED
    BY <2>1, <2>2, <2>3 DEF TypeOK, SyncInv, HookInv, Typed, RowsOK, Row, Lookup, Listings
<1> QED
  BY <1>1, SyncCorrect, ToldCorrect, PTL

\* A batch tag marks the rows of the one sync that drew it, across overlaps and crashes.
THEOREM TagsOwn == Spec => []TagMarksOwnRows
<1>1. SyncInv => TagMarksOwnRows
  BY DEF SyncInv
<1> QED
  BY <1>1, SyncCorrect, PTL

\* A clean sync without an error leaves the table holding the two listings, no more and
\* no less.
THEOREM Mirrored == Spec => []SuccessMirrors
<1>1. SyncInv => SuccessMirrors
  <2> SUFFICES ASSUME SyncInv, NEW w \in Workers,
                      At(w, "compare"), sync[w].clean, lastError = {}
               PROVE  /\ DOMAIN files = Listed(w)
                      /\ \A p \in DOMAIN files : files[p].item \in sync[w].listed
    BY DEF SuccessMirrors
  <2>1. Writing(w) /\ sync[w].pc = "compare" /\ SyncOK(w) /\ CleanOK(w)
    BY DEF SyncInv, Writing, At
  <2>2. Untouched(w) = {} /\ sync[w].todo = {}
    BY <2>1 DEF CleanOK, SyncOK, At
  <2>3. ASSUME NEW p \in DOMAIN files
        PROVE  files[p].item \in sync[w].listed /\ p \in PathsOf[files[p].item]
    BY <2>1, <2>2 DEF Untouched, SyncInv, TagMarksOwnRows, RowsOK
  <2>4. \A i \in sync[w].listed : \A p \in PathsOf[i] : p \in DOMAIN files
    BY <2>1, <2>2 DEF CleanOK
  <2> QED
    BY <2>3, <2>4 DEF Listed
<1> QED
  BY <1>1, SyncCorrect, PTL

\* A clean sync prunes only what its listings left out, or what it could not list.
THEOREM PruneKeepsListed == Spec => PruneOnlyUnlisted
<1> DEFINE Pruned == \A p \in DOMAIN files \ DOMAIN files', w \in Workers :
                       At(w, "prune") /\ sync[w].clean =>
                         files[p].item \notin sync[w].seen \/ Unfetched(files[p].item, w)
<1>1. SyncInv /\ [Next]_vars => [Pruned]_vars
  <2> SUFFICES ASSUME SyncInv, Next, NEW p \in DOMAIN files \ DOMAIN files', NEW w \in Workers,
                      At(w, "prune"), sync[w].clean
               PROVE  files[p].item \notin sync[w].seen \/ Unfetched(files[p].item, w)
    BY DEF Pruned
  <2>1. p \in Untouched(w)
    <3>1. PICK v \in Workers : PruneBatch(v)
      <4>0. p \in DOMAIN files /\ p \notin DOMAIN files'
        OBVIOUS
      <4>1. CASE \E v \in Workers : SyncOnce(v)
        <5>1. PICK v \in Workers : SyncOnce(v)
          BY <4>1
        <5>2. ~\E ok : Snapshot(v, ok) \/ FireChangeHooks(v, ok)
          BY <4>0 DEF Snapshot, FireChangeHooks
        <5>3. ~\E cached, ok : ListTorrents(v, cached, ok) \/ ListUsenet(v, cached, ok)
          BY <4>0 DEF ListTorrents, ListUsenet, FetchListing
        <5>4. ASSUME NEW r, NEW ok, UpsertFile(v, r, ok)
              PROVE  FALSE
          <6>1. files' = files \/ DOMAIN files' = DOMAIN files \cup {r[2]}
            BY <5>4 DEF UpsertFile
          <6> QED
            BY <4>0, <6>1
        <5>5. ~GetNextSyncTag(v) /\ ~TagFails(v) /\ ~SetStatus(v) /\ ~PruneEnds(v)
          BY <4>0 DEF GetNextSyncTag, TagFails, SetStatus, PruneEnds
        <5> QED
          BY <5>1, <5>2, <5>3, <5>4, <5>5 DEF SyncOnce
      <4>2. ~\E c \in Clients : Request(c)
        <5>1. ~\E c, link : SetCDNURL(c, link)
          BY <4>0 DEF SetCDNURL
        <5>2. ~\E c, q : GetFileByPath(c, q) \/ GiveUpLink(c)
          BY <4>0 DEF GetFileByPath, GiveUpLink
        <5> QED
          BY <5>1, <5>2 DEF Request
      <4>3. ~Crash /\ ~ListenerLooks
        BY <4>0 DEF Crash, ListenerLooks
      <4> QED
        BY <4>1, <4>2, <4>3 DEF Next
    <3>2. v = w
      BY <3>1 DEF SyncInv, Alone, PruneBatch, At
    <3> QED
      BY <3>1, <3>2 DEF PruneBatch, kSubset
  <2>2. p \in PathsOf[files[p].item] /\ SyncOK(w) /\ CleanOK(w) /\ Writing(w)
    BY DEF SyncInv, RowsOK, Writing, At
  <2>3. files[p].item \notin sync[w].listed
    BY <2>1, <2>2 DEF CleanOK, SyncOK, At, Untouched
  <2> QED
    BY <2>2, <2>3 DEF SyncOK
<1>2. Spec => [][Pruned]_vars
  BY <1>1, SyncCorrect, PTL DEF Spec
<1> QED
  BY <1>2 DEF PruneOnlyUnlisted
=============================================================================
