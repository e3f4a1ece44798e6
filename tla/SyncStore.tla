------------------------------ MODULE SyncStore ------------------------------
(***************************************************************************)
(* internal/metadata/sync.go syncOnce on internal/metadata/store.go: how   *)
(* the SQLite table of files follows the TorBox account.  A sync takes a   *)
(* snapshot for the hooks, fetches two listings, draws a batch tag, writes *)
(* every listed file with it, prunes the rows with another tag and reports *)
(* what changed.  The sync loop and SyncNow run it concurrently; requests  *)
(* for CDN links read a row, ask TorBox and write the link back.  Every    *)
(* SQL statement is one step.  The tables survive a crash of the process.  *)
(***************************************************************************)
EXTENDS Integers, FiniteSets, FiniteSetsExt

CONSTANTS
  Workers,     \* goroutines that run syncOnce: the loop, a SyncNow
  Clients,     \* goroutines that serve a file
  Items,       \* (item id, source) pairs
  Torrents,    \* those of the torrent listing, the others being usenet's
  PathsOf,     \* PathsOf[i]: the virtual paths of the item's files
  BatchSize,   \* rows a prune deletes per statement
  None,        \* no path, no item, the empty link
  Faults,      \* what may go wrong: a subset of {"fetch", "database", "crash"}
  MaxSyncs     \* bound: no sync begins after that many tags

Paths == UNION {PathsOf[i] : i \in Items}

ASSUME SyncAssumption ==
  /\ Torrents \subseteq Items
  /\ BatchSize \in Nat \ {0}
  /\ None \notin Items \cup Paths /\ \A known \in SUBSET Items : None # known
  /\ Faults \subseteq {"fetch", "database", "crash"}
  /\ MaxSyncs \in Nat

VARIABLES
  files,      \* the table files: path -> [item, tag, url]
  tag,        \* the counter of the table meta
  sync,       \* one record per worker, see NoSync
  client,     \* one record per client: the row it has looked up
  lastError,  \* SyncWorker.lastError
  told        \* what a listener of the hooks takes the library to be, or None once a change
              \* happened that the code reports to nobody (history)

vars == <<files, tag, sync, client, lastError, told>>

\* before: the snapshot; failed: the listings that could not be fetched; listed: the
\* items fetched; todo: the records still to write; seen: the items in the account when
\* the listings were asked for, fetched or not (history); clean: no other sync has run
\* meanwhile and none of its SQL statements has failed (history).
NoSync == [pc |-> "idle", before |-> {}, failed |-> {}, listed |-> {}, tag |-> 0,
           todo |-> {}, seen |-> {}, clean |-> FALSE]

\* row: the path of the row looked up, or None; alive: its id still exists.
NoRow == [row |-> None, item |-> None, alive |-> FALSE]

Init ==
  /\ files = [p \in {} |-> 0]
  /\ tag = 0
  /\ sync = [w \in Workers |-> NoSync]
  /\ client = [c \in Clients |-> NoRow]
  /\ lastError = {}
  /\ told = {}

At(w, where) == sync[w].pc = where
AllIdle == \A w \in Workers : At(w, "idle")
Outcomes(fault) == IF fault \in Faults THEN BOOLEAN ELSE {TRUE}

\* ListItemDirs: the items that own a row.
ListItemDirs == {files[p].item : p \in DOMAIN files}

-----------------------------------------------------------------------------
\* The snapshot; an error leaves it empty, and nothing will be reported.  Of two syncs at
\* once neither knows what the other has reported.
Snapshot(w, ok) ==
  /\ At(w, "idle")
  /\ tag < MaxSyncs
  /\ sync' = [v \in Workers |->
                IF v = w
                THEN [NoSync EXCEPT !.pc = "torrents",
                                    !.before = IF ok THEN ListItemDirs ELSE {},
                                    !.clean = ok /\ AllIdle]
                ELSE [sync[v] EXCEPT !.clean = FALSE]]
  /\ told' = IF ok /\ AllIdle THEN told ELSE None
  /\ UNCHANGED <<files, tag, client, lastError>>

\* A listing is executed by the throttle queue, its retries and pages included, and shows
\* the part of the account that is cached then: items come and go between any two steps,
\* so that is any set.  A failed one is logged and the sync goes on.
FetchListing(w, name, cached, next, ok) ==
  /\ At(w, name)
  /\ sync' = [sync EXCEPT ![w].pc = next,
                          ![w].failed = IF ok THEN @ ELSE @ \cup {name},
                          ![w].listed = IF ok THEN @ \cup cached ELSE @,
                          ![w].seen = @ \cup cached]
  /\ UNCHANGED <<files, tag, client, lastError, told>>

ListTorrents(w, cached, ok) ==
  cached \subseteq Torrents /\ FetchListing(w, "torrents", cached, "usenet", ok)

ListUsenet(w, cached, ok) ==
  cached \subseteq Items \ Torrents /\ FetchListing(w, "usenet", cached, "tag", ok)

\* Mutant: the next tag is computed and not stored.
TagNotStored(w) ==
  /\ At(w, "tag")
  /\ sync' = [sync EXCEPT ![w].pc = "upsert", ![w].tag = tag + 1,
                          ![w].todo = {r \in Items \X Paths :
                                         r[1] \in sync[w].listed /\ r[2] \in PathsOf[r[1]]}]
  /\ UNCHANGED <<files, tag, client, lastError, told>>

\* GetNextSyncTag: one UPDATE ... RETURNING.
GetNextSyncTag(w) ==
  /\ At(w, "tag")
  /\ tag' = tag + 1
  /\ sync' = [sync EXCEPT ![w].pc = "upsert", ![w].tag = tag + 1,
                          ![w].todo = {r \in Items \X Paths :
                                         r[1] \in sync[w].listed /\ r[2] \in PathsOf[r[1]]}]
  /\ UNCHANGED <<files, client, lastError, told>>

TagFails(w) ==
  /\ At(w, "tag")
  /\ "database" \in Faults
  /\ sync' = [sync EXCEPT ![w] = NoSync]
  /\ UNCHANGED <<files, tag, client, lastError, told>>

\* Mutant: ON CONFLICT without the sync_tag.
UpsertKeepsTag(w, r, ok) ==
  /\ At(w, "upsert")
  /\ r \in sync[w].todo
  /\ r[1] \in Torrents \/ \A s \in sync[w].todo : s[1] \notin Torrents
  /\ files' = IF ~ok THEN files
              ELSE [p \in DOMAIN files \cup {r[2]} |->
                      IF p # r[2] THEN files[p]
                      ELSE [item |-> r[1], url |-> None,
                            tag |-> IF p \in DOMAIN files THEN files[p].tag ELSE sync[w].tag]]
  /\ sync' = [sync EXCEPT ![w].todo = @ \ {r}, ![w].clean = @ /\ ok]
  /\ UNCHANGED <<tag, client, lastError, told>>

\* UpsertFile of one record, torrents first; a conflict on the path keeps the row's id
\* and overwrites the rest, the cached link included.  A locked database loses the
\* record and the sync goes on.
UpsertFile(w, r, ok) ==
  /\ At(w, "upsert")
  /\ r \in sync[w].todo
  /\ r[1] \in Torrents \/ \A s \in sync[w].todo : s[1] \notin Torrents
  /\ files' = IF ~ok THEN files
              ELSE [p \in DOMAIN files \cup {r[2]} |->
                      IF p = r[2] THEN [item |-> r[1], tag |-> sync[w].tag, url |-> None]
                      ELSE files[p]]
  /\ sync' = [sync EXCEPT ![w].todo = @ \ {r}, ![w].clean = @ /\ ok]
  /\ UNCHANGED <<tag, client, lastError, told>>

\* Mutant: a sync with an error ends here.
StatusReturnsEarly(w) ==
  /\ At(w, "upsert")
  /\ sync[w].todo = {}
  /\ lastError' = sync[w].failed
  /\ sync' = [sync EXCEPT ![w] = IF sync[w].failed = {} THEN [@ EXCEPT !.pc = "prune"]
                                 ELSE NoSync]
  /\ UNCHANGED <<files, tag, client, told>>

\* Everything is written: publish the outcome, then prune unless both listings failed.
SetStatus(w) ==
  /\ At(w, "upsert")
  /\ sync[w].todo = {}
  /\ lastError' = sync[w].failed
  /\ sync' = [sync EXCEPT ![w].pc = IF sync[w].failed = {"torrents", "usenet"}
                                    THEN "compare" ELSE "prune"]
  /\ UNCHANGED <<files, tag, client, told>>

Untouched(w) == {p \in DOMAIN files : files[p].tag # sync[w].tag}

\* One DELETE of PruneBySyncTag; the ids it removes are never given out again.
PruneBatch(w) ==
  LET n == IF Cardinality(Untouched(w)) < BatchSize THEN Cardinality(Untouched(w)) ELSE BatchSize
  IN
  /\ At(w, "prune")
  /\ n > 0
  /\ \E gone \in kSubset(n, Untouched(w)) :
       /\ files' = [p \in DOMAIN files \ gone |-> files[p]]
       /\ client' = [c \in Clients |->
                       IF client[c].row \in gone THEN [client[c] EXCEPT !.alive = FALSE]
                       ELSE client[c]]
  /\ UNCHANGED <<tag, sync, lastError, told>>

\* Mutant: the loop ends after any batch.
PruneStopsShort(w) ==
  /\ At(w, "prune")
  /\ sync' = [sync EXCEPT ![w].pc = "compare"]
  /\ UNCHANGED <<files, tag, client, lastError, told>>

\* A DELETE that finds nothing, or fails, ends the prune.
PruneEnds(w) ==
  /\ At(w, "prune")
  /\ Untouched(w) = {} \/ "database" \in Faults
  /\ sync' = [sync EXCEPT ![w].pc = "compare", ![w].clean = @ /\ Untouched(w) = {}]
  /\ UNCHANGED <<files, tag, client, lastError, told>>

\* What a listener knows once it has applied the report of fireChangeHooks.
Reported(known, before, after) == (known \cup (after \ before)) \ (before \ after)

\* Change detection, the end of a sync: fireChangeHooks is called only with two sets that
\* were read and are not empty.  A change that is not reported leaves a listener behind.
FireChangeHooks(w, ok) ==
  LET before == sync[w].before
      after == ListItemDirs
      compared == before # {} /\ ok /\ after # {}
  IN
  /\ At(w, "compare")
  /\ told' = IF told = None \/ before = after THEN told
             ELSE IF compared THEN Reported(told, before, after)
             ELSE None
  /\ sync' = [sync EXCEPT ![w] = NoSync]
  /\ UNCHANGED <<files, tag, client, lastError>>

\* A listener that has been left behind looks at the library between syncs.
ListenerLooks ==
  /\ told = None
  /\ AllIdle
  /\ told' = ListItemDirs
  /\ UNCHANGED <<files, tag, sync, client, lastError>>

-----------------------------------------------------------------------------
\* GetFileByPath.
GetFileByPath(c, p) ==
  /\ client[c].row = None
  /\ p \in DOMAIN files
  /\ client' = [client EXCEPT ![c] = [row |-> p, item |-> files[p].item, alive |-> TRUE]]
  /\ UNCHANGED <<files, tag, sync, lastError, told>>

\* SetCDNURL by the row's id, with the link TorBox gave for the item and file looked up,
\* or the empty string to invalidate it; an id that is gone matches no row.
SetCDNURL(c, link) ==
  LET p == client[c].row IN
  /\ p # None
  /\ files' = IF client[c].alive THEN [files EXCEPT ![p].url = link] ELSE files
  /\ client' = [client EXCEPT ![c] = NoRow]
  /\ UNCHANGED <<tag, sync, lastError, told>>

\* No link, or three locked attempts: the request goes on without writing.
GiveUpLink(c) ==
  /\ client[c].row # None
  /\ client' = [client EXCEPT ![c] = NoRow]
  /\ UNCHANGED <<files, tag, sync, lastError, told>>

-----------------------------------------------------------------------------
\* Mutant: the counter lives in memory.
CrashLosesTag ==
  /\ "crash" \in Faults
  /\ sync' = [w \in Workers |-> NoSync]
  /\ client' = [c \in Clients |-> NoRow]
  /\ lastError' = {}
  /\ told' = IF AllIdle THEN told ELSE None
  /\ tag' = 0
  /\ UNCHANGED files

\* The process dies and starts again on the same database; a sync it cuts short reports
\* nothing of what it has written.
Crash ==
  /\ "crash" \in Faults
  /\ sync' = [w \in Workers |-> NoSync]
  /\ client' = [c \in Clients |-> NoRow]
  /\ lastError' = {}
  /\ told' = IF AllIdle THEN told ELSE None
  /\ UNCHANGED <<files, tag>>

SyncOnce(w) ==
  \/ \E ok \in Outcomes("database") : Snapshot(w, ok) \/ FireChangeHooks(w, ok)
  \/ \E cached \in SUBSET Items, ok \in Outcomes("fetch") :
       ListTorrents(w, cached, ok) \/ ListUsenet(w, cached, ok)
  \/ GetNextSyncTag(w) \/ TagFails(w)
  \/ \E r \in Items \X Paths, ok \in Outcomes("database") : UpsertFile(w, r, ok)
  \/ SetStatus(w) \/ PruneBatch(w) \/ PruneEnds(w)

Request(c) ==
  \/ \E p \in Paths : GetFileByPath(c, p)
  \/ \E link \in {client[c].item, None} : SetCDNURL(c, link)
  \/ GiveUpLink(c)

Next ==
  \/ \E w \in Workers : SyncOnce(w)
  \/ \E c \in Clients : Request(c)
  \/ ListenerLooks
  \/ Crash

Spec == Init /\ [][Next]_vars

-----------------------------------------------------------------------------
Writing(w) == sync[w].pc \in {"upsert", "prune", "compare"}

\* Types; a row belongs to an item that has a file of that path (sync.go:367).
TypeOK ==
  /\ DOMAIN files \subseteq Paths
  /\ \A p \in DOMAIN files :
       /\ files[p].item \in Items /\ p \in PathsOf[files[p].item]
       /\ files[p].tag \in 1..tag
       /\ files[p].url \in Items \cup {None}
  /\ tag \in Nat
  /\ \A w \in Workers :
       /\ sync[w].clean \in BOOLEAN
       /\ sync[w].pc \in {"idle", "torrents", "usenet", "tag", "upsert", "prune", "compare"}
       /\ sync[w].before \subseteq Items
       /\ sync[w].failed \subseteq {"torrents", "usenet"}
       /\ sync[w].listed \subseteq sync[w].seen /\ sync[w].seen \subseteq Items
       /\ sync[w].tag \in 0..tag
       /\ sync[w].todo \subseteq Items \X Paths
  /\ \A c \in Clients : client[c].row \in Paths \cup {None} /\ client[c].item \in Items \cup {None}
  /\ lastError \subseteq {"torrents", "usenet"}
  /\ told \in {None} \cup SUBSET Items

\* A batch tag marks the rows one sync wrote and no others: not those of a sync that
\* overlaps it, nor those of one a crash cut short (store.go:354-370, sync.go:346-352).
TagMarksOwnRows ==
  \A w \in Workers : Writing(w) =>
    \A p \in DOMAIN files : files[p].tag = sync[w].tag =>
      files[p].item \in sync[w].listed /\ <<files[p].item, p>> \notin sync[w].todo

Listed(w) == UNION {PathsOf[i] : i \in sync[w].listed}

\* When a clean sync that reports no error has pruned, the table holds exactly the files
\* the two listings named, each as a file of an item that has it, whatever earlier syncs,
\* overlaps, locked writes and crashes left in it (sync.go:354-428, store.go:131-152).
SuccessMirrors ==
  \A w \in Workers : At(w, "compare") /\ sync[w].clean /\ lastError = {} =>
    /\ DOMAIN files = Listed(w)
    /\ \A p \in DOMAIN files : files[p].item \in sync[w].listed

Unfetched(i, w) == (IF i \in Torrents THEN "torrents" ELSE "usenet") \in sync[w].failed

\* A clean sync prunes the file of an item only if its listing was fetched without it,
\* or was not fetched: a sync never drops what it has just listed (sync.go:417-428).
PruneOnlyUnlisted ==
  [][\A p \in DOMAIN files \ DOMAIN files', w \in Workers :
       At(w, "prune") /\ sync[w].clean =>
         files[p].item \notin sync[w].seen \/ Unfetched(files[p].item, w)]_vars

\* sync.go:417-418, "not touched by this sync and safe to remove": a file leaves the
\* table only if its item was not in the account when the pruning sync looked.
PruneSafe ==
  [][\A p \in DOMAIN files \ DOMAIN files' :
       \E w \in Workers : At(w, "prune") /\ files[p].item \notin sync[w].seen]_vars

\* docs/tech-spec.md:489-491: between syncs a listener that knew the library once and has
\* applied every report since knows it, whatever listings, statements and prunes failed
\* meanwhile (sync.go:191-225, 430-438).  The code reports nothing, and the property
\* says nothing until the listener looks again, of a change from or to an empty library,
\* past a snapshot or a new set that could not be read, by two syncs at once, or by a sync
\* that died midway.
HooksKeepUp == AllIdle /\ told # None => told = ListItemDirs

\* store.go:214: SetCDNURL stores a link "for a file identified by its internal ID"; so
\* the link in a row is one of the item the row names.
LinkMatchesRow == \A p \in DOMAIN files : files[p].url \in {files[p].item, None}
=============================================================================
