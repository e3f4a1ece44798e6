----------------------------- MODULE FileBrowser -----------------------------
(***************************************************************************)
(* The file tree as a client sees it: server.go handleWebDAV resolves the  *)
(* URL, store.go ListDir finds the rows below it, library/filter.go keeps  *)
(* those of a virtual path, and three handlers list the children of a      *)
(* directory: PROPFIND (propfind.go), GET (get.go) and the pages under     *)
(* /http/ (http_browser.go).  A client walks the tree through one of them  *)
(* and then asks for the size and a range of what it found, while the sync *)
(* inserts, changes and deletes rows.                                      *)
(*                                                                         *)
(* A path is a sequence of names, a URL the sequence after /webdav, which  *)
(* /infuse stands for as well, or after /http.  Of strings the model keeps *)
(* what the handlers do with them: SQL LIKE ignores case, takes _ for any  *)
(* character and matches beyond the end of a name, strings.TrimPrefix cuts *)
(* the tail off a longer name.                                             *)
(***************************************************************************)
EXTENDS ByteRanges, Selection, SequencesExt

CONSTANTS
  PathOrder,         \* the paths of rows, in the order ORDER BY name puts them
  RowsAt,            \* RowsAt[p]: the rows the sync may write at p
  NoRow,
  All,               \* the mount __all__
  Mounts,            \* the names of library.virtual_paths
  DirectoryInclude, DirectoryExclude, FileRegex, LargestFileOnly,  \* per mount
  LikeWhole,         \* pairs of names: the second is LIKE the first
  LikePrefix,        \* pairs of names: the second is LIKE the first followed by %
  Rest,              \* Rest[<<a, b>>]: the tail of b, where a is a proper prefix of it
  Starts,            \* the URLs a client starts at
  MaxEdits,          \* bound on the rows the sync changes
  Headers            \* the ranges clients ask for

Paths == ToSet(PathOrder)
Rows == UNION {RowsAt[p] : p \in Paths}
Segments ==
  (UNION {ToSet(p) : p \in Paths}) \cup Mounts \cup {All} \cup {Rest[pair] : pair \in DOMAIN Rest}

ASSUME BrowserAssumption ==
  /\ PathOrder \in Seq(Seq(Segments)) /\ Starts \subseteq Seq(Segments)
  /\ All \notin Mounts /\ <<>> \notin Starts
  /\ \A p \in Paths : p # <<>> /\ NoRow \notin RowsAt[p]
  /\ \A p \in Paths : \A row \in RowsAt[p] : row.size \in Nat
  /\ Headers \subseteq RangeHeaders
  /\ LikeWhole \subseteq LikePrefix /\ DOMAIN Rest \subseteq LikePrefix
  /\ MaxEdits \in Nat

VARIABLES
  table,      \* table[p]: the row of path p, [item, size], or NoRow
  door,       \* how the client lists directories
  pending,    \* the directories it has seen and not listed
  found,      \* the URLs of files it has seen
  steady,     \* the URLs below the start that have named a file ever since (history)
  edits,      \* how often the sync has changed a row
  opened,     \* the URL and row of the client's HEAD
  reply       \* the last answer to a range

vars == <<table, door, pending, found, steady, edits, opened, reply>>

Stored == {p \in Paths : table[p] # NoRow}
IndexOf(p) == CHOOSE i \in DOMAIN PathOrder : PathOrder[i] = p
Before(p, q) == IndexOf(p) < IndexOf(q)

-----------------------------------------------------------------------------
\* path LIKE prefix || '%': the last segment of the prefix may end within a name, unless
\* the prefix ends in a slash.
Matches(prefix, slash, path) ==
  LET n == Len(prefix) IN
  \/ n = 0
  \/ /\ IF slash THEN n < Len(path) ELSE n <= Len(path)
     /\ \A i \in 1..(IF slash THEN n ELSE n - 1) :
          path[i] = prefix[i] \/ <<prefix[i], path[i]>> \in LikeWhole
     /\ path[n] = prefix[n] \/ <<prefix[n], path[n]>> \in LikePrefix

ListDir(prefix, slash) == Select(PathOrder, {p \in Stored : Matches(prefix, slash, p)})

\* strings.TrimPrefix(path, prefix), then of the slash: the whole path when the row is
\* only LIKE the prefix.
RelPath(prefix, path) ==
  LET n == Len(prefix)
      parents == n > 0 /\ n <= Len(path) /\ SubSeq(path, 1, n - 1) = SubSeq(prefix, 1, n - 1)
      below == SubSeq(path, n + 1, Len(path))
  IN IF parents /\ path[n] = prefix[n] THEN below
     ELSE IF parents /\ <<prefix[n], path[n]>> \in DOMAIN Rest
     THEN <<Rest[<<prefix[n], path[n]>>]>> \o below
     ELSE path

-----------------------------------------------------------------------------
\* An include or exclude that is not configured is the set of all names, or empty.
MatchDirectory(m, name) == name \in DirectoryInclude[m] /\ name \notin DirectoryExclude[m]

\* The file regex is put to the path without its first directory.
MatchFile(m, path) == (IF Len(path) > 1 THEN Tail(path) ELSE path) \in FileRegex[m]
Accepts(m, path) == MatchDirectory(m, Head(path)) /\ MatchFile(m, path)

SameItem(p, q) == table[p].item = table[q].item

\* The first of the largest files of p's item.
LargestOf(files, p) ==
  CHOOSE q \in files :
    /\ SameItem(p, q)
    /\ \A r \in files : SameItem(p, r) =>
         \/ table[q].size > table[r].size
         \/ table[q].size = table[r].size /\ ~Before(r, q)

\* KeepLargest: per item the largest file, in the place of the item's first.
KeepLargest(records) ==
  LET files == ToSet(records)
      firsts == Select(records, {p \in files : \A q \in files : SameItem(p, q) => ~Before(q, p)})
  IN [i \in DOMAIN firsts |-> LargestOf(files, firsts[i])]

\* Mutant: the largest file is chosen before the regexes are applied.
ApplyLargestFirst(m, records) ==
  Select(IF LargestFileOnly[m] THEN KeepLargest(records) ELSE records,
         {p \in Paths : Accepts(m, p)})

\* Filter.Apply.
Apply(m, records) ==
  LET accepted == Select(records, {p \in Paths : Accepts(m, p)})
  IN IF LargestFileOnly[m] THEN KeepLargest(accepted) ELSE accepted

-----------------------------------------------------------------------------
\* handleWebDAV: the first segment names a mount or is part of a path of the raw view.
Resolve(url) ==
  IF url # <<>> /\ Head(url) \in Mounts \cup {All}
  THEN [mounted |-> TRUE, filter |-> Head(url), prefix |-> Tail(url)]
  ELSE [mounted |-> FALSE, filter |-> All, prefix |-> url]

Visible(at, slash) ==
  LET records == ListDir(at.prefix, slash)
  IN IF at.filter = All THEN records ELSE Apply(at.filter, records)

Entry(name, kind, href) == [name |-> name, kind |-> kind, href |-> href]
MountEntries == {Entry(m, "dir", <<m>>) : m \in Mounts \cup {All}}

\* The map of immediate children: the first record of a name says what it is.  The path
\* of the directory itself has the empty name, whose href has been listed already.
Immediate(url, prefix, records) ==
  LET rel == [i \in DOMAIN records |-> RelPath(prefix, records[i])]
      Leads(i) == rel[i] # <<>> /\ \A j \in 1..(i - 1) : rel[j] # <<>> => rel[j][1] # rel[i][1]
  IN {Entry(rel[i][1], IF Len(rel[i]) > 1 THEN "dir" ELSE "file", Append(url, rel[i][1])) :
        i \in {i \in DOMAIN records : Leads(i)}}

\* handlePropfind with Depth 1: never a 404, and a collection even for a file.
PropfindEntries(url) ==
  LET at == Resolve(url)
  IN IF at.prefix = <<>> /\ ~at.mounted THEN MountEntries
     ELSE Immediate(url, at.prefix, Visible(at, FALSE))

\* Mutant: the listing itself asks for rows below the slash, in one handler of three.
GetEntriesBelow(url) ==
  LET at == Resolve(url)
  IN IF at.prefix # <<>> /\ ListDir(at.prefix, TRUE) = <<>> THEN {}
     ELSE IF at.prefix = <<>> /\ ~at.mounted THEN MountEntries
     ELSE Immediate(url, at.prefix, Visible(at, at.prefix # <<>>))

\* handleGet on the href of a directory: a listing if any row is below it, before the
\* filter; serveDirListing lists without the slash.
GetEntries(url) ==
  LET at == Resolve(url)
  IN IF at.prefix # <<>> /\ ListDir(at.prefix, TRUE) = <<>> THEN {}
     ELSE IF at.prefix = <<>> /\ ~at.mounted THEN MountEntries
     ELSE Immediate(url, at.prefix, Visible(at, FALSE))

\* Mutant: the pages list the rows without the filter of the mount.
HttpUnfiltered(url) ==
  LET at == Resolve(url)
      mount == IF at.mounted THEN <<at.filter>> ELSE <<>>
      files == ToSet(ListDir(at.prefix, FALSE))
      Rel(p) == RelPath(at.prefix, p)
  IN IF at.prefix \in Stored THEN {}
     ELSE IF url = <<>> THEN MountEntries
     ELSE {Entry(Rel(p)[1], "dir", Append(url, Rel(p)[1])) : p \in {p \in files : Len(Rel(p)) > 1}}
          \cup {Entry(Rel(p)[1], "file", mount \o p) : p \in {p \in files : Len(Rel(p)) = 1}}

\* handleHTTP: a file is streamed; otherwise directories and files are gathered apart,
\* and a file links to its own path whatever the directory shown.
HttpEntries(url) ==
  LET at == Resolve(url)
      mount == IF at.mounted THEN <<at.filter>> ELSE <<>>
      files == ToSet(Visible(at, FALSE))
      Rel(p) == RelPath(at.prefix, p)
  IN IF at.prefix \in Stored THEN {}
     ELSE IF url = <<>> THEN MountEntries
     ELSE {Entry(Rel(p)[1], "dir", Append(url, Rel(p)[1])) : p \in {p \in files : Len(Rel(p)) > 1}}
          \cup {Entry(Rel(p)[1], "file", mount \o p) : p \in {p \in files : Len(Rel(p)) = 1}}

Entries(how, url) ==
  CASE how = "propfind" -> PropfindEntries(url)
    [] how = "get" -> GetEntries(url)
    [] how = "http" -> HttpEntries(url)

-----------------------------------------------------------------------------
\* The mount shows the row: its directory and file match, and no other matching file of
\* its item is larger, or as large and before it.
Shows(m, p) ==
  /\ Accepts(m, p)
  /\ LargestFileOnly[m] =>
       \A q \in Stored : Accepts(m, q) /\ SameItem(p, q) =>
         \/ table[q].size < table[p].size
         \/ table[q].size = table[p].size /\ ~Before(q, p)

\* Two rows give one name to a file and to a directory: the earlier row wins.
Clashes(p) ==
  \E n \in 0..(Len(p) - 1), q \in Stored :
    LET d == SubSeq(p, 1, n)
        rel == RelPath(d, q)
    IN /\ Matches(d, FALSE, q)
       /\ rel # <<>> /\ rel[1] = p[n + 1]
       /\ (Len(rel) > 1) # (Len(p) > n + 1)

\* The URL names a stored file that its mount shows under a name of its own.
Names(url) ==
  LET at == Resolve(url) IN
  /\ at.prefix \in Stored
  /\ ~Clashes(at.prefix)
  /\ at.filter # All => Shows(at.filter, at.prefix)

Urls == Paths \cup UNION {{<<m>> \o p : p \in Paths} : m \in Mounts \cup {All}}
Below(start) == {u \in Urls : IsStrictPrefix(start, u)}

NoFile == [url |-> <<>>, row |-> NoRow]
NoReply == [promised |-> NoRow]

Init ==
  /\ table \in {t \in [Paths -> Rows \cup {NoRow}] :
                  \A p \in Paths : t[p] \in RowsAt[p] \cup {NoRow}}
  /\ door \in {"propfind", "get", "http"}
  /\ \E start \in Starts :
       pending = {start} /\ steady = {u \in Below(start) : Names(u)}
  /\ found = {} /\ edits = 0
  /\ opened = NoFile /\ reply = NoReply

\* The client lists a directory it has seen.
List(url) ==
  /\ url \in pending
  /\ LET entries == Entries(door, url)
         Hrefs(kind) == {e.href : e \in {e \in entries : e.kind = kind}}
     IN /\ pending' = (pending \ {url}) \cup Hrefs("dir")
        /\ found' = found \cup Hrefs("file")
  /\ UNCHANGED <<table, door, steady, edits, opened, reply>>

Edit(p, row) ==
  /\ edits < MaxEdits
  /\ edits' = edits + 1
  /\ row # table[p]
  /\ table' = [table EXCEPT ![p] = row]
  /\ steady' = {u \in steady : Names(u)'}
  /\ UNCHANGED <<door, pending, found, opened, reply>>

\* UpsertFile: a new row, or the row of the path becomes another file's.
UpsertFile(p) == \E row \in RowsAt[p] : Edit(p, row)

\* PruneBySyncTag.
Prune(p) == Edit(p, NoRow)

RowOf(url) == LET p == Resolve(url).prefix IN IF p \in Paths THEN table[p] ELSE NoRow

\* handleHead on a file: its size, or a 404.  The filter of the mount is not asked.  Under
\* /http only GET is routed.
HandleHead(url) ==
  /\ door # "http"
  /\ pending = {}
  /\ url \in found
  /\ opened' = [url |-> url, row |-> RowOf(url)]
  /\ reply' = NoReply
  /\ UNCHANGED <<table, door, pending, found, steady, edits>>

\* handleGet on the file with a Range: the row is looked up again.
HandleGet(header) ==
  /\ opened.row # NoRow
  /\ LET row == RowOf(opened.url) IN
     reply' = [header |-> header, promised |-> opened.row, row |-> row,
               answer |-> IF row = NoRow THEN [ok |-> FALSE] ELSE ParseRange(header, row.size)]
  /\ opened' = NoFile
  /\ UNCHANGED <<table, door, pending, found, steady, edits>>

Next ==
  \/ \E url \in pending : List(url)
  \/ \E p \in Paths : UpsertFile(p) \/ Prune(p)
  \/ \E url \in found : HandleHead(url)
  \/ \E header \in Headers : HandleGet(header)

Spec == Init /\ [][Next]_vars

-----------------------------------------------------------------------------
\* A file that was there all the time a client walked the tree is found by it, whichever
\* handler listed the directories, whatever the sync did to other rows, its own item's
\* included, and however the names of its neighbours are LIKE its own (store.go:155-174,
\* filter.go:75-125, propfind.go:134-185, get.go:860-913, http_browser.go:164-210).
StableFilesFound == pending = {} => steady \subseteq found

\* No other row is taken for one below a directory of the path.
Plain(p) ==
  \A n \in 1..(Len(p) - 1), q \in Stored :
    Matches(SubSeq(p, 1, n), FALSE, q) => IsPrefix(SubSeq(p, 1, n), q)

\* What a client finds is what the mount shows: a stored file its regexes accept and,
\* with largest_file_only, not a smaller one beside a larger of its item in the same
\* directory.  The files a LIKE lets into the listing of another directory are excepted:
\* the largest of those listed there need not be the largest of their own directory.
OnlyKeptFound ==
  [][\A dir \in pending \ pending', url \in found' \ found :
       LET at == Resolve(url)
           p == at.prefix
       IN IsPrefix(dir, url) /\ Plain(p) =>
            /\ p \in Stored
            /\ at.filter # All =>
                 /\ Accepts(at.filter, p)
                 /\ LargestFileOnly[at.filter] =>
                      \A q \in Stored :
                        Front(q) = Front(p) /\ SameItem(p, q) /\ Accepts(at.filter, q)
                          => table[q].size <= table[p].size]_vars

Named(entries) == {[name |-> e.name, kind |-> e.kind] : e \in entries}

\* The three handlers list the same children of a directory, though each computes them
\* itself; but GET answers 404 when no row at all is below the directory, under /http/ a
\* name may be a file and a directory at once, where the other two keep the first, and a
\* directory with the path of a file streams the file instead.
ListingsAgree ==
  \A url \in pending \cup {<<>>} :
    /\ ListDir(Resolve(url).prefix, Resolve(url).prefix # <<>>) # <<>> =>
         Named(PropfindEntries(url)) = Named(GetEntries(url))
    /\ Resolve(url).prefix \notin Stored =>
         LET http == Named(HttpEntries(url)) IN
         /\ Named(PropfindEntries(url)) \subseteq http
         /\ {e.name : e \in http} = {e.name : e \in Named(PropfindEntries(url))}

\* A client that asks for a range within the size it was told of gets exactly those bytes
\* unless the row has changed since (get.go:129-142, 697-756, 762-796).
ReadsAnswered ==
  reply # NoReply /\ reply.row = reply.promised /\ Within(reply.header, reply.row.size)
    => Exact(reply.header, reply.row.size, reply.answer)
=============================================================================
