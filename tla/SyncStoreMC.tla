----------------------------- MODULE SyncStoreMC -----------------------------
EXTENDS SyncStore, TLC
CONSTANTS loop, syncNow, t1, t2, u1

\* A torrent of two files, a torrent with one of the same paths, a usenet download.
MCShared == [i \in Items |-> CASE i = t1 -> {"a", "b"} [] i = t2 -> {"a"} [] i = u1 -> {"c"}]

\* The smallest overlap: a torrent and a usenet download of a file each.
MCSingle == [i \in Items |-> CASE i = t1 -> {"a"} [] i = t2 -> {"a"} [] i = u1 -> {"c"}]

\* The loop and SyncNow run the same code.
Symmetric == Permutations(Workers)
=============================================================================
