------------------------------ MODULE CurlCache ------------------------------
(***************************************************************************)
(* The disk cache of the curl network backend, CurlCacheManager and        *)
(* CurlCacheEntry.  Each operator is one method: it takes the cache and    *)
(* gives the cache, or the set of the caches, that the method may leave.   *)
(* The main thread is the only one that calls it.                          *)
(*                                                                         *)
(* A body is the chunks 1..Chunks.  A content file is the sequence of the  *)
(* chunks written to it; a header file comes and goes with it.  A chunk    *)
(* and a header file have size 1.                                          *)
(***************************************************************************)
EXTENDS Naturals, FiniteSets, Queues

CONSTANTS Jobs,            \* ResourceHandles
          URLs,
          None,
          Chunks,          \* chunks of a body
          StorageLimit,    \* m_storageSizeLimit
          DiskErrors       \* may files fail to open?

\* A CurlCacheEntry.  spoiled is no field of the code: it records that the
\* content file lost its beginning or its end with nobody noticing.
Entry == [job : Jobs \cup {None}, loading : BOOLEAN, open : BOOLEAN, clients : SUBSET Jobs,
          entrySize : Nat, spoiled : BOOLEAN]

Content == Seq(1 .. Chunks)

ASSUME CacheAssumption == /\ Chunks \in Nat \ {0}
                          /\ StorageLimit \in Nat
                          /\ DiskErrors \in BOOLEAN
                          /\ None \notin Jobs \cup URLs
                          /\ None \notin Entry
                          /\ None \notin Content

Whole == [n \in 1 .. Chunks |-> n]
DiskWorks == IF DiskErrors THEN BOOLEAN ELSE {TRUE}

NewEntry(j) == [job |-> j, loading |-> FALSE, open |-> FALSE, clients |-> {},
                entrySize |-> 0, spoiled |-> FALSE]

Has(c, u) == c.index[u] # None

\* m_LRUEntryList.remove() and prependOrMoveToFirst()
Without(lru, u) == AllAmong(lru, URLs \ {u})
MoveToFirst(lru, u) == <<u>> \o Without(lru, u)

EntrySize(c, u) ==
    IF c.index[u].entrySize # 0 THEN c.index[u].entrySize
    ELSE IF c.file[u] = None THEN 0 ELSE 1 + Len(c.file[u])

\* invalidateCacheEntry(): the entry, its files and its place in the list.
InvalidateCacheEntry(c, u) ==
    LET gone == [c EXCEPT !.lru = Without(@, u)]
    IN  IF ~Has(c, u) THEN gone
        ELSE [gone EXCEPT
                !.size = IF @ < EntrySize(c, u) THEN 0 ELSE @ - EntrySize(c, u),
                !.file[u] = None,
                !.index[u] = None]

\* Mutant: nothing is evicted.
NoRoomMade(c) == c

\* The loop of makeRoomForNewEntry(): the least recently used go first.
Evict(c, u) == IF c.size > StorageLimit THEN InvalidateCacheEntry(c, u) ELSE c

Evicting(c) ==
    LET left[n \in 0 .. Len(c.lru)] ==
            IF n = 0 THEN c ELSE Evict(left[n - 1], c.lru[Len(c.lru) + 1 - n])
    IN  left

MakeRoomForNewEntry(c) == Evicting(c)[Len(c.lru)]

\* saveIndex(), in the order of the list.
SaveIndex(c) ==
    [c EXCEPT !.saved =
        AllAmong(c.lru, {u \in URLs : Has(c, u) /\ ~c.index[u].loading})]

\* The loop of loadIndex(), in a process that starts with the files that the
\* one before, whose cache was old, has left.
LoadEntry(old, c, u) ==
    LET entry == [NewEntry(None) EXCEPT !.spoiled =
                     Has(old, u) /\ (old.index[u].loading \/ old.index[u].spoiled)]
        size == IF c.file[u] = None THEN 0 ELSE 1 + Len(c.file[u])
        room == MakeRoomForNewEntry([c EXCEPT !.size = @ + size])
    IN  IF size # 0 /\ size < StorageLimit
        THEN [room EXCEPT !.lru = MoveToFirst(@, u),
                          !.index[u] = [entry EXCEPT !.entrySize = size]]
        ELSE [c EXCEPT !.file[u] = None]

EmptyIndex(old) ==
    [old EXCEPT !.index = [u \in URLs |-> None], !.lru = <<>>, !.size = 0]

Loading(old) ==
    LET loaded[n \in 0 .. Len(old.saved)] ==
            IF n = 0 THEN EmptyIndex(old) ELSE LoadEntry(old, loaded[n - 1], old.saved[n])
    IN  loaded

LoadIndex(old) == Loading(old)[Len(old.saved)]

-----------------------------------------------------------------------------
\* isCached(): whether the entry may be used, and the cache after the
\* question.  Only the clock knows whether the entry is expired.  entrySize()
\* remembers what it measures.
IsCached(c, u) ==
    LET measured == [c EXCEPT !.index[u].entrySize = EntrySize(c, u)]
    IN  IF ~Has(c, u) THEN {<<FALSE, c>>}
        ELSE {<<FALSE, InvalidateCacheEntry(c, u)>>} \cup
             (IF c.file[u] = None THEN {} ELSE {<<~c.index[u].loading, measured>>})

AddCacheEntryClient(c, u, j) ==
    IF Has(c, u) THEN [c EXCEPT !.index[u].clients = @ \cup {j}] ELSE c

RemoveCacheEntryClient(c, u, j) ==
    IF Has(c, u) THEN [c EXCEPT !.index[u].clients = @ \ {j}] ELSE c

\* saveResponseHeaders(), for an entry just made; now and then the index is
\* saved as well.
SaveResponseHeaders(c, u) ==
    LET failed == [c EXCEPT !.index[u] = None, !.file[u] = None, !.lru = Without(@, u)]
        Results == {c} \cup (IF DiskErrors THEN {failed} ELSE {})
    IN  Results \cup {SaveIndex(d) : d \in Results}

\* The part of didReceiveResponse() for status 200 from the network.
CreateEntry(c, u, j) ==
    LET d == InvalidateCacheEntry(c, u)
        Made(opened) == [d EXCEPT
            !.index[u] = [NewEntry(j) EXCEPT !.loading = TRUE, !.open = opened],
            !.file[u] = IF opened THEN <<>> ELSE None,
            !.lru = MoveToFirst(@, u)]
    IN  IF Has(c, u) /\ (c.index[u].loading \/ c.index[u].clients # {}) THEN {c}
        ELSE {d} \cup UNION {SaveResponseHeaders(Made(opened), u) : opened \in DiskWorks}

\* readCachedData() fails when the content file cannot be read.
ReadCachedData(c, u, readable) ==
    LET d == IF Has(c, u) /\ ~readable THEN InvalidateCacheEntry(c, u) ELSE c
    IN  [d EXCEPT !.lru = MoveToFirst(@, u)]

\* didReceiveData()
DidReceiveData(c, u, j, chunk) ==
    LET before == IF c.index[u].open THEN c.file[u] ELSE <<>>
        saved == [c EXCEPT !.file[u] = Append(before, chunk),
                           !.index[u].open = TRUE,
                           !.index[u].spoiled = @ \/ ~c.index[u].loading,
                           !.size = @ + 1,
                           !.lru = MoveToFirst(@, u)]
    IN  IF ~Has(c, u) THEN {c}
        ELSE IF c.index[u].job # j THEN {c}
        ELSE {MakeRoomForNewEntry(saved)} \cup
             (IF DiskErrors /\ ~c.index[u].open THEN {InvalidateCacheEntry(c, u)} ELSE {})

\* didFinishLoading(): whoever loaded the URL, the entry's content is closed.
DidFinishLoading(c, u, j) ==
    IF ~Has(c, u) THEN c
    ELSE [c EXCEPT !.index[u].loading = FALSE, !.index[u].open = FALSE,
                   !.index[u].spoiled = @ \/ (c.index[u].loading /\ c.index[u].job # j)]
=============================================================================
