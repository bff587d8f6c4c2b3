----------------------------- MODULE FileCache ------------------------------
(***************************************************************************)
(* The file server (framework/src/filecache): a table of files in memory,  *)
(* the cache file it is saved to and loaded from, and the replies to       *)
(* requests for static files, through processes that start, stop and die.  *)
(*                                                                         *)
(* A file is named by its path below static_dir, a sequence of segments.   *)
(* What it holds is a pair of its name and an edition; the editions in Big *)
(* are too large for the small limit.  A process initialises the file      *)
(* server once, as main does, with a mode and a limit that may differ from *)
(* one process to the next; the table is all zeroes before.                *)
(*                                                                         *)
(* Other programs edit the files and remove the cache file.                *)
(***************************************************************************)
EXTENDS Naturals, FiniteSets, Sequences

CONSTANTS Files,       \* the names that files below static_dir may have
          Excluded,    \* those that an exclude pattern matches
          Editions, Big,
          Gone,        \* the edition of a file that does not exist
          NoData,      \* the data of a slot that is not loaded
          Assets,      \* the segment of lookup_path, "/assets/"
          Upward,      \* segments that hold ".." or are empty
          Known,       \* segments whose extension is in mime_mappings
          MaxCached    \* MAX_CACHED_FILES

ASSUME CacheAssumption ==
    /\ Gone \notin Editions
    /\ NoData \notin Files \X Editions
    /\ MaxCached \in Nat

VARIABLES
    disk,    \* the edition of each file, or Gone
    header,  \* the cache file: "missing", "bad" (cut in its header) or "ok"
    saved,   \* the entries that are complete in the cache file
    mode,    \* server_config.mode, or "off" when no process runs
    limit,   \* server_config.max_file_size
    table,   \* the slots of file_cache that were written
    count    \* cache_count: the slots that are searched

cacheVars == <<disk, header, saved, mode, limit, table, count>>

Data == Files \X Editions
Entry == [name : Files, data : Data]
Slot == [name : Files, data : Data \cup {NoData}]
Caching == {"MEMORY", "HYBRID"}
Modes == Caching \cup {"FILESYSTEM"}

CacheTypeOK ==
    /\ disk \in [Files -> Editions \cup {Gone}]
    /\ header \in {"missing", "bad", "ok"}
    /\ saved \in Seq(Entry)
    /\ mode \in Modes \cup {"off"}
    /\ limit \in {"small", "large"}
    /\ table \in Seq(Slot)
    /\ count \in Nat

\* No process has run yet.
CacheInit ==
    /\ disk \in [Files -> Editions \cup {Gone}]
    /\ header = "missing" /\ saved = <<>>
    /\ mode = "off" /\ limit = "large"
    /\ table = <<>> /\ count = 0

-----------------------------------------------------------------------------
\* cweb_fileserver_init

TooLarge(e, l) == l = "small" /\ e \in Big

Smaller(a, b) == IF a < b THEN a ELSE b

\* Mutant: an entry that is skipped leaves its slot to the next one.
LoadedSkipping(l) ==
    LET fits == SelectSeq(saved, LAMBDA entry : ~TooLarge(entry.data[2], l))
    IN  SubSeq(fits, 1, Smaller(Len(fits), MaxCached))

\* Mutant: an entry that is skipped keeps the data of the entry before it.
LoadedKeepingData(l) ==
    [i \in 1..Smaller(Len(saved), MaxCached) |->
        [name |-> saved[i].name,
         data |-> IF ~TooLarge(saved[i].data[2], l) THEN saved[i].data
                  ELSE IF i > 1 THEN saved[i - 1].data ELSE NoData]]

\* The slots that cweb_fileserver_load_cache writes.  An entry that is too large gives
\* its slot a name and no data.
Loaded(l) ==
    [i \in 1..Smaller(Len(saved), MaxCached) |->
        [name |-> saved[i].name,
         data |-> IF TooLarge(saved[i].data[2], l) THEN NoData ELSE saved[i].data]]

\* Only slots that got data are counted.
CountLoaded(slots) == Cardinality({i \in DOMAIN slots : slots[i].data # NoData})

\* init: a cache file is there, and is loaded; one with a bad header loads nothing.
InitFromCache(m, l) ==
    /\ mode = "off" /\ m \in Caching /\ header # "missing"
    /\ mode' = m /\ limit' = l
    /\ table' = IF header = "ok" THEN Loaded(l) ELSE <<>>
    /\ count' = CountLoaded(table')
    /\ UNCHANGED <<disk, header, saved>>

\* Files that scan_directory_recursive passes on and cweb_load_file_to_cache takes.
Cacheable(l) == {f \in Files \ Excluded : disk[f] # Gone /\ ~TooLarge(disk[f], l)}

\* The files cached by one scan, in the order of readdir: some may be unreadable, and
\* those that come when the table is full are dropped.
Scans(l) ==
    {s \in UNION {[1..n -> Cacheable(l)] : n \in 0..MaxCached} :
        \A i, j \in DOMAIN s : s[i] = s[j] => i = j}

Scanned(scan) == [i \in DOMAIN scan |-> [name |-> scan[i], data |-> <<scan[i], disk[scan[i]]>>]]

\* cweb_fileserver_save_cache writes in place: the file may not open, a write may fail or
\* the process may die after any of the entries.
Saves(slots) ==
    \/ UNCHANGED <<header, saved>>
    \/ header' = "bad" /\ saved' = <<>>
    \/ \E n \in 0..Len(slots) : header' = "ok" /\ saved' = SubSeq(slots, 1, n)

\* init: no cache file is there, and cweb_fileserver_build_cache scans and saves.
InitFromScan(m, l, scan) ==
    /\ mode = "off" /\ m \in Caching /\ header = "missing"
    /\ scan \in Scans(l)
    /\ mode' = m /\ limit' = l
    /\ table' = Scanned(scan) /\ count' = Len(scan)
    /\ Saves(Scanned(scan))
    /\ UNCHANGED disk

\* The same, when static_dir cannot be opened: nothing is cached or saved.
InitWithoutDirectory(m, l) ==
    /\ mode = "off" /\ m \in Caching /\ header = "missing"
    /\ mode' = m /\ limit' = l
    /\ UNCHANGED <<disk, header, saved, table, count>>

\* The same, when the process dies while it saves.
InitDies(l, scan) ==
    /\ mode = "off" /\ header = "missing"
    /\ scan \in Scans(l)
    /\ Saves(Scanned(scan))
    /\ UNCHANGED <<disk, mode, limit, table, count>>

\* init in the mode that keeps no table.
InitWithoutCache(l) ==
    /\ mode = "off"
    /\ mode' = "FILESYSTEM" /\ limit' = l
    /\ UNCHANGED <<disk, header, saved, table, count>>

\* cweb_fileserver_destroy in cweb_cleanup_server, or the process dies.
Stop ==
    /\ mode # "off"
    /\ mode' = "off" /\ table' = <<>> /\ count' = 0
    /\ UNCHANGED <<disk, header, saved, limit>>

-----------------------------------------------------------------------------
\* Other programs

Edit(f, e) ==
    /\ disk[f] # e
    /\ disk' = [disk EXCEPT ![f] = e]
    /\ UNCHANGED <<header, saved, mode, limit, table, count>>

RemoveCacheFile ==
    /\ header # "missing"
    /\ header' = "missing" /\ saved' = <<>>
    /\ UNCHANGED <<disk, mode, limit, table, count>>

CacheNext ==
    \/ \E l \in {"small", "large"} :
        \/ \E m \in Caching : InitFromCache(m, l) \/ InitWithoutDirectory(m, l)
        \/ \E m \in Caching : \E scan \in Scans(l) : InitFromScan(m, l, scan)
        \/ \E scan \in Scans(l) : InitDies(l, scan)
        \/ InitWithoutCache(l)
    \/ \E f \in Files : \E e \in Editions \cup {Gone} : Edit(f, e)
    \/ RemoveCacheFile

-----------------------------------------------------------------------------
\* Replies to requests.  A path is a sequence of segments.

\* cweb_fileserver_is_static_file, for a path without a query.
IsStatic(path) == Len(path) > 1 /\ path[1] = Assets /\ path[Len(path)] \in Known

\* normalize_cache_path.
Normalized(path) == IF Len(path) > 1 /\ path[1] = Assets THEN Tail(path) ELSE path

\* The slots of a name, of which cweb_find_cached_file takes the first.
FindCached(name) == {i \in 1..count : table[i].name = name}

\* cweb_serve_from_memory.
FromMemory(name) ==
    IF FindCached(name) = {} THEN NoData
    ELSE table[CHOOSE i \in FindCached(name) : \A j \in FindCached(name) : i <= j].data

\* cweb_serve_from_filesystem.
FromDisk(name) ==
    IF name \in Files /\ disk[name] # Gone THEN <<name, disk[name]>> ELSE NoData

\* Mutant: a file that is found in memory is not looked for on disk.
BodyWithoutFallback(path) ==
    CASE mode = "MEMORY"     -> FromMemory(path)
      [] mode = "FILESYSTEM" -> FromDisk(path)
      [] mode = "HYBRID"     -> IF FindCached(Normalized(path)) # {}
                                THEN FromMemory(Normalized(path))
                                ELSE FromDisk(Normalized(path))
      [] OTHER               -> NoData

\* The switch of cweb_fileserver_handle_request: only HYBRID normalises the path.
Body(path) ==
    CASE mode = "MEMORY"     -> FromMemory(path)
      [] mode = "FILESYSTEM" -> FromDisk(path)
      [] mode = "HYBRID"     -> IF FromMemory(Normalized(path)) # NoData
                                THEN FromMemory(Normalized(path))
                                ELSE FromDisk(Normalized(path))
      [] OTHER               -> NoData

Forbidden(path) == \E i \in DOMAIN path : path[i] \in Upward

\* cweb_fileserver_handle_request.
FileReply(path) ==
    IF Forbidden(path) THEN [status |-> 403, data |-> NoData]
    ELSE IF Body(path) # NoData THEN [status |-> 200, data |-> Body(path)]
    ELSE [status |-> 404, data |-> NoData]
=============================================================================
