---------------------------- MODULE Site_proofs -----------------------------
(***************************************************************************)
(* Proofs about Site.  What a request is replied follows from an invariant *)
(* of the table and the cache file (every entry holds the data of its own  *)
(* file, and the table follows the cache file) and from the lookup, where  *)
(* all that matters is that the first of some routes is one of them.       *)
(***************************************************************************)
EXTENDS Site, FiniteSetTheorems, SequenceTheorems, WellFoundedInduction, TLAPS

\* A set of naturals that is not empty has a least element, which First chooses: the
\* intervals up to its elements are finite sets, of which one has no other below it.
LEMMA FirstWorks ==
    ASSUME NEW S, S \subseteq Nat, S # {}
    PROVE  First(S) \in S /\ \A j \in S : First(S) <= j
<1> DEFINE T == {0..j : j \in S}
           R == StrictSubsetOrdering(Nat)
<1>1. T \subseteq FiniteSubsetsOf(Nat)
  <2>1. \A j \in Nat : IsFiniteSet(0..j) /\ 0..j \subseteq Nat
    BY FS_Interval
  <2>2. QED
    BY <2>1 DEF FiniteSubsetsOf
<1>2. T # {}
  OBVIOUS
<1>3. IsWellFoundedOn(R, FiniteSubsetsOf(Nat))
  BY FS_StrictSubsetOrderingWellFounded
<1>4. \E x \in T : \A y \in T : ~(<<y, x>> \in R)
  <2> HIDE DEF T, R
  <2>1. QED
    BY <1>1, <1>2, <1>3, WFMin
<1>5. PICK i \in S : \A j \in S : ~(<<0..j, 0..i>> \in R)
  BY <1>4
<1>6. \A j \in S : i <= j
  <2>1. SUFFICES ASSUME NEW j \in S, j < i
                 PROVE  FALSE
    OBVIOUS
  <2>2. 0..j \subseteq 0..i /\ i \in 0..i /\ i \notin 0..j
    BY <2>1
  <2>3. <<0..j, 0..i>> \in (SUBSET Nat) \X (SUBSET Nat)
    OBVIOUS
  <2>4. 0..j # 0..i
    BY <2>2
  <2>5. <<0..j, 0..i>> \in R
    BY <2>2, <2>3, <2>4 DEF StrictSubsetOrdering
  <2>6. QED
    BY <1>5, <2>5
<1>7. QED
  BY <1>6 DEF First

-----------------------------------------------------------------------------
\* Every entry and every slot with data holds the data of its own file.
OwnData ==
    /\ \A i \in 1..Len(saved) : saved[i].data[1] = saved[i].name
    /\ \A i \in 1..Len(table) : table[i].data # NoData => table[i].data[1] = table[i].name

IInv ==
    /\ CacheTypeOK
    /\ count <= Len(table)
    /\ OwnData
    /\ TableFollowsCacheFile

\* What a load of the cache file leaves in memory.
LEMMA LoadedWorks ==
    ASSUME IInv, NEW l
    PROVE  /\ Loaded(l) \in Seq(Slot)
           /\ Len(Loaded(l)) <= Len(saved)
           /\ CountLoaded(Loaded(l)) \in Nat
           /\ CountLoaded(Loaded(l)) <= Len(Loaded(l))
           /\ \A i \in 1..Len(Loaded(l)) :
                /\ Loaded(l)[i].name = saved[i].name
                /\ Loaded(l)[i].data = IF TooLarge(saved[i].data[2], l) THEN NoData
                                                                       ELSE saved[i].data
<1> USE CacheAssumption
<1> DEFINE n == Smaller(Len(saved), MaxCached)
           D == {i \in DOMAIN Loaded(l) : Loaded(l)[i].data # NoData}
<1>1. n \in Nat /\ n <= Len(saved)
  BY DEF Smaller, IInv, CacheTypeOK
<1>2. \A i \in 1..n : saved[i] \in Entry
  BY <1>1 DEF IInv, CacheTypeOK
<1>3. \A i \in 1..n :
        [name |-> saved[i].name,
         data |-> IF TooLarge(saved[i].data[2], l) THEN NoData ELSE saved[i].data] \in Slot
  BY <1>2 DEF Entry, Slot
<1>4. Loaded(l) \in [1..n -> Slot]
  BY <1>3 DEF Loaded
<1>5. Loaded(l) \in Seq(Slot) /\ Len(Loaded(l)) = n /\ DOMAIN Loaded(l) = 1..n
  BY <1>1, <1>4
<1>6. D \subseteq 1..n
  BY <1>5
<1>7. IsFiniteSet(1..n) /\ Cardinality(1..n) = n
  BY <1>1, FS_Interval
<1>8. Cardinality(D) \in Nat /\ Cardinality(D) <= n
  BY <1>6, <1>7, FS_Subset, FS_CardinalityType
<1>9. CountLoaded(Loaded(l)) = Cardinality(D)
  BY DEF CountLoaded
<1>10. \A i \in 1..n :
        /\ Loaded(l)[i].name = saved[i].name
        /\ Loaded(l)[i].data = IF TooLarge(saved[i].data[2], l) THEN NoData ELSE saved[i].data
  BY DEF Loaded
<1>11. QED
  BY <1>1, <1>5, <1>8, <1>9, <1>10

\* What a scan leaves in memory, and any part of it that is saved.
LEMMA ScannedWorks ==
    ASSUME IInv, NEW l, NEW scan \in Scans(l)
    PROVE  /\ Scanned(scan) \in Seq(Slot) /\ Scanned(scan) \in Seq(Entry)
           /\ Len(Scanned(scan)) = Len(scan) /\ Len(scan) \in Nat
           /\ \A i \in 1..Len(scan) :
                /\ Scanned(scan)[i].data[1] = Scanned(scan)[i].name
                /\ ~TooLarge(Scanned(scan)[i].data[2], l)
<1>1. PICK n \in 0..MaxCached : scan \in [1..n -> Cacheable(l)]
  BY DEF Scans
<1>2. n \in Nat
  BY CacheAssumption
<1>3. \A i \in 1..n : scan[i] \in Files /\ disk[scan[i]] \in Editions /\ ~TooLarge(disk[scan[i]], l)
  BY <1>1 DEF Cacheable, IInv, CacheTypeOK
<1>4. \A i \in 1..n : [name |-> scan[i], data |-> <<scan[i], disk[scan[i]]>>] \in Entry
  BY <1>3 DEF Entry, Data
<1>5. DOMAIN scan = 1..n /\ Len(scan) = n
  BY <1>1, <1>2
<1>6. Scanned(scan) \in [1..n -> Entry]
  BY <1>4, <1>5 DEF Scanned
<1>7. Entry \subseteq Slot
  BY DEF Entry, Slot
<1>8. Scanned(scan) \in [1..n -> Slot]
  BY <1>6, <1>7
<1>9. \A i \in 1..n : /\ Scanned(scan)[i].data[1] = Scanned(scan)[i].name
                      /\ ~TooLarge(Scanned(scan)[i].data[2], l)
  BY <1>3, <1>5 DEF Scanned
<1>10. QED
  BY <1>2, <1>5, <1>6, <1>8, <1>9

\* What a save of these slots leaves in the cache file.
LEMMA SavesWorks ==
    ASSUME IInv, NEW l, NEW scan \in Scans(l), Saves(Scanned(scan)), header = "missing"
    PROVE  /\ header' \in {"missing", "bad", "ok"} /\ saved' \in Seq(Entry)
           /\ \A i \in 1..Len(saved') : saved'[i].data[1] = saved'[i].name
           /\ header' = "ok" => \A i \in 1..Len(saved') : saved'[i] = Scanned(scan)[i]
<1>1. CASE UNCHANGED <<header, saved>>
  BY <1>1 DEF IInv, CacheTypeOK, OwnData
<1>2. CASE header' = "bad" /\ saved' = <<>>
  BY <1>2
<1>3. ASSUME NEW n \in 0..Len(Scanned(scan)), header' = "ok",
             saved' = SubSeq(Scanned(scan), 1, n)
      PROVE  /\ header' \in {"missing", "bad", "ok"} /\ saved' \in Seq(Entry)
             /\ \A i \in 1..Len(saved') : saved'[i].data[1] = saved'[i].name
             /\ header' = "ok" => \A i \in 1..Len(saved') : saved'[i] = Scanned(scan)[i]
  <2>1. /\ Len(saved') = n
        /\ \A i \in 1..n : saved'[i] = Scanned(scan)[i]
        /\ saved' \in Seq(Entry)
    BY <1>3, ScannedWorks, SubSeqProperties
  <2>2. QED
    BY <1>3, <2>1, ScannedWorks
<1>4. QED
  BY <1>1, <1>2, <1>3 DEF Saves

-----------------------------------------------------------------------------
LEMMA InvInit == SiteInit => IInv
<1> SUFFICES ASSUME SiteInit PROVE IInv
  OBVIOUS
<1> USE DEF SiteInit, CacheInit
<1>1. CacheTypeOK
  BY DEF CacheTypeOK
<1>2. OwnData
  BY DEF OwnData
<1>3. TableFollowsCacheFile
  BY DEF TableFollowsCacheFile, Caching
<1>4. QED
  BY <1>1, <1>2, <1>3 DEF IInv

LEMMA InitFromCacheInv ==
    ASSUME IInv, NEW m, NEW l \in {"small", "large"}, InitFromCache(m, l)
    PROVE  IInv'
<1> USE DEF InitFromCache
<1>1. CASE header = "ok"
  <2>1. table' = Loaded(l) /\ count' = CountLoaded(Loaded(l)) /\ saved' = saved
    BY <1>1
  <2>2. CacheTypeOK'
    BY <2>1, LoadedWorks DEF IInv, CacheTypeOK, Modes
  <2>3. OwnData'
    BY <2>1, LoadedWorks DEF IInv, OwnData
  <2>4. TableFollowsCacheFile'
    BY <2>1, LoadedWorks DEF TableFollowsCacheFile
  <2>5. QED
    BY <2>1, <2>2, <2>3, <2>4, LoadedWorks DEF IInv
<1>2. CASE header # "ok"
  <2>1. table' = <<>> /\ count' = CountLoaded(<<>>) /\ saved' = saved
    BY <1>2
  <2>2. count' = 0
    <3>1. {i \in DOMAIN <<>> : <<>>[i].data # NoData} = {}
      OBVIOUS
    <3>2. QED
      BY <2>1, <3>1, FS_EmptySet DEF CountLoaded
  <2>3. CacheTypeOK'
    <3> HIDE DEF InitFromCache
    <3>1. table' \in Seq(Slot) /\ count' \in Nat
      <4>1. <<>> \in Seq(Slot)
        OBVIOUS
      <4>2. table' \in Seq(Slot)
        BY <2>1, <4>1
      <4>3. QED
        BY <2>2, <4>2
    <3> USE DEF InitFromCache
    <3>2. QED
      BY <3>1 DEF IInv, CacheTypeOK, Modes
  <2>4. OwnData'
    BY <2>1 DEF IInv, OwnData
  <2>5. TableFollowsCacheFile'
    BY <2>2 DEF TableFollowsCacheFile
  <2>6. QED
    BY <2>1, <2>2, <2>3, <2>4, <2>5 DEF IInv
<1>3. QED
  BY <1>1, <1>2

LEMMA InitFromScanInv ==
    ASSUME IInv, NEW m, NEW l \in {"small", "large"}, NEW scan \in Scans(l),
           InitFromScan(m, l, scan)
    PROVE  IInv'
<1> USE DEF InitFromScan
<1>1. CacheTypeOK'
  BY ScannedWorks, SavesWorks DEF IInv, CacheTypeOK, Modes
<1>2. OwnData'
  BY ScannedWorks, SavesWorks DEF OwnData
<1>3. TableFollowsCacheFile'
  <2>1. SUFFICES ASSUME header' = "ok", NEW i \in 1..Len(scan), i <= Len(saved')
                 PROVE  /\ table'[i].name = saved'[i].name
                        /\ table'[i].data = IF TooLarge(saved'[i].data[2], l) THEN NoData
                                                                              ELSE saved'[i].data
    BY DEF TableFollowsCacheFile
  <2>2. i \in 1..Len(saved')
    <3>1. Len(scan) \in Nat
      BY ScannedWorks
    <3>2. saved' \in Seq(Entry)
      BY SavesWorks
    <3>3. Len(saved') \in Nat
      BY <3>2
    <3>4. QED
      BY <2>1, <3>1, <3>3
  <2>3. saved'[i] = Scanned(scan)[i] /\ table'[i] = Scanned(scan)[i]
    BY <2>1, <2>2, SavesWorks
  <2>4. ~TooLarge(Scanned(scan)[i].data[2], l)
    BY ScannedWorks
  <2>5. QED
    BY <2>3, <2>4
<1>4. QED
  BY <1>1, <1>2, <1>3, ScannedWorks DEF IInv

LEMMA InitDiesInv ==
    ASSUME IInv, NEW l \in {"small", "large"}, NEW scan \in Scans(l), InitDies(l, scan)
    PROVE  IInv'
<1> USE DEF InitDies
<1>1. CacheTypeOK'
  BY SavesWorks DEF IInv, CacheTypeOK
<1>2. OwnData'
  BY SavesWorks DEF OwnData, IInv
<1>3. TableFollowsCacheFile'
  BY DEF TableFollowsCacheFile, Caching
<1>4. QED
  BY <1>1, <1>2, <1>3 DEF IInv

\* The steps that leave the entries and the slots alone, or empty them.
LEMMA OtherInv ==
    ASSUME IInv,
           \/ \E m \in Caching, l \in {"small", "large"} : InitWithoutDirectory(m, l)
           \/ \E l \in {"small", "large"} : InitWithoutCache(l)
           \/ \E f \in Files : \E e \in Editions \cup {Gone} : Edit(f, e)
           \/ RemoveCacheFile
           \/ Stop
           \/ UNCHANGED cacheVars
    PROVE  IInv'
<1>1. ASSUME NEW m \in Caching, NEW l \in {"small", "large"}, InitWithoutDirectory(m, l)
      PROVE  IInv'
  BY <1>1 DEF InitWithoutDirectory, IInv, CacheTypeOK, OwnData, TableFollowsCacheFile, Modes
<1>2. ASSUME NEW l \in {"small", "large"}, InitWithoutCache(l)
      PROVE  IInv'
  BY <1>2 DEF InitWithoutCache, IInv, CacheTypeOK, OwnData, TableFollowsCacheFile, Modes, Caching
<1>3. ASSUME NEW f \in Files, NEW e \in Editions \cup {Gone}, Edit(f, e)
      PROVE  IInv'
  BY <1>3 DEF Edit, IInv, CacheTypeOK, OwnData, TableFollowsCacheFile, Caching, TooLarge
<1>4. CASE RemoveCacheFile
  BY <1>4 DEF RemoveCacheFile, IInv, CacheTypeOK, OwnData, TableFollowsCacheFile
<1>5. CASE Stop
  BY <1>5 DEF Stop, IInv, CacheTypeOK, OwnData, TableFollowsCacheFile, Caching
<1>6. CASE UNCHANGED cacheVars
  BY <1>6 DEF cacheVars, IInv, CacheTypeOK, OwnData, TableFollowsCacheFile, Caching, TooLarge
<1>7. QED
  BY <1>1, <1>2, <1>3, <1>4, <1>5, <1>6

LEMMA InvNext == IInv /\ [SiteNext]_siteVars => IInv'
<1> SUFFICES ASSUME IInv, [SiteNext]_siteVars PROVE IInv'
  OBVIOUS
<1>1. CASE CacheNext
  BY <1>1, InitFromCacheInv, InitFromScanInv, InitDiesInv, OtherInv DEF CacheNext
<1>2. CASE UNCHANGED cacheVars
  BY <1>2, OtherInv
<1>3. CASE CleanupServer
  BY <1>3, OtherInv DEF CleanupServer
<1>4. QED
  BY <1>1, <1>2, <1>3 DEF SiteNext, siteVars

THEOREM SiteInvariance == SiteSpec => []IInv
<1>1. QED
  BY InvInit, InvNext, PTL DEF SiteSpec

THEOREM TableFollowsCorrect == SiteSpec => []TableFollowsCacheFile
<1>1. IInv => TableFollowsCacheFile
  BY DEF IInv
<1>2. QED
  BY <1>1, SiteInvariance, PTL

-----------------------------------------------------------------------------
(* Replies                                                                 *)

LEMMA FoundInMemory ==
    ASSUME IInv, NEW name, FromMemory(name) # NoData
    PROVE  FromMemory(name)[1] = name
<1> DEFINE i == First(FindCached(name))
<1>1. FindCached(name) # {} /\ FromMemory(name) = table[i].data
  BY DEF FromMemory, First
<1>2. FindCached(name) \subseteq Nat
  BY DEF FindCached, IInv, CacheTypeOK
<1>3. i \in FindCached(name)
  BY <1>1, <1>2, FirstWorks
<1>4. i \in 1..Len(table) /\ table[i].name = name
  BY <1>3 DEF FindCached, IInv, CacheTypeOK
<1>5. QED
  BY <1>1, <1>4 DEF IInv, OwnData

LEMMA FoundOnDisk ==
    ASSUME IInv, NEW name
    PROVE  /\ FromDisk(name) # NoData => FromDisk(name)[1] = name
           /\ name \in Files /\ disk[name] # Gone => FromDisk(name) # NoData
<1>1. CASE name \in Files /\ disk[name] # Gone
  <2>1. FromDisk(name) = <<name, disk[name]>> /\ disk[name] \in Editions
    BY <1>1 DEF FromDisk, IInv, CacheTypeOK
  <2>2. QED
    BY <1>1, <2>1, CacheAssumption
<1>2. CASE ~(name \in Files /\ disk[name] # Gone)
  BY <1>2 DEF FromDisk
<1>3. QED
  BY <1>1, <1>2

\* What a reply with a body from the file server can be.
LEMMA BodyIsOwn ==
    ASSUME IInv, NEW path, Body(path) # NoData
    PROVE  Body(path)[1] = IF mode = "HYBRID" THEN Normalized(path) ELSE path
<1>1. CASE mode = "MEMORY"
  BY <1>1, FoundInMemory DEF Body
<1>2. CASE mode = "FILESYSTEM"
  BY <1>2, FoundOnDisk DEF Body
<1>3. CASE mode = "HYBRID"
  <2>1. CASE FromMemory(Normalized(path)) # NoData
    <3>1. Body(path) = FromMemory(Normalized(path))
      BY <1>3, <2>1 DEF Body
    <3>2. QED
      BY <1>3, <2>1, <3>1, FoundInMemory
  <2>2. CASE FromMemory(Normalized(path)) = NoData
    <3>1. Body(path) = FromDisk(Normalized(path))
      BY <1>3, <2>2 DEF Body
    <3>2. QED
      BY <1>3, <3>1, FoundOnDisk
  <2>3. QED
    BY <2>1, <2>2
<1>4. CASE mode = "off"
  BY <1>4 DEF Body
<1>5. QED
  BY <1>1, <1>2, <1>3, <1>4 DEF IInv, CacheTypeOK, Modes, Caching

\* A reply by the file server with status 200 is the body of the path.
LEMMA FoundReply ==
    ASSUME NEW url, Reply(url).by = "files", Reply(url).reply.status = 200
    PROVE  /\ Body(url.segs) # NoData /\ Reply(url).reply.data = Body(url.segs)
           /\ IsStatic(url.segs)
<1>1. RouteHandler(url) = NoHandler /\ ~url.query /\ IsStatic(url.segs)
  BY DEF Reply
<1>2. Reply(url).reply = FileReply(url.segs)
  BY <1>1 DEF Reply
<1>3. QED
  BY <1>1, <1>2 DEF FileReply

LEMMA OwnReplies == IInv => FileReplyIsOwn
<1> SUFFICES ASSUME IInv, NEW url \in Urls, Reply(url).by = "files",
                    Reply(url).reply.status = 200
             PROVE  Reply(url).reply.data[1] \in {url.segs, Normalized(url.segs)}
  BY DEF FileReplyIsOwn
<1>1. QED
  BY FoundReply, BodyIsOwn

LEMMA HybridReplies == IInv => HybridNeverMisses
<1> SUFFICES ASSUME IInv, mode = "HYBRID", NEW url \in Urls, Reply(url).by = "files",
                    ~Forbidden(url.segs), Normalized(url.segs) \in Files,
                    disk[Normalized(url.segs)] # Gone
             PROVE  Reply(url).reply.status = 200
  BY DEF HybridNeverMisses
<1>1. Reply(url).reply = FileReply(url.segs)
  BY DEF Reply
<1>2. FromDisk(Normalized(url.segs)) # NoData
  BY FoundOnDisk
<1>3. Body(url.segs) # NoData
  BY <1>2 DEF Body
<1>4. QED
  BY <1>1, <1>3 DEF FileReply

THEOREM FileReplyIsOwnCorrect == SiteSpec => []FileReplyIsOwn
<1>1. QED
  BY OwnReplies, SiteInvariance, PTL

THEOREM HybridCorrect == SiteSpec => []HybridNeverMisses
<1>1. QED
  BY HybridReplies, SiteInvariance, PTL

-----------------------------------------------------------------------------
(* Routes                                                                  *)

LEMMA RoutesInit == SiteInit => RoutingTypeOK
  BY DEF SiteInit, RoutingInit, RoutingTypeOK

\* The first route of a path is in the list.
LEMMA ExactWorks ==
    ASSUME RoutingTypeOK, NEW url
    PROVE  /\ Exact(url) \subseteq Nat /\ Exact(url) \subseteq 1..Len(routes)
           /\ ByBase(url) \subseteq Exact(Base(url))
           /\ Exact(url) # {} => First(Exact(url)) \in Exact(url)
           /\ ByBase(url) # {} => First(ByBase(url)) \in ByBase(url)
<1>1. Exact(url) \subseteq 1..Len(routes) /\ Exact(Base(url)) \subseteq 1..Len(routes)
  BY DEF Exact, RoutingTypeOK
<1>2. Len(routes) \in Nat
  BY DEF RoutingTypeOK
<1>3. ByBase(url) \subseteq Exact(Base(url))
  BY DEF ByBase
<1>4. Exact(url) \subseteq Nat /\ ByBase(url) \subseteq Nat
  BY <1>1, <1>2, <1>3
<1>5. QED
  BY <1>1, <1>3, <1>4, FirstWorks

LEMMA RoutingStep ==
    ASSUME RoutingTypeOK, RoutingNext
    PROVE  RoutingTypeOK' /\ (Len(routes') > Len(routes) =>
                \E url \in RoutePaths, h \in Handlers : AddRoute(url, h))
<1>1. ASSUME NEW url \in RoutePaths, NEW h \in Handlers, AddRoute(url, h)
      PROVE  RoutingTypeOK'
  <2>1. [path |-> url, handler |-> h, sub |-> FALSE, param |-> FALSE] \in Route
    BY DEF Route
  <2>2. QED
    BY <1>1, <2>1 DEF AddRoute, RoutingTypeOK
<1>2. ASSUME NEW i \in 1..Len(routes), NEW r \in Route, routes' = [routes EXCEPT ![i] = r],
             UNCHANGED fallback
      PROVE  RoutingTypeOK' /\ Len(routes') = Len(routes)
  BY <1>2 DEF RoutingTypeOK
<1>3. ASSUME NEW url \in RoutePaths, NEW b \in BOOLEAN, SetSubpath(url, b) \/ SetParam(url, b)
      PROVE  RoutingTypeOK' /\ Len(routes') = Len(routes)
  <2> DEFINE i == First(Exact(url))
  <2>1. i \in 1..Len(routes) /\ UNCHANGED fallback
    BY <1>3, ExactWorks DEF SetSubpath, SetParam
  <2>2. routes[i] \in Route
    BY <2>1 DEF RoutingTypeOK
  <2>3. [routes[i] EXCEPT !.sub = b] \in Route /\ [routes[i] EXCEPT !.param = b] \in Route
    BY <2>2 DEF Route
  <2>4. \/ routes' = [routes EXCEPT ![i] = [routes[i] EXCEPT !.sub = b]]
        \/ routes' = [routes EXCEPT ![i] = [routes[i] EXCEPT !.param = b]]
    BY <1>3 DEF SetSubpath, SetParam
  <2> HIDE DEF i
  <2>5. QED
    BY <1>2, <2>1, <2>3, <2>4
<1>4. ASSUME NEW url \in RoutePaths, NEW new \in RoutePaths, Rewrite(url, new)
      PROVE  RoutingTypeOK' /\ Len(routes') = Len(routes)
  <2> DEFINE i == First(Exact(url))
  <2>1. i \in 1..Len(routes) /\ UNCHANGED fallback
    BY <1>4, ExactWorks DEF Rewrite
  <2>2. routes[i] \in Route
    BY <2>1 DEF RoutingTypeOK
  <2>3. [routes[i] EXCEPT !.path = new] \in Route
    BY <2>2 DEF Route
  <2>4. routes' = [routes EXCEPT ![i] = [routes[i] EXCEPT !.path = new]]
    BY <1>4 DEF Rewrite
  <2> HIDE DEF i
  <2>5. QED
    BY <1>2, <2>1, <2>3, <2>4
<1>5. ASSUME NEW h \in Handlers \cup {NoHandler}, SetFallback(h)
      PROVE  RoutingTypeOK' /\ Len(routes') = Len(routes)
  BY <1>5 DEF SetFallback, RoutingTypeOK
<1>6. Len(routes) \in Nat
  BY DEF RoutingTypeOK
<1>7. QED
  BY <1>1, <1>3, <1>4, <1>5, <1>6 DEF RoutingNext

LEMMA SiteRoutes ==
    ASSUME RoutingTypeOK, [SiteNext]_siteVars
    PROVE  RoutingTypeOK' /\ (Len(routes') > Len(routes) =>
                \E url \in RoutePaths, h \in Handlers : AddRoute(url, h))
<1>1. CASE UNCHANGED routeVars
  BY <1>1 DEF routeVars, RoutingTypeOK
<1>2. CASE ClearRoutes
  <2>1. Len(routes) \in Nat /\ Len(routes') = 0
    BY <1>2 DEF ClearRoutes, RoutingTypeOK
  <2>2. QED
    BY <1>2, <2>1 DEF ClearRoutes, RoutingTypeOK
<1>3. QED
  BY <1>1, <1>2, RoutingStep DEF SiteNext, siteVars, CleanupServer

THEOREM RoutingTypeCorrect == SiteSpec => []RoutingTypeOK
<1>1. RoutingTypeOK /\ [SiteNext]_siteVars => RoutingTypeOK'
  BY SiteRoutes
<1>2. QED
  BY <1>1, RoutesInit, PTL DEF SiteSpec

THEOREM SiteTypeCorrect == SiteSpec => []SiteTypeOK
<1>1. IInv /\ RoutingTypeOK => SiteTypeOK
  BY DEF IInv, SiteTypeOK
<1>2. QED
  BY <1>1, SiteInvariance, RoutingTypeCorrect, PTL

LEMMA RoutesTake == RoutingTypeOK => RoutesTakeWhatTheyDeclare
<1> SUFFICES ASSUME RoutingTypeOK, NEW url \in Urls, Found(url) # 0
             PROVE  \/ routes[Found(url)].path = url
                    \/ /\ routes[Found(url)].path = Base(url)
                       /\ HasSubpath(url) => routes[Found(url)].sub
                       /\ HasParam(url) => routes[Found(url)].param
  BY DEF RoutesTakeWhatTheyDeclare
<1>1. CASE Exact(url) # {}
  <2>1. Found(url) \in Exact(url)
    BY <1>1, ExactWorks DEF Found
  <2>2. QED
    BY <2>1 DEF Exact
<1>2. CASE Exact(url) = {}
  <2>1. Found(url) = First(ByBase(url)) /\ ByBase(url) # {}
    BY <1>2 DEF Found
  <2>2. Found(url) \in ByBase(url)
    BY <2>1, ExactWorks
  <2>3. Found(url) \in Exact(Base(url)) /\ Takes(routes[Found(url)], url)
    BY <2>2 DEF ByBase
  <2>4. QED
    BY <2>3 DEF Exact, Takes
<1>3. QED
  BY <1>1, <1>2

\* The first of some positions in a list is still the first when the list grows.
LEMMA FirstGrows ==
    ASSUME NEW n \in Nat, NEW S, NEW T, S \subseteq 1..n, S # {}, T \in {S, S \cup {n + 1}}
    PROVE  First(T) = First(S)
<1>1. T \subseteq Nat /\ T # {} /\ S \subseteq Nat
  OBVIOUS
<1>2. First(S) \in S /\ \A j \in S : First(S) <= j
  BY <1>1, FirstWorks
<1>3. First(T) \in T /\ \A j \in T : First(T) <= j
  BY <1>1, FirstWorks
<1>4. S \subseteq T /\ \A i \in T : i \in S \/ i = n + 1
  OBVIOUS
<1> DEFINE s == First(S)
           t == First(T)
<1>5. /\ s \in S /\ \A i \in S : s <= i
      /\ t \in T /\ \A i \in T : t <= i
  BY <1>2, <1>3
<1> HIDE DEF s, t
<1>6. s \in 1..n /\ s \in T
  BY <1>4, <1>5
<1>7. t <= s /\ t \in Nat
  BY <1>1, <1>5, <1>6
<1>8. t # n + 1
  BY <1>6, <1>7
<1>9. t \in S
  BY <1>4, <1>5, <1>8
<1>10. s <= t
  BY <1>5, <1>9
<1>11. s = t
  BY <1>6, <1>7, <1>10
<1>12. QED
  BY <1>11 DEF s, t

LEMMA AddStable ==
    ASSUME RoutingTypeOK, NEW new \in RoutePaths, NEW h \in Handlers, AddRoute(new, h),
           NEW url, Found(url) # 0
    PROVE  Found(url)' = Found(url) \/ (Exact(url) = {} /\ routes'[Len(routes')].path = url)
<1> DEFINE n == Len(routes)
           r == [path |-> new, handler |-> h, sub |-> FALSE, param |-> FALSE]
<1>1. /\ n \in Nat /\ Len(routes') = n + 1 /\ DOMAIN routes' = 1..(n + 1)
      /\ DOMAIN routes = 1..n
      /\ \A i \in 1..n : routes'[i] = routes[i]
      /\ routes'[n + 1] = r
  BY DEF AddRoute, RoutingTypeOK
<1>2. \A u : Exact(u)' = IF u = new THEN Exact(u) \cup {n + 1} ELSE Exact(u)
  <2>1. \A u : Exact(u)' = {i \in 1..(n + 1) : routes'[i].path = u}
    BY <1>1 DEF Exact
  <2>2. \A u : Exact(u) = {i \in 1..n : routes[i].path = u}
    BY <1>1 DEF Exact
  <2>3. \A i : i \in 1..(n + 1) <=> i \in 1..n \/ i = n + 1
    BY <1>1
  <2>4. n + 1 \notin 1..n
    BY <1>1
  <2>5. r.path = new
    OBVIOUS
  <2> HIDE DEF r
  <2>6. QED
    BY <1>1, <2>1, <2>2, <2>3, <2>4, <2>5
<1>3. \A u : Exact(u) \subseteq 1..n
  BY ExactWorks
<1>4. CASE Exact(url) # {}
  <2>1. Exact(url)' \in {Exact(url), Exact(url) \cup {n + 1}}
    BY <1>2
  <2>2. First(Exact(url)') = First(Exact(url))
    BY <1>1, <1>3, <1>4, <2>1, FirstGrows
  <2>3. Exact(url)' # {}
    BY <1>4, <2>1
  <2>4. QED
    BY <1>4, <2>2, <2>3 DEF Found
<1>5. CASE Exact(url) = {} /\ url = new
  BY <1>1, <1>5
<1>6. CASE Exact(url) = {} /\ url # new
  <2>1. Exact(url)' = {}
    BY <1>2, <1>6
  <2>2. ByBase(url)' = ByBase(url)
    <3>1. ~Takes(r, url)
      BY DEF Takes
    <3>2. ByBase(url)' = {i \in Exact(Base(url))' : Takes(routes'[i], url)}
      BY DEF ByBase, Takes, Base, HasSubpath, HasParam
    <3>3. ByBase(url) = {i \in Exact(Base(url)) : Takes(routes[i], url)}
      BY DEF ByBase
    <3>4. Exact(Base(url))' = Exact(Base(url)) \/ Exact(Base(url))' = Exact(Base(url)) \cup {n + 1}
      BY <1>2 DEF Base
    <3>5. \A i \in Exact(Base(url)) : routes'[i] = routes[i]
      BY <1>1, <1>3
    <3> HIDE DEF r
    <3>6. QED
      BY <1>1, <3>1, <3>2, <3>3, <3>4, <3>5
  <2>3. QED
    BY <1>6, <2>1, <2>2 DEF Found
<1>7. QED
  BY <1>4, <1>5, <1>6

THEOREM RoutesTakeCorrect == SiteSpec => []RoutesTakeWhatTheyDeclare
<1>1. QED
  BY RoutesTake, RoutingTypeCorrect, PTL

THEOREM AddingRoutesCorrect == SiteSpec => AddingRoutesIsStable
<1> DEFINE Stable == Len(routes') > Len(routes) =>
                \A url \in Urls : Found(url) # 0 =>
                    \/ Found(url)' = Found(url)
                    \/ Exact(url) = {} /\ routes'[Len(routes')].path = url
<1>1. RoutingTypeOK /\ [SiteNext]_siteVars => [Stable]_siteVars
  BY SiteRoutes, AddStable
<1>2. QED
  BY <1>1, RoutingTypeCorrect, PTL DEF SiteSpec, AddingRoutesIsStable
=============================================================================
