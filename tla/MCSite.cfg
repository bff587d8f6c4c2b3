\* The file server and two routes, through starts, crashes and edits.
CONSTANTS
    a = a
    b = b
    assets = assets
    up = up
    Files <- MCFiles
    Excluded <- MCExcluded
    Editions = {e1, e2}
    Big = {e2}
    Gone = gone
    NoData = noData
    Assets = assets
    Upward = {up}
    Known = {a, b}
    MaxCached = 2
    Segments = {a, b, assets, up}
    Urls <- MCUrls
    RoutePaths <- MCRoutePaths
    Handlers = {h1}
    NoHandler = noHandler
    MaxRoutes = 2
SPECIFICATION SiteSpec
INVARIANTS
    TableFollowsCacheFile
    FileReplyIsOwn
    HybridNeverMisses
    RoutesTakeWhatTheyDeclare
PROPERTIES
    AddingRoutesIsStable
CHECK_DEADLOCK FALSE
