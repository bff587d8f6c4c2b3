-------------------------------- MODULE Site --------------------------------
(***************************************************************************)
(* What a running server replies to the path of a request: the routes and  *)
(* the file server behind conn_read_cb (framework/src/Server/server.c).    *)
(* Routes are registered once the file server is initialised, as in main,  *)
(* and go with the process.                                                *)
(***************************************************************************)
EXTENDS FileCache, Routing

siteVars == <<cacheVars, routeVars>>

SiteInit == CacheInit /\ RoutingInit

\* cweb_cleanup_server, as far as routes and files go, or the death of the process.
CleanupServer == Stop /\ ClearRoutes

SiteNext ==
    \/ CacheNext /\ UNCHANGED routeVars
    \/ mode # "off" /\ RoutingNext /\ UNCHANGED cacheVars
    \/ CleanupServer

SiteSpec == SiteInit /\ [][SiteNext]_siteVars

SiteTypeOK == CacheTypeOK /\ RoutingTypeOK

\* conn_read_cb: a handler, the fallback included, comes before the static files.
Reply(url) ==
    IF RouteHandler(url) # NoHandler THEN [by |-> "handler", reply |-> RouteHandler(url)]
    ELSE IF ~url.query /\ IsStatic(url.segs) THEN [by |-> "files", reply |-> FileReply(url.segs)]
    ELSE [by |-> "server", reply |-> 404]

-----------------------------------------------------------------------------
\* While a process runs with a table and a cache file is there, the table starts with
\* the entries of the file, slot by slot, whether the process loaded the file or wrote
\* it, however the write ended and whatever became of the files since: an entry cut off
\* by a crash stays missing, and one that is too large for the limit leaves its slot
\* without data.
TableFollowsCacheFile ==
    mode \in Caching /\ header = "ok" =>
        \A i \in 1..count : i <= Len(saved) =>
            /\ table[i].name = saved[i].name
            /\ table[i].data = IF TooLarge(saved[i].data[2], limit) THEN NoData
                                                                   ELSE saved[i].data

\* A static file is never answered with what another file holds, after any number of
\* restarts, crashes in a save and changes of the limit.
FileReplyIsOwn ==
    \A url \in Urls :
        LET r == Reply(url)
        IN  r.by = "files" /\ r.reply.status = 200 =>
                r.reply.data[1] \in {url.segs, Normalized(url.segs)}

\* In mode HYBRID a file that exists is always answered, whatever the table lost to a
\* crash, to its limit or to an entry that was skipped, unless a route takes its path.
HybridNeverMisses ==
    mode = "HYBRID" =>
        \A url \in Urls :
            LET r == Reply(url)
                name == Normalized(url.segs)
            IN  r.by = "files" /\ ~Forbidden(url.segs) /\ name \in Files /\ disk[name] # Gone
                    => r.reply.status = 200

\* A route takes only what it was registered or opened for: its own path, or one below it
\* when it has dynamic subpaths, with a query only when it has dynamic parameters.
RoutesTakeWhatTheyDeclare ==
    \A url \in Urls : Found(url) # 0 =>
        LET route == routes[Found(url)]
        IN  \/ route.path = url
            \/ /\ route.path = Base(url)
               /\ HasSubpath(url) => route.sub
               /\ HasParam(url) => route.param

\* Registering a route takes no path away from another route, except the path it names
\* when that was found through its first segment only.
AddingRoutesIsStable ==
    [][Len(routes') > Len(routes) =>
        \A url \in Urls : Found(url) # 0 =>
            \/ Found(url)' = Found(url)
            \/ Exact(url) = {} /\ routes'[Len(routes')].path = url]_siteVars
=============================================================================
