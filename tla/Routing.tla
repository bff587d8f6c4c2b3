------------------------------ MODULE Routing -------------------------------
(***************************************************************************)
(* The routes of the server (framework/src/Routing/routing.c): a list in   *)
(* the order of registration, searched for the path of a request as it is, *)
(* then for its first segment, and last a fallback handler.                *)
(*                                                                         *)
(* A path is a sequence of segments, with a query or without one.          *)
(* using_session is left out: cweb_get_route_handler overwrites that of    *)
(* the route it finds with the false of the request, and nothing reads it. *)
(***************************************************************************)
EXTENDS Naturals, Sequences

CONSTANTS Segments,
          Urls,       \* the paths that requests ask for
          RoutePaths, \* those that routes are registered for
          Handlers, NoHandler,
          MaxRoutes   \* MAX_ROUTES

ASSUME RoutingAssumption ==
    /\ RoutePaths \subseteq Urls
    /\ \A url \in Urls : url.segs \in Seq(Segments) \ {<<>>} /\ url.query \in BOOLEAN
    /\ NoHandler \notin Handlers
    /\ MaxRoutes \in Nat

VARIABLES
    routes,      \* routes[0 .. route_count - 1]
    fallback     \* fallback_handler

routeVars == <<routes, fallback>>

Route == [path : RoutePaths, handler : Handlers, sub : BOOLEAN, param : BOOLEAN]

RoutingTypeOK ==
    /\ routes \in Seq(Route)
    /\ fallback \in Handlers \cup {NoHandler}

RoutingInit == routes = <<>> /\ fallback = NoHandler

\* The first of a set of positions in the list.
First(S) == CHOOSE i \in S : \A j \in S : i <= j

\* The routes of this very path.
Exact(url) == {i \in DOMAIN routes : routes[i].path = url}

-----------------------------------------------------------------------------
\* Registration

\* cweb_add_route; a route that does not fit ends the process or is dropped.
AddRoute(url, h) ==
    /\ Len(routes) < MaxRoutes
    /\ routes' = Append(routes, [path |-> url, handler |-> h, sub |-> FALSE, param |-> FALSE])
    /\ UNCHANGED fallback

\* cweb_set_dynamic_subpath and cweb_set_dynamic_param: the first route of the path.
SetSubpath(url, b) ==
    /\ Exact(url) # {}
    /\ routes' = [routes EXCEPT ![First(Exact(url))].sub = b]
    /\ UNCHANGED fallback

SetParam(url, b) ==
    /\ Exact(url) # {}
    /\ routes' = [routes EXCEPT ![First(Exact(url))].param = b]
    /\ UNCHANGED fallback

\* cweb_rewriteRoutePath.
Rewrite(url, new) ==
    /\ Exact(url) # {}
    /\ routes' = [routes EXCEPT ![First(Exact(url))].path = new]
    /\ UNCHANGED fallback

\* cweb_set_fallback_handler.
SetFallback(h) == fallback' = h /\ UNCHANGED routes

\* cweb_clear_routes.
ClearRoutes == routes' = <<>> /\ fallback' = NoHandler

RoutingNext ==
    \/ \E url \in RoutePaths, h \in Handlers : AddRoute(url, h)
    \/ \E url \in RoutePaths, b \in BOOLEAN : SetSubpath(url, b) \/ SetParam(url, b)
    \/ \E url, new \in RoutePaths : Rewrite(url, new)
    \/ \E h \in Handlers \cup {NoHandler} : SetFallback(h)

-----------------------------------------------------------------------------
\* Lookup

\* cweb_get_route_base, has_path_subpath and has_path_param.
Base(url) == [segs |-> <<url.segs[1]>>, query |-> FALSE]
HasSubpath(url) == Len(url.segs) > 1
HasParam(url) == url.query

\* Mutant: a query is taken by a route for subpaths.
TakesAnyQuery(route, url) ==
    \/ route.sub /\ HasSubpath(url)
    \/ route.param /\ HasParam(url) /\ (route.sub \/ ~HasSubpath(url))

\* The two conditions under which a route of the base path takes a path.
Takes(route, url) ==
    \/ route.sub /\ HasSubpath(url) /\ (route.param \/ ~HasParam(url))
    \/ route.param /\ HasParam(url) /\ (route.sub \/ ~HasSubpath(url))

ByBase(url) == {i \in Exact(Base(url)) : Takes(routes[i], url)}

\* Mutant: the last route that matches is found.
FoundLast(url) ==
    IF Exact(url) # {} THEN CHOOSE i \in Exact(url) : \A j \in Exact(url) : j <= i
    ELSE IF ByBase(url) # {} THEN First(ByBase(url))
    ELSE 0

\* The position of the route found for a path, or 0.
Found(url) ==
    IF Exact(url) # {} THEN First(Exact(url))
    ELSE IF ByBase(url) # {} THEN First(ByBase(url))
    ELSE 0

\* cweb_get_route_handler.
RouteHandler(url) == IF Found(url) # 0 THEN routes[Found(url)].handler ELSE fallback
=============================================================================
