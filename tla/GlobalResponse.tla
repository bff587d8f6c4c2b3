---------------------------- MODULE GlobalResponse ----------------------------
(***************************************************************************)
(* The pages /fetch and /longtime (app/routes/fetch/fetch.page.c,          *)
(* app/routes/longtime/longtime.page.c): handlers that hand their Response *)
(* to the transfer's callback through one static variable per page,        *)
(* g_response, and register no cancel hook.                                *)
(*                                                                         *)
(* A write through a g_response whose Response was freed is undefined: it  *)
(* is lost, or it hits a Response allocated since at the same address.     *)
(***************************************************************************)
EXTENDS ServerPending

Pages == {"fetch", "longtime"}

VARIABLES
    g_response, \* [Pages -> the request whose Response it holds, or NULL]
    flying      \* [Pages -> requests whose transfer was started]

pageVars == <<g_response, flying>>
allVars == <<vars, pageVars>>

PageInit ==
    /\ Init
    /\ g_response = [p \in Pages |-> NoConn]
    /\ flying = [p \in Pages |-> {}]

-------------------------------------------------------------------------------
\* POST, or the libraries cannot be initialised: answered before g_response is set.
Refuse(c, r) == ReadProcessed(c, r) /\ UNCHANGED pageVars

\* fetch_page fails to create or to execute the transfer after it set g_response:
\* the Response is sent and freed, and g_response still points to it.
FetchFails(c, r) ==
    /\ ReadProcessed(c, r)
    /\ g_response' = [g_response EXCEPT !["fetch"] = r]
    /\ UNCHANGED flying

\* The transfer is under way.
Start(c, r, p) ==
    /\ ReadPending(c, r, "NPROCESSED", FALSE, TRUE)
    /\ g_response' = [g_response EXCEPT ![p] = r]
    /\ flying' = [flying EXCEPT ![p] = @ \cup {r}]

\* longtime_page cannot tell that fetch() started nothing.
LongtimeFails(c, r) ==
    /\ ReadPending(c, r, "NPROCESSED", FALSE, FALSE)
    /\ g_response' = [g_response EXCEPT !["longtime"] = r]
    /\ UNCHANGED flying

\* Where a write through g_response[p] may end up.
Target(p) ==
    LET g == g_response[p] IN
    IF mem[g] = "live" THEN {g} ELSE {g} \cup {q \in Reqs : q > g /\ mem[q] = "live"}

\* The callback of the transfer that request r started: github_response_callback
\* always finishes a Response, longtime_apicall does unless a 200 carries no JSON.
Callback(r, p) ==
    /\ Idle
    /\ r \in running /\ r \in flying[p]
    /\ running' = running \ {r}
    /\ \/ \E q \in Target(p) : state' = [state EXCEPT ![q] = "PROCESSED"]
       \/ p = "longtime" /\ UNCHANGED state
    /\ UNCHANGED <<bev, input, mem, owner, hook, told, pending, cursor, timers, replies,
                   loop, pageVars>>

ServerStep ==
    /\ \/ \E c \in Conns : Accept(c) \/ Receive(c) \/ ReadUnparsable(c) \/ Disconnect(c)
       \/ CheckStart \/ CheckFinished \/ CheckUnfinished
       \/ Stop
    /\ UNCHANGED pageVars

PageNext ==
    \/ \E c \in Conns, r \in Reqs : Refuse(c, r) \/ FetchFails(c, r) \/ LongtimeFails(c, r)
    \/ \E c \in Conns, r \in Reqs, p \in Pages : Start(c, r, p)
    \/ \E r \in Reqs, p \in Pages : Callback(r, p)
    \/ ServerStep

PageSpec == PageInit /\ [][PageNext]_allVars

-------------------------------------------------------------------------------
\* fetch.page.c:184 "Response state will be set to PROCESSED by callback when request
\* completes": once its own transfer has called back, a request of /fetch is finished.
CallbackFinishesItsResponse ==
    loop = "running" =>
        \A r \in flying["fetch"] :
            mem[r] = "live" /\ r \notin running => state[r] = "PROCESSED"
===============================================================================
