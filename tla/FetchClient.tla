----------------------------- MODULE FetchClient -----------------------------
(***************************************************************************)
(* The HTTP client of the framework (framework/src/fetch): clients, which  *)
(* own a libcurl multi handle, requests, which own an easy handle, and the *)
(* callbacks through which libevent and libcurl drive them.                *)
(*                                                                         *)
(* libcurl is external.  A transfer added to a multi handle makes progress *)
(* only inside curl_multi_socket_action; there it may receive bytes, open  *)
(* or close its socket, or end, and any transfer of the same multi handle  *)
(* whose time is over ends too.  libcurl's timer function has no effect:   *)
(* libcurl calls it from inside its own functions, where it refuses the    *)
(* nested call, and nothing ever adds timer_event.                         *)
(*                                                                         *)
(* The application creates, executes, cancels and destroys requests        *)
(* between two events or from a completion callback, its own request and   *)
(* client included; it destroys a client after its requests, as all callers*)
(* in src/app do.  An identity stands for one allocation.                  *)
(***************************************************************************)
EXTENDS Naturals, FiniteSets

CONSTANTS Clients, Requests,
          NoClient, NoRequest,
          MaxRuns,     \* bound: executions of one request
          Chunks,      \* what one call of the write callback may receive
          MaxBytes     \* bound: a request with so many bytes receives no more

\* A string of bytes: how many, and how many before the first that is NUL.
Bytes == [size : Nat, text : Nat]
Empty == [size |-> 0, text |-> 0]

ASSUME FetchAssumption ==
    /\ Chunks \subseteq Bytes
    /\ NoClient \notin Clients
    /\ NoRequest \notin Requests
    /\ MaxRuns \in Nat /\ MaxBytes \in Nat

VARIABLES
    client,     \* the fetch_client_t: "none", "live" or "freed"
    request,    \* the fetch_request_t: "none", "live" or "freed"
    owner,      \* request->client
    wrapped,    \* requests made by fetch(), which keeps no pointer to them
    executing,  \* requests with is_executing
    cancelled,  \* requests with is_cancelled
    multi,      \* requests whose easy handle is in the multi handle of their client
    ended,      \* those whose CURLMSG_DONE waits to be read
    watched,    \* those whose socket has a socket_info and an event
    buffer,     \* response_buffer: its bytes, and those before the first NUL of it
    body,       \* bytes of the string response.body
    bodySize,   \* response.body_size
    json,       \* bytes that response.json was parsed from; 0 is NULL
    checking,   \* the client whose messages fetch_check_multi_info reads
    current,    \* the request of the message it has read
    calling,    \* whether that request's callback is running
    touched,    \* clients and requests used after they were freed
    process     \* "up", or "down" once such a use brought the process down

\* Histories.
VARIABLES
    runs,       \* executions
    reports,    \* those reported: calls of the callback
    silent,     \* those cancelled before they were reported, or passed over
    lost,       \* requests with one begun in their own callback, and not cancelled
    sent,       \* what the first execution received, as in buffer
    killed      \* what was destroyed by its own callback

transfers == <<multi, ended, watched>>
flags == <<executing, cancelled>>
response == <<body, bodySize, json>>
loop == <<checking, current, calling>>
faults == <<touched, process>>
history == <<runs, reports, silent, lost, sent, killed>>
vars == <<client, request, owner, wrapped, transfers, flags, buffer, response,
          loop, faults, history>>

\* The string s with those of chunk after it.
Appended(s, chunk) ==
    [size |-> s.size + chunk.size,
     text |-> IF s.text = s.size THEN s.text + chunk.text ELSE s.text]

TypeOK ==
    /\ client \in [Clients -> {"none", "live", "freed"}]
    /\ request \in [Requests -> {"none", "live", "freed"}]
    /\ owner \in [Requests -> Clients \cup {NoClient}]
    /\ wrapped \subseteq Requests
    /\ executing \subseteq Requests /\ cancelled \subseteq Requests
    /\ multi \subseteq Requests /\ ended \subseteq Requests /\ watched \subseteq Requests
    /\ buffer \in [Requests -> Bytes] /\ sent \in [Requests -> Bytes]
    /\ body \in [Requests -> Nat] /\ bodySize \in [Requests -> Nat]
    /\ json \in [Requests -> Nat]
    /\ checking \in Clients \cup {NoClient}
    /\ current \in Requests \cup {NoRequest}
    /\ calling \in {"yes", "no"}
    /\ touched \subseteq (Clients \cup Requests) /\ killed \subseteq (Clients \cup Requests)
    /\ process \in {"up", "down"}
    /\ runs \in [Requests -> Nat] /\ reports \in [Requests -> Nat]
    /\ silent \in [Requests -> Nat] /\ lost \subseteq Requests

Init ==
    /\ client = [c \in Clients |-> "none"]
    /\ request = [r \in Requests |-> "none"]
    /\ owner = [r \in Requests |-> NoClient]
    /\ wrapped = {} /\ executing = {} /\ cancelled = {}
    /\ multi = {} /\ ended = {} /\ watched = {}
    /\ buffer = [r \in Requests |-> Empty]
    /\ body = [r \in Requests |-> 0]
    /\ bodySize = [r \in Requests |-> 0]
    /\ json = [r \in Requests |-> 0]
    /\ checking = NoClient /\ current = NoRequest /\ calling = "no"
    /\ touched = {} /\ process = "up"
    /\ runs = [r \in Requests |-> 0]
    /\ reports = [r \in Requests |-> 0]
    /\ silent = [r \in Requests |-> 0]
    /\ lost = {}
    /\ sent = [r \in Requests |-> Empty]
    /\ killed = {}

-----------------------------------------------------------------------------
\* libcurl

Live(c) == {r \in Requests : request[r] = "live" /\ owner[r] = c}

\* Transfers of c, other than r, that still run: those whose time may be over.  That of
\* the request being reported is over already, unless it was begun in the callback.
Running(c, r) ==
    {q \in multi \ (ended \cup {r}) : owner[q] = c /\ (q = current => q \in lost)}

\* Mutant: CURL_POLL_REMOVE does not free the socket_info.
ProgressKeepingSocket(r, late, handles) ==
    /\ multi' = handles
    /\ \/ ended' = ended \cup late /\ watched' = watched \cup {r}
       \/ ended' = ended \cup late \cup {r} /\ UNCHANGED watched

\* The outcomes of curl_multi_socket_action for r and the transfers late of its
\* client, given the transfers now in the multi handle: r goes on with or without a
\* socket (a socket may be replaced, or wait for a timer), or ends.  Where it
\* watches a socket, fetch_client_socket_callback keeps one socket_info for it.
Progress(r, late, handles) ==
    /\ multi' = handles
    /\ \/ ended' = ended \cup late /\ watched' = (watched \ late) \cup {r}
       \/ ended' = ended \cup late /\ watched' = watched \ (late \cup {r})
       \/ ended' = ended \cup late \cup {r} /\ watched' = watched \ (late \cup {r})

\* curl_multi_remove_handle, also what curl_easy_cleanup does first.
Remove(r) ==
    /\ multi' = multi \ {r}
    /\ ended' = ended \ {r}
    /\ watched' = watched \ {r}

-----------------------------------------------------------------------------
\* The application's calls

\* Application code runs between events and inside a completion callback.
AppRuns == process = "up" /\ (checking = NoClient \/ calling = "yes")

\* Clients the application has a pointer to: fetch() keeps none of its own.
Known(c) == client[c] = "live" /\ \A r \in wrapped : owner[r] # c

\* Requests it has a pointer to: to those of fetch() only their own callback has one.
Reachable(r) == request[r] = "live" /\ (r \in wrapped => r = current)

\* What is destroyed while it is reported, or with its own messages being read.
Killed(x) ==
    IF checking # NoClient /\ x \in {checking, current} THEN killed \cup {x} ELSE killed

fetch_client_create(c) ==
    /\ AppRuns /\ client[c] = "none"
    /\ client' = [client EXCEPT ![c] = "live"]
    /\ UNCHANGED <<request, owner, wrapped, transfers, flags, buffer, response,
                   loop, faults, history>>

\* curl_multi_cleanup closes the sockets left, with the client still allocated.
fetch_client_destroy(c) ==
    /\ AppRuns /\ Known(c) /\ Live(c) = {}
    /\ client' = [client EXCEPT ![c] = "freed"]
    /\ killed' = Killed(c)
    /\ UNCHANGED <<request, owner, wrapped, transfers, flags, buffer, response,
                   loop, faults, runs, reports, silent, lost, sent>>

fetch_request_create(r, c) ==
    /\ AppRuns /\ Known(c) /\ request[r] = "none"
    /\ request' = [request EXCEPT ![r] = "live"]
    /\ owner' = [owner EXCEPT ![r] = c]
    /\ UNCHANGED <<client, wrapped, transfers, flags, buffer, response, loop,
                   faults, history>>

\* Mutant: the easy handle is not cleaned up.
DestroyKeepingHandle(r) ==
    /\ AppRuns /\ Reachable(r)
    /\ request' = [request EXCEPT ![r] = "freed"]
    /\ killed' = Killed(r)
    /\ UNCHANGED <<client, owner, wrapped, transfers, flags, buffer, response, loop,
                   faults, runs, reports, silent, lost, sent>>

\* curl_easy_cleanup takes the handle out of the multi handle, its message too.
fetch_request_destroy(r) ==
    /\ AppRuns /\ Reachable(r)
    /\ request' = [request EXCEPT ![r] = "freed"]
    /\ Remove(r)
    /\ executing' = executing \ {r} /\ cancelled' = cancelled \ {r}
    /\ killed' = Killed(r)
    /\ UNCHANGED <<client, owner, wrapped, buffer, response, loop, faults, runs,
                   reports, silent, lost, sent>>

\* Mutant: is_executing is not set.
StartedUnmarked(r, c) ==
    /\ executing' = executing
    /\ runs' = [runs EXCEPT ![r] = runs[r] + 1]
    /\ \E late \in SUBSET Running(c, r) : Progress(r, late, multi \cup {r})

\* The part of fetch_request_execute after curl_multi_add_handle succeeded.  The
\* buffers of an earlier execution are kept; the first progress is made here, and
\* nobody reads the messages it leaves.
Started(r, c) ==
    /\ executing' = executing \cup {r}
    /\ runs' = [runs EXCEPT ![r] = runs[r] + 1]
    /\ \E late \in SUBSET Running(c, r) : Progress(r, late, multi \cup {r})

\* Mutant: the check of is_executing is missing.
ExecuteAgain(r) ==
    /\ AppRuns /\ Reachable(r) /\ runs[r] < MaxRuns
    /\ Started(r, owner[r])
    /\ lost' = IF r = current THEN lost \cup {r} ELSE lost
    /\ UNCHANGED <<client, request, owner, wrapped, cancelled, buffer, response, loop,
                   faults, reports, silent, sent, killed>>

\* A refused execution (is_executing set, libcurl error) changes nothing visible.  In
\* the callback of r it is accepted only after a cancellation of r.
fetch_request_execute(r) ==
    /\ AppRuns /\ Reachable(r) /\ r \notin executing /\ runs[r] < MaxRuns
    /\ Started(r, owner[r])
    /\ lost' = IF r = current THEN lost \cup {r} ELSE lost
    /\ UNCHANGED <<client, request, owner, wrapped, cancelled, buffer, response, loop,
                   faults, reports, silent, sent, killed>>

\* is_cancelled stays set: no call resets it.  In the callback of r, the execution it
\* cancels is the reported one, or one begun in that callback.
fetch_request_cancel(r) ==
    /\ AppRuns /\ Reachable(r) /\ r \in executing
    /\ cancelled' = cancelled \cup {r}
    /\ executing' = executing \ {r}
    /\ Remove(r)
    /\ \/ /\ r = current /\ r \notin lost
          /\ UNCHANGED <<silent, lost>>
       \/ /\ r = current => r \in lost
          /\ silent' = [silent EXCEPT ![r] = silent[r] + 1]
          /\ lost' = IF r = current THEN lost \ {r} ELSE lost
    /\ UNCHANGED <<client, request, owner, wrapped, buffer, response, loop, faults,
                   runs, reports, sent, killed>>

\* fetch(): a client and a request of its own, executed at once...
FetchStarts(c, r) ==
    /\ AppRuns /\ client[c] = "none" /\ request[r] = "none" /\ MaxRuns > 0
    /\ client' = [client EXCEPT ![c] = "live"]
    /\ request' = [request EXCEPT ![r] = "live"]
    /\ owner' = [owner EXCEPT ![r] = c]
    /\ wrapped' = wrapped \cup {r}
    /\ Started(r, c)
    /\ UNCHANGED <<cancelled, buffer, response, loop, faults, reports, silent, lost, sent,
                   killed>>

\* ... or, when that fails, destroyed in this order before fetch() returns.
FetchFails(c, r) ==
    /\ AppRuns /\ client[c] = "none" /\ request[r] = "none"
    /\ client' = [client EXCEPT ![c] = "freed"]
    /\ request' = [request EXCEPT ![r] = "freed"]
    /\ owner' = [owner EXCEPT ![r] = c]
    /\ wrapped' = wrapped \cup {r}
    /\ UNCHANGED <<transfers, flags, buffer, response, loop, faults, history>>

\* fetch_response_get_json, in the callback: parsed once, then kept.  An empty string
\* is no JSON.
fetch_response_get_json(r) ==
    /\ process = "up" /\ calling = "yes" /\ r = current /\ request[r] = "live"
    /\ json[r] = 0 /\ body[r] # 0
    /\ json' = [json EXCEPT ![r] = body[r]]
    /\ UNCHANGED <<client, request, owner, wrapped, transfers, flags, buffer, body,
                   bodySize, loop, faults, history>>

-----------------------------------------------------------------------------
\* The event loop

\* fetch_socket_event_callback: the socket of r is ready.  Its socket_info may be
\* freed inside socket_action; the client was read from it before.
SocketEvent(r) ==
    /\ process = "up" /\ checking = NoClient /\ r \in watched
    /\ \/ \E chunk \in Chunks :               \* fetch_write_callback appends
             /\ buffer[r].size < MaxBytes
             /\ buffer' = [buffer EXCEPT ![r] = Appended(buffer[r], chunk)]
             /\ sent' = IF runs[r] = 1 THEN [sent EXCEPT ![r] = Appended(sent[r], chunk)]
                                       ELSE sent
       \/ UNCHANGED <<buffer, sent>>
    /\ \E late \in SUBSET Running(owner[r], r) : Progress(r, late, multi)
    /\ checking' = owner[r]
    /\ UNCHANGED <<client, request, owner, wrapped, flags, response, current, calling,
                   faults, runs, reports, silent, lost, killed>>

\* Mutant: strndup of one byte less than the buffer has.
CopiedShort(r) ==
    IF buffer[r] = Empty THEN body[r]
    ELSE IF buffer[r].text = buffer[r].size THEN buffer[r].size - 1 ELSE buffer[r].text

\* response.body after strdup of response_buffer: the bytes before the first NUL.
Copied(r) == IF buffer[r] = Empty THEN body[r] ELSE buffer[r].text

\* A pass of the loop of fetch_check_multi_info that calls the callback: the buffers
\* are copied to the response first.
Report(r) ==
    /\ process = "up" /\ checking # NoClient /\ current = NoRequest
    /\ r \in ended /\ owner[r] = checking /\ r \notin cancelled
    /\ ended' = ended \ {r}
    /\ current' = r /\ calling' = "yes"
    /\ body' = [body EXCEPT ![r] = Copied(r)]
    /\ bodySize' = [bodySize EXCEPT ![r] = IF buffer[r] = Empty THEN @ ELSE buffer[r].size]
    /\ reports' = [reports EXCEPT ![r] = reports[r] + 1]
    /\ UNCHANGED <<client, request, owner, wrapped, multi, watched, flags, buffer,
                   json, checking, faults, runs, silent, lost, sent, killed>>

\* A pass that calls nothing, since the request was cancelled once.
PassOver(r) ==
    /\ process = "up" /\ checking # NoClient /\ current = NoRequest
    /\ r \in ended /\ owner[r] = checking /\ r \in cancelled
    /\ ended' = ended \ {r}
    /\ current' = r
    /\ silent' = [silent EXCEPT ![r] = silent[r] + 1]
    /\ UNCHANGED <<client, request, owner, wrapped, multi, watched, flags, buffer,
                   response, checking, calling, faults, runs, reports, lost, sent, killed>>

CallbackReturns ==
    /\ process = "up" /\ calling = "yes"
    /\ calling' = "no"
    /\ UNCHANGED <<client, request, owner, wrapped, transfers, flags, buffer, response,
                   checking, current, faults, history>>

Freed == {x \in {current} : request[x] = "freed"} \cup {c \in {checking} : client[c] = "freed"}

\* The rest of the pass, with the request and the client still there.
EndPass ==
    /\ process = "up" /\ current # NoRequest /\ calling = "no" /\ Freed = {}
    /\ Remove(current)
    /\ executing' = executing \ {current}
    /\ current' = NoRequest
    /\ UNCHANGED <<client, request, owner, wrapped, cancelled, buffer, response,
                   checking, calling, faults, history>>

\* The same with freed memory: the process dies, or the calls find a handle they
\* refuse, the write is lost and, with the client freed, the loop ends.
EndPassFreed ==
    /\ process = "up" /\ current # NoRequest /\ calling = "no" /\ Freed # {}
    /\ touched' = touched \cup Freed
    /\ \/ process' = "down"
       \/ UNCHANGED process
    /\ current' = NoRequest
    /\ checking' = IF client[checking] = "freed" THEN NoClient ELSE checking
    /\ UNCHANGED <<client, request, owner, wrapped, transfers, flags, buffer, response,
                   calling, history>>

\* Mutant: one message is read for each event.
CheckEndsEarly ==
    /\ process = "up" /\ checking # NoClient /\ current = NoRequest
    /\ checking' = NoClient
    /\ UNCHANGED <<client, request, owner, wrapped, transfers, flags, buffer, response,
                   current, calling, faults, history>>

\* curl_multi_info_read finds no message.
CheckEnds ==
    /\ process = "up" /\ checking # NoClient /\ current = NoRequest
    /\ \A r \in ended : owner[r] # checking
    /\ checking' = NoClient
    /\ UNCHANGED <<client, request, owner, wrapped, transfers, flags, buffer, response,
                   current, calling, faults, history>>

-----------------------------------------------------------------------------

Application ==
    \/ \E c \in Clients : fetch_client_create(c) \/ fetch_client_destroy(c)
    \/ \E r \in Requests, c \in Clients :
          fetch_request_create(r, c) \/ FetchStarts(c, r) \/ FetchFails(c, r)
    \/ \E r \in Requests :
          \/ fetch_request_destroy(r) \/ fetch_request_execute(r)
          \/ fetch_request_cancel(r) \/ fetch_response_get_json(r)

CheckLoop ==
    \/ \E r \in Requests : Report(r) \/ PassOver(r)
    \/ EndPass \/ EndPassFreed \/ CheckEnds

Next == Application \/ CheckLoop \/ CallbackReturns \/ \E r \in Requests : SocketEvent(r)

\* fetch_check_multi_info is one C loop, and application callbacks return.
Fairness == WF_vars(CheckLoop) /\ WF_vars(CallbackReturns)

Spec == Init /\ [][Next]_vars /\ Fairness

-----------------------------------------------------------------------------
\* Properties

\* is_executing says whether libcurl holds the easy handle, through failures,
\* cancellations, re-executions and destructions (fetch_request.c:262, 284, 300;
\* fetch_event.c:126-129): a handle is never added twice or left behind.
ExecutingIsInMulti == executing = multi

\* What libevent and libcurl call back with is allocated: a watched socket or an
\* unread message belongs to a live request of a live client, whatever was
\* destroyed, and by whom, while they waited (fetch_event.c:71-94).
EventsFindMemory ==
    \A r \in watched \cup ended :
        /\ r \in multi /\ request[r] = "live" /\ client[owner[r]] = "live"
        /\ ~ (r \in watched /\ r \in ended)

\* Every execution is still under way, or was reported by exactly one call of the
\* callback, or was cancelled or passed over, also when transfers end while the
\* messages of another are read (fetch_event.c:89-131); but for one: what a request
\* begins in its own callback, having cancelled itself there, is taken out of the multi
\* handle by the end of the pass (fetch_event.c:126-129), reported to nobody.
RunsAccountedFor ==
    \A r \in Requests : request[r] = "live" =>
        /\ runs[r] = reports[r] + silent[r] + (IF r \in multi \ {current} THEN 1 ELSE 0)
                                           + (IF r \in lost THEN 1 ELSE 0)
        /\ r \in lost => r \in cancelled

\* A request executed once shows its callback the size of what it received, and as body
\* and as JSON its bytes up to the first that is NUL, so all of them when there is none
\* (fetch_event.c:102-105, fetch_response.c:70-73).  It is not so for a later execution:
\* the buffer goes on and the JSON stays that of the first.
FirstRunIsExact ==
    \A r \in Requests : runs[r] = 1 /\ reports[r] = 1 =>
        /\ bodySize[r] = sent[r].size /\ body[r] = sent[r].text
        /\ json[r] \in {0, body[r]}

\* Freed memory is used only where a callback destroyed the request or the client
\* it was called for (fetch_event.c:89, 126-128): no other order of destroying,
\* cancelling and events reaches any.
OnlyOwnCallbackHarms == touched \subseteq killed

\* A message that waits when its client's messages are read is taken by that loop,
\* also one left by an execution that failed at once and had no reader
\* (fetch_request.c:288, fetch_event.c:89).
LoopTakesAll ==
    \A r \in Requests : (r \in ended /\ checking = owner[r])
                            ~> (r \notin ended \/ process = "down")

\* A callback may clean up: "Clean up request" (src/app/routes/fetch/fetch.page.c:83)
\* destroys the request in its own callback, after which the loop uses it.
CallbackMayCleanUp == touched = {}
=============================================================================
