---------------------------- MODULE ServerPending ----------------------------
(***************************************************************************)
(* The request path of the server: connections (bufferevents), the read    *)
(* callback, the list of pending responses, the 100 ms timer that sends or *)
(* discards finished ones, and the shutdown path                           *)
(* (framework/src/Server/server.c, server_pending.c).                      *)
(*                                                                         *)
(* The process is one libevent loop, so a callback is atomic with respect  *)
(* to the others; the timer's walk over the list is unfolded node by node, *)
(* with "cursor" naming the node and every other callback held back.       *)
(*                                                                         *)
(* A route handler is seen through the contract of the Response it gets:   *)
(* it leaves state PROCESSED, or it leaves it otherwise, keeps the pointer *)
(* and finishes later; it may register async_cancel to hear of a           *)
(* disconnect.  What concrete handlers do with that is in their modules.   *)
(***************************************************************************)
EXTENDS Naturals, Sequences, FiniteSets

CONSTANTS Conns,      \* bufferevents ever created, one per accepted connection
          Reqs,       \* Request/Response pairs, numbered in the order of allocation
          NoConn,     \* NULL
          MaxBuf,     \* bound: requests waiting unread on one connection
          MaxActive,  \* SPEED_BENCHMARK_MAX_ACTIVE
          Unfinished  \* states other than PROCESSED a handler leaves behind

ASSUME ServerAssumption ==
    /\ NoConn \notin Conns
    /\ Reqs \subseteq Nat
    /\ MaxBuf \in Nat \ {0}
    /\ MaxActive \in Nat
    /\ Unfinished \subseteq {"NPROCESSED", "PROCESSING", "ERROR"}

VARIABLES
    bev,        \* [Conns -> "none", "open", "freed"]: the bufferevents
    input,      \* [Conns -> 0..MaxBuf]: requests in the input buffer, unread
    mem,        \* [Reqs -> "none", "live", "freed"]: the Request/Response pair
    state,      \* [Reqs -> ResponseState]: res->state
    owner,      \* [Reqs -> connection the request was read from]
    hook,       \* requests whose res->async_cancel is set
    told,       \* requests whose handler was told of a disconnect
    running,    \* requests whose handler will still write to its Response
    pending,    \* Seq of entries; the list's head is the LAST element
    cursor,     \* node the timer's walk is at, 0 when no walk is under way
    timers,     \* requests that hold a slot of active_timers[]
    replies,    \* [Reqs -> Seq(Conns)]: bufferevent_write calls, per response
    loop        \* "running" or "stopped"

vars == <<bev, input, mem, state, owner, hook, told, running, pending, cursor,
          timers, replies, loop>>

ResponseState == {"NPROCESSED", "PROCESSING", "PROCESSED", "ERROR"}

\* pending_response_t
Entry == [req : Reqs, bev : Conns \cup {NoConn}, cancelled : BOOLEAN]

TypeOK ==
    /\ bev \in [Conns -> {"none", "open", "freed"}]
    /\ input \in [Conns -> 0..MaxBuf]
    /\ mem \in [Reqs -> {"none", "live", "freed"}]
    /\ state \in [Reqs -> ResponseState]
    /\ owner \in [Reqs -> Conns \cup {NoConn}]
    /\ hook \subseteq Reqs
    /\ told \subseteq Reqs
    /\ running \subseteq Reqs
    /\ pending \in Seq(Entry)
    /\ cursor \in 0..Len(pending)
    /\ timers \subseteq Reqs
    /\ replies \in [Reqs -> Seq(Conns)]
    /\ loop \in {"running", "stopped"}

Init ==
    /\ bev = [c \in Conns |-> "none"]
    /\ input = [c \in Conns |-> 0]
    /\ mem = [r \in Reqs |-> "none"]
    /\ state = [r \in Reqs |-> "NPROCESSED"]
    /\ owner = [r \in Reqs |-> NoConn]
    /\ hook = {}
    /\ told = {}
    /\ running = {}
    /\ pending = <<>>
    /\ cursor = 0
    /\ timers = {}
    /\ replies = [r \in Reqs |-> <<>>]
    /\ loop = "running"

\* The loop is between two callbacks.
Idle == loop = "running" /\ cursor = 0

-------------------------------------------------------------------------------
(* Connections.                                                            *)

\* listener_cb: one bufferevent per accepted socket.
Accept(c) ==
    /\ Idle
    /\ bev[c] = "none"
    /\ bev' = [bev EXCEPT ![c] = "open"]
    /\ UNCHANGED <<input, mem, state, owner, hook, told, running, pending, cursor,
                   timers, replies, loop>>

\* libevent moves the bytes of one more request into the input buffer before the
\* read callback runs.
Receive(c) ==
    /\ Idle
    /\ bev[c] = "open"
    /\ input[c] < MaxBuf
    /\ input' = [input EXCEPT ![c] = @ + 1]
    /\ UNCHANGED <<bev, mem, state, owner, hook, told, running, pending, cursor,
                   timers, replies, loop>>

\* Slots are keyed by address: a request allocated where a freed one was takes over
\* the slot that one may have left behind.
AddressReuse == {timers} \cup {timers \ {q} : q \in {q \in timers : mem[q] = "freed"}}

\* cweb_speedbench_start: no free slot means the request is not timed.
StartTimer(r) ==
    \E t \in AddressReuse :
        timers' = IF Cardinality(t) < MaxActive THEN t \cup {r} ELSE t

\* The part of conn_read_cb all outcomes share: the whole buffer is drained, ONE
\* request is parsed out of it however many it held, and a Response is allocated.
ReadFirst(c, r) ==
    /\ Idle
    /\ bev[c] = "open"
    /\ input[c] > 0
    /\ mem[r] = "none" /\ \A q \in Reqs : q < r => mem[q] # "none"
    /\ input' = [input EXCEPT ![c] = 0]
    /\ owner' = [owner EXCEPT ![r] = c]

\* cweb_parse_request finds no request line and the read is dropped.
ReadUnparsable(c) ==
    /\ Idle
    /\ bev[c] = "open"
    /\ input[c] > 0
    /\ input' = [input EXCEPT ![c] = 0]
    /\ UNCHANGED <<bev, mem, state, owner, hook, told, running, pending, cursor,
                   timers, replies, loop>>

\* Variant with a likely bug: a response already sent is queued as well.
ReadProcessedAndQueued(c, r) ==
    /\ ReadFirst(c, r)
    /\ mem' = [mem EXCEPT ![r] = "live"]
    /\ state' = [state EXCEPT ![r] = "PROCESSED"]
    /\ replies' = [replies EXCEPT ![r] = Append(@, c)]
    /\ pending' = Append(pending, [req |-> r, bev |-> c, cancelled |-> FALSE])
    /\ UNCHANGED <<bev, hook, told, running, cursor, timers, loop>>

\* A handler, the file server or the 404 branch leaves PROCESSED: the response
\* is written and both structures are freed before the callback returns.  The
\* timing slot taken at the start is given back by cweb_send_response.
ReadProcessed(c, r) ==
    /\ ReadFirst(c, r)
    /\ mem' = [mem EXCEPT ![r] = "freed"]
    /\ state' = [state EXCEPT ![r] = "PROCESSED"]
    /\ replies' = [replies EXCEPT ![r] = Append(@, c)]
    /\ timers' \in AddressReuse
    /\ UNCHANGED <<bev, hook, told, running, pending, cursor, loop>>

\* The handler returned with its Response in state st and cweb_add_pending_response
\* pushes it.  hooked: it registered async_cancel.  works: an operation it started
\* will finish it; a handler whose operation never started leaves works FALSE.
ReadPending(c, r, st, hooked, works) ==
    /\ ReadFirst(c, r)
    /\ st \in Unfinished
    /\ mem' = [mem EXCEPT ![r] = "live"]
    /\ state' = [state EXCEPT ![r] = st]
    /\ hook' = IF hooked THEN hook \cup {r} ELSE hook
    /\ running' = IF works THEN running \cup {r} ELSE running
    /\ pending' = Append(pending, [req |-> r, bev |-> c, cancelled |-> FALSE])
    /\ StartTimer(r)
    /\ UNCHANGED <<bev, told, cursor, replies, loop>>

\* cweb_cancel_pending_responses(bev): every entry of the connection loses its
\* pointer, and the hooks of their responses run once and are cleared.
EntriesOf(c) == {i \in 1..Len(pending) : pending[i].bev = c}

\* Variant with a likely bug: the walk ends at the first entry of the connection.
CancelFirstPending(c) ==
    LET first == {i \in EntriesOf(c) : \A j \in EntriesOf(c) : j <= i}
        hit   == {pending[i].req : i \in first} IN
    /\ pending' = [i \in 1..Len(pending) |->
                      IF i \in first
                      THEN [req |-> pending[i].req, bev |-> NoConn, cancelled |-> TRUE]
                      ELSE pending[i]]
    /\ told' = told \cup (hit \cap hook)
    /\ hook' = hook \ hit

CancelPending(c) ==
    LET hit == {pending[i].req : i \in EntriesOf(c)} IN
    /\ pending' = [i \in 1..Len(pending) |->
                      IF pending[i].bev = c
                      THEN [req |-> pending[i].req, bev |-> NoConn, cancelled |-> TRUE]
                      ELSE pending[i]]
    /\ told' = told \cup (hit \cap hook)
    /\ hook' = hook \ hit

\* Variant with a likely bug: the disconnect frees the responses it cancels.
DisconnectFreeing(c) ==
    /\ Idle
    /\ bev[c] = "open"
    /\ LET hit == {pending[i].req : i \in EntriesOf(c)} IN
       /\ mem' = [r \in Reqs |-> IF r \in hit THEN "freed" ELSE mem[r]]
       /\ told' = told \cup (hit \cap hook)
       /\ hook' = hook \ hit
    /\ pending' = SelectSeq(pending, LAMBDA e : e.bev # c)
    /\ bev' = [bev EXCEPT ![c] = "freed"]
    /\ input' = [input EXCEPT ![c] = 0]
    /\ UNCHANGED <<state, owner, running, cursor, timers, replies, loop>>

\* conn_event_cb on EOF or error: cancel, then free the bufferevent.
Disconnect(c) ==
    /\ Idle
    /\ bev[c] = "open"
    /\ CancelPending(c)
    /\ bev' = [bev EXCEPT ![c] = "freed"]
    /\ input' = [input EXCEPT ![c] = 0]
    /\ UNCHANGED <<mem, state, owner, running, cursor, timers, replies, loop>>

-------------------------------------------------------------------------------
(* Handlers finishing, and the timer.                                      *)

\* Variant with a likely bug: a handler that finishes leaves its hook registered.
HandlerDoneKeepingHook(r) ==
    /\ Idle
    /\ r \in running
    /\ state' = [state EXCEPT ![r] = "PROCESSED"]
    /\ running' = running \ {r}
    /\ UNCHANGED <<bev, input, mem, owner, hook, told, pending, cursor, timers, replies,
                   loop>>

\* The operation of a pending handler ends: it fills the Response in, marks it
\* PROCESSED and clears its hook.  Cancelled or not, it does so exactly once.
HandlerDone(r) ==
    /\ Idle
    /\ r \in running
    /\ state' = [state EXCEPT ![r] = "PROCESSED"]
    /\ running' = running \ {r}
    /\ hook' = hook \ {r}
    /\ UNCHANGED <<bev, input, mem, owner, told, pending, cursor, timers, replies, loop>>

\* Variant with a likely bug: the walk starts one node before the head.
CheckStartEarly ==
    /\ Idle
    /\ pending # <<>>
    /\ cursor' = Len(pending) + 1
    /\ UNCHANGED <<bev, input, mem, state, owner, hook, told, running, pending,
                   timers, replies, loop>>

\* check_pending_responses starts at the head of the list.
CheckStart ==
    /\ Idle
    /\ pending # <<>>
    /\ cursor' = Len(pending)
    /\ UNCHANGED <<bev, input, mem, state, owner, hook, told, running, pending,
                   timers, replies, loop>>

\* Variant with a likely bug: "prev" was advanced before unlinking, so that the
\* following node is cut out.
UnlinkNext(s, k) ==
    LET cut == IF k > 1 THEN k - 1 ELSE k
    IN  [i \in 1..(Len(s) - 1) |-> IF i < cut THEN s[i] ELSE s[i + 1]]

Unlink(s, k) == [i \in 1..(Len(s) - 1) |-> IF i < k THEN s[i] ELSE s[i + 1]]

\* Variant with a likely bug: the timing is not ended when the answer is late.
SendUntimed(e) ==
    /\ replies' = [replies EXCEPT ![e.req] = Append(@, e.bev)]
    /\ UNCHANGED timers

\* cweb_send_response: end the timing, write, free both structures.
Send(e) ==
    /\ replies' = [replies EXCEPT ![e.req] = Append(@, e.bev)]
    /\ timers' = timers \ {e.req}

\* The other branch frees both structures and leaves the timing slot taken.
Discard == UNCHANGED <<replies, timers>>

\* Variant with a likely bug: the cancelled flag is not looked at.
CheckFinishedRegardless ==
    /\ loop = "running"
    /\ cursor > 0
    /\ LET e == pending[cursor] IN
       /\ state[e.req] = "PROCESSED"
       /\ pending' = Unlink(pending, cursor)
       /\ Send(e)
       /\ mem' = [mem EXCEPT ![e.req] = "freed"]
    /\ cursor' = cursor - 1
    /\ UNCHANGED <<bev, input, state, owner, hook, told, running, loop>>

\* One node whose response is PROCESSED: unlink it, send or discard it.
CheckFinished ==
    /\ loop = "running"
    /\ cursor > 0
    /\ LET e == pending[cursor] IN
       /\ state[e.req] = "PROCESSED"
       /\ pending' = Unlink(pending, cursor)
       /\ IF ~e.cancelled /\ e.bev # NoConn THEN Send(e) ELSE Discard
       /\ mem' = [mem EXCEPT ![e.req] = "freed"]
    /\ cursor' = cursor - 1
    /\ UNCHANGED <<bev, input, state, owner, hook, told, running, loop>>

\* Variant with a likely bug: the walk ends at the first unfinished response.
CheckUnfinishedStops ==
    /\ loop = "running"
    /\ cursor > 0
    /\ state[pending[cursor].req] # "PROCESSED"
    /\ cursor' = 0
    /\ UNCHANGED <<bev, input, mem, state, owner, hook, told, running, pending,
                   timers, replies, loop>>

\* One node that is not finished: step over it.
CheckUnfinished ==
    /\ loop = "running"
    /\ cursor > 0
    /\ state[pending[cursor].req] # "PROCESSED"
    /\ cursor' = cursor - 1
    /\ UNCHANGED <<bev, input, mem, state, owner, hook, told, running, pending,
                   timers, replies, loop>>

-------------------------------------------------------------------------------
(* Shutdown.                                                               *)

\* event_base_dispatch returns and cweb_cleanup_pending_responses frees every
\* pending pair, finished or not.  No hook is called, and the operations still
\* under way never get their callback: the loop that would deliver it is gone.
Stop ==
    /\ Idle
    /\ loop' = "stopped"
    /\ mem' = [r \in Reqs |-> IF \E i \in 1..Len(pending) : pending[i].req = r
                              THEN "freed" ELSE mem[r]]
    /\ pending' = <<>>
    /\ UNCHANGED <<bev, input, state, owner, hook, told, running, cursor, timers, replies>>

Next ==
    \/ \E c \in Conns : Accept(c) \/ Receive(c) \/ ReadUnparsable(c) \/ Disconnect(c)
    \/ \E c \in Conns, r \in Reqs : ReadProcessed(c, r)
    \/ \E c \in Conns, r \in Reqs :
          \E st \in Unfinished, hooked \in BOOLEAN, works \in BOOLEAN :
             ReadPending(c, r, st, hooked, works)
    \/ \E r \in Reqs : HandlerDone(r)
    \/ CheckStart \/ CheckFinished \/ CheckUnfinished
    \/ Stop

\* The EV_PERSIST timer keeps firing while the loop runs, and a walk that has
\* begun is a loop of one callback.  Nothing is assumed of clients or handlers.
Fairness == WF_vars(CheckStart) /\ WF_vars(CheckFinished \/ CheckUnfinished)

Spec == Init /\ [][Next]_vars /\ Fairness

-------------------------------------------------------------------------------
(* Correctness.                                                            *)

PendingReqs == {pending[i].req : i \in 1..Len(pending)}

\* Every live Request/Response pair is owned by exactly one entry of the list, and
\* an entry never points at freed memory: nothing is freed twice, used after it was
\* freed, or forgotten, whatever the order of reads, timer walks and disconnects.
PendingOwnsLive ==
    /\ \A i, j \in 1..Len(pending) : pending[i].req = pending[j].req => i = j
    /\ PendingReqs = {r \in Reqs : mem[r] = "live"}

\* The bufferevent an entry would be answered on is the one its request came from
\* and has not been freed; a cancelled entry has none, and its connection is gone.
NoDanglingBev ==
    \A i \in 1..Len(pending) :
        LET e == pending[i] IN
        \/ e.cancelled /\ e.bev = NoConn /\ bev[owner[e.req]] = "freed"
        \/ ~e.cancelled /\ e.bev = owner[e.req] /\ bev[e.bev] = "open"

\* A handler that will still write to its Response writes to a live one that is not
\* PROCESSED yet: neither a disconnect nor the timer frees it under the operation.
HandlerWritesLive ==
    loop = "running" =>
        \A r \in running : mem[r] = "live" /\ state[r] # "PROCESSED"

\* A disconnect reaches every handler that asked to hear of it and is still at work:
\* a hook that is still registered belongs to an unfinished response whose
\* connection is open, and a hook that was called is not called again.
HooksFollowConnections ==
    loop = "running" =>
        \A r \in hook : /\ mem[r] = "live" /\ state[r] # "PROCESSED"
                        /\ bev[owner[r]] = "open"
                        /\ r \notin told

\* A response is written at most once, to the connection its request came from, after
\* which its memory and its timing slot are released; one that is freed unwritten
\* lost its connection or was freed by the shutdown.
SettledRightly ==
    \A r \in Reqs :
        IF mem[r] # "freed" THEN replies[r] = <<>>
        ELSE \/ replies[r] = <<owner[r]>> /\ r \notin timers
             \/ replies[r] = <<>> /\ (loop = "stopped" \/ bev[owner[r]] = "freed")

\* What the induction over steps needs beside the invariants above: an identity not
\* in use has left no trace, and one in use knows its connection.
Bookkeeping ==
    \A r \in Reqs : IF mem[r] = "none" THEN r \notin told /\ r \notin timers
                                       ELSE owner[r] \in Conns

\* The inductive invariant.
IInv ==
    /\ TypeOK
    /\ PendingOwnsLive
    /\ NoDanglingBev
    /\ HandlerWritesLive
    /\ HooksFollowConnections
    /\ SettledRightly
    /\ Bookkeeping

\* A finished response does not wait for ever: the timer sends it, or frees it when
\* its connection is gone or the server stops.
FinishedIsSettled ==
    \A r \in Reqs : (mem[r] = "live" /\ state[r] = "PROCESSED") ~> mem[r] = "freed"

\* The abstract service: a response is "ready" from PROCESSED until it is freed.
ServicePeer == [c \in Conns |-> IF bev[c] = "freed" THEN "gone" ELSE bev[c]]

StatusOf(m, st, rs) ==
    CASE m = "none" -> "idle"
      [] m = "live" /\ st # "PROCESSED" -> "taken"
      [] m = "live" /\ st = "PROCESSED" -> "ready"
      [] m = "freed" /\ rs # <<>> -> "answered"
      [] m = "freed" /\ rs = <<>> -> "abandoned"

ServiceStatus == [r \in Reqs |-> StatusOf(mem[r], state[r], replies[r])]

Service == INSTANCE RequestService
              WITH peer <- ServicePeer, status <- ServiceStatus, up <- (loop = "running")

\* The server implements RequestService, its fairness included: no request is
\* answered twice, to another client or after its client left, a ready response is
\* abandoned only when its client is gone, and a ready response is settled.
ImplementsService == Service!Spec
===============================================================================
