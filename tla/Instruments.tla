----------------------------- MODULE Instruments -----------------------------
(***************************************************************************)
(* The two instruments of the server at work.  Both know what they measure *)
(* or record by its address only, which the allocator hands out again:     *)
(* this module drives them the way conn_read_cb, cweb_send_response,       *)
(* check_pending_responses and fetch() do and lets any free address be the *)
(* next one.                                                               *)
(*                                                                         *)
(* Requests of clients and the transfers that fetch() starts from their    *)
(* handlers share the timing slots and the history.  The tracker records   *)
(* the requests and the read buffers, not the transfers.                   *)
(***************************************************************************)
EXTENDS SpeedBench, LeakTracker

CONSTANT MaxThings    \* bound on the requests and transfers whose timing is started

ASSUME InstAssumption ==
    /\ MaxThings \in Nat
    /\ Samples = 1..MaxThings
    /\ NoSample \notin Samples

VARIABLES
    live,       \* [Keys -> the request or transfer allocated at the address, or 0]
    transfers,  \* the addresses of fetch_request_t of fetch(), which are never freed
    flying,     \* those whose timing the callback has not ended
    handling,   \* the request whose handler conn_read_cb runs, or NoKey
    data,       \* its read buffer, freed when conn_read_cb returns, or NoKey
    started,    \* number of requests and transfers so far; each is known by its number
    timed,      \* those that got a slot when they started
    finished    \* those of them that ended their timing, in that order

thingVars == <<live, transfers, flying, handling, data, started, timed>>
instVars == <<benchVars, g_records, thingVars, finished>>

Init ==
    /\ BenchInit
    /\ g_records = <<>>
    /\ live = [a \in Keys |-> 0]
    /\ transfers = {} /\ flying = {}
    /\ handling = NoKey /\ data = NoKey
    /\ started = 0
    /\ timed = {}
    /\ finished = <<>>

Requests == {a \in Keys : live[a] # 0} \ transfers

Free(a) == live[a] = 0 /\ a # data

\* The timing of the next thing starts, at address a.
Begin(a) ==
    /\ started < MaxThings
    /\ started' = started + 1
    /\ timed' = IF SlotsOf(a) # {} \/ SlotsOf(NoKey) # {} THEN timed \cup {started'} ELSE timed
    /\ Start(a, started')
    /\ UNCHANGED finished

\* The timing of what is at address a ends.
Finish(a) ==
    /\ End(a)
    /\ finished' = IF live[a] \in timed THEN Append(finished, live[a]) ELSE finished
    /\ UNCHANGED <<started, timed>>

\* conn_read_cb: the bytes are copied to a recorded buffer at b, the request is
\* allocated and recorded at a, its timing starts and its handler runs.
Arrive(a, b) ==
    /\ handling = NoKey
    /\ Free(a) /\ Free(b) /\ a # b
    /\ Begin(a)
    /\ live' = [live EXCEPT ![a] = started']
    /\ handling' = a /\ data' = b
    /\ g_records' = Track(Track(g_records, b, "server.data"), a, "Request")
    /\ UNCHANGED <<transfers, flying>>

\* conn_read_cb: a request that cannot be parsed is freed at once, and so is the buffer,
\* by AUTOFREE, which tells the tracker nothing.
ArriveUnparsable(a, b) ==
    /\ handling = NoKey
    /\ Free(a) /\ Free(b) /\ a # b
    /\ g_records' = Untrack(Track(Track(g_records, b, "server.data"), a, "Request"), a)
    /\ UNCHANGED <<benchVars, thingVars, finished>>

\* fetch() of a handler, with the fetch_request_t at k: timed and executed.
FetchStarts(k) ==
    /\ handling # NoKey
    /\ Free(k)
    /\ Begin(k)
    /\ live' = [live EXCEPT ![k] = started']
    /\ transfers' = transfers \cup {k}
    /\ flying' = flying \cup {k}
    /\ UNCHANGED <<g_records, handling, data>>

\* fetch(), when the request cannot be executed: it is freed and its timing left running.
FetchFails(k) ==
    /\ handling # NoKey
    /\ Free(k)
    /\ Begin(k)
    /\ UNCHANGED <<g_records, live, transfers, flying, handling, data>>

\* The callback of a transfer, github_apicall; that of /longtime never ends its timing.
TransferEnds(k) ==
    /\ handling = NoKey
    /\ k \in flying
    /\ Finish(k)
    /\ flying' = flying \ {k}
    /\ UNCHANGED <<g_records, live, transfers, handling, data>>

\* conn_read_cb returns when its handler has left the response pending: the request
\* lives on, the buffer does not.
LeavePending ==
    /\ handling # NoKey
    /\ handling' = NoKey /\ data' = NoKey
    /\ UNCHANGED <<benchVars, g_records, live, transfers, flying, started, timed, finished>>

\* The request at a is freed: from inside conn_read_cb, which returns then, or later.
FreeRequest(a) ==
    /\ a \in Requests
    /\ handling \in {NoKey, a}
    /\ handling' = NoKey /\ data' = NoKey
    /\ g_records' = Untrack(g_records, a)
    /\ live' = [live EXCEPT ![a] = 0]
    /\ UNCHANGED <<transfers, flying>>

\* cweb_send_response: the timing ends, then the request is freed.
Answer(a) == Finish(a) /\ FreeRequest(a)

\* check_pending_responses on a cancelled entry, and a response that cannot be created or
\* serialized: the request is freed and its timing left running.
Discard(a) == FreeRequest(a) /\ UNCHANGED <<benchVars, started, timed, finished>>

Next ==
    \/ \E a, b \in Keys : Arrive(a, b) \/ ArriveUnparsable(a, b)
    \/ \E k \in Keys : FetchStarts(k) \/ FetchFails(k) \/ TransferEnds(k)
    \/ LeavePending
    \/ \E a \in Keys : Answer(a) \/ Discard(a)

Spec == Init /\ [][Next]_instVars

-------------------------------------------------------------------------------
(* Correctness.                                                            *)

\* The last n elements of s, all of them when there are fewer.
LastOf(s, n) == IF Len(s) <= n THEN s ELSE SubSeq(s, Len(s) - n + 1, Len(s))

\* What /speedtest shows is the last measurements that ended, of answered requests and of
\* transfers that called back, oldest first, each its own: not that of an earlier thing
\* at the same address whose timing was never ended, none twice and none missing, though
\* discarded requests, failed and endless transfers keep their slots, and not out of
\* order once the ring has wrapped.
HistoryIsRight == History = LastOf(finished, Capacity)

\* A thing is timed in at most one slot, so ending its timing ends it.
OneSlotPerKey ==
    \A i, j \in Slots : active_timers[i].key # NoKey
                          /\ active_timers[i].key = active_timers[j].key => i = j

OneRecordEach(records) ==
    \A i, j \in 1..Len(records) : records[i].pointer = records[j].pointer => i = j

RequestPointers(records) ==
    {records[i].pointer : i \in {i \in 1..Len(records) : records[i].name = "Request"}}

\* The tracker misses no request and reports none that was freed: the records named
\* "Request" are exactly those of the requests that are allocated, one for each.
RequestsTracked == OneRecordEach(g_records) /\ RequestPointers(g_records) = Requests

InstTypeOK ==
    /\ active_timers \in [Slots -> [key : Keys \cup {NoKey}, sample : Samples \cup {NoSample}]]
    /\ history_buffer \in [0..(Capacity - 1) -> Samples \cup {NoSample}]
    /\ history_size \in 0..Capacity
    /\ history_next_index \in 0..(Capacity - 1)
    /\ g_records \in Seq([pointer : Keys, name : {"server.data", "Request"}])
    /\ started \in 0..MaxThings
    /\ live \in [Keys -> 0..started]
    /\ flying \subseteq transfers
    /\ transfers \subseteq {a \in Keys : live[a] # 0}
    /\ handling \in Keys \cup {NoKey}
    /\ data \in Keys \cup {NoKey}
    /\ data # NoKey => live[data] = 0
    /\ timed \subseteq 1..started
    /\ finished \in Seq(Samples)

\* Where each element of log is in the ring, before and after it has wrapped.
RingHolds(buffer, size, next, log) ==
    LET n == Len(log) IN
    IF n < Capacity
    THEN /\ size = n /\ next = n
         /\ \A i \in 0..(n - 1) : buffer[i] = log[i + 1]
    ELSE /\ size = Capacity
         /\ \A i \in 0..(Capacity - 1) :
               buffer[i] = IF i < next THEN log[n - next + i + 1]
                                       ELSE log[n - next - Capacity + i + 1]

RingInv == RingHolds(history_buffer, history_size, history_next_index, finished)

\* A slot keyed by the address of a thing holds that thing's measurement.
SlotsCurrent ==
    \A i \in Slots : LET t == active_timers[i] IN
        t.key # NoKey /\ live[t.key] # 0 => t.sample = live[t.key]

\* A thing that runs has a slot exactly when it got one at its start.
TimedHaveSlots ==
    \A a \in Requests \cup flying : live[a] \in timed <=> SlotsOf(a) # {}

\* The inductive invariant.
InstInv ==
    InstTypeOK /\ RingInv /\ OneSlotPerKey /\ SlotsCurrent /\ TimedHaveSlots /\ RequestsTracked
===============================================================================
