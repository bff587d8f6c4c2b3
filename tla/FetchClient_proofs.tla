-------------------------- MODULE FetchClient_proofs --------------------------
(***************************************************************************)
(* The safety properties of the HTTP client, for any number of clients,    *)
(* requests and executions.                                                *)
(***************************************************************************)
EXTENDS FetchClient, TLAPS

\* A live request has a live client: clients go after their requests.
Owned ==
    \A r \in Requests : request[r] = "live" =>
        owner[r] \in Clients /\ client[owner[r]] = "live"

\* Handles in a multi handle, and where their sockets and messages stand.
Handles ==
    /\ executing = multi
    /\ ended \subseteq multi /\ watched \subseteq multi
    /\ ended \cap watched = {}
    /\ \A r \in multi : request[r] = "live"

\* The loop of fetch_check_multi_info: the request of the message being treated is in
\* neither set any more but for an execution begun in its callback, and in the multi
\* handle unless cancelled there; it or its client can be gone only by its own callback.
LoopInv ==
    /\ calling = "yes" => current # NoRequest
    /\ current # NoRequest =>
          /\ checking # NoClient /\ owner[current] = checking
          /\ current \in ended \cup watched => current \in lost
          /\ request[current] = "live" =>
                current \in multi \/ (current \in cancelled /\ current \notin lost)
          /\ request[current] \in {"live", "freed"}
          /\ request[current] = "freed" => current \in killed
    /\ checking # NoClient =>
          /\ client[checking] \in {"live", "freed"}
          /\ client[checking] = "freed" => current # NoRequest /\ checking \in killed

\* What a request counted and showed so far.
Counts ==
    \A r \in Requests :
        /\ request[r] = "none" => runs[r] = 0 /\ silent[r] = 0 /\ r \notin lost
        /\ runs[r] = 0 => reports[r] = 0 /\ buffer[r] = Empty /\ sent[r] = Empty
        /\ runs[r] = 1 => buffer[r] = sent[r]
        /\ reports[r] = 0 => body[r] = 0 /\ bodySize[r] = 0 /\ json[r] = 0

IInv ==
    /\ TypeOK /\ Owned /\ Handles /\ LoopInv /\ Counts
    /\ RunsAccountedFor /\ FirstRunIsExact /\ OnlyOwnCallbackHarms

\* The groups of variables stand for their members everywhere below.
USE FetchAssumption DEF transfers, flags, response, loop, faults, history

\* Strings of bytes are closed under appending a chunk.
LEMMA AppendedIsBytes ==
  ASSUME NEW s \in Bytes, NEW chunk \in Bytes
  PROVE  Appended(s, chunk) \in Bytes
BY DEF Appended, Bytes

\* What strdup makes of the buffer, while only one execution wrote to it.
LEMMA CopiedWorks ==
  ASSUME IInv, NEW r \in Requests
  PROVE  /\ buffer[r] \in Bytes /\ Copied(r) \in Nat
         /\ buffer[r] = Empty => Copied(r) = body[r]
         /\ buffer[r] # Empty => Copied(r) = buffer[r].text
BY DEF IInv, TypeOK, Copied, Bytes, Empty

LEMMA ClientCreateWorks ==
  ASSUME IInv, NEW c \in Clients, fetch_client_create(c)
  PROVE  IInv'
<1>1. TypeOK'
  BY DEF IInv, TypeOK, fetch_client_create, AppRuns
<1>2. Owned'
  BY DEF IInv, TypeOK, Owned, Handles, fetch_client_create, AppRuns
<1>3. Handles'
  BY DEF IInv, TypeOK, Handles, LoopInv, fetch_client_create, AppRuns
<1>4. LoopInv'
  BY DEF IInv, TypeOK, LoopInv, Handles, Owned, fetch_client_create, AppRuns
<1>5. Counts'
  BY DEF IInv, TypeOK, Counts, Handles, LoopInv, RunsAccountedFor,
     fetch_client_create, AppRuns
<1>6. RunsAccountedFor'
  BY DEF IInv, TypeOK, RunsAccountedFor, Handles, LoopInv, Counts,
     fetch_client_create, AppRuns
<1>7. FirstRunIsExact'
  BY DEF IInv, TypeOK, FirstRunIsExact, RunsAccountedFor, Handles, LoopInv, Counts,
     fetch_client_create, AppRuns
<1>8. OnlyOwnCallbackHarms'
  BY DEF IInv, OnlyOwnCallbackHarms, LoopInv, TypeOK, fetch_client_create, AppRuns
<1>9. QED
  BY <1>1, <1>2, <1>3, <1>4, <1>5, <1>6, <1>7, <1>8 DEF IInv

LEMMA ClientDestroyWorks ==
  ASSUME IInv, NEW c \in Clients, fetch_client_destroy(c)
  PROVE  IInv'
<1>1. TypeOK'
  BY DEF IInv, TypeOK, fetch_client_destroy, AppRuns, Known, Live, Killed
<1>2. Owned'
  BY DEF IInv, TypeOK, Owned, Handles, fetch_client_destroy, AppRuns, Known, Live, Killed
<1>3. Handles'
  BY DEF IInv, TypeOK, Handles, LoopInv, fetch_client_destroy, AppRuns, Known, Live,
     Killed
<1>4. LoopInv'
  BY DEF IInv, TypeOK, LoopInv, Handles, Owned, fetch_client_destroy, AppRuns, Known,
     Live, Killed
<1>5. Counts'
  BY DEF IInv, TypeOK, Counts, Handles, LoopInv, RunsAccountedFor,
     fetch_client_destroy, AppRuns, Known, Live, Killed
<1>6. RunsAccountedFor'
  BY DEF IInv, TypeOK, RunsAccountedFor, Handles, LoopInv, Counts,
     fetch_client_destroy, AppRuns, Known, Live, Killed
<1>7. FirstRunIsExact'
  BY DEF IInv, TypeOK, FirstRunIsExact, RunsAccountedFor, Handles, LoopInv, Counts,
     fetch_client_destroy, AppRuns, Known, Live, Killed
<1>8. OnlyOwnCallbackHarms'
  BY DEF IInv, OnlyOwnCallbackHarms, LoopInv, TypeOK, fetch_client_destroy, AppRuns,
     Known, Live, Killed
<1>9. QED
  BY <1>1, <1>2, <1>3, <1>4, <1>5, <1>6, <1>7, <1>8 DEF IInv

LEMMA RequestCreateWorks ==
  ASSUME IInv, NEW r \in Requests, NEW c \in Clients, fetch_request_create(r, c)
  PROVE  IInv'
<1>1. TypeOK'
  BY DEF IInv, TypeOK, fetch_request_create, AppRuns, Known
<1>2. Owned'
  BY DEF IInv, TypeOK, Owned, Handles, fetch_request_create, AppRuns, Known
<1>3. Handles'
  BY DEF IInv, TypeOK, Handles, LoopInv, fetch_request_create, AppRuns, Known
<1>4. LoopInv'
  BY DEF IInv, TypeOK, LoopInv, Handles, Owned, fetch_request_create, AppRuns, Known
<1>5. Counts'
  BY DEF IInv, TypeOK, Counts, Handles, LoopInv, RunsAccountedFor,
     fetch_request_create, AppRuns, Known
<1>6. RunsAccountedFor'
  BY DEF IInv, TypeOK, RunsAccountedFor, Handles, LoopInv, Counts,
     fetch_request_create, AppRuns, Known
<1>7. FirstRunIsExact'
  BY DEF IInv, TypeOK, FirstRunIsExact, RunsAccountedFor, Handles, LoopInv, Counts,
     fetch_request_create, AppRuns, Known
<1>8. OnlyOwnCallbackHarms'
  BY DEF IInv, OnlyOwnCallbackHarms, LoopInv, TypeOK, fetch_request_create, AppRuns, Known
<1>9. QED
  BY <1>1, <1>2, <1>3, <1>4, <1>5, <1>6, <1>7, <1>8 DEF IInv

LEMMA RequestDestroyWorks ==
  ASSUME IInv, NEW r \in Requests, fetch_request_destroy(r)
  PROVE  IInv'
<1>1. TypeOK'
  BY DEF IInv, TypeOK, fetch_request_destroy, AppRuns, Reachable, Remove, Killed
<1>2. Owned'
  BY DEF IInv, TypeOK, Owned, Handles, fetch_request_destroy, AppRuns, Reachable, Remove, Killed
<1>3. Handles'
  BY DEF IInv, TypeOK, Handles, LoopInv, fetch_request_destroy, AppRuns, Reachable, Remove, Killed
<1>4. LoopInv'
  BY DEF IInv, TypeOK, LoopInv, Handles, Owned, fetch_request_destroy, AppRuns, Reachable,
     Remove, Killed
<1>5. Counts'
  BY DEF IInv, TypeOK, Counts, Handles, LoopInv, RunsAccountedFor,
     fetch_request_destroy, AppRuns, Reachable, Remove, Killed
<1>6. RunsAccountedFor'
  BY DEF IInv, TypeOK, RunsAccountedFor, Handles, LoopInv, Counts,
     fetch_request_destroy, AppRuns, Reachable, Remove, Killed
<1>7. FirstRunIsExact'
  BY DEF IInv, TypeOK, FirstRunIsExact, RunsAccountedFor, Handles, LoopInv, Counts,
     fetch_request_destroy, AppRuns, Reachable, Remove, Killed
<1>8. OnlyOwnCallbackHarms'
  BY DEF IInv, OnlyOwnCallbackHarms, LoopInv, TypeOK, fetch_request_destroy, AppRuns, Reachable,
     Remove, Killed
<1>9. QED
  BY <1>1, <1>2, <1>3, <1>4, <1>5, <1>6, <1>7, <1>8 DEF IInv

LEMMA RequestExecuteWorks ==
  ASSUME IInv, NEW r \in Requests, fetch_request_execute(r)
  PROVE  IInv'
<1>1. TypeOK'
  BY DEF IInv, TypeOK, fetch_request_execute, AppRuns, Reachable, Started, Progress, Running
<1>2. Owned'
  BY DEF IInv, TypeOK, Owned, Handles, fetch_request_execute, AppRuns, Reachable, Started,
     Progress, Running
<1>3. Handles'
  BY DEF IInv, TypeOK, Handles, LoopInv, fetch_request_execute, AppRuns, Reachable, Started,
     Progress, Running
<1>4. LoopInv'
  BY DEF IInv, TypeOK, LoopInv, Handles, Owned, fetch_request_execute, AppRuns, Reachable,
     Started, Progress, Running
<1>5. Counts'
  BY DEF IInv, TypeOK, Counts, Handles, LoopInv, RunsAccountedFor,
     fetch_request_execute, AppRuns, Reachable, Started, Progress, Running
<1>6. RunsAccountedFor'
  <2> SUFFICES ASSUME NEW q \in Requests, request'[q] = "live"
               PROVE  /\ runs'[q] = reports'[q] + silent'[q]
                            + (IF q \in multi' \ {current'} THEN 1 ELSE 0)
                            + (IF q \in lost' THEN 1 ELSE 0)
                      /\ q \in lost' => q \in cancelled'
    BY DEF RunsAccountedFor
  <2>1. runs[q] \in Nat /\ reports[q] \in Nat /\ silent[q] \in Nat
    BY DEF IInv, TypeOK
  <2>2. request[q] = "live" =>
          /\ runs[q] = reports[q] + silent[q]
                 + (IF q \in multi \ {current} THEN 1 ELSE 0)
                 + (IF q \in lost THEN 1 ELSE 0)
          /\ q \in lost => q \in cancelled
    BY DEF IInv, RunsAccountedFor
  <2>3. ASSUME q # r
        PROVE  /\ q \in multi' \ {current'} <=> q \in multi \ {current}
               /\ q \in lost' <=> q \in lost
               /\ runs'[q] = runs[q] /\ reports'[q] = reports[q] /\ silent'[q] = silent[q]
               /\ request[q] = "live" /\ (q \in cancelled => q \in cancelled')
    BY <2>3 DEF IInv, TypeOK, fetch_request_execute, AppRuns, Reachable, Started,
       Progress, Running
  <2>4. ASSUME q = r
        PROVE  /\ q \notin multi /\ request[q] = "live"
               /\ runs'[q] = runs[q] + 1 /\ reports'[q] = reports[q]
               /\ silent'[q] = silent[q] /\ cancelled' = cancelled
               /\ q \in multi' /\ current' = current
               /\ q = current => q \in lost' /\ q \notin lost /\ q \in cancelled
               /\ q # current => lost' = lost
    BY <2>4 DEF IInv, TypeOK, Handles, LoopInv, fetch_request_execute, AppRuns, Reachable, Started,
       Progress, Running
  <2>5. QED
    BY <2>1, <2>2, <2>3, <2>4
<1>7. FirstRunIsExact'
  BY DEF IInv, TypeOK, FirstRunIsExact, RunsAccountedFor, Handles, LoopInv, Counts,
     fetch_request_execute, AppRuns, Reachable, Started, Progress, Running
<1>8. OnlyOwnCallbackHarms'
  BY DEF IInv, OnlyOwnCallbackHarms, LoopInv, TypeOK, fetch_request_execute, AppRuns, Reachable,
     Started, Progress, Running
<1>9. QED
  BY <1>1, <1>2, <1>3, <1>4, <1>5, <1>6, <1>7, <1>8 DEF IInv

LEMMA RequestCancelWorks ==
  ASSUME IInv, NEW r \in Requests, fetch_request_cancel(r)
  PROVE  IInv'
<1>1. TypeOK'
  BY DEF IInv, TypeOK, fetch_request_cancel, AppRuns, Reachable, Remove
<1>2. Owned'
  BY DEF IInv, TypeOK, Owned, Handles, fetch_request_cancel, AppRuns, Reachable, Remove
<1>3. Handles'
  BY DEF IInv, TypeOK, Handles, LoopInv, fetch_request_cancel, AppRuns, Reachable, Remove
<1>4. LoopInv'
  BY DEF IInv, TypeOK, LoopInv, Handles, Owned, fetch_request_cancel, AppRuns, Reachable, Remove
<1>5. Counts'
  BY DEF IInv, TypeOK, Counts, Handles, LoopInv, RunsAccountedFor,
     fetch_request_cancel, AppRuns, Reachable, Remove
<1>6. RunsAccountedFor'
  <2> SUFFICES ASSUME NEW q \in Requests, request'[q] = "live"
               PROVE  /\ runs'[q] = reports'[q] + silent'[q]
                            + (IF q \in multi' \ {current'} THEN 1 ELSE 0)
                            + (IF q \in lost' THEN 1 ELSE 0)
                      /\ q \in lost' => q \in cancelled'
    BY DEF RunsAccountedFor
  <2>1. runs[q] \in Nat /\ reports[q] \in Nat /\ silent[q] \in Nat
    BY DEF IInv, TypeOK
  <2>2. request[q] = "live" =>
          /\ runs[q] = reports[q] + silent[q]
                 + (IF q \in multi \ {current} THEN 1 ELSE 0)
                 + (IF q \in lost THEN 1 ELSE 0)
          /\ q \in lost => q \in cancelled
    BY DEF IInv, RunsAccountedFor
  <2>3. /\ request[q] = "live" /\ runs'[q] = runs[q] /\ reports'[q] = reports[q]
        /\ current' = current /\ multi' = multi \ {r} /\ cancelled' = cancelled \cup {r}
    BY DEF fetch_request_cancel, Remove
  <2>4. r \in multi
    BY DEF IInv, Handles, fetch_request_cancel
  <2>5. CASE r = current /\ r \notin lost /\ silent' = silent /\ lost' = lost
    BY <2>2, <2>3, <2>5
  <2>6. CASE /\ r = current => r \in lost
             /\ silent' = [silent EXCEPT ![r] = silent[r] + 1]
             /\ lost' = IF r = current THEN lost \ {r} ELSE lost
    <3>1. silent'[q] = IF q = r THEN silent[q] + 1 ELSE silent[q]
      BY <2>6 DEF IInv, TypeOK
    <3>2. QED
      BY <2>1, <2>2, <2>3, <2>4, <2>6, <3>1
  <2>7. QED
    BY <2>5, <2>6 DEF fetch_request_cancel
<1>7. FirstRunIsExact'
  BY DEF IInv, TypeOK, FirstRunIsExact, RunsAccountedFor, Handles, LoopInv, Counts,
     fetch_request_cancel, AppRuns, Reachable, Remove
<1>8. OnlyOwnCallbackHarms'
  BY DEF IInv, OnlyOwnCallbackHarms, LoopInv, TypeOK, fetch_request_cancel, AppRuns, Reachable,
     Remove
<1>9. QED
  BY <1>1, <1>2, <1>3, <1>4, <1>5, <1>6, <1>7, <1>8 DEF IInv

LEMMA FetchStartsWorks ==
  ASSUME IInv, NEW r \in Requests, NEW c \in Clients, FetchStarts(c, r)
  PROVE  IInv'
<1>1. TypeOK'
  BY DEF IInv, TypeOK, FetchStarts, AppRuns, Started, Progress, Running
<1>2. Owned'
  BY DEF IInv, TypeOK, Owned, Handles, FetchStarts, AppRuns, Started, Progress, Running
<1>3. Handles'
  BY DEF IInv, TypeOK, Handles, LoopInv, FetchStarts, AppRuns, Started, Progress, Running
<1>4. LoopInv'
  BY DEF IInv, TypeOK, LoopInv, Handles, Owned, FetchStarts, AppRuns, Started,
     Progress, Running
<1>5. Counts'
  BY DEF IInv, TypeOK, Counts, Handles, LoopInv, RunsAccountedFor, FetchStarts,
     AppRuns, Started, Progress, Running
<1>6. RunsAccountedFor'
  <2> SUFFICES ASSUME NEW q \in Requests, request'[q] = "live"
               PROVE  /\ runs'[q] = reports'[q] + silent'[q]
                            + (IF q \in multi' \ {current'} THEN 1 ELSE 0)
                            + (IF q \in lost' THEN 1 ELSE 0)
                      /\ q \in lost' => q \in cancelled'
    BY DEF RunsAccountedFor
  <2>1. runs[q] \in Nat /\ reports[q] \in Nat /\ silent[q] \in Nat
    BY DEF IInv, TypeOK
  <2>2. request[q] = "live" =>
          /\ runs[q] = reports[q] + silent[q]
                 + (IF q \in multi \ {current} THEN 1 ELSE 0)
                 + (IF q \in lost THEN 1 ELSE 0)
          /\ q \in lost => q \in cancelled
    BY DEF IInv, RunsAccountedFor
  <2>3. ASSUME q # r
        PROVE  /\ q \in multi' \ {current'} <=> q \in multi \ {current}
               /\ q \in lost' <=> q \in lost
               /\ runs'[q] = runs[q] /\ reports'[q] = reports[q] /\ silent'[q] = silent[q]
               /\ request[q] = "live" /\ (q \in cancelled => q \in cancelled')
    BY <2>3 DEF IInv, TypeOK, FetchStarts, AppRuns, Started, Progress, Running
  <2>4. ASSUME q = r
        PROVE  /\ runs'[q] = 1 /\ reports'[q] = 0 /\ silent'[q] = 0
               /\ q \in multi' /\ q # current' /\ q \notin lost'
    <3>1. runs[q] = 0 /\ reports[q] = 0 /\ silent[q] = 0 /\ q \notin lost
      BY <2>4 DEF IInv, Counts, FetchStarts
    <3>2. q # current
      BY <2>4 DEF IInv, TypeOK, LoopInv, FetchStarts
    <3>3. QED
      BY <2>4, <3>1, <3>2 DEF IInv, TypeOK, FetchStarts, Started, Progress
  <2>5. QED
    BY <2>1, <2>2, <2>3, <2>4
<1>7. FirstRunIsExact'
  BY DEF IInv, TypeOK, FirstRunIsExact, RunsAccountedFor, Handles, LoopInv, Counts,
     FetchStarts, AppRuns, Started, Progress, Running
<1>8. OnlyOwnCallbackHarms'
  BY DEF IInv, OnlyOwnCallbackHarms, LoopInv, TypeOK, FetchStarts, AppRuns, Started,
     Progress, Running
<1>9. QED
  BY <1>1, <1>2, <1>3, <1>4, <1>5, <1>6, <1>7, <1>8 DEF IInv

LEMMA FetchFailsWorks ==
  ASSUME IInv, NEW r \in Requests, NEW c \in Clients, FetchFails(c, r)
  PROVE  IInv'
<1>1. TypeOK'
  BY DEF IInv, TypeOK, FetchFails, AppRuns
<1>2. Owned'
  BY DEF IInv, TypeOK, Owned, Handles, FetchFails, AppRuns
<1>3. Handles'
  BY DEF IInv, TypeOK, Handles, LoopInv, FetchFails, AppRuns
<1>4. LoopInv'
  BY DEF IInv, TypeOK, LoopInv, Handles, Owned, FetchFails, AppRuns
<1>5. Counts'
  BY DEF IInv, TypeOK, Counts, Handles, LoopInv, RunsAccountedFor, FetchFails, AppRuns
<1>6. RunsAccountedFor'
  BY DEF IInv, TypeOK, RunsAccountedFor, Handles, LoopInv, Counts, FetchFails, AppRuns
<1>7. FirstRunIsExact'
  BY DEF IInv, TypeOK, FirstRunIsExact, RunsAccountedFor, Handles, LoopInv, Counts,
     FetchFails, AppRuns
<1>8. OnlyOwnCallbackHarms'
  BY DEF IInv, OnlyOwnCallbackHarms, LoopInv, TypeOK, FetchFails, AppRuns
<1>9. QED
  BY <1>1, <1>2, <1>3, <1>4, <1>5, <1>6, <1>7, <1>8 DEF IInv

LEMMA GetJsonWorks ==
  ASSUME IInv, NEW r \in Requests, fetch_response_get_json(r)
  PROVE  IInv'
<1>1. TypeOK'
  BY DEF IInv, TypeOK, fetch_response_get_json
<1>2. Owned'
  BY DEF IInv, TypeOK, Owned, Handles, fetch_response_get_json
<1>3. Handles'
  BY DEF IInv, TypeOK, Handles, LoopInv, fetch_response_get_json
<1>4. LoopInv'
  BY DEF IInv, TypeOK, LoopInv, Handles, Owned, fetch_response_get_json
<1>5. Counts'
  BY DEF IInv, TypeOK, Counts, Handles, LoopInv, RunsAccountedFor, fetch_response_get_json
<1>6. RunsAccountedFor'
  BY DEF IInv, TypeOK, RunsAccountedFor, Handles, LoopInv, Counts, fetch_response_get_json
<1>7. FirstRunIsExact'
  BY DEF IInv, TypeOK, FirstRunIsExact, RunsAccountedFor, Handles, LoopInv, Counts,
     fetch_response_get_json
<1>8. OnlyOwnCallbackHarms'
  BY DEF IInv, OnlyOwnCallbackHarms, LoopInv, TypeOK, fetch_response_get_json
<1>9. QED
  BY <1>1, <1>2, <1>3, <1>4, <1>5, <1>6, <1>7, <1>8 DEF IInv

LEMMA SocketEventWorks ==
  ASSUME IInv, NEW r \in Requests, SocketEvent(r)
  PROVE  IInv'
<1>1. TypeOK'
  <2>1. buffer' \in [Requests -> Bytes] /\ sent' \in [Requests -> Bytes]
    <3>1. buffer \in [Requests -> Bytes] /\ sent \in [Requests -> Bytes]
      BY DEF IInv, TypeOK
    <3>2. CASE UNCHANGED <<buffer, sent>>
      BY <3>1, <3>2
    <3>3. ASSUME NEW chunk \in Chunks,
                 buffer' = [buffer EXCEPT ![r] = Appended(buffer[r], chunk)],
                 sent' = IF runs[r] = 1 THEN [sent EXCEPT ![r] = Appended(sent[r], chunk)]
                                        ELSE sent
          PROVE  buffer' \in [Requests -> Bytes] /\ sent' \in [Requests -> Bytes]
      <4>1. Appended(buffer[r], chunk) \in Bytes /\ Appended(sent[r], chunk) \in Bytes
        BY <3>1, FetchAssumption, AppendedIsBytes
      <4>2. QED
        BY <3>1, <3>3, <4>1
    <3>4. QED
      BY <3>2, <3>3 DEF SocketEvent
  <2>2. QED
    BY <2>1 DEF IInv, TypeOK, SocketEvent, Progress, Running
<1>2. Owned'
  BY DEF IInv, TypeOK, Owned, Handles, SocketEvent, Progress, Running
<1>3. Handles'
  BY DEF IInv, TypeOK, Handles, LoopInv, SocketEvent, Progress, Running
<1>4. LoopInv'
  BY DEF IInv, TypeOK, LoopInv, Handles, Owned, SocketEvent, Progress, Running
<1>5. r \in multi /\ r # current /\ request[r] = "live"
  BY DEF IInv, TypeOK, Handles, LoopInv, SocketEvent
<1>6. runs[r] # 0 /\ (runs[r] = 1 => reports[r] = 0)
  <2>1. runs[r] = reports[r] + silent[r] + 1 + (IF r \in lost THEN 1 ELSE 0)
    BY <1>5 DEF IInv, RunsAccountedFor
  <2>2. QED
    BY <2>1 DEF IInv, TypeOK
<1>7. Counts'
  <2> SUFFICES ASSUME NEW q \in Requests
               PROVE  /\ request'[q] = "none" =>
                             runs'[q] = 0 /\ silent'[q] = 0 /\ q \notin lost'
                      /\ runs'[q] = 0 =>
                             reports'[q] = 0 /\ buffer'[q] = Empty /\ sent'[q] = Empty
                      /\ runs'[q] = 1 => buffer'[q] = sent'[q]
                      /\ reports'[q] = 0 =>
                             body'[q] = 0 /\ bodySize'[q] = 0 /\ json'[q] = 0
    BY DEF Counts
  <2>1. UNCHANGED <<request, runs, reports, silent, lost, body, bodySize, json>>
    BY DEF SocketEvent
  <2>2. q # r => buffer'[q] = buffer[q] /\ sent'[q] = sent[q]
    BY DEF SocketEvent, IInv, TypeOK
  <2>3. runs[r] = 1 /\ buffer[r] = sent[r] => buffer'[r] = sent'[r]
    BY DEF SocketEvent, IInv, TypeOK
  <2>4. QED
    BY <1>6, <2>1, <2>2, <2>3 DEF IInv, Counts
<1>8. RunsAccountedFor'
  BY DEF IInv, TypeOK, RunsAccountedFor, Handles, LoopInv, Counts, SocketEvent,
     Progress, Running
<1>9. FirstRunIsExact'
  <2>1. UNCHANGED <<runs, reports, body, bodySize, json>>
    BY DEF SocketEvent
  <2>2. \A q \in Requests : q # r => sent'[q] = sent[q]
    BY DEF SocketEvent, IInv, TypeOK
  <2>3. QED
    BY <1>6, <2>1, <2>2 DEF IInv, FirstRunIsExact
<1>10. OnlyOwnCallbackHarms'
  BY DEF IInv, OnlyOwnCallbackHarms, LoopInv, TypeOK, SocketEvent, Progress, Running
<1>11. QED
  BY <1>1, <1>2, <1>3, <1>4, <1>7, <1>8, <1>9, <1>10 DEF IInv

LEMMA ReportWorks ==
  ASSUME IInv, NEW r \in Requests, Report(r)
  PROVE  IInv'
<1> DEFINE size == IF buffer[r] = Empty THEN bodySize[r] ELSE buffer[r].size
<1>1. TypeOK'
  <2>1. Copied(r) \in Nat /\ size \in Nat
    BY CopiedWorks DEF IInv, TypeOK, Bytes
  <2>2. body' = [body EXCEPT ![r] = Copied(r)] /\ bodySize' = [bodySize EXCEPT ![r] = size]
    BY DEF Report
  <2>3. body' \in [Requests -> Nat] /\ bodySize' \in [Requests -> Nat]
    BY <2>1, <2>2 DEF IInv, TypeOK
  <2>4. QED
    BY <2>3 DEF IInv, TypeOK, Report
<1>2. Owned'
  BY DEF IInv, TypeOK, Owned, Handles, Report
<1>3. Handles'
  BY DEF IInv, TypeOK, Handles, LoopInv, Report
<1>4. LoopInv'
  BY DEF IInv, TypeOK, LoopInv, Handles, Owned, Report
<1>5. Counts'
  <2> SUFFICES ASSUME NEW q \in Requests
               PROVE  /\ request'[q] = "none" =>
                             runs'[q] = 0 /\ silent'[q] = 0 /\ q \notin lost'
                      /\ runs'[q] = 0 =>
                             reports'[q] = 0 /\ buffer'[q] = Empty /\ sent'[q] = Empty
                      /\ runs'[q] = 1 => buffer'[q] = sent'[q]
                      /\ reports'[q] = 0 =>
                             body'[q] = 0 /\ bodySize'[q] = 0 /\ json'[q] = 0
    BY DEF Counts
  <2>1. UNCHANGED <<request, runs, silent, lost, buffer, sent, json>>
    BY DEF Report
  <2>2. q # r => reports'[q] = reports[q] /\ body'[q] = body[q] /\ bodySize'[q] = bodySize[q]
    BY DEF Report, IInv, TypeOK
  <2>3. reports'[r] # 0 /\ runs[r] # 0
    <3>1. reports'[r] = reports[r] + 1
      BY DEF Report, IInv, TypeOK
    <3>2. runs[r] = reports[r] + silent[r] + 1 + (IF r \in lost THEN 1 ELSE 0)
      BY DEF IInv, RunsAccountedFor, Handles, TypeOK, Report
    <3>3. QED
      BY <3>1, <3>2 DEF IInv, TypeOK
  <2>4. QED
    BY <2>1, <2>2, <2>3 DEF IInv, Counts
<1>6. RunsAccountedFor'
  <2> SUFFICES ASSUME NEW q \in Requests, request'[q] = "live"
               PROVE  /\ runs'[q] = reports'[q] + silent'[q]
                            + (IF q \in multi' \ {current'} THEN 1 ELSE 0)
                            + (IF q \in lost' THEN 1 ELSE 0)
                      /\ q \in lost' => q \in cancelled'
    BY DEF RunsAccountedFor
  <2>1. runs[q] \in Nat /\ reports[q] \in Nat /\ silent[q] \in Nat
    BY DEF IInv, TypeOK
  <2>2. request[q] = "live" =>
          /\ runs[q] = reports[q] + silent[q]
                 + (IF q \in multi \ {current} THEN 1 ELSE 0)
                 + (IF q \in lost THEN 1 ELSE 0)
          /\ q \in lost => q \in cancelled
    BY DEF IInv, RunsAccountedFor
  <2>3. ASSUME q # r
        PROVE  /\ q \in multi' \ {current'} <=> q \in multi \ {current}
               /\ q \in lost' <=> q \in lost
               /\ runs'[q] = runs[q] /\ reports'[q] = reports[q] /\ silent'[q] = silent[q]
               /\ request[q] = "live" /\ (q \in cancelled => q \in cancelled')
    BY <2>3 DEF IInv, TypeOK, Report
  <2>4. ASSUME q = r
        PROVE  /\ request[q] = "live" /\ runs'[q] = runs[q]
               /\ reports'[q] = reports[q] + 1 /\ silent'[q] = silent[q]
               /\ q \in multi \ {current} /\ q \notin multi' \ {current'}
               /\ lost' = lost /\ cancelled' = cancelled
    BY <2>4 DEF IInv, TypeOK, Handles, Report
  <2>5. QED
    BY <2>1, <2>2, <2>3, <2>4
<1>7. FirstRunIsExact'
  <2>1. UNCHANGED <<runs, buffer, sent, json>>
    BY DEF Report
  <2>2. ASSUME NEW q \in Requests, q # r, runs'[q] = 1, reports'[q] = 1
        PROVE  /\ bodySize'[q] = sent'[q].size /\ body'[q] = sent'[q].text
               /\ json'[q] \in {0, body'[q]}
    <3>1. reports'[q] = reports[q] /\ body'[q] = body[q] /\ bodySize'[q] = bodySize[q]
      BY <2>2 DEF Report, IInv, TypeOK
    <3>2. QED
      BY <2>1, <2>2, <3>1 DEF IInv, FirstRunIsExact
  <2>3. ASSUME runs'[r] = 1, reports'[r] = 1
        PROVE  /\ bodySize'[r] = sent'[r].size /\ body'[r] = sent'[r].text
               /\ json'[r] \in {0, body'[r]}
    <3>1. reports[r] = 0
      BY <2>3 DEF Report, IInv, TypeOK
    <3>2. buffer[r] = sent[r] /\ body[r] = 0 /\ bodySize[r] = 0 /\ json[r] = 0
      BY <2>1, <2>3, <3>1 DEF IInv, Counts
    <3>3. body'[r] = Copied(r) /\ bodySize'[r] = size
      BY DEF Report, IInv, TypeOK
    <3>4. body'[r] = buffer[r].text /\ bodySize'[r] = buffer[r].size
      BY <3>2, <3>3, CopiedWorks DEF Empty
    <3>5. QED
      BY <2>1, <3>2, <3>4
  <2>4. QED
    BY <2>2, <2>3 DEF FirstRunIsExact
<1>8. OnlyOwnCallbackHarms'
  BY DEF IInv, OnlyOwnCallbackHarms, LoopInv, TypeOK, Report
<1>9. QED
  BY <1>1, <1>2, <1>3, <1>4, <1>5, <1>6, <1>7, <1>8 DEF IInv

LEMMA PassOverWorks ==
  ASSUME IInv, NEW r \in Requests, PassOver(r)
  PROVE  IInv'
<1>1. TypeOK'
  BY DEF IInv, TypeOK, PassOver
<1>2. Owned'
  BY DEF IInv, TypeOK, Owned, Handles, PassOver
<1>3. Handles'
  BY DEF IInv, TypeOK, Handles, LoopInv, PassOver
<1>4. LoopInv'
  BY DEF IInv, TypeOK, LoopInv, Handles, Owned, PassOver
<1>5. Counts'
  BY DEF IInv, TypeOK, Counts, Handles, LoopInv, RunsAccountedFor, PassOver
<1>6. RunsAccountedFor'
  <2> SUFFICES ASSUME NEW q \in Requests, request'[q] = "live"
               PROVE  /\ runs'[q] = reports'[q] + silent'[q]
                            + (IF q \in multi' \ {current'} THEN 1 ELSE 0)
                            + (IF q \in lost' THEN 1 ELSE 0)
                      /\ q \in lost' => q \in cancelled'
    BY DEF RunsAccountedFor
  <2>1. runs[q] \in Nat /\ reports[q] \in Nat /\ silent[q] \in Nat
    BY DEF IInv, TypeOK
  <2>2. request[q] = "live" =>
          /\ runs[q] = reports[q] + silent[q]
                 + (IF q \in multi \ {current} THEN 1 ELSE 0)
                 + (IF q \in lost THEN 1 ELSE 0)
          /\ q \in lost => q \in cancelled
    BY DEF IInv, RunsAccountedFor
  <2>3. ASSUME q # r
        PROVE  /\ q \in multi' \ {current'} <=> q \in multi \ {current}
               /\ q \in lost' <=> q \in lost
               /\ runs'[q] = runs[q] /\ reports'[q] = reports[q] /\ silent'[q] = silent[q]
               /\ request[q] = "live" /\ (q \in cancelled => q \in cancelled')
    BY <2>3 DEF IInv, TypeOK, PassOver
  <2>4. ASSUME q = r
        PROVE  /\ request[q] = "live" /\ runs'[q] = runs[q]
               /\ reports'[q] = reports[q] /\ silent'[q] = silent[q] + 1
               /\ q \in multi \ {current} /\ q \notin multi' \ {current'}
               /\ lost' = lost /\ cancelled' = cancelled
    BY <2>4 DEF IInv, TypeOK, Handles, PassOver
  <2>5. QED
    BY <2>1, <2>2, <2>3, <2>4
<1>7. FirstRunIsExact'
  BY DEF IInv, TypeOK, FirstRunIsExact, RunsAccountedFor, Handles, LoopInv, Counts,
     PassOver
<1>8. OnlyOwnCallbackHarms'
  BY DEF IInv, OnlyOwnCallbackHarms, LoopInv, TypeOK, PassOver
<1>9. QED
  BY <1>1, <1>2, <1>3, <1>4, <1>5, <1>6, <1>7, <1>8 DEF IInv

LEMMA CallbackReturnsWorks ==
  ASSUME IInv, CallbackReturns
  PROVE  IInv'
<1>1. TypeOK'
  BY DEF IInv, TypeOK, CallbackReturns
<1>2. Owned'
  BY DEF IInv, TypeOK, Owned, Handles, CallbackReturns
<1>3. Handles'
  BY DEF IInv, TypeOK, Handles, LoopInv, CallbackReturns
<1>4. LoopInv'
  BY DEF IInv, TypeOK, LoopInv, Handles, Owned, CallbackReturns
<1>5. Counts'
  BY DEF IInv, TypeOK, Counts, Handles, LoopInv, RunsAccountedFor, CallbackReturns
<1>6. RunsAccountedFor'
  BY DEF IInv, TypeOK, RunsAccountedFor, Handles, LoopInv, Counts, CallbackReturns
<1>7. FirstRunIsExact'
  BY DEF IInv, TypeOK, FirstRunIsExact, RunsAccountedFor, Handles, LoopInv, Counts,
     CallbackReturns
<1>8. OnlyOwnCallbackHarms'
  BY DEF IInv, OnlyOwnCallbackHarms, LoopInv, TypeOK, CallbackReturns
<1>9. QED
  BY <1>1, <1>2, <1>3, <1>4, <1>5, <1>6, <1>7, <1>8 DEF IInv

LEMMA EndPassWorks ==
  ASSUME IInv, EndPass
  PROVE  IInv'
<1>1. TypeOK'
  BY DEF IInv, TypeOK, EndPass, Freed, Remove
<1>2. Owned'
  BY DEF IInv, TypeOK, Owned, Handles, EndPass, Freed, Remove
<1>3. Handles'
  BY DEF IInv, TypeOK, Handles, LoopInv, EndPass, Freed, Remove
<1>4. LoopInv'
  BY DEF IInv, TypeOK, LoopInv, Handles, Owned, EndPass, Freed, Remove
<1>5. Counts'
  BY DEF IInv, TypeOK, Counts, Handles, LoopInv, RunsAccountedFor, EndPass, Freed, Remove
<1>6. RunsAccountedFor'
  <2> SUFFICES ASSUME NEW q \in Requests, request'[q] = "live"
               PROVE  /\ runs'[q] = reports'[q] + silent'[q]
                            + (IF q \in multi' \ {current'} THEN 1 ELSE 0)
                            + (IF q \in lost' THEN 1 ELSE 0)
                      /\ q \in lost' => q \in cancelled'
    BY DEF RunsAccountedFor
  <2>1. runs[q] \in Nat /\ reports[q] \in Nat /\ silent[q] \in Nat
    BY DEF IInv, TypeOK
  <2>2. request[q] = "live" =>
          /\ runs[q] = reports[q] + silent[q]
                 + (IF q \in multi \ {current} THEN 1 ELSE 0)
                 + (IF q \in lost THEN 1 ELSE 0)
          /\ q \in lost => q \in cancelled
    BY DEF IInv, RunsAccountedFor
  <2>3. /\ q \in multi' \ {current'} <=> q \in multi \ {current}
        /\ q \in lost' <=> q \in lost
        /\ runs'[q] = runs[q] /\ reports'[q] = reports[q] /\ silent'[q] = silent[q]
        /\ request[q] = "live" /\ (q \in cancelled => q \in cancelled')
    BY DEF IInv, TypeOK, EndPass, Remove
  <2>4. QED
    BY <2>1, <2>2, <2>3
<1>7. FirstRunIsExact'
  BY DEF IInv, TypeOK, FirstRunIsExact, RunsAccountedFor, Handles, LoopInv, Counts,
     EndPass, Freed, Remove
<1>8. OnlyOwnCallbackHarms'
  BY DEF IInv, OnlyOwnCallbackHarms, LoopInv, TypeOK, EndPass, Freed, Remove
<1>9. QED
  BY <1>1, <1>2, <1>3, <1>4, <1>5, <1>6, <1>7, <1>8 DEF IInv

LEMMA EndPassFreedWorks ==
  ASSUME IInv, EndPassFreed
  PROVE  IInv'
<1>1. TypeOK'
  BY DEF IInv, TypeOK, LoopInv, Owned, EndPassFreed, Freed
<1>2. Owned'
  BY DEF IInv, TypeOK, Owned, Handles, LoopInv, EndPassFreed, Freed
<1>3. Handles'
  BY DEF IInv, TypeOK, Handles, LoopInv, Owned, EndPassFreed, Freed
<1>4. LoopInv'
  BY DEF IInv, TypeOK, LoopInv, Handles, Owned, EndPassFreed, Freed
<1>5. Counts'
  BY DEF IInv, TypeOK, Counts, Handles, LoopInv, RunsAccountedFor, Owned,
     EndPassFreed, Freed
<1>6. RunsAccountedFor'
  <2> SUFFICES ASSUME NEW q \in Requests, request'[q] = "live"
               PROVE  /\ runs'[q] = reports'[q] + silent'[q]
                            + (IF q \in multi' \ {current'} THEN 1 ELSE 0)
                            + (IF q \in lost' THEN 1 ELSE 0)
                      /\ q \in lost' => q \in cancelled'
    BY DEF RunsAccountedFor
  <2>1. runs[q] \in Nat /\ reports[q] \in Nat /\ silent[q] \in Nat
    BY DEF IInv, TypeOK
  <2>2. request[q] = "live" =>
          /\ runs[q] = reports[q] + silent[q]
                 + (IF q \in multi \ {current} THEN 1 ELSE 0)
                 + (IF q \in lost THEN 1 ELSE 0)
          /\ q \in lost => q \in cancelled
    BY DEF IInv, RunsAccountedFor
  <2>3. q # current
    BY DEF IInv, TypeOK, Owned, LoopInv, EndPassFreed, Freed
  <2>4. /\ q \in multi' \ {current'} <=> q \in multi \ {current}
        /\ q \in lost' <=> q \in lost
        /\ runs'[q] = runs[q] /\ reports'[q] = reports[q] /\ silent'[q] = silent[q]
        /\ request[q] = "live" /\ (q \in cancelled => q \in cancelled')
    BY <2>3 DEF IInv, TypeOK, EndPassFreed
  <2>5. QED
    BY <2>1, <2>2, <2>4
<1>7. FirstRunIsExact'
  BY DEF IInv, TypeOK, FirstRunIsExact, RunsAccountedFor, Handles, LoopInv, Counts,
     Owned, EndPassFreed, Freed
<1>8. OnlyOwnCallbackHarms'
  BY DEF IInv, OnlyOwnCallbackHarms, LoopInv, TypeOK, Owned, EndPassFreed, Freed
<1>9. QED
  BY <1>1, <1>2, <1>3, <1>4, <1>5, <1>6, <1>7, <1>8 DEF IInv

LEMMA CheckEndsWorks ==
  ASSUME IInv, CheckEnds
  PROVE  IInv'
<1>1. TypeOK'
  BY DEF IInv, TypeOK, CheckEnds
<1>2. Owned'
  BY DEF IInv, TypeOK, Owned, Handles, CheckEnds
<1>3. Handles'
  BY DEF IInv, TypeOK, Handles, LoopInv, CheckEnds
<1>4. LoopInv'
  BY DEF IInv, TypeOK, LoopInv, Handles, Owned, CheckEnds
<1>5. Counts'
  BY DEF IInv, TypeOK, Counts, Handles, LoopInv, RunsAccountedFor, CheckEnds
<1>6. RunsAccountedFor'
  BY DEF IInv, TypeOK, RunsAccountedFor, Handles, LoopInv, Counts, CheckEnds
<1>7. FirstRunIsExact'
  BY DEF IInv, TypeOK, FirstRunIsExact, RunsAccountedFor, Handles, LoopInv, Counts,
     CheckEnds
<1>8. OnlyOwnCallbackHarms'
  BY DEF IInv, OnlyOwnCallbackHarms, LoopInv, TypeOK, CheckEnds
<1>9. QED
  BY <1>1, <1>2, <1>3, <1>4, <1>5, <1>6, <1>7, <1>8 DEF IInv

LEMMA InitWorks == Init => IInv
<1> SUFFICES ASSUME Init PROVE IInv
  OBVIOUS
<1>1. TypeOK
  BY DEF Init, TypeOK, Bytes, Empty
<1>2. Owned /\ Handles /\ Counts
  BY DEF Init, Owned, Handles, Counts
<1>3. LoopInv /\ OnlyOwnCallbackHarms
  BY DEF Init, LoopInv, OnlyOwnCallbackHarms
<1>4. RunsAccountedFor /\ FirstRunIsExact
  BY DEF Init, RunsAccountedFor, FirstRunIsExact
<1>5. QED
  BY <1>1, <1>2, <1>3, <1>4 DEF IInv

LEMMA StutterWorks == IInv /\ UNCHANGED vars => IInv'
  BY DEF IInv, TypeOK, Owned, Handles, LoopInv, Counts, RunsAccountedFor,
     FirstRunIsExact, OnlyOwnCallbackHarms, vars

LEMMA NextWorks == IInv /\ Next => IInv'
<1>. SUFFICES ASSUME IInv, Next PROVE IInv'
  OBVIOUS
<1>1. ASSUME NEW c \in Clients, fetch_client_create(c) \/ fetch_client_destroy(c) PROVE IInv'
  BY <1>1, ClientCreateWorks, ClientDestroyWorks
<1>2. ASSUME NEW r \in Requests, NEW c \in Clients,
             fetch_request_create(r, c) \/ FetchStarts(c, r) \/ FetchFails(c, r)
      PROVE  IInv'
  BY <1>2, RequestCreateWorks, FetchStartsWorks, FetchFailsWorks
<1>3. ASSUME NEW r \in Requests,
             \/ fetch_request_destroy(r) \/ fetch_request_execute(r)
             \/ fetch_request_cancel(r) \/ fetch_response_get_json(r)
      PROVE  IInv'
  BY <1>3, RequestDestroyWorks, RequestExecuteWorks, RequestCancelWorks, GetJsonWorks
<1>4. CASE CheckLoop
  BY <1>4, ReportWorks, PassOverWorks, EndPassWorks, EndPassFreedWorks, CheckEndsWorks
     DEF CheckLoop
<1>5. CASE CallbackReturns
  BY <1>5, CallbackReturnsWorks
<1>6. ASSUME NEW r \in Requests, SocketEvent(r) PROVE IInv'
  BY <1>6, SocketEventWorks
<1>. QED
  BY <1>1, <1>2, <1>3, <1>4, <1>5, <1>6 DEF Next, Application

\* The inductive invariant of the HTTP client: handles, messages and sockets, the
\* loop that reads the messages, and the counts of every request, all at once.
THEOREM FetchInvariance == Spec => []IInv
<1>1. IInv /\ [Next]_vars => IInv'
  BY NextWorks, StutterWorks
<1>. QED
  BY <1>1, InitWorks, PTL DEF Spec

\* The types of the client's state (cweb_fetch_internal.h:39-81).
THEOREM FetchTypeCorrect == Spec => []TypeOK
  BY FetchInvariance, PTL DEF IInv

\* is_executing agrees with libcurl (fetch_request.c:262, 284, 300).
THEOREM ExecutingCorrect == Spec => []ExecutingIsInMulti
<1>1. IInv => ExecutingIsInMulti
  BY DEF IInv, Handles, ExecutingIsInMulti
<1>. QED
  BY <1>1, FetchInvariance, PTL

\* Events and messages lead to allocated memory (fetch_event.c:71-94).
THEOREM EventsFindMemoryCorrect == Spec => []EventsFindMemory
<1>1. IInv => EventsFindMemory
  BY DEF IInv, TypeOK, Handles, Owned, EventsFindMemory
<1>. QED
  BY <1>1, FetchInvariance, PTL

\* No execution is reported twice or lost without a cancellation
\* (fetch_event.c:89-131).
THEOREM RunsAccountedForCorrect == Spec => []RunsAccountedFor
  BY FetchInvariance, PTL DEF IInv

\* The first report shows exactly what was received (fetch_event.c:102-105).
THEOREM FirstRunIsExactCorrect == Spec => []FirstRunIsExact
  BY FetchInvariance, PTL DEF IInv

\* Only a callback that destroys what it was called for causes a use of freed memory
\* (fetch_event.c:89, 126-128).
THEOREM OnlyOwnCallbackHarmsCorrect == Spec => []OnlyOwnCallbackHarms
  BY FetchInvariance, PTL DEF IInv
===============================================================================
