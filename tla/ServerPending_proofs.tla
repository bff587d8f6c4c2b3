------------------------ MODULE ServerPending_proofs ------------------------
(***************************************************************************)
(* Proofs about ServerPending, for any number of connections and requests. *)
(***************************************************************************)
EXTENDS ServerPending, SequenceTheorems, TLAPS

(***************************************************************************)
(* Lemmas about the list operations.                                       *)
(***************************************************************************)

\* A function on 1..n is a sequence of length n.
LEMMA FunctionIsSeq ==
    ASSUME NEW S, NEW n \in Nat, NEW f \in [1..n -> S]
    PROVE  f \in Seq(S) /\ Len(f) = n
OBVIOUS

\* Unlinking node k keeps the other nodes in their order.
LEMMA UnlinkProperties ==
    ASSUME NEW S, NEW s \in Seq(S), NEW k \in 1..Len(s)
    PROVE  /\ Unlink(s, k) \in Seq(S)
           /\ Len(Unlink(s, k)) = Len(s) - 1
           /\ \A i \in 1..(Len(s) - 1) :
                 Unlink(s, k)[i] = IF i < k THEN s[i] ELSE s[i + 1]
<1>1. Unlink(s, k) \in [1..(Len(s) - 1) -> S]
  BY DEF Unlink
<1>2. Len(s) - 1 \in Nat
  OBVIOUS
<1>3. QED
  BY <1>1, <1>2, FunctionIsSeq DEF Unlink

\* What cancelling does to the list: the nodes stay where they are.
LEMMA CancelProperties ==
    ASSUME TypeOK, NEW c \in Conns, CancelPending(c)
    PROVE  /\ pending' \in Seq(Entry)
           /\ Len(pending') = Len(pending)
           /\ \A i \in 1..Len(pending) :
                /\ pending'[i].req = pending[i].req
                /\ pending[i].bev = c =>
                      pending'[i].bev = NoConn /\ pending'[i].cancelled = TRUE
                /\ pending[i].bev # c => pending'[i] = pending[i]
<1> DEFINE n == Len(pending)
<1>1. n \in Nat /\ \A i \in 1..n : pending[i] \in Entry
  BY DEF TypeOK
<1>2. pending' \in [1..n -> Entry]
  BY <1>1 DEF CancelPending, Entry
<1>3. pending' \in Seq(Entry) /\ Len(pending') = n
  <2> HIDE DEF n
  <2> QED BY <1>1, <1>2, FunctionIsSeq
<1>4. \A i \in 1..n :
         /\ pending'[i].req = pending[i].req
         /\ pending[i].bev = c =>
               pending'[i].bev = NoConn /\ pending'[i].cancelled = TRUE
         /\ pending[i].bev # c => pending'[i] = pending[i]
  BY <1>1 DEF CancelPending, Entry
<1>5. QED
  BY <1>3, <1>4

(***************************************************************************)
(* Type correctness.                                                       *)
(***************************************************************************)

\* The initial state is well typed.
LEMMA TypeInit == ServerAssumption /\ Init => TypeOK
BY DEF ServerAssumption, Init, TypeOK, ResponseState, Entry

\* Every step keeps the types, the list and the walk's position in it included.
LEMMA TypeStep == TypeOK /\ [Next]_vars => TypeOK'
<1> SUFFICES ASSUME TypeOK, [Next]_vars PROVE TypeOK'
  OBVIOUS
<1> USE ServerAssumption
<1>1. ASSUME NEW c \in Conns, Accept(c) PROVE TypeOK'
  BY <1>1 DEF Accept, TypeOK
<1>2. ASSUME NEW c \in Conns, ReadUnparsable(c) PROVE TypeOK'
  BY <1>2 DEF ReadUnparsable, TypeOK
<1>3. ASSUME NEW c \in Conns, Disconnect(c) PROVE TypeOK'
  <2>1. pending' \in Seq(Entry) /\ Len(pending') = Len(pending)
    BY <1>3, CancelProperties DEF Disconnect
  <2>2. hook' \subseteq Reqs /\ told' \subseteq Reqs
    BY <1>3 DEF Disconnect, CancelPending, TypeOK
  <2>3. QED
    BY <1>3, <2>1, <2>2 DEF Disconnect, TypeOK
<1>4. ASSUME NEW c \in Conns, Receive(c) PROVE TypeOK'
  BY <1>4 DEF Receive, TypeOK
<1>5. ASSUME NEW c \in Conns, NEW r \in Reqs, ReadProcessed(c, r) PROVE TypeOK'
  BY <1>5 DEF ReadProcessed, ReadFirst, AddressReuse, TypeOK, ResponseState
<1>6. ASSUME NEW c \in Conns, NEW r \in Reqs, NEW st \in Unfinished,
             NEW hooked \in BOOLEAN, NEW works \in BOOLEAN,
             ReadPending(c, r, st, hooked, works)
      PROVE  TypeOK'
  <2> DEFINE e == [req |-> r, bev |-> c, cancelled |-> FALSE]
  <2>1. e \in Entry
    BY DEF Entry
  <2>2. pending' \in Seq(Entry) /\ Len(pending') = Len(pending) + 1
    BY <1>6, <2>1, AppendProperties DEF ReadPending, TypeOK
  <2>3. timers' \subseteq Reqs
    <3>1. PICK t \in AddressReuse :
             timers' = IF Cardinality(t) < MaxActive THEN t \cup {r} ELSE t
      BY <1>6 DEF ReadPending, StartTimer
    <3>2. t \subseteq timers
      BY DEF AddressReuse
    <3>3. QED
      BY <3>1, <3>2 DEF TypeOK
  <2>4. QED
    BY <1>6, <2>2, <2>3 DEF ReadPending, ReadFirst, Idle, TypeOK, ResponseState,
       ServerAssumption
<1>7. ASSUME NEW r \in Reqs, HandlerDone(r) PROVE TypeOK'
  BY <1>7 DEF HandlerDone, TypeOK, ResponseState
<1>8. CASE CheckStart
  BY <1>8 DEF CheckStart, TypeOK
<1>9. CASE CheckFinished
  <2>1. cursor \in 1..Len(pending)
    BY <1>9 DEF CheckFinished, TypeOK
  <2>2. pending' \in Seq(Entry) /\ Len(pending') = Len(pending) - 1
    BY <1>9, <2>1, UnlinkProperties DEF CheckFinished, TypeOK
  <2> DEFINE e == pending[cursor]
  <2>3. e \in Entry
    BY <2>1 DEF TypeOK
  <2>4. e.req \in Reqs /\ (e.bev # NoConn => e.bev \in Conns)
    BY <2>3 DEF Entry
  <2>5. \/ Send(e) /\ e.bev # NoConn
        \/ Discard
    BY <1>9 DEF CheckFinished
  <2>6. mem' = [mem EXCEPT ![e.req] = "freed"]
    BY <1>9 DEF CheckFinished
  <2>7. replies' \in [Reqs -> Seq(Conns)] /\ timers' \subseteq Reqs
    <3> HIDE DEF e
    <3>1. CASE Send(e) /\ e.bev # NoConn
      <4>1. replies[e.req] \in Seq(Conns) /\ e.bev \in Conns
        BY <2>4, <3>1 DEF TypeOK
      <4>2. Append(replies[e.req], e.bev) \in Seq(Conns)
        BY <4>1, AppendProperties
      <4>3. QED
        BY <3>1, <4>2, <2>4 DEF Send, TypeOK
    <3>2. CASE Discard
      BY <3>2 DEF Discard, TypeOK
    <3>3. QED
      BY <3>1, <3>2, <2>5
  <2>8. mem' \in [Reqs -> {"none", "live", "freed"}]
    <3> HIDE DEF e
    <3> QED BY <2>4, <2>6 DEF TypeOK
  <2>9. cursor' \in 0..Len(pending')
    BY <1>9, <2>1, <2>2 DEF CheckFinished, TypeOK
  <2>10. QED
    BY <1>9, <2>2, <2>7, <2>8, <2>9 DEF CheckFinished, TypeOK
<1>10. CASE CheckUnfinished
  BY <1>10 DEF CheckUnfinished, TypeOK
<1>11. CASE Stop
  BY <1>11 DEF Stop, Idle, TypeOK
<1>12. CASE UNCHANGED vars
  BY <1>12 DEF vars, TypeOK
<1>13. QED
  BY <1>1, <1>2, <1>3, <1>4, <1>5, <1>6, <1>7, <1>8, <1>9, <1>10, <1>11, <1>12 DEF Next

\* Every variable keeps its type, whatever the number of connections and requests.
THEOREM TypeCorrect == Spec => []TypeOK
BY TypeInit, TypeStep, ServerAssumption, PTL DEF Spec

(***************************************************************************)
(* The inductive invariant.  One lemma per action that moves a request     *)
(* between the read callback, the list, the handlers and the allocator.    *)
(***************************************************************************)

\* Facts about the entries of the list that every case below starts from.
LEMMA EntryFacts ==
    ASSUME IInv
    PROVE  /\ Len(pending) \in Nat
           /\ \A i \in 1..Len(pending) :
                /\ pending[i] \in Entry
                /\ pending[i].req \in Reqs
                /\ pending[i].bev \in Conns \cup {NoConn}
                /\ mem[pending[i].req] = "live"
                /\ owner[pending[i].req] \in Conns
           /\ \A r \in Reqs : mem[r] = "live" =>
                \E i \in 1..Len(pending) : pending[i].req = r
<1>1. Len(pending) \in Nat /\ \A i \in 1..Len(pending) : pending[i] \in Entry
  BY DEF IInv, TypeOK
<1>2. \A i \in 1..Len(pending) : pending[i].req \in Reqs /\ pending[i].bev \in Conns \cup {NoConn}
  BY <1>1 DEF Entry
<1>3. \A i \in 1..Len(pending) : mem[pending[i].req] = "live"
  BY <1>2 DEF IInv, PendingOwnsLive, PendingReqs
<1>4. \A i \in 1..Len(pending) : owner[pending[i].req] \in Conns
  BY <1>2, <1>3 DEF IInv, Bookkeeping
<1>5. \A r \in Reqs : mem[r] = "live" => \E i \in 1..Len(pending) : pending[i].req = r
  BY DEF IInv, PendingOwnsLive, PendingReqs
<1>6. QED
  BY <1>1, <1>2, <1>3, <1>4, <1>5

\* Steps that leave the list and the allocator alone.
LEMMA QuietStep ==
    ASSUME IInv, TypeOK',
           UNCHANGED <<mem, state, owner, hook, told, running, pending, timers, replies, loop>>,
           \A c \in Conns : bev[c] # "none" => bev'[c] = bev[c]
    PROVE  IInv'
<1>1. PendingOwnsLive'
  BY DEF IInv, PendingOwnsLive, PendingReqs
<1>2. NoDanglingBev'
  BY EntryFacts, ServerAssumption DEF IInv, NoDanglingBev, ServerAssumption
<1>3. HandlerWritesLive' /\ Bookkeeping'
  BY DEF IInv, HandlerWritesLive, Bookkeeping
<1>4. HooksFollowConnections'
  BY DEF IInv, HooksFollowConnections, Bookkeeping, TypeOK
<1>5. SettledRightly'
  BY DEF IInv, SettledRightly, Bookkeeping, TypeOK
<1>6. QED
  BY <1>1, <1>2, <1>3, <1>4, <1>5 DEF IInv

\* A request answered inside the read callback never enters the list.
LEMMA ReadProcessedInv ==
    ASSUME IInv, TypeOK', NEW c \in Conns, NEW r \in Reqs,
           ReadProcessed(c, r)
    PROVE  IInv'
<1>1. /\ loop = "running"
      /\ mem[r] = "none"
      /\ mem' = [mem EXCEPT ![r] = "freed"]
      /\ state' = [state EXCEPT ![r] = "PROCESSED"]
      /\ owner' = [owner EXCEPT ![r] = c]
      /\ replies' = [replies EXCEPT ![r] = Append(@, c)]
      /\ timers' \subseteq timers
      /\ UNCHANGED <<bev, hook, told, running, pending, loop>>
  BY DEF ReadProcessed, ReadFirst, AddressReuse, Idle
<1>2. r \notin hook /\ r \notin running /\ r \notin timers /\ replies[r] = <<>>
  BY <1>1 DEF IInv, HooksFollowConnections, HandlerWritesLive, Bookkeeping, SettledRightly
<1>3. \A i \in 1..Len(pending) : pending[i].req # r
  BY <1>1, EntryFacts
<1>4. PendingOwnsLive'
  BY <1>1, <1>3 DEF IInv, PendingOwnsLive, PendingReqs, TypeOK
<1>5. NoDanglingBev'
  BY <1>1, <1>3, EntryFacts DEF IInv, NoDanglingBev, TypeOK
<1>6. HandlerWritesLive'
  BY <1>1, <1>2 DEF IInv, HandlerWritesLive, TypeOK
<1>7. HooksFollowConnections'
  BY <1>1, <1>2 DEF IInv, HooksFollowConnections, TypeOK
<1>8. SettledRightly'
  BY <1>1, <1>2 DEF IInv, SettledRightly, TypeOK
<1>9. Bookkeeping'
  BY <1>1 DEF IInv, Bookkeeping, TypeOK
<1>10. QED
  BY <1>4, <1>5, <1>6, <1>7, <1>8, <1>9 DEF IInv

\* A fresh pair enters the list once, on its own connection.
LEMMA ReadPendingInv ==
    ASSUME IInv, TypeOK', NEW c \in Conns, NEW r \in Reqs, NEW st \in Unfinished,
           NEW hooked \in BOOLEAN, NEW works \in BOOLEAN,
           ReadPending(c, r, st, hooked, works)
    PROVE  IInv'
<1> DEFINE e == [req |-> r, bev |-> c, cancelled |-> FALSE]
           n == Len(pending)
<1>1. /\ loop = "running" /\ loop' = loop
      /\ mem[r] = "none" /\ bev[c] = "open"
      /\ mem' = [mem EXCEPT ![r] = "live"]
      /\ state' = [state EXCEPT ![r] = st]
      /\ owner' = [owner EXCEPT ![r] = c]
      /\ hook' \subseteq hook \cup {r}
      /\ running' \subseteq running \cup {r}
      /\ UNCHANGED <<bev, told, replies>>
      /\ pending' = Append(pending, e)
  BY DEF ReadPending, ReadFirst, Idle
<1>0. timers' \subseteq timers \cup {r}
  <2>1. PICK t \in AddressReuse :
           timers' = IF Cardinality(t) < MaxActive THEN t \cup {r} ELSE t
    BY DEF ReadPending, StartTimer
  <2>2. t \subseteq timers
    BY DEF AddressReuse
  <2>3. QED
    BY <2>1, <2>2
<1>2. st # "PROCESSED"
  BY ServerAssumption DEF ServerAssumption
<1>3. e \in Entry /\ pending \in Seq(Entry)
  BY DEF Entry, IInv, TypeOK
<1>4. /\ n \in Nat /\ Len(pending') = n + 1
      /\ \A i \in 1..n : pending'[i] = pending[i]
      /\ pending'[n + 1] = e
  <2> HIDE DEF e
  <2> QED BY <1>1, <1>3, AppendProperties
<1>5. \A i \in 1..(n + 1) : i \in 1..n \/ i = n + 1
  BY <1>4
<1>6. \A i \in 1..n : pending[i].req # r
  BY <1>1, EntryFacts
<1>7. e.req = r /\ e.bev = c /\ e.cancelled = FALSE
  OBVIOUS
<1>8. r \notin told /\ replies[r] = <<>> /\ r \in Reqs
  BY <1>1 DEF IInv, Bookkeeping, SettledRightly
<1> HIDE DEF e, n
<1>9. PendingOwnsLive'
  <2>1. \A i, j \in 1..(n + 1) : pending'[i].req = pending'[j].req => i = j
    BY <1>4, <1>5, <1>6, <1>7 DEF IInv, PendingOwnsLive, n
  <2>2. PendingReqs' = PendingReqs \cup {r}
    BY <1>4, <1>5, <1>7 DEF PendingReqs, n
  <2>3. {q \in Reqs : mem'[q] = "live"} = {q \in Reqs : mem[q] = "live"} \cup {r}
    BY <1>1 DEF IInv, TypeOK
  <2>4. QED
    BY <2>1, <2>2, <2>3, <1>4 DEF IInv, PendingOwnsLive
<1>10. NoDanglingBev'
  <2>1. ASSUME NEW i \in 1..n
        PROVE  \/ pending[i].cancelled /\ pending[i].bev = NoConn
                     /\ bev[owner'[pending[i].req]] = "freed"
               \/ ~pending[i].cancelled /\ pending[i].bev = owner'[pending[i].req]
                     /\ bev[pending[i].bev] = "open"
    BY <1>1, <1>6, EntryFacts DEF IInv, NoDanglingBev, TypeOK, n
  <2>2. owner'[r] = c
    BY <1>1 DEF IInv, TypeOK
  <2>3. QED
    BY <2>1, <2>2, <1>1, <1>4, <1>5, <1>7 DEF NoDanglingBev
<1>11. HandlerWritesLive'
  BY <1>1, <1>2 DEF IInv, HandlerWritesLive, TypeOK
<1>12. HooksFollowConnections'
  BY <1>1, <1>2, <1>8 DEF IInv, HooksFollowConnections, TypeOK
<1>13. SettledRightly'
  BY <1>0, <1>1, <1>8 DEF IInv, SettledRightly, TypeOK
<1>14. Bookkeeping'
  BY <1>0, <1>1 DEF IInv, Bookkeeping, TypeOK
<1>15. QED
  BY <1>9, <1>10, <1>11, <1>12, <1>13, <1>14 DEF IInv

\* A disconnect clears exactly the entries and the hooks of its connection.
LEMMA DisconnectInv ==
    ASSUME IInv, TypeOK', NEW c \in Conns, Disconnect(c)
    PROVE  IInv'
<1> DEFINE hit == {pending[i].req : i \in EntriesOf(c)}
<1>1. /\ loop = "running" /\ bev[c] = "open"
      /\ bev' = [bev EXCEPT ![c] = "freed"]
      /\ hook' = hook \ hit
      /\ told' = told \cup (hit \cap hook)
      /\ UNCHANGED <<mem, state, owner, running, timers, replies, loop>>
  BY DEF Disconnect, CancelPending, Idle
<1>2. /\ Len(pending') = Len(pending)
      /\ \A i \in 1..Len(pending) :
           /\ pending'[i].req = pending[i].req
           /\ pending[i].bev = c =>
                 pending'[i].bev = NoConn /\ pending'[i].cancelled = TRUE
           /\ pending[i].bev # c => pending'[i] = pending[i]
  BY CancelProperties DEF IInv, Disconnect
<1>3. PendingOwnsLive'
  <2>1. PendingReqs' = PendingReqs
    BY <1>2 DEF PendingReqs
  <2>2. QED
    BY <2>1, <1>1, <1>2 DEF IInv, PendingOwnsLive
<1>4. NoDanglingBev'
  <2> SUFFICES ASSUME NEW i \in 1..Len(pending)
               PROVE  \/ pending'[i].cancelled /\ pending'[i].bev = NoConn
                            /\ bev'[owner[pending[i].req]] = "freed"
                      \/ ~pending'[i].cancelled /\ pending'[i].bev = owner[pending[i].req]
                            /\ bev'[pending'[i].bev] = "open"
    BY <1>1, <1>2 DEF NoDanglingBev
  <2>1. owner[pending[i].req] \in Conns /\ NoConn \notin Conns
    BY EntryFacts, ServerAssumption DEF ServerAssumption
  <2>2. CASE pending[i].bev = c
    BY <2>1, <2>2, <1>1, <1>2 DEF IInv, NoDanglingBev, TypeOK
  <2>3. CASE pending[i].bev # c
    BY <2>1, <2>3, <1>1, <1>2 DEF IInv, NoDanglingBev, TypeOK
  <2>4. QED
    BY <2>2, <2>3
<1>5. HandlerWritesLive'
  BY <1>1 DEF IInv, HandlerWritesLive
<1>6. HooksFollowConnections'
  <2> SUFFICES ASSUME NEW r \in hook, r \notin hit
               PROVE  /\ mem[r] = "live" /\ state[r] # "PROCESSED"
                      /\ bev'[owner[r]] = "open"
                      /\ r \notin told'
    BY <1>1 DEF HooksFollowConnections
  <2>1. /\ mem[r] = "live" /\ state[r] # "PROCESSED"
        /\ bev[owner[r]] = "open" /\ r \notin told
    BY <1>1 DEF IInv, HooksFollowConnections
  <2>2. r \in Reqs
    BY DEF IInv, TypeOK
  <2>3. PICK i \in 1..Len(pending) : pending[i].req = r
    BY <2>1, <2>2, EntryFacts
  <2>4. pending[i].bev = owner[r]
    BY <2>1, <2>3 DEF IInv, NoDanglingBev
  <2>5. owner[r] # c
    BY <2>3, <2>4 DEF EntriesOf
  <2>6. QED
    BY <2>1, <2>5, <1>1 DEF IInv, TypeOK
<1>7. SettledRightly'
  BY <1>1 DEF IInv, SettledRightly, Bookkeeping, TypeOK
<1>8. Bookkeeping'
  <2>1. \A r \in hit : mem[r] = "live"
    BY EntryFacts DEF EntriesOf
  <2>2. QED
    BY <2>1, <1>1 DEF IInv, Bookkeeping
<1>9. QED
  BY <1>3, <1>4, <1>5, <1>6, <1>7, <1>8 DEF IInv

\* A handler that finishes leaves its entry to the timer.
LEMMA HandlerDoneInv ==
    ASSUME IInv, TypeOK', NEW r \in Reqs, HandlerDone(r)
    PROVE  IInv'
<1>1. /\ loop = "running"
      /\ state' = [state EXCEPT ![r] = "PROCESSED"]
      /\ running' = running \ {r}
      /\ hook' = hook \ {r}
      /\ UNCHANGED <<bev, mem, owner, told, pending, timers, replies, loop>>
  BY DEF HandlerDone, Idle
<1>2. PendingOwnsLive' /\ NoDanglingBev' /\ SettledRightly' /\ Bookkeeping'
  BY <1>1 DEF IInv, PendingOwnsLive, PendingReqs, NoDanglingBev, SettledRightly, Bookkeeping
<1>3. HandlerWritesLive' /\ HooksFollowConnections'
  BY <1>1 DEF IInv, HandlerWritesLive, HooksFollowConnections, TypeOK
<1>4. QED
  BY <1>2, <1>3 DEF IInv

\* Which of the two endings a finished node gets, and what that says of its owner.
LEMMA FinishedNode ==
    ASSUME IInv, CheckFinished
    PROVE  LET e == pending[cursor] IN
           /\ cursor \in 1..Len(pending) /\ loop = "running"
           /\ e.req \in Reqs /\ mem[e.req] = "live" /\ state[e.req] = "PROCESSED"
           /\ owner[e.req] \in Conns
           /\ mem' = [mem EXCEPT ![e.req] = "freed"]
           /\ pending' = Unlink(pending, cursor)
           /\ UNCHANGED <<bev, state, owner, hook, told, running, loop>>
           /\ \/ /\ bev[owner[e.req]] = "open"
                 /\ replies' = [replies EXCEPT ![e.req] = <<owner[e.req]>>]
                 /\ timers' = timers \ {e.req}
              \/ /\ bev[owner[e.req]] = "freed"
                 /\ UNCHANGED <<replies, timers>>
<1> DEFINE e == pending[cursor]
<1>1. cursor \in 1..Len(pending)
  BY DEF IInv, TypeOK, CheckFinished
<1>2. /\ e.req \in Reqs /\ mem[e.req] = "live" /\ owner[e.req] \in Conns
  BY <1>1, EntryFacts
<1>3. /\ loop = "running" /\ state[e.req] = "PROCESSED"
      /\ mem' = [mem EXCEPT ![e.req] = "freed"]
      /\ pending' = Unlink(pending, cursor)
      /\ UNCHANGED <<bev, state, owner, hook, told, running, loop>>
      /\ IF ~e.cancelled /\ e.bev # NoConn THEN Send(e) ELSE Discard
  BY DEF CheckFinished
<1>4. \/ e.cancelled /\ e.bev = NoConn /\ bev[owner[e.req]] = "freed"
      \/ ~e.cancelled /\ e.bev = owner[e.req] /\ bev[e.bev] = "open"
  BY <1>1 DEF IInv, NoDanglingBev
<1>5. replies[e.req] = <<>>
  BY <1>2 DEF IInv, SettledRightly
<1> HIDE DEF e
<1>6. CASE e.cancelled /\ e.bev = NoConn /\ bev[owner[e.req]] = "freed"
  BY <1>1, <1>2, <1>3, <1>6 DEF Discard, e
<1>7. CASE ~e.cancelled /\ e.bev = owner[e.req] /\ bev[e.bev] = "open"
  <2>1. e.bev # NoConn
    BY <1>2, <1>7, ServerAssumption DEF ServerAssumption
  <2>2. Send(e)
    BY <1>3, <1>7, <2>1
  <2>3. Append(replies[e.req], e.bev) = <<owner[e.req]>>
    BY <1>5, <1>7
  <2>4. replies' = [replies EXCEPT ![e.req] = <<owner[e.req]>>] /\ timers' = timers \ {e.req}
    BY <2>2, <2>3 DEF Send
  <2>5. QED
    BY <1>1, <1>2, <1>3, <1>7, <2>4 DEF e
<1>8. QED
  BY <1>4, <1>6, <1>7

\* The timer frees a finished pair with the entry that owned it.
LEMMA CheckFinishedInv ==
    ASSUME IInv, TypeOK', CheckFinished
    PROVE  IInv'
<1> DEFINE e == pending[cursor]
           k == cursor
           n == Len(pending)
<1>1. /\ k \in 1..n /\ n \in Nat /\ loop = "running"
      /\ e.req \in Reqs /\ mem[e.req] = "live" /\ state[e.req] = "PROCESSED"
      /\ owner[e.req] \in Conns
      /\ mem' = [mem EXCEPT ![e.req] = "freed"]
      /\ UNCHANGED <<bev, state, owner, hook, told, running, loop>>
  BY FinishedNode, EntryFacts
<1>2. \/ /\ bev[owner[e.req]] = "open"
         /\ replies' = [replies EXCEPT ![e.req] = <<owner[e.req]>>]
         /\ timers' = timers \ {e.req}
      \/ /\ bev[owner[e.req]] = "freed"
         /\ UNCHANGED <<replies, timers>>
  BY FinishedNode
<1>3. /\ Len(pending') = n - 1
      /\ \A i \in 1..(n - 1) : pending'[i] = IF i < k THEN pending[i] ELSE pending[i + 1]
  <2>1. pending' = Unlink(pending, cursor)
    BY FinishedNode
  <2>2. pending \in Seq(Entry)
    BY DEF IInv, TypeOK
  <2>3. QED
    BY <1>1, <2>1, <2>2, UnlinkProperties
<1>4. \A i, j \in 1..n : pending[i].req = pending[j].req => i = j
  BY DEF IInv, PendingOwnsLive
<1>5. e.req = pending[k].req
  OBVIOUS
<1> HIDE DEF e, k, n
<1>6. PendingOwnsLive'
  <2>1. \A i, j \in 1..(n - 1) : pending'[i].req = pending'[j].req => i = j
    BY <1>1, <1>3, <1>4
  <2>2. ASSUME NEW i \in 1..(n - 1)
        PROVE  /\ pending'[i].req \in Reqs /\ pending'[i].req # e.req
               /\ mem[pending'[i].req] = "live"
    BY <1>1, <1>3, <1>4, <1>5, EntryFacts DEF n
  <2>3. ASSUME NEW q \in Reqs, mem[q] = "live", q # e.req
        PROVE  \E i \in 1..(n - 1) : pending'[i].req = q
    <3>1. PICK j \in 1..n : pending[j].req = q
      BY <2>3, EntryFacts DEF n
    <3>2. j # k
      BY <2>3, <3>1, <1>5
    <3>3. CASE j < k
      BY <3>1, <3>3, <1>1, <1>3
    <3>4. CASE j > k
      <4>1. j - 1 \in 1..(n - 1) /\ ~(j - 1 < k) /\ (j - 1) + 1 = j
        BY <3>4, <1>1
      <4>2. pending'[j - 1] = pending[(j - 1) + 1]
        BY <4>1, <1>3
      <4>3. QED
        BY <3>1, <4>1, <4>2
    <3>5. QED
      BY <3>2, <3>3, <3>4, <1>1
  <2>4. PendingReqs' = {q \in Reqs : mem'[q] = "live"}
    <3>1. \A q \in Reqs : mem'[q] = "live" <=> mem[q] = "live" /\ q # e.req
      BY <1>1 DEF IInv, TypeOK
    <3>2. PendingReqs' = {pending'[i].req : i \in 1..(n - 1)}
      BY <1>3 DEF PendingReqs
    <3>3. QED
      BY <2>2, <2>3, <3>1, <3>2
  <2>5. QED
    BY <2>1, <2>4, <1>3 DEF PendingOwnsLive
<1>7. NoDanglingBev'
  <2>1. \A i \in 1..(n - 1) : \E j \in 1..n : pending'[i] = pending[j]
    BY <1>1, <1>3
  <2>2. \A j \in 1..n :
           \/ pending[j].cancelled /\ pending[j].bev = NoConn
                 /\ bev[owner[pending[j].req]] = "freed"
           \/ ~pending[j].cancelled /\ pending[j].bev = owner[pending[j].req]
                 /\ bev[pending[j].bev] = "open"
    BY DEF IInv, NoDanglingBev, n
  <2>3. \A i \in 1..(n - 1) :
           \/ pending'[i].cancelled /\ pending'[i].bev = NoConn
                 /\ bev[owner[pending'[i].req]] = "freed"
           \/ ~pending'[i].cancelled /\ pending'[i].bev = owner[pending'[i].req]
                 /\ bev[pending'[i].bev] = "open"
    BY <2>1, <2>2
  <2>4. QED
    BY <2>3, <1>1, <1>3 DEF NoDanglingBev
<1>8. HandlerWritesLive'
  BY <1>1 DEF IInv, HandlerWritesLive, TypeOK
<1>9. HooksFollowConnections'
  BY <1>1 DEF IInv, HooksFollowConnections, TypeOK
<1>10. SettledRightly'
  <2> SUFFICES ASSUME NEW r \in Reqs
               PROVE  IF mem'[r] # "freed" THEN replies'[r] = <<>>
                      ELSE \/ replies'[r] = <<owner[r]>> /\ r \notin timers'
                           \/ replies'[r] = <<>> /\ (loop = "stopped" \/ bev[owner[r]] = "freed")
    BY <1>1 DEF SettledRightly
  <2>1. IF mem[r] # "freed" THEN replies[r] = <<>>
        ELSE \/ replies[r] = <<owner[r]>> /\ r \notin timers
             \/ replies[r] = <<>> /\ (loop = "stopped" \/ bev[owner[r]] = "freed")
    BY DEF IInv, SettledRightly
  <2>2. CASE r = e.req
    BY <2>1, <2>2, <1>1, <1>2 DEF IInv, TypeOK
  <2>3. CASE r # e.req
    BY <2>1, <2>3, <1>1, <1>2 DEF IInv, TypeOK
  <2>4. QED
    BY <2>2, <2>3
<1>11. Bookkeeping'
  BY <1>1, <1>2 DEF IInv, Bookkeeping, TypeOK
<1>12. QED
  BY <1>6, <1>7, <1>8, <1>9, <1>10, <1>11 DEF IInv

\* The shutdown frees what the list owns, which is everything live.
LEMMA StopInv ==
    ASSUME IInv, TypeOK', Stop
    PROVE  IInv'
<1>1. /\ loop' = "stopped"
      /\ mem' = [r \in Reqs |-> IF mem[r] = "live" THEN "freed" ELSE mem[r]]
      /\ pending' = <<>>
      /\ UNCHANGED <<bev, state, owner, hook, told, running, timers, replies>>
  BY DEF Stop, IInv, PendingOwnsLive, PendingReqs
<1>2. PendingOwnsLive' /\ NoDanglingBev'
  BY <1>1 DEF PendingOwnsLive, PendingReqs, NoDanglingBev
<1>3. HandlerWritesLive' /\ HooksFollowConnections'
  BY <1>1 DEF HandlerWritesLive, HooksFollowConnections
<1>4. SettledRightly' /\ Bookkeeping'
  BY <1>1 DEF IInv, SettledRightly, Bookkeeping, TypeOK
<1>5. QED
  BY <1>2, <1>3, <1>4 DEF IInv

\* The inductive invariant holds at the start...
LEMMA InvInit == Init => IInv
<1> SUFFICES ASSUME Init PROVE IInv
  OBVIOUS
<1>1. TypeOK
  BY TypeInit, ServerAssumption
<1>2. PendingOwnsLive /\ NoDanglingBev
  BY DEF Init, PendingOwnsLive, PendingReqs, NoDanglingBev
<1>3. HandlerWritesLive /\ HooksFollowConnections /\ SettledRightly /\ Bookkeeping
  BY DEF Init, HandlerWritesLive, HooksFollowConnections, SettledRightly, Bookkeeping
<1>4. QED
  BY <1>1, <1>2, <1>3 DEF IInv

\* ... and every step keeps it.
LEMMA InvStep == IInv /\ [Next]_vars => IInv'
<1> SUFFICES ASSUME IInv, [Next]_vars PROVE IInv'
  OBVIOUS
<1>0. TypeOK'
  BY TypeStep DEF IInv
<1>1. ASSUME NEW c \in Conns, Accept(c) PROVE IInv'
  BY <1>0, <1>1, QuietStep DEF Accept, IInv, TypeOK
<1>2. ASSUME NEW c \in Conns, ReadUnparsable(c) \/ Receive(c) PROVE IInv'
  BY <1>0, <1>2, QuietStep DEF ReadUnparsable, Receive
<1>3. ASSUME NEW c \in Conns, Disconnect(c) PROVE IInv'
  BY <1>0, <1>3, DisconnectInv
<1>4. ASSUME NEW c \in Conns, NEW r \in Reqs, ReadProcessed(c, r) PROVE IInv'
  BY <1>0, <1>4, ReadProcessedInv
<1>5. ASSUME NEW c \in Conns, NEW r \in Reqs, NEW st \in Unfinished,
             NEW hooked \in BOOLEAN, NEW works \in BOOLEAN,
             ReadPending(c, r, st, hooked, works)
      PROVE  IInv'
  BY <1>0, <1>5, ReadPendingInv
<1>6. ASSUME NEW r \in Reqs, HandlerDone(r) PROVE IInv'
  BY <1>0, <1>6, HandlerDoneInv
<1>7. CASE CheckStart \/ CheckUnfinished
  BY <1>0, <1>7, QuietStep DEF CheckStart, CheckUnfinished
<1>8. CASE CheckFinished
  BY <1>0, <1>8, CheckFinishedInv
<1>9. CASE Stop
  BY <1>0, <1>9, StopInv
<1>10. CASE UNCHANGED vars
  BY <1>0, <1>10, QuietStep DEF vars
<1>11. QED
  BY <1>1, <1>2, <1>3, <1>4, <1>5, <1>6, <1>7, <1>8, <1>9, <1>10 DEF Next

\* The induction.
THEOREM Invariance == Spec => []IInv
BY InvInit, InvStep, PTL DEF Spec

(***************************************************************************)
(* The server implements the abstract service.                             *)
(***************************************************************************)

\* A step that changes neither a connection nor what the service sees of a request.
LEMMA AbstractStutter ==
    ASSUME UNCHANGED <<bev, owner, mem, state, replies, loop>>
    PROVE  UNCHANGED Service!absVars
BY DEF Service!absVars, ServicePeer, ServiceStatus

\* The service's view of the requests other than r does not depend on r.
LEMMA StatusExcept ==
    ASSUME TypeOK, TypeOK', NEW r \in Reqs, NEW s,
           \A q \in Reqs \ {r} : /\ mem'[q] = mem[q] /\ state'[q] = state[q]
                                 /\ replies'[q] = replies[q],
           ServiceStatus'[r] = s
    PROVE  ServiceStatus' = [ServiceStatus EXCEPT ![r] = s]
<1>1. \A q \in Reqs \ {r} : ServiceStatus'[q] = ServiceStatus[q]
  BY DEF ServiceStatus
<1>2. QED
  BY <1>1 DEF ServiceStatus

\* The server starts where the abstract service starts.
LEMMA RefinementInit == Init => Service!Init
<1> SUFFICES ASSUME Init PROVE Service!Init
  OBVIOUS
<1>1. ServicePeer = [c \in Conns |-> "none"]
  BY DEF Init, ServicePeer
<1>2. ServiceStatus = [r \in Reqs |-> "idle"]
  BY DEF Init, ServiceStatus, StatusOf
<1>3. QED
  BY <1>1, <1>2 DEF Init, Service!Init

\* Every step of the server is one of the abstract service or leaves it alone.
LEMMA RefinementStep == IInv /\ IInv' /\ [Next]_vars => [Service!Next]_(Service!absVars)
<1> SUFFICES ASSUME IInv, IInv', [Next]_vars
             PROVE  [Service!Next]_(Service!absVars)
  OBVIOUS
<1>0. TypeOK /\ TypeOK'
  BY DEF IInv
<1>1. ASSUME NEW c \in Conns, Accept(c) PROVE Service!Next
  <2>1. ServicePeer[c] = "none" /\ ServicePeer' = [ServicePeer EXCEPT ![c] = "open"]
    BY <1>0, <1>1 DEF Accept, ServicePeer, TypeOK
  <2>2. UNCHANGED <<owner, ServiceStatus, loop>> /\ loop = "running"
    BY <1>1 DEF Accept, Idle, ServiceStatus
  <2>3. Service!Connect(c)
    BY <2>1, <2>2 DEF Service!Connect
  <2>4. QED
    BY <2>3 DEF Service!Next
<1>2. ASSUME NEW c \in Conns, Receive(c) \/ ReadUnparsable(c)
      PROVE  UNCHANGED Service!absVars
  BY <1>2, AbstractStutter DEF Receive, ReadUnparsable
<1>3. ASSUME NEW c \in Conns, Disconnect(c) PROVE Service!Next
  <2>1. ServicePeer[c] = "open" /\ ServicePeer' = [ServicePeer EXCEPT ![c] = "gone"]
    BY <1>0, <1>3 DEF Disconnect, ServicePeer, TypeOK
  <2>2. UNCHANGED <<owner, ServiceStatus, loop>> /\ loop = "running"
    BY <1>3 DEF Disconnect, Idle, ServiceStatus
  <2>3. Service!Disconnect(c)
    BY <2>1, <2>2 DEF Service!Disconnect
  <2>4. QED
    BY <2>3 DEF Service!Next
<1>4. ASSUME NEW c \in Conns, NEW r \in Reqs, ReadProcessed(c, r) PROVE Service!Next
  <2>1. /\ loop = "running" /\ UNCHANGED <<bev, loop>> /\ bev[c] = "open"
        /\ mem[r] = "none" /\ mem' = [mem EXCEPT ![r] = "freed"]
        /\ state' = [state EXCEPT ![r] = "PROCESSED"]
        /\ owner' = [owner EXCEPT ![r] = c]
        /\ replies' = [replies EXCEPT ![r] = Append(@, c)]
    BY <1>4 DEF ReadProcessed, ReadFirst, Idle
  <2>2. Append(replies[r], c) # <<>>
    <3>1. replies[r] \in Seq(Conns)
      BY <1>0 DEF TypeOK
    <3>2. QED
      BY <3>1, AppendProperties
  <2>3. ServiceStatus'[r] = "answered"
    BY <1>0, <2>1, <2>2 DEF ServiceStatus, StatusOf, TypeOK
  <2>4. ServiceStatus' = [ServiceStatus EXCEPT ![r] = "answered"]
    BY <1>0, <2>1, <2>3, StatusExcept DEF TypeOK
  <2>5. ServiceStatus[r] = "idle" /\ ServicePeer[c] = "open" /\ UNCHANGED ServicePeer
    BY <2>1 DEF ServiceStatus, StatusOf, ServicePeer
  <2>6. Service!Take(c, r, "answered")
    BY <2>1, <2>4, <2>5 DEF Service!Take
  <2>7. QED
    BY <2>6 DEF Service!Next
<1>5. ASSUME NEW c \in Conns, NEW r \in Reqs, NEW st \in Unfinished,
             NEW hooked \in BOOLEAN, NEW works \in BOOLEAN,
             ReadPending(c, r, st, hooked, works)
      PROVE  Service!Next
  <2>1. /\ loop = "running" /\ UNCHANGED <<bev, replies, loop>> /\ bev[c] = "open"
        /\ mem[r] = "none" /\ mem' = [mem EXCEPT ![r] = "live"]
        /\ state' = [state EXCEPT ![r] = st]
        /\ owner' = [owner EXCEPT ![r] = c]
        /\ st # "PROCESSED"
    BY <1>5, ServerAssumption DEF ReadPending, ReadFirst, Idle, ServerAssumption
  <2>2. ServiceStatus'[r] = "taken"
    BY <1>0, <2>1 DEF ServiceStatus, StatusOf, TypeOK
  <2>3. ServiceStatus' = [ServiceStatus EXCEPT ![r] = "taken"]
    BY <1>0, <2>1, <2>2, StatusExcept DEF TypeOK
  <2>4. ServiceStatus[r] = "idle" /\ ServicePeer[c] = "open" /\ UNCHANGED ServicePeer
    BY <2>1 DEF ServiceStatus, StatusOf, ServicePeer
  <2>5. Service!Take(c, r, "taken")
    BY <2>1, <2>3, <2>4 DEF Service!Take
  <2>6. QED
    BY <2>5 DEF Service!Next
<1>6. ASSUME NEW r \in Reqs, HandlerDone(r) PROVE Service!Next
  <2>1. /\ loop = "running" /\ UNCHANGED <<bev, mem, owner, replies, loop>>
        /\ state' = [state EXCEPT ![r] = "PROCESSED"]
        /\ r \in running
    BY <1>6 DEF HandlerDone, Idle
  <2>2. mem[r] = "live" /\ state[r] # "PROCESSED"
    BY <2>1 DEF IInv, HandlerWritesLive
  <2>3. ServiceStatus'[r] = "ready" /\ ServiceStatus[r] = "taken" /\ UNCHANGED ServicePeer
    BY <1>0, <2>1, <2>2 DEF ServiceStatus, StatusOf, ServicePeer, TypeOK
  <2>4. ServiceStatus' = [ServiceStatus EXCEPT ![r] = "ready"]
    BY <1>0, <2>1, <2>3, StatusExcept DEF TypeOK
  <2>5. Service!Ready(r)
    BY <2>1, <2>3, <2>4 DEF Service!Ready
  <2>6. QED
    BY <2>5 DEF Service!Next
<1>7. CASE CheckStart \/ CheckUnfinished
  BY <1>7, AbstractStutter DEF CheckStart, CheckUnfinished
<1>8. CASE CheckFinished
  <2> DEFINE r == pending[cursor].req
  <2>1. /\ loop = "running" /\ r \in Reqs /\ mem[r] = "live" /\ state[r] = "PROCESSED"
        /\ owner[r] \in Conns
        /\ mem' = [mem EXCEPT ![r] = "freed"]
        /\ UNCHANGED <<bev, state, owner, loop>>
    BY <1>8, FinishedNode
  <2>2. \/ bev[owner[r]] = "open" /\ replies' = [replies EXCEPT ![r] = <<owner[r]>>]
        \/ bev[owner[r]] = "freed" /\ UNCHANGED replies
    BY <1>8, FinishedNode
  <2>3. replies[r] = <<>>
    BY <2>1 DEF IInv, SettledRightly
  <2> HIDE DEF r
  <2>4. ServiceStatus'[r] = IF ServicePeer[owner[r]] = "open" THEN "answered" ELSE "abandoned"
    <3>1. mem'[r] = "freed" /\ ServicePeer[owner[r]] = IF bev[owner[r]] = "freed" THEN "gone"
                                                                                 ELSE bev[owner[r]]
      BY <1>0, <2>1 DEF ServicePeer, TypeOK
    <3>2. CASE bev[owner[r]] = "open" /\ replies' = [replies EXCEPT ![r] = <<owner[r]>>]
      <4>1. replies'[r] # <<>>
        BY <1>0, <2>1, <3>2 DEF TypeOK
      <4>2. QED
        BY <2>1, <3>1, <3>2, <4>1 DEF ServiceStatus, StatusOf
    <3>3. CASE bev[owner[r]] = "freed" /\ UNCHANGED replies
      BY <2>1, <2>3, <3>1, <3>3 DEF ServiceStatus, StatusOf
    <3>4. QED
      BY <2>2, <3>2, <3>3
  <2>5. ServiceStatus' = [ServiceStatus EXCEPT
            ![r] = IF ServicePeer[owner[r]] = "open" THEN "answered" ELSE "abandoned"]
    BY <1>0, <2>1, <2>2, <2>4, StatusExcept DEF TypeOK
  <2>6. ServiceStatus[r] = "ready" /\ UNCHANGED ServicePeer
    BY <2>1 DEF ServiceStatus, StatusOf, ServicePeer
  <2>7. Service!Settle(r)
    BY <2>1, <2>5, <2>6 DEF Service!Settle
  <2>8. QED
    BY <2>1, <2>7 DEF Service!Next
<1>9. CASE Stop
  <2>1. /\ loop = "running" /\ loop' = "stopped"
        /\ mem' = [r \in Reqs |-> IF mem[r] = "live" THEN "freed" ELSE mem[r]]
        /\ UNCHANGED <<bev, state, owner, replies>>
    BY <1>9 DEF Stop, Idle, IInv, PendingOwnsLive, PendingReqs
  <2>2. \A r \in Reqs : mem[r] = "live" => replies[r] = <<>>
    BY DEF IInv, SettledRightly
  <2>3. ServiceStatus' = [r \in Reqs |-> IF ServiceStatus[r] \in {"taken", "ready"}
                                         THEN "abandoned" ELSE ServiceStatus[r]]
    BY <1>0, <2>1, <2>2 DEF ServiceStatus, StatusOf, TypeOK
  <2>4. UNCHANGED ServicePeer
    BY <2>1 DEF ServicePeer
  <2>5. Service!Halt
    BY <2>1, <2>3, <2>4 DEF Service!Halt
  <2>6. QED
    BY <2>5 DEF Service!Next
<1>10. CASE UNCHANGED vars
  BY <1>10, AbstractStutter DEF vars
<1>11. QED
  BY <1>1, <1>2, <1>3, <1>4, <1>5, <1>6, <1>7, <1>8, <1>9, <1>10 DEF Next

\* Every behaviour of the server is one of the abstract service: at most one answer
\* per request, on the connection it came on, while that connection is open.
THEOREM Refinement == Spec => Service!SafeSpec
BY RefinementInit, RefinementStep, Invariance, PTL DEF Spec, Service!SafeSpec

\* Every live pair is owned by exactly one entry of the pending list, and no entry
\* refers to freed memory.
THEOREM OwnershipCorrect == Spec => []PendingOwnsLive
BY Invariance, PTL DEF IInv

\* No pending entry refers to a bufferevent that conn_event_cb has freed.
THEOREM NoDanglingBevCorrect == Spec => []NoDanglingBev
BY Invariance, PTL DEF IInv

\* A handler still at work always has a live, unfinished Response to write to.
THEOREM HandlerWritesLiveCorrect == Spec => []HandlerWritesLive
BY Invariance, PTL DEF IInv

\* A cancel hook is called at most once and only while its response is unfinished.
THEOREM HooksCorrect == Spec => []HooksFollowConnections
BY Invariance, PTL DEF IInv

\* A response is written at most once, to its own connection, and released.
THEOREM SettledRightlyCorrect == Spec => []SettledRightly
BY Invariance, PTL DEF IInv

(***************************************************************************)
(* The timer.  FinishedIsSettled is a liveness property; its safety part   *)
(* is that one walk settles all that was finished when it began.           *)
(***************************************************************************)

\* check_pending_responses leaves nothing finished behind it: the nodes it has passed
\* are unfinished, although it unlinks nodes of the list it walks along.
UnfinishedBehind ==
    \A i \in (cursor + 1)..Len(pending) : state[pending[i].req] # "PROCESSED"
PassedAreUnfinished == cursor > 0 => UnfinishedBehind

\* When a walk ends, no live response is finished: none waits for a second walk.
WalkSettlesAll ==
    cursor > 0 /\ cursor' = 0 => \A r \in Reqs : mem'[r] = "live" => state'[r] # "PROCESSED"

\* A request that was freed is at rest: nothing is written for it, it never lives again,
\* and its connection stays the one it came on.
FreedIsFinal ==
    \A r \in Reqs : mem[r] = "freed" =>
        mem'[r] = "freed" /\ replies'[r] = replies[r] /\ owner'[r] = owner[r]

\* Inside a walk nothing else happens.
LEMMA WalkStep ==
    ASSUME [Next]_vars, cursor > 0
    PROVE  CheckFinished \/ CheckUnfinished \/ UNCHANGED vars
<1>1. cursor # 0
  OBVIOUS
<1>2. QED
  BY <1>1 DEF Next, Idle, Accept, Receive, ReadUnparsable, Disconnect, ReadProcessed, ReadPending,
              ReadFirst, HandlerDone, CheckStart, Stop

\* What the walk steps over is unfinished, and what is not is unlinked.
LEMMA WalkKeeps ==
    ASSUME IInv, [Next]_vars, cursor > 0, UnfinishedBehind
    PROVE  UnfinishedBehind'
<1>0. Len(pending) \in Nat /\ cursor \in 1..Len(pending)
  BY DEF IInv, TypeOK
<1>1. CASE CheckFinished
  <2>1. /\ pending' = Unlink(pending, cursor) /\ UNCHANGED state
        /\ cursor' = cursor - 1
    BY <1>1 DEF CheckFinished
  <2>2. /\ Len(pending') = Len(pending) - 1
        /\ \A j \in 1..(Len(pending) - 1) :
              pending'[j] = IF j < cursor THEN pending[j] ELSE pending[j + 1]
    BY <1>0, <2>1, UnlinkProperties DEF IInv, TypeOK
  <2>3. \A i \in (cursor' + 1)..Len(pending') :
           i + 1 \in (cursor + 1)..Len(pending) /\ pending'[i] = pending[i + 1]
    BY <1>0, <2>1, <2>2
  <2>4. QED
    BY <2>1, <2>3 DEF UnfinishedBehind
<1>2. CASE CheckUnfinished
  <2>1. /\ state[pending[cursor].req] # "PROCESSED" /\ cursor' = cursor - 1
        /\ UNCHANGED <<pending, state>>
    BY <1>2 DEF CheckUnfinished
  <2>2. \A i \in (cursor' + 1)..Len(pending) : i = cursor \/ i \in (cursor + 1)..Len(pending)
    BY <1>0, <2>1
  <2>3. QED
    BY <2>1, <2>2 DEF UnfinishedBehind
<1>3. CASE UNCHANGED vars
  BY <1>3 DEF vars, UnfinishedBehind
<1>4. QED
  BY <1>1, <1>2, <1>3, WalkStep

\* A walk starts with nothing behind it, and stays so.
LEMMA PassedStep ==
    ASSUME IInv, IInv', PassedAreUnfinished, [Next]_vars
    PROVE  PassedAreUnfinished'
<1>0. Len(pending') \in Nat /\ cursor \in Nat /\ cursor' \in Nat
  BY DEF IInv, TypeOK
<1>1. CASE cursor > 0
  BY <1>1, WalkKeeps DEF PassedAreUnfinished
<1>2. CASE cursor = 0
  <2>1. CheckStart \/ cursor' = cursor
    <3>1. ~(cursor > 0)
      BY <1>2
    <3>2. ~CheckFinished /\ ~CheckUnfinished
      BY <3>1 DEF CheckFinished, CheckUnfinished
    <3>3. QED
      BY <3>2, Zenon DEF Next, vars, Accept, Receive, ReadUnparsable, Disconnect, ReadProcessed,
                  ReadPending, ReadFirst, HandlerDone, Stop
  <2>2. CASE CheckStart
    <3>1. cursor' = Len(pending')
      BY <2>2 DEF CheckStart
    <3>2. (cursor' + 1)..Len(pending') = {}
      BY <1>0, <3>1
    <3>3. QED
      BY <3>2 DEF PassedAreUnfinished, UnfinishedBehind
  <2>3. CASE cursor' = cursor
    BY <1>2, <2>3 DEF PassedAreUnfinished
  <2>4. QED
    BY <2>1, <2>2, <2>3
<1>3. QED
  BY <1>0, <1>1, <1>2

\* At every moment of a walk, what it has passed is unfinished.
THEOREM PassedCorrect == Spec => []PassedAreUnfinished
<1>1. Init => PassedAreUnfinished
  BY DEF Init, PassedAreUnfinished
<1>2. QED
  BY <1>1, PassedStep, Invariance, PTL DEF Spec

\* One tick of the timer sends or frees every response that was finished when it came,
\* wherever it is in the list and whatever is unlinked around it.
THEOREM WalkSettlesAllCorrect == Spec => [][WalkSettlesAll]_vars
<1>1. IInv /\ IInv' /\ PassedAreUnfinished /\ [Next]_vars => [WalkSettlesAll]_vars
  <2> SUFFICES ASSUME IInv, IInv', PassedAreUnfinished, [Next]_vars,
                      cursor > 0, cursor' = 0,
                      NEW r \in Reqs, mem'[r] = "live"
               PROVE  state'[r] # "PROCESSED"
    BY DEF WalkSettlesAll
  <2>1. \A i \in 1..Len(pending') : state'[pending'[i].req] # "PROCESSED"
    BY WalkKeeps DEF PassedAreUnfinished, UnfinishedBehind
  <2>2. r \in PendingReqs'
    BY DEF IInv, PendingOwnsLive
  <2>3. QED
    BY <2>1, <2>2 DEF PendingReqs
<1>2. QED
  BY <1>1, PassedCorrect, Invariance, PTL DEF Spec

\* What was freed stays freed and unwritten, in every later step of the server.
THEOREM FreedIsFinalCorrect == Spec => [][FreedIsFinal]_vars
<1>1. IInv /\ [Next]_vars => [FreedIsFinal]_vars
  <2> SUFFICES ASSUME IInv, [Next]_vars, NEW q \in Reqs, mem[q] = "freed"
               PROVE  mem'[q] = "freed" /\ replies'[q] = replies[q] /\ owner'[q] = owner[q]
    BY DEF FreedIsFinal
  <2>0. TypeOK
    BY DEF IInv
  <2>1. ASSUME NEW c \in Conns, NEW r \in Reqs, ReadProcessed(c, r)
        PROVE  mem'[q] = "freed" /\ replies'[q] = replies[q] /\ owner'[q] = owner[q]
    BY <2>0, <2>1 DEF ReadProcessed, ReadFirst, TypeOK
  <2>2. ASSUME NEW c \in Conns, NEW r \in Reqs, NEW st \in Unfinished,
               NEW hooked \in BOOLEAN, NEW works \in BOOLEAN,
               ReadPending(c, r, st, hooked, works)
        PROVE  mem'[q] = "freed" /\ replies'[q] = replies[q] /\ owner'[q] = owner[q]
    BY <2>0, <2>2 DEF ReadPending, ReadFirst, TypeOK
  <2>3. CASE CheckFinished
    <3> DEFINE r == pending[cursor].req
    <3>1. r \in Reqs /\ mem[r] = "live" /\ mem' = [mem EXCEPT ![r] = "freed"]
          /\ UNCHANGED owner
      BY <2>3, FinishedNode
    <3>2. replies' = [replies EXCEPT ![r] = <<owner[r]>>] \/ UNCHANGED replies
      BY <2>3, FinishedNode
    <3> HIDE DEF r
    <3>3. QED
      BY <2>0, <3>1, <3>2 DEF TypeOK
  <2>4. CASE Stop
    BY <2>0, <2>4 DEF Stop, TypeOK
  <2>5. CASE UNCHANGED <<mem, replies, owner>>
    BY <2>5
  <2>6. QED
    BY <2>1, <2>2, <2>3, <2>4, <2>5
       DEF Next, vars, Accept, Receive, ReadUnparsable, Disconnect, HandlerDone, CheckStart,
           CheckUnfinished
<1>2. QED
  BY <1>1, Invariance, PTL DEF Spec
===============================================================================
