-------------------------- MODULE EasyFetch_proofs --------------------------
(***************************************************************************)
(* Proofs about EasyFetch.  Every step of the page is a step of the server, *)
(* so the server's invariant comes for free; what is left is the page's    *)
(* own state.                                                              *)
(***************************************************************************)
EXTENDS EasyFetch, ServerPending_proofs

\* The page never takes a step the server could not take.
LEMMA PageStepIsServerStep == PageNext => Next
<1> SUFFICES ASSUME PageNext PROVE Next
  OBVIOUS
<1>1. ASSUME NEW c \in Conns, NEW r \in Reqs, NotFound(c, r) \/ Post(c, r) \/ NoContext(c, r)
      PROVE  Next
  BY <1>1 DEF NotFound, Post, NoContext, Next
<1>2. ASSUME NEW c \in Conns, NEW r \in Reqs, NEW started \in BOOLEAN, Get(c, r, started)
      PROVE  Next
  <2>1. ReadPending(c, r, "NPROCESSED", TRUE, started)
    BY <1>2 DEF Get
  <2>2. "NPROCESSED" \in Unfinished
    BY <2>1 DEF ReadPending
  <2>3. QED
    BY <2>1, <2>2 DEF Next
<1>3. ASSUME NEW r \in Reqs, github_apicall(r) PROVE Next
  BY <1>3 DEF github_apicall, Next
<1>4. CASE ServerStep
  BY <1>4 DEF ServerStep, Next
<1>5. QED
  BY <1>1, <1>2, <1>3, <1>4 DEF PageNext

\* A request answered inside the read callback is fresh: no context, no operation.
LEMMA AnsweredAtOnce ==
    ASSUME PageInv, IInv', NEW c \in Conns, NEW r \in Reqs,
           NotFound(c, r) \/ Post(c, r) \/ NoContext(c, r)
    PROVE  PageInv'
<1>1. /\ mem[r] = "none" /\ mem' = [mem EXCEPT ![r] = "freed"]
      /\ owner' = [owner EXCEPT ![r] = c]
      /\ replies' = [replies EXCEPT ![r] = Append(@, c)]
      /\ UNCHANGED <<bev, hook, told, running, ctx>>
  BY DEF NotFound, Post, NoContext, ReadProcessed, ReadFirst
<1>2. /\ \E b \in {"heap", "literal"} : body' = [body EXCEPT ![r] = b]
      /\ isliteral \subseteq isliteral' /\ isliteral' \subseteq isliteral \cup {r}
  BY DEF NotFound, Post, NoContext
<1>3. r \notin told
  BY <1>1 DEF PageInv, IInv, Bookkeeping
<1>4. ctx[r] = "none"
  BY <1>1 DEF PageInv
<1>5. \A q \in told' : replies'[q] = <<>> /\ bev'[owner'[q]] = "freed"
  BY <1>1, <1>3 DEF PageInv, IInv, TypeOK
<1>6. body' \in [Reqs -> {"none", "heap", "literal"}] /\ isliteral' \subseteq Reqs
  BY <1>2 DEF PageInv
<1>7. \A q \in Reqs : q # r => body'[q] = body[q] /\ (q \in isliteral' <=> q \in isliteral)
                                 /\ mem'[q] = mem[q]
  BY <1>1, <1>2 DEF PageInv, IInv, TypeOK
<1>8. mem'[r] = "freed"
  BY <1>1 DEF PageInv, IInv, TypeOK
<1>9. CallbackBodies'
  BY <1>1, <1>4, <1>7 DEF PageInv, CallbackBodies
<1>10. QED
  BY <1>1, <1>4, <1>5, <1>6, <1>7, <1>8, <1>9 DEF PageInv

\* A GET allocates the context of a fresh request.
LEMMA GetInv ==
    ASSUME PageInv, IInv', NEW c \in Conns, NEW r \in Reqs, NEW started \in BOOLEAN,
           Get(c, r, started)
    PROVE  PageInv'
<1>1. /\ mem[r] = "none" /\ mem' = [mem EXCEPT ![r] = "live"]
      /\ owner' = [owner EXCEPT ![r] = c]
      /\ hook' \subseteq hook \cup {r} /\ running' \subseteq running \cup {r}
      /\ ctx' = [ctx EXCEPT ![r] = "alloc"]
      /\ UNCHANGED <<bev, told, replies, body, isliteral>>
  BY DEF Get, ReadPending, ReadFirst
<1>2. r \notin told
  BY <1>1 DEF PageInv, IInv, Bookkeeping
<1>3. body[r] = "none" /\ r \notin isliteral
  BY <1>1 DEF PageInv
<1>4. \A q \in told' : replies'[q] = <<>> /\ bev'[owner'[q]] = "freed"
  BY <1>1, <1>2 DEF PageInv, IInv, TypeOK
<1>5. \A q \in running' \cup hook' : ctx'[q] = "alloc"
  BY <1>1 DEF PageInv
<1>6. \A q \in Reqs : mem'[q] = "none" => mem[q] = "none" /\ q # r
  BY <1>1 DEF PageInv, IInv, TypeOK
<1>7. CallbackBodies'
  BY <1>1 DEF PageInv, CallbackBodies
<1>8. QED
  BY <1>1, <1>3, <1>4, <1>5, <1>6, <1>7 DEF PageInv

\* The callback gives the body and its flag together and leaves no pointer behind.
LEMMA ApicallInv ==
    ASSUME PageInv, IInv', NEW r \in Reqs, github_apicall(r)
    PROVE  PageInv'
<1>1. /\ r \in running /\ running' = running \ {r} /\ hook' = hook \ {r}
      /\ ctx' = [ctx EXCEPT ![r] = "freed"]
      /\ UNCHANGED <<bev, mem, owner, told, replies>>
  BY DEF github_apicall, HandlerDone
<1>2. ctx[r] = "alloc" /\ body[r] = "none" /\ r \notin isliteral
  BY <1>1 DEF PageInv
<1>3. \/ UNCHANGED <<body, isliteral>>
      \/ body' = [body EXCEPT ![r] = "heap"] /\ UNCHANGED isliteral
      \/ body' = [body EXCEPT ![r] = "literal"] /\ isliteral' = isliteral \cup {r}
  BY DEF github_apicall
<1>4. body' \in [Reqs -> {"none", "heap", "literal"}] /\ isliteral' \subseteq Reqs
  BY <1>3 DEF PageInv
<1>5. \A q \in Reqs : q # r => body'[q] = body[q] /\ (q \in isliteral' <=> q \in isliteral)
  BY <1>3 DEF PageInv
<1>6. r \in isliteral' <=> body'[r] = "literal"
  BY <1>2, <1>3 DEF PageInv
<1>7. mem[r] # "none"
  BY <1>2 DEF PageInv
<1>8. CallbackBodies'
  BY <1>1, <1>5, <1>6 DEF PageInv, CallbackBodies
<1>9. \A q \in running' \cup hook' : ctx'[q] = "alloc"
  BY <1>1 DEF PageInv, IInv, TypeOK
<1>10. QED
  BY <1>1, <1>4, <1>5, <1>7, <1>8, <1>9 DEF PageInv

\* The server's own steps: only a disconnect tells a handler, and only the timer
\* answers, which it does not do for a client that is gone.
LEMMA ServerStepInv ==
    ASSUME PageInv, IInv', ServerStep
    PROVE  PageInv'
<1>1. ASSUME UNCHANGED <<running, hook>> \/ (running' = running /\ hook' \subseteq hook),
             \A q \in told' : replies'[q] = <<>> /\ bev'[owner'[q]] = "freed",
             \A q \in Reqs : mem'[q] = "none" => mem[q] = "none"
      PROVE  PageInv'
  BY <1>1 DEF ServerStep, pageVars, PageInv, CallbackBodies
<1>2. ASSUME NEW c \in Conns, Accept(c) \/ Receive(c) \/ ReadUnparsable(c)
      PROVE  PageInv'
  <2>1. UNCHANGED <<running, hook, told, replies, owner, mem>>
    BY <1>2 DEF Accept, Receive, ReadUnparsable
  <2>2. \A q \in told : bev'[owner[q]] = "freed"
    <3>1. bev' = bev \/ (bev[c] = "none" /\ bev' = [bev EXCEPT ![c] = "open"])
      BY <1>2 DEF Accept, Receive, ReadUnparsable
    <3>2. \A q \in told : owner[q] \in Conns /\ bev[owner[q]] = "freed"
      BY DEF PageInv, IInv, TypeOK, Bookkeeping
    <3>3. QED
      BY <3>1, <3>2 DEF PageInv, IInv, TypeOK
  <2>3. QED
    BY <1>1, <2>1, <2>2 DEF PageInv
<1>3. ASSUME NEW c \in Conns, Disconnect(c) PROVE PageInv'
  <2> DEFINE hit == {pending[i].req : i \in EntriesOf(c)}
  <2>1. /\ bev' = [bev EXCEPT ![c] = "freed"]
        /\ hook' = hook \ hit /\ told' = told \cup (hit \cap hook)
        /\ UNCHANGED <<running, replies, owner, mem>>
    BY <1>3 DEF Disconnect, CancelPending
  <2>2. ASSUME NEW q \in hit PROVE replies[q] = <<>> /\ owner[q] = c
    <3>1. PICK i \in 1..Len(pending) : pending[i].bev = c /\ pending[i].req = q
      BY DEF EntriesOf
    <3>2. q \in Reqs /\ mem[q] = "live"
      BY <3>1, EntryFacts DEF PageInv
    <3>3. replies[q] = <<>>
      BY <3>2 DEF PageInv, IInv, SettledRightly
    <3>4. c # NoConn
      BY ServerAssumption DEF ServerAssumption
    <3>5. owner[q] = c
      BY <3>1, <3>4 DEF PageInv, IInv, NoDanglingBev
    <3>6. QED
      BY <3>3, <3>5
  <2>3. \A q \in told' : replies'[q] = <<>> /\ bev'[owner'[q]] = "freed"
    <3> HIDE DEF hit
    <3> QED BY <2>1, <2>2 DEF PageInv, IInv, TypeOK
  <2>4. QED
    BY <1>1, <2>1, <2>3
<1>4. CASE CheckStart \/ CheckUnfinished
  <2>1. UNCHANGED <<running, hook, told, replies, owner, mem, bev>>
    BY <1>4 DEF CheckStart, CheckUnfinished
  <2>2. QED
    BY <1>1, <2>1 DEF PageInv
<1>5. CASE CheckFinished
  <2> DEFINE q == pending[cursor].req
  <2>1. /\ q \in Reqs /\ mem[q] = "live"
        /\ mem' = [mem EXCEPT ![q] = "freed"]
        /\ UNCHANGED <<bev, owner, hook, told, running>>
        /\ \/ bev[owner[q]] = "open" /\ replies' = [replies EXCEPT ![q] = <<owner[q]>>]
           \/ UNCHANGED replies
    BY <1>5, FinishedNode DEF PageInv
  <2> HIDE DEF q
  <2>2. \A p \in told : replies'[p] = <<>> /\ bev[owner[p]] = "freed"
    BY <2>1 DEF PageInv, IInv, TypeOK
  <2>3. \A p \in Reqs : mem'[p] = "none" => mem[p] = "none"
    BY <2>1 DEF PageInv, IInv, TypeOK
  <2>4. QED
    BY <1>1, <2>1, <2>2, <2>3
<1>6. CASE Stop
  <2>1. /\ UNCHANGED <<running, hook, told, replies, owner, bev>>
        /\ \A q \in Reqs : mem'[q] = "none" => mem[q] = "none"
    BY <1>6 DEF Stop, PageInv, IInv, TypeOK
  <2>2. QED
    BY <1>1, <2>1 DEF PageInv
<1>7. QED
  BY <1>2, <1>3, <1>4, <1>5, <1>6 DEF ServerStep

\* The page's invariant holds at the start...
LEMMA PageInvInit == PageInit => PageInv
BY InvInit DEF PageInit, Init, PageInv, CallbackBodies

\* ... and every step keeps it.
LEMMA PageInvStep == PageInv /\ [PageNext]_allVars => PageInv'
<1> SUFFICES ASSUME PageInv, [PageNext]_allVars PROVE PageInv'
  OBVIOUS
<1>1. IInv'
  <2>1. [Next]_vars
    BY PageStepIsServerStep DEF allVars
  <2>2. QED
    BY <2>1, InvStep DEF PageInv
<1>2. CASE UNCHANGED allVars
  BY <1>1, <1>2 DEF allVars, vars, pageVars, PageInv, CallbackBodies
<1>3. CASE PageNext
  BY <1>1, <1>3, AnsweredAtOnce, GetInv, ApicallInv, ServerStepInv DEF PageNext
<1>4. QED
  BY <1>2, <1>3

\* The inductive invariant of the page on the server.
THEOREM PageInvariance == PageSpec => []PageInv
BY PageInvInit, PageInvStep, PTL DEF PageSpec

\* Neither the transfer's callback nor the cancel hook ever meets freed memory.
THEOREM CallbackMemoryCorrect == PageSpec => []CallbackMemory
<1>1. PageInv => CallbackMemory
  BY DEF PageInv, IInv, TypeOK, HandlerWritesLive, CallbackMemory
<1>2. QED
  BY <1>1, PageInvariance, PTL

\* A client that left is never written to.
THEOREM GoneNeverAnsweredCorrect == PageSpec => []GoneNeverAnswered
<1>1. PageInv => GoneNeverAnswered
  BY DEF PageInv, GoneNeverAnswered
<1>2. QED
  BY <1>1, PageInvariance, PTL

\* The bodies the callback leaves are freed exactly when they are heap blocks.
THEOREM CallbackBodiesCorrect == PageSpec => []CallbackBodies
BY PageInvariance, PTL DEF PageInv

\* The page keeps the promise of the server: each request is answered at most once, on
\* the connection it came on, and not before its handler is done.
THEOREM PageRefinement == PageSpec => Service!SafeSpec
<1>1. PageInit => Service!Init
  BY RefinementInit DEF PageInit
<1>2. PageInv /\ PageInv' /\ [PageNext]_allVars => [Service!Next]_(Service!absVars)
  <2>1. [PageNext]_allVars => [Next]_vars
    BY PageStepIsServerStep DEF allVars
  <2>2. PageInv => IInv
    BY DEF PageInv
  <2>3. PageInv' => IInv'
    BY DEF PageInv
  <2>4. QED
    BY <2>1, <2>2, <2>3, RefinementStep
<1>3. QED
  BY <1>1, <1>2, PageInvariance, PTL DEF PageSpec, Service!SafeSpec
===============================================================================
