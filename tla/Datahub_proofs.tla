--------------------------- MODULE Datahub_proofs ---------------------------
(***************************************************************************)
(* Proofs about Datahub.  Every step of the page is a step of the server   *)
(* or leaves it alone, so the server's invariant comes for free; what is   *)
(* left is that the counter agrees with the operations under way.          *)
(***************************************************************************)
EXTENDS Datahub, ServerPending_proofs, FiniteSetTheorems

\* The numbers of operations there can be.
LEMMA OpsCount ==
    ASSUME NEW S \in SUBSET {"github", "db"}
    PROVE  /\ Cardinality(S) \in 0..2
           /\ Cardinality(S) = 0 <=> S = {}
           /\ \A op \in S : Cardinality(S \ {op}) = Cardinality(S) - 1
<1>1. IsFiniteSet({"github", "db"}) /\ Cardinality({"github", "db"}) = 2
  <2>1. /\ IsFiniteSet({}) /\ Cardinality({}) = 0
    BY FS_EmptySet
  <2>2. IsFiniteSet({} \cup {"db"}) /\ Cardinality({} \cup {"db"}) = 1
    BY <2>1, FS_AddElement
  <2>3. {} \cup {"db"} = {"db"}
    OBVIOUS
  <2>4. IsFiniteSet({"db"} \cup {"github"}) /\ Cardinality({"db"} \cup {"github"}) = 2
    BY <2>2, <2>3, FS_AddElement
  <2>5. {"db"} \cup {"github"} = {"github", "db"}
    OBVIOUS
  <2>6. QED
    BY <2>4, <2>5
<1>2. IsFiniteSet(S) /\ Cardinality(S) <= 2 /\ Cardinality(S) \in Nat
  BY <1>1, FS_Subset, FS_CardinalityType
<1>3. Cardinality(S) = 0 <=> S = {}
  BY <1>2, FS_EmptySet
<1>4. \A op \in S : Cardinality(S \ {op}) = Cardinality(S) - 1
  BY <1>2, FS_RemoveElement
<1>5. QED
  BY <1>2, <1>3, <1>4

\* What the start calls leave behind, for each of the ten ways they can go.
LEMMA StartedWorks ==
    ASSUME NEW gh \in GithubStarts, NEW db \in DbStarts
    PROVE  /\ Started(gh, db) \in Machine
           /\ Started(gh, db).fires \in {0, 1}
           /\ Running(gh, db) \in SUBSET {"github", "db"}
           /\ Started(gh, db).fires = 0 => Started(gh, db).pending = Cardinality(Running(gh, db))
           /\ Started(gh, db).fires = 1 => Running(gh, db) = {}
           /\ Started(gh, db).github = "none" <=> "github" \in Running(gh, db)
           /\ Started(gh, db).db = "none" <=> "db" \in Running(gh, db)
<1> DEFINE M(p, g, d, f) == [pending |-> p, github |-> g, db |-> d,
                             fires |-> f]
<1>1. /\ Cardinality({}) = 0 /\ Cardinality({"github"}) = 1 /\ Cardinality({"db"}) = 1
      /\ Cardinality({"github", "db"}) = 2
  <2>1. Cardinality({}) = 0 /\ \A x : Cardinality({x}) = 1
    BY FS_EmptySet, FS_Singleton
  <2>2. Cardinality({"github", "db"} \ {"db"}) = Cardinality({"github", "db"}) - 1
        /\ Cardinality({"github", "db"}) \in 0..2
    BY OpsCount
  <2>3. {"github", "db"} \ {"db"} = {"github"}
    OBVIOUS
  <2>4. QED
    BY <2>1, <2>2, <2>3
<1>2. CASE gh = "refused"
  <2>1. StartGithub(NewMachine, gh) = M(0, "error", "none", 0)
    BY <1>2 DEF StartGithub, NewMachine
  <2>2. CASE db \in {"unset", "refused"}
    <3>1. Started(gh, db) = M(0, "error", "error", 0) /\ Running(gh, db) = {}
      BY <1>2, <2>1, <2>2 DEF Started, StartDb, Running
    <3>2. QED
      BY <1>1, <3>1 DEF Machine, Outcome
  <2>3. CASE db = "running"
    <3>1. Started(gh, db) = M(1, "error", "none", 0) /\ Running(gh, db) = {"db"}
      BY <1>2, <2>1, <2>3 DEF Started, StartDb, Running
    <3>2. QED
      BY <1>1, <3>1 DEF Machine, Outcome
  <2>4. CASE db \in {"data", "error"}
    <3>1. Started(gh, db) = M(0, "error", db, 1) /\ Running(gh, db) = {}
      BY <1>2, <2>1, <2>4 DEF Started, StartDb, DbCb, CheckCompletion, Completion, Decremented,
         Running
    <3>2. QED
      BY <2>4, <1>1, <3>1 DEF Machine, Outcome
  <2>5. QED
    BY <2>2, <2>3, <2>4 DEF DbStarts
<1>3. CASE gh = "running"
  <2>1. StartGithub(NewMachine, gh) = M(1, "none", "none", 0)
    BY <1>3 DEF StartGithub, NewMachine
  <2>2. CASE db \in {"unset", "refused"}
    <3>1. Started(gh, db) = M(1, "none", "error", 0) /\ Running(gh, db) = {"github"}
      BY <1>3, <2>1, <2>2 DEF Started, StartDb, Running
    <3>2. QED
      BY <1>1, <3>1 DEF Machine, Outcome
  <2>3. CASE db = "running"
    <3>1. Started(gh, db) = M(2, "none", "none", 0) /\ Running(gh, db) = {"github", "db"}
      BY <1>3, <2>1, <2>3 DEF Started, StartDb, Running
    <3>2. QED
      BY <1>1, <3>1 DEF Machine, Outcome
  <2>4. CASE db \in {"data", "error"}
    <3>1. Started(gh, db) = M(1, "none", db, 0) /\ Running(gh, db) = {"github"}
      BY <1>3, <2>1, <2>4 DEF Started, StartDb, DbCb, CheckCompletion, Completion, Decremented,
         Running
    <3>2. QED
      BY <2>4, <1>1, <3>1 DEF Machine, Outcome
  <2>5. QED
    BY <2>2, <2>3, <2>4 DEF DbStarts
<1>4. QED
  BY <1>2, <1>3 DEF GithubStarts

\* A completion of a machine that has not fired.
LEMMA CompletionWorks ==
    ASSUME NEW m \in Machine
    PROVE  /\ Completion(m) \in Machine /\ Completion(m).fires = m.fires + 1
           /\ Completion(m).github = m.github /\ Completion(m).db = m.db
BY DEF Completion, Machine

\* A callback completes the page exactly when it is that of the last operation.
LEMMA CallbackWorks ==
    ASSUME NEW m \in Machine, m.fires = 0, m.pending \in 1..2,
           NEW result \in {"data", "error"},
           NEW n, \/ n = FetchCb(m, result)
                  \/ n = DbCb(m, result)
    PROVE  /\ n \in Machine /\ n.fires \in {0, 1}
           /\ n.fires = 1 <=> m.pending = 1
           /\ n.fires = 0 => n.pending = m.pending - 1
           /\ n = FetchCb(m, result) => n.github = result /\ n.db = m.db
           /\ n = DbCb(m, result) => n.db = result /\ n.github = m.github
<1> DEFINE g == [pending |-> m.pending - 1, github |-> result, db |-> m.db, fires |-> m.fires]
           d == [pending |-> m.pending - 1, github |-> m.github, db |-> result, fires |-> m.fires]
<1>1. /\ FetchCb(m, result) = CheckCompletion(g) /\ DbCb(m, result) = CheckCompletion(d)
  BY DEF FetchCb, DbCb, Decremented, Machine
<1>2. /\ g \in Machine /\ g.fires = 0 /\ g.pending = m.pending - 1
      /\ g.github = result /\ g.db = m.db
  BY DEF Machine, Outcome
<1>3. /\ d \in Machine /\ d.fires = 0 /\ d.pending = m.pending - 1
      /\ d.db = result /\ d.github = m.github
  BY DEF Machine, Outcome
<1> HIDE DEF g, d
<1>4. ASSUME NEW x \in Machine, x.fires = 0, x.pending = m.pending - 1
      PROVE  /\ CheckCompletion(x) \in Machine /\ CheckCompletion(x).fires \in {0, 1}
             /\ CheckCompletion(x).fires = 1 <=> m.pending = 1
             /\ CheckCompletion(x).fires = 0 =>
                   CheckCompletion(x).pending = m.pending - 1
             /\ CheckCompletion(x).github = x.github /\ CheckCompletion(x).db = x.db
  <2>1. CASE x.pending = 0
    BY <1>4, <2>1, CompletionWorks DEF CheckCompletion
  <2>2. CASE x.pending # 0
    BY <1>4, <2>2 DEF CheckCompletion
  <2>3. QED
    BY <2>1, <2>2
<1>5. QED
  BY <1>1, <1>2, <1>3, <1>4

-------------------------------------------------------------------------------
\* The page takes no step on the server's state the server could not take.
LEMMA HubStepIsServerStep == HubNext => Next \/ UNCHANGED vars
<1> SUFFICES ASSUME HubNext PROVE Next \/ UNCHANGED vars
  OBVIOUS
<1>1. ASSUME NEW c \in Conns, NEW r \in Reqs, ReadProcessed(c, r) PROVE Next
  BY <1>1 DEF Next
<1>2. ASSUME NEW c \in Conns, NEW r \in Reqs, NEW works \in BOOLEAN,
             ReadPending(c, r, "PROCESSING", FALSE, works)
      PROVE  Next
  <2>1. "PROCESSING" \in Unfinished
    BY <1>2 DEF ReadPending
  <2>2. QED
    BY <1>2, <2>1 DEF Next
<1>3. ASSUME NEW c \in Conns, NEW r \in Reqs, NoMachine(c, r) PROVE Next
  BY <1>1, <1>3 DEF NoMachine
<1>4. ASSUME NEW c \in Conns, NEW r \in Reqs, NEW gh \in GithubStarts, NEW db \in DbStarts,
             CompleteAtOnce(c, r, gh, db) \/ Wait(c, r, gh, db) \/ ReadFreed(c, r, gh, db)
      PROVE  Next
  BY <1>1, <1>2, <1>4 DEF CompleteAtOnce, Wait, ReadFreed
<1>5. ASSUME NEW r \in Reqs, FetchEnds(r) \/ DbEnds(r) PROVE Next \/ UNCHANGED vars
  <2>1. HandlerDone(r) \/ UNCHANGED vars
    BY <1>5 DEF FetchEnds, DbEnds, OperationEnds
  <2>2. QED
    BY <2>1 DEF Next
<1>6. CASE ServerStep
  BY <1>6 DEF ServerStep, Next
<1>7. QED
  BY <1>3, <1>4, <1>5, <1>6 DEF HubNext

\* A step that is about one request leaves the others as they are.
LEMMA OneRequest ==
    ASSUME HubInv, IInv', HubTypes', NEW r \in Reqs, ReqInv(r)', loop' = loop,
           \A q \in Reqs : q # r =>
              /\ mem'[q] = mem[q] /\ state'[q] = state[q]
              /\ machine'[q] = machine[q] /\ ops'[q] = ops[q]
              /\ q \in running' <=> q \in running
              /\ q \in undefined' <=> q \in undefined
    PROVE  HubInv'
<1>1. ASSUME NEW q \in Reqs, q # r PROVE ReqInv(q)'
  <2>1. ReqInv(q)
    BY DEF HubInv
  <2>2. QED
    BY <1>1, <2>1 DEF ReqInv, Defined
<1>2. QED
  BY <1>1 DEF HubInv

\* A request that the read callback takes in is fresh.
LEMMA FreshRequest ==
    ASSUME HubInv, NEW c \in Conns, NEW r \in Reqs, ReadFirst(c, r)
    PROVE  /\ mem[r] = "none" /\ machine[r] = NewMachine /\ ops[r] = {}
           /\ r \notin undefined /\ r \notin running /\ loop = "running"
<1>1. mem[r] = "none" /\ loop = "running"
  BY DEF ReadFirst, Idle
<1>2. r \notin running
  BY <1>1 DEF HubInv, IInv, HandlerWritesLive
<1>3. QED
  BY <1>1, <1>2 DEF HubInv, ReqInv

\* The page answers inside the read callback.
LEMMA HubAtOnceInv ==
    ASSUME HubInv, IInv', NEW c \in Conns, NEW r \in Reqs, ReadProcessed(c, r),
           HubTypes', UNCHANGED ops,
           \A q \in Reqs : q # r => machine'[q] = machine[q]
                                  /\ (q \in undefined' <=> q \in undefined),
           r \notin undefined' => machine'[r].fires \in {0, 1},
           machine'[r].fires > 0 => machine'[r].github # "none" /\ machine'[r].db # "none"
    PROVE  HubInv'
<1>1. /\ mem[r] = "none" /\ ops[r] = {} /\ r \notin running
      /\ loop' = loop /\ running' = running
      /\ mem' = [mem EXCEPT ![r] = "freed"] /\ state' = [state EXCEPT ![r] = "PROCESSED"]
  BY FreshRequest DEF ReadProcessed
<1>2. mem'[r] = "freed"
  BY <1>1 DEF HubInv, IInv, TypeOK
<1>3. ReqInv(r)'
  BY <1>1, <1>2 DEF ReqInv, Defined
<1>4. \A q \in Reqs : q # r => mem'[q] = mem[q] /\ state'[q] = state[q]
  BY <1>1 DEF HubInv, IInv, TypeOK
<1>5. QED
  BY <1>1, <1>3, <1>4, OneRequest

\* The page leaves a response that waits, or one that nothing will finish.
LEMMA HubPendingInv ==
    ASSUME HubInv, IInv', NEW c \in Conns, NEW r \in Reqs,
           NEW gh \in GithubStarts, NEW db \in DbStarts,
           NEW works \in BOOLEAN, ReadPending(c, r, "PROCESSING", FALSE, works),
           HubTypes',
           machine' = [machine EXCEPT ![r] = Started(gh, db)],
           works <=> ops'[r] # {},
           ops'[r] # {} => ops'[r] = Running(gh, db) /\ Started(gh, db).fires = 0,
           \A q \in Reqs : q # r => ops'[q] = ops[q]
                                  /\ (q \in undefined' <=> q \in undefined),
           r \notin undefined' => ops'[r] # {}
    PROVE  HubInv'
<1>1. /\ mem[r] = "none" /\ r \notin running /\ loop = "running" /\ loop' = loop
      /\ running' = IF works THEN running \cup {r} ELSE running
      /\ mem' = [mem EXCEPT ![r] = "live"] /\ state' = [state EXCEPT ![r] = "PROCESSING"]
  BY FreshRequest DEF ReadPending
<1>2. mem'[r] = "live" /\ machine'[r] = Started(gh, db)
  BY <1>1 DEF HubInv, HubTypes, IInv, TypeOK
<1>3. ReqInv(r)'
  <2>1. r \in running' <=> ops'[r] # {}
    BY <1>1
  <2>2. machine'[r].fires \in {0, 1}
    BY <1>2, StartedWorks
  <2>3. machine'[r].fires > 0 =>
           ops'[r] = {} /\ machine'[r].github # "none" /\ machine'[r].db # "none"
    BY <1>2, StartedWorks
  <2>4. ops'[r] # {} =>
           /\ machine'[r].fires = 0
           /\ machine'[r].pending = Cardinality(ops'[r])
           /\ machine'[r].github = "none" <=> "github" \in ops'[r]
           /\ machine'[r].db = "none" <=> "db" \in ops'[r]
    BY <1>2, StartedWorks
  <2>5. QED
    BY <1>2, <2>1, <2>2, <2>3, <2>4 DEF ReqInv, Defined
<1>4. \A q \in Reqs : q # r => /\ mem'[q] = mem[q] /\ state'[q] = state[q]
                              /\ machine'[q] = machine[q]
                              /\ q \in running' <=> q \in running
  BY <1>1 DEF HubInv, HubTypes, IInv, TypeOK
<1>5. QED
  BY <1>1, <1>3, <1>4, OneRequest

\* The three ways the handler can end.
LEMMA HubReadInv ==
    ASSUME HubInv, IInv', NEW c \in Conns, NEW r \in Reqs,
           NEW gh \in GithubStarts, NEW db \in DbStarts,
           CompleteAtOnce(c, r, gh, db) \/ Wait(c, r, gh, db) \/ ReadFreed(c, r, gh, db)
    PROVE  HubInv'
<1> DEFINE m == Started(gh, db)
<1>1. /\ m \in Machine /\ m.fires \in {0, 1}
      /\ m.fires = 0 => m.pending = Cardinality(Running(gh, db))
      /\ m.fires = 1 => Running(gh, db) = {}
      /\ Running(gh, db) \in SUBSET {"github", "db"}
      /\ m.github = "none" <=> "github" \in Running(gh, db)
      /\ m.db = "none" <=> "db" \in Running(gh, db)
  BY StartedWorks
<1>2. /\ Completion(m) \in Machine /\ Completion(m).fires = m.fires + 1
      /\ Completion(m).github = m.github /\ Completion(m).db = m.db
  BY <1>1, CompletionWorks
<1>3. Cardinality(Running(gh, db)) = 0 <=> Running(gh, db) = {}
  BY <1>1, OpsCount
<1>4. machine \in [Reqs -> Machine] /\ ops \in [Reqs -> SUBSET {"github", "db"}]
      /\ undefined \subseteq Reqs
  BY DEF HubInv, HubTypes
<1> HIDE DEF m
<1>5. CASE CompleteAtOnce(c, r, gh, db)
  <2>1. /\ m.fires = 0 /\ m.pending = 0 /\ ReadProcessed(c, r)
        /\ machine' = [machine EXCEPT ![r] = Completion(m)] /\ UNCHANGED <<ops, undefined>>
    BY <1>5 DEF CompleteAtOnce, m
  <2>2. HubTypes' /\ machine'[r] = Completion(m)
    BY <1>2, <1>4, <2>1 DEF HubTypes
  <2>3. m.github # "none" /\ m.db # "none"
    BY <1>1, <1>3, <2>1
  <2>4. machine'[r].fires = 1 /\ machine'[r].github # "none" /\ machine'[r].db # "none"
    BY <1>2, <2>1, <2>2, <2>3
  <2>5. \A q \in Reqs : q # r => machine'[q] = machine[q]
    BY <1>4, <2>1
  <2>6. QED
    BY <2>1, <2>2, <2>4, <2>5, HubAtOnceInv
<1>6. CASE Wait(c, r, gh, db)
  <2>1. /\ m.fires = 0 /\ m.pending > 0 /\ ReadPending(c, r, "PROCESSING", FALSE, TRUE)
        /\ machine' = [machine EXCEPT ![r] = m]
        /\ ops' = [ops EXCEPT ![r] = Running(gh, db)] /\ UNCHANGED undefined
    BY <1>6 DEF Wait, m
  <2>2. HubTypes' /\ ops'[r] = Running(gh, db)
    BY <1>1, <1>4, <2>1 DEF HubTypes
  <2>3. ops'[r] # {}
    BY <1>1, <1>3, <2>1, <2>2
  <2>4. \A q \in Reqs : q # r => ops'[q] = ops[q]
    BY <1>4, <2>1
  <2>5. QED
    BY <2>1, <2>2, <2>3, <2>4, HubPendingInv DEF m
<1>7. CASE ReadFreed(c, r, gh, db)
  <2>1. m.fires = 1 /\ undefined' = undefined \cup {r} /\ UNCHANGED ops
    BY <1>1, <1>7 DEF ReadFreed, m
  <2>2. m.github # "none" /\ m.db # "none"
    BY <1>1, <2>1
  <2>3. CASE ReadProcessed(c, r) /\ machine' = [machine EXCEPT ![r] = Completion(m)]
    <3>1. HubTypes' /\ machine'[r] = Completion(m)
      BY <1>2, <1>4, <2>1, <2>3 DEF HubTypes
    <3>2. \A q \in Reqs : q # r => machine'[q] = machine[q]
      BY <1>4, <2>3
    <3>3. \A q \in Reqs : q # r => (q \in undefined' <=> q \in undefined)
      BY <2>1
    <3>4. r \in undefined' /\ machine'[r].github # "none" /\ machine'[r].db # "none"
      BY <1>2, <2>1, <2>2, <3>1
    <3>5. QED
      BY <2>1, <2>3, <3>1, <3>2, <3>3, <3>4, HubAtOnceInv
  <2>4. CASE /\ ReadPending(c, r, "PROCESSING", FALSE, FALSE)
             /\ machine' = [machine EXCEPT ![r] = m]
    <3>1. HubTypes'
      BY <1>1, <1>4, <2>1, <2>4 DEF HubTypes
    <3>2. ops[r] = {}
      BY <2>4, FreshRequest DEF ReadPending
    <3>3. r \in undefined' /\ \A q \in Reqs : q # r => (q \in undefined' <=> q \in undefined)
      BY <2>1
    <3>4. QED
      BY <2>1, <2>4, <3>1, <3>2, <3>3, HubPendingInv DEF m
  <2>5. QED
    BY <1>7, <2>3, <2>4 DEF ReadFreed, m
<1>8. QED
  BY <1>5, <1>6, <1>7

\* One operation ends; the last one to end completes the page.
LEMMA OperationEndsInv ==
    ASSUME HubInv, IInv', NEW r \in Reqs, FetchEnds(r) \/ DbEnds(r)
    PROVE  HubInv'
<1>0. PICK result \in {"data", "error"}, op \in {"github", "db"} :
          \E n : /\ n = IF op = "github" THEN FetchCb(machine[r], result)
                                        ELSE DbCb(machine[r], result)
                /\ OperationEnds(r, op, n)
  BY DEF FetchEnds, DbEnds
<1>1. PICK n : /\ n = IF op = "github" THEN FetchCb(machine[r], result)
                                       ELSE DbCb(machine[r], result)
               /\ OperationEnds(r, op, n)
  BY <1>0
<1>2. /\ loop = "running" /\ op \in ops[r] /\ UNCHANGED undefined
      /\ ops' = [ops EXCEPT ![r] = ops[r] \ {op}] /\ machine' = [machine EXCEPT ![r] = n]
      /\ IF n.fires > machine[r].fires THEN HandlerDone(r) ELSE UNCHANGED vars
  BY <1>1 DEF OperationEnds, Idle
<1>3. /\ machine \in [Reqs -> Machine] /\ ops \in [Reqs -> SUBSET {"github", "db"}]
      /\ undefined \subseteq Reqs
  BY DEF HubInv, HubTypes
<1>4. /\ machine[r].fires = 0 /\ machine[r].pending = Cardinality(ops[r])
      /\ machine[r].github = "none" <=> "github" \in ops[r]
      /\ machine[r].db = "none" <=> "db" \in ops[r]
      /\ r \in running /\ mem[r] # "none"
  <2>1. ReqInv(r)
    BY DEF HubInv
  <2>2. QED
    BY <1>2, <2>1 DEF ReqInv
<1>5. /\ machine[r].pending \in 1..2
      /\ Cardinality(ops[r] \ {op}) = machine[r].pending - 1
      /\ Cardinality(ops[r] \ {op}) = 0 <=> ops[r] \ {op} = {}
  <2>1. ops[r] \in SUBSET {"github", "db"} /\ ops[r] \ {op} \in SUBSET {"github", "db"}
    BY <1>3
  <2>2. /\ Cardinality(ops[r]) \in 0..2
        /\ Cardinality(ops[r]) = 0 <=> ops[r] = {}
        /\ Cardinality(ops[r] \ {op}) = Cardinality(ops[r]) - 1
    BY <1>2, <2>1, OpsCount
  <2>3. Cardinality(ops[r] \ {op}) = 0 <=> ops[r] \ {op} = {}
    BY <2>1, OpsCount
  <2>4. ops[r] # {}
    BY <1>2
  <2>5. QED
    BY <1>4, <2>2, <2>3, <2>4
<1>6. /\ n \in Machine /\ n.fires \in {0, 1}
      /\ n.fires = 1 <=> machine[r].pending = 1
      /\ n.fires = 0 => n.pending = machine[r].pending - 1
      /\ op = "github" => n.github = result /\ n.db = machine[r].db
      /\ op = "db" => n.db = result /\ n.github = machine[r].github
  <2>1. machine[r] \in Machine
    BY <1>3
  <2>2. CASE op = "github"
    BY <1>1, <1>4, <1>5, <2>1, <2>2, CallbackWorks
  <2>3. CASE op = "db"
    BY <1>1, <1>4, <1>5, <2>1, <2>3, CallbackWorks
  <2>4. QED
    BY <2>2, <2>3
<1>7. /\ HubTypes' /\ machine'[r] = n /\ ops'[r] = ops[r] \ {op}
      /\ \A q \in Reqs : q # r => machine'[q] = machine[q] /\ ops'[q] = ops[q]
  BY <1>2, <1>3, <1>6 DEF HubTypes
<1>8. /\ n.github = "none" <=> "github" \in ops'[r]
      /\ n.db = "none" <=> "db" \in ops'[r]
  <2>1. result # "none"
    OBVIOUS
  <2>2. CASE op = "github"
    BY <1>4, <1>6, <1>7, <2>1, <2>2
  <2>3. CASE op = "db"
    BY <1>4, <1>6, <1>7, <2>1, <2>3
  <2>4. QED
    BY <2>2, <2>3
<1>9. CASE n.fires = 1
  <2>1. HandlerDone(r) /\ ops'[r] = {}
    BY <1>2, <1>4, <1>5, <1>6, <1>7, <1>9
  <2>2. /\ state' = [state EXCEPT ![r] = "PROCESSED"] /\ running' = running \ {r}
        /\ UNCHANGED <<mem, loop>>
    BY <2>1 DEF HandlerDone
  <2>3. /\ state'[r] = "PROCESSED" /\ \A q \in Reqs : q # r => state'[q] = state[q]
    BY <2>2 DEF HubInv, IInv, TypeOK
  <2>4. n.github # "none" /\ n.db # "none"
    BY <1>8, <2>1
  <2>5. ReqInv(r)'
    BY <1>4, <1>7, <1>9, <2>1, <2>2, <2>3, <2>4 DEF ReqInv, Defined
  <2>6. QED
    BY <1>2, <1>7, <2>2, <2>3, <2>5, OneRequest
<1>10. CASE n.fires = 0
  <2>1. UNCHANGED vars
    BY <1>2, <1>4, <1>10
  <2>2. UNCHANGED <<mem, state, running, loop>>
    BY <2>1 DEF vars
  <2>3. ops'[r] # {} /\ n.pending = Cardinality(ops'[r])
    BY <1>5, <1>6, <1>7, <1>10
  <2>4. ReqInv(r)'
    BY <1>4, <1>7, <1>8, <1>10, <2>2, <2>3 DEF ReqInv, Defined
  <2>5. QED
    BY <1>2, <1>7, <2>2, <2>4, OneRequest
<1>11. QED
  BY <1>6, <1>9, <1>10

\* The server's own steps make no request unfinished that was not.
LEMMA HubServerInv ==
    ASSUME HubInv, IInv', ServerStep
    PROVE  HubInv'
<1>1. ASSUME running' = running, loop' = "running" => loop = "running",
             \A q \in Reqs : /\ mem'[q] = "none" => mem[q] = "none"
                             /\ mem'[q] = "live" => mem[q] = "live"
                             /\ state'[q] = state[q]
      PROVE  HubInv'
  <2>1. UNCHANGED <<machine, ops, undefined>>
    BY DEF ServerStep, hubVars
  <2>2. ASSUME NEW q \in Reqs PROVE ReqInv(q)'
    <3>1. ReqInv(q)
      BY DEF HubInv
    <3>2. QED
      BY <1>1, <2>1, <3>1 DEF ReqInv, Defined
  <2>3. HubTypes'
    BY <2>1 DEF HubInv, HubTypes
  <2>4. QED
    BY <2>2, <2>3 DEF HubInv
<1>2. ASSUME NEW c \in Conns, Accept(c) \/ Receive(c) \/ ReadUnparsable(c) \/ Disconnect(c)
      PROVE  HubInv'
  <2>1. UNCHANGED <<mem, state, running, loop>>
    BY <1>2 DEF Accept, Receive, ReadUnparsable, Disconnect
  <2>2. QED
    BY <1>1, <2>1
<1>3. CASE CheckStart \/ CheckUnfinished
  <2>1. UNCHANGED <<mem, state, running, loop>>
    BY <1>3 DEF CheckStart, CheckUnfinished
  <2>2. QED
    BY <1>1, <2>1
<1>4. CASE CheckFinished
  <2> DEFINE q == pending[cursor].req
  <2>1. /\ mem' = [mem EXCEPT ![q] = "freed"] /\ UNCHANGED <<state, running, loop>>
    BY <1>4 DEF CheckFinished
  <2> HIDE DEF q
  <2>2. \A p \in Reqs : mem'[p] = mem[p] \/ mem'[p] = "freed"
    BY <2>1 DEF HubInv, IInv, TypeOK
  <2>3. QED
    BY <1>1, <2>1, <2>2
<1>5. CASE Stop
  <2>1. /\ loop' = "stopped" /\ UNCHANGED <<state, running>>
        /\ \A p \in Reqs : mem'[p] = mem[p] \/ mem'[p] = "freed"
    BY <1>5 DEF Stop
  <2>2. QED
    BY <1>1, <2>1
<1>6. QED
  BY <1>2, <1>3, <1>4, <1>5 DEF ServerStep

\* The start...
LEMMA HubInvInit == HubInit => HubInv
<1> SUFFICES ASSUME HubInit PROVE HubInv
  OBVIOUS
<1>1. NewMachine \in Machine /\ NewMachine.fires = 0
  BY DEF NewMachine, Machine, Outcome
<1>2. HubTypes
  BY <1>1 DEF HubInit, HubTypes
<1>3. ASSUME NEW r \in Reqs PROVE ReqInv(r)
  BY <1>1 DEF HubInit, Init, ReqInv, Defined
<1>4. QED
  BY <1>2, <1>3, InvInit DEF HubInit, HubInv

\* ... and every step keeps the page's invariant.
LEMMA HubInvStep == HubInv /\ [HubNext]_allVars => HubInv'
<1> SUFFICES ASSUME HubInv, [HubNext]_allVars PROVE HubInv'
  OBVIOUS
<1>1. IInv'
  <2>1. [Next]_vars
    BY HubStepIsServerStep DEF allVars
  <2>2. QED
    BY <2>1, InvStep DEF HubInv
<1>2. CASE UNCHANGED allVars
  <2>1. UNCHANGED <<mem, state, running, loop, machine, ops, undefined>>
    BY <1>2 DEF allVars, vars, hubVars
  <2>2. QED
    BY <1>1, <2>1 DEF HubInv, HubTypes, ReqInv, Defined
<1>3. ASSUME NEW c \in Conns, NEW r \in Reqs, NoMachine(c, r) PROVE HubInv'
  <2>1. ReadProcessed(c, r) /\ UNCHANGED <<machine, ops, undefined>>
    BY <1>3 DEF NoMachine, hubVars
  <2>2. machine[r].fires = 0
    BY <2>1, FreshRequest DEF ReadProcessed, NewMachine
  <2>3. HubTypes'
    BY <2>1 DEF HubInv, HubTypes
  <2>4. QED
    BY <1>1, <2>1, <2>2, <2>3, HubAtOnceInv
<1>4. CASE HubNext
  BY <1>1, <1>3, <1>4, HubReadInv, OperationEndsInv, HubServerInv DEF HubNext
<1>5. QED
  BY <1>2, <1>4

\* The inductive invariant of the page on the server.
THEOREM HubInvariance == HubSpec => []HubInv
BY HubInvInit, HubInvStep, PTL DEF HubSpec

\* The page is rendered once, with both outcomes and nothing under way.
THEOREM AnsweredWithBothCorrect == HubSpec => []AnsweredWithBoth
<1>1. HubInv => AnsweredWithBoth
  BY DEF HubInv, ReqInv, AnsweredWithBoth
<1>2. QED
  BY <1>1, HubInvariance, PTL

\* The counter is right, and not zero, while the response waits.
THEOREM PendingCountsCorrect == HubSpec => []PendingCounts
<1>1. HubInv => PendingCounts
  <2> SUFFICES ASSUME HubInv, loop = "running", NEW r \in Reqs,
                      mem[r] = "live", state[r] # "PROCESSED", Defined(r)
               PROVE  machine[r].pending = Cardinality(ops[r]) /\ machine[r].pending > 0
    BY DEF PendingCounts
  <2>1. ops[r] # {} /\ machine[r].pending = Cardinality(ops[r])
    BY DEF HubInv, ReqInv
  <2>2. Cardinality(ops[r]) \in 0..2 /\ (Cardinality(ops[r]) = 0 <=> ops[r] = {})
    BY OpsCount DEF HubInv, HubTypes
  <2>3. QED
    BY <2>1, <2>2
<1>2. QED
  BY <1>1, HubInvariance, PTL

\* An operation that calls back finds its context and its response.
THEOREM OperationMemoryCorrect == HubSpec => []OperationMemory
<1>1. HubInv => OperationMemory
  BY DEF HubInv, ReqInv, OperationMemory, IInv, HandlerWritesLive
<1>2. QED
  BY <1>1, HubInvariance, PTL

\* The page keeps the promise of the server: each request is answered at most once, on
\* the connection it came on, and not before its handler is done.
THEOREM HubRefinement == HubSpec => Service!SafeSpec
<1>1. HubInit => Service!Init
  BY RefinementInit DEF HubInit
<1>2. HubInv /\ HubInv' /\ [HubNext]_allVars => [Service!Next]_(Service!absVars)
  <2>1. [HubNext]_allVars => [Next]_vars
    BY HubStepIsServerStep DEF allVars
  <2>2. HubInv => IInv
    BY DEF HubInv
  <2>3. HubInv' => IInv'
    BY DEF HubInv
  <2>4. QED
    BY <2>1, <2>2, <2>3, RefinementStep
<1>3. QED
  BY <1>1, <1>2, HubInvariance, PTL DEF HubSpec, Service!SafeSpec
===============================================================================
