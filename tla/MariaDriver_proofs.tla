------------------------- MODULE MariaDriver_proofs -------------------------
(***************************************************************************)
(* Proofs about MariaDriver, for any number of rows and of suspensions.    *)
(***************************************************************************)
EXTENDS MariaDriver, TLAPS

\* Each state that runs an operation runs another one.
LEMMA Operations ==
    /\ DOMAIN OpOf = {"CONNECTING", "QUERYING", "STORING_RESULT", "FETCHING_ROWS"}
    /\ OpOf["CONNECTING"] = "connect" /\ OpOf["QUERYING"] = "query"
    /\ OpOf["STORING_RESULT"] = "store" /\ OpOf["FETCHING_ROWS"] = "fetch"
BY DEF OpOf

\* Every call the driver makes of the library is legal.
LEMMA CallsAreLegal ==
    ASSUME DriverInv, query = "live", caller # "none", state \in DOMAIN OpOf
    PROVE  Legal(OpOf[state])
BY DEF DriverInv, LibraryProtocol, TypeOK, Legal

\* What is allocated for one more block.
LEMMA WithWorks ==
    ASSUME DriverInv, NEW block \in 0..MaxRows
    PROVE  /\ With(block) \in [blocks : SUBSET (0..MaxRows), sound : BOOLEAN]
           /\ With(block).sound = memory.sound
           /\ With(block).blocks = memory.blocks \cup {block}
BY DEF DriverInv, TypeOK, With

\* The one call of the callback, made by Finish, says what the context holds, and of the
\* two that free the result each frees what it owns.
LEMMA FinishWorks ==
    ASSUME DriverInv, query = "live", NEW ok \in BOOLEAN, Finish(ok), caller # "none",
           ok => state = "FINISHED"
    PROVE  /\ query' = "freed" /\ event' = "none" /\ lib' = "closed" /\ caller' = "none"
           /\ outcome' = <<[ok |-> ok, rows |-> rowCount, from |-> caller]>>
           /\ outcome' \in Seq([ok : BOOLEAN, rows : 0..MaxRows, from : {"query", "event"}])
           /\ outcome'[1].ok = ok /\ Len(outcome') = 1
           /\ \A i \in 1..Len(outcome') : outcome'[i].ok => outcome'[i].rows = answer
           /\ rowCount' \in 0..MaxRows /\ columns' \in BOOLEAN
           /\ memory' \in [blocks : SUBSET (0..MaxRows), sound : BOOLEAN]
           /\ ResultReleased'
<1>1. outcome = <<>> /\ (ok => rowCount = answer)
  BY DEF DriverInv
<1>2. [ok |-> ok, rows |-> rowCount, from |-> caller]
         \in [ok : BOOLEAN, rows : 0..MaxRows, from : {"query", "event"}]
  BY DEF DriverInv, TypeOK
<1>3. outcome' = <<[ok |-> ok, rows |-> rowCount, from |-> caller]>>
  BY <1>1 DEF Finish
<1>4. rowCount' \in 0..MaxRows /\ columns' \in BOOLEAN
  <2>1. rowCount' = 0
    BY SMT DEF Finish
  <2>2. columns' = FALSE
    BY Zenon DEF Finish
  <2>3. rowCount' \in 0..MaxRows
    BY <2>1, DriverAssumption
  <2>4. QED
    BY <2>2, <2>3
<1>5. PICK handed : handed = IF ok THEN Described ELSE {}
  OBVIOUS
<1>6. PICK kept : kept = IF ok THEN {} ELSE Described
  OBVIOUS
<1>7. /\ memory.sound /\ memory.blocks \in SUBSET (0..MaxRows)
      /\ Described \subseteq memory.blocks
      /\ memory.blocks \subseteq Described \cup (IF ok THEN {} ELSE {rowCount + 1})
  BY DEF DriverInv, TypeOK, ResultReleased
<1>8. memory' = [blocks |-> (memory.blocks \ handed) \ kept,
                 sound |-> /\ memory.sound /\ handed \subseteq memory.blocks
                           /\ kept \subseteq memory.blocks \ handed]
  BY <1>5, <1>6 DEF Finish, Released
<1>9. memory'.blocks = memory.blocks \ Described /\ memory'.sound
  BY <1>5, <1>6, <1>7, <1>8
<1>10. memory' \in [blocks : SUBSET (0..MaxRows), sound : BOOLEAN]
  BY <1>7, <1>8
<1>11. ResultReleased'
  BY <1>3, <1>7, <1>9 DEF ResultReleased
<1>12. QED
  BY <1>1, <1>2, <1>3, <1>4, <1>10, <1>11 DEF Finish

\* The start.
LEMMA DriverInvInit == Init => DriverInv
<1> SUFFICES ASSUME Init PROVE DriverInv
  OBVIOUS
<1>1. answer \in 0..MaxRows /\ (fields = 0 => answer = 0) /\ rowCount \in 0..MaxRows
      /\ waits \in 0..MaxWaits
  BY DriverAssumption DEF Init, DriverAssumption
<1>2. TypeOK
  <2>1. outcome \in Seq([ok : BOOLEAN, rows : 0..MaxRows, from : {"query", "event"}])
    BY DEF Init
  <2>2. lib \in Ops \cup {"none", "confused", "closed"} /\ state \in States
    BY DEF Init, States
  <2>3. QED
    BY <1>1, <2>1, <2>2 DEF Init, TypeOK
<1>3. LibraryProtocol /\ ResultComplete /\ ResultReleased
  BY DEF Init, LibraryProtocol, ResultComplete, ResultReleased
<1>4. QED
  BY <1>1, <1>2, <1>3 DEF Init, DriverInv

\* The calls of the application and the event loop.
LEMMA CallerInv ==
    ASSUME DriverInv, QueryRefused \/ QueryStart \/ EventFires
    PROVE  DriverInv'
<1>1. UNCHANGED <<state, waiting, columns, rowCount, memory, outcome, lib, waits, library>>
  BY DEF QueryRefused, QueryStart, EventFires, result
<1>2. CASE QueryRefused
  BY <1>1, <1>2 DEF QueryRefused, DriverInv, TypeOK, LibraryProtocol, ResultComplete,
     ResultReleased, Described, library
<1>3. CASE QueryStart
  <2>1. outcome = <<>> /\ state = "INIT" /\ ~waiting /\ lib = "none" /\ rowCount = 0
        /\ ~columns /\ memory.blocks = {}
    BY <1>3 DEF QueryStart, DriverInv
  <2>2. QED
    BY <1>1, <1>3, <2>1 DEF QueryStart, DriverInv, TypeOK, LibraryProtocol, ResultComplete,
       ResultReleased, Described, library
<1>4. CASE EventFires
  BY <1>1, <1>4 DEF EventFires, DriverInv, TypeOK, LibraryProtocol, ResultComplete,
     ResultReleased, Described, library
<1>5. QED
  BY <1>2, <1>3, <1>4

\* An operation that suspends leaves a watcher, or ends the query.
LEMMA SuspendInv ==
    ASSUME DriverInv, Suspend
    PROVE  DriverInv'
<1>1. /\ query = "live" /\ caller # "none" /\ state \in DOMAIN OpOf
      /\ waits' = waits + 1 /\ waits < MaxWaits /\ waiting' = TRUE
      /\ UNCHANGED <<ioStatus, library>>
  BY DEF Suspend
<1>2. Legal(OpOf[state])
  BY <1>1, CallsAreLegal
<1>3. waits' \in 0..MaxWaits
  BY <1>1, DriverAssumption DEF DriverInv, TypeOK, DriverAssumption
<1>4. CASE /\ event' = "pending" /\ caller' = "none" /\ lib' = OpOf[state]
           /\ UNCHANGED <<query, state, outcome, result>>
  <2>1. lib' \in Ops
    BY <1>1, <1>4, Operations DEF Ops
  <2>2. state \in DOMAIN OpOf /\ lib' = OpOf[state] /\ lib' # "confused"
    BY <1>1, <1>4, Operations
  <2>3. TypeOK'
    BY <1>1, <1>3, <1>4, <2>1 DEF DriverInv, TypeOK, result, library
  <2>4. LibraryProtocol'
    BY <1>1, <1>4, <2>2 DEF LibraryProtocol
  <2>5. QED
    BY <1>1, <1>4, <2>2, <2>3, <2>4
       DEF DriverInv, ResultComplete, ResultReleased, Described, result, library
<1>5. CASE state' = "ERROR" /\ Finish(FALSE)
  <2>1. /\ query' = "freed" /\ event' = "none" /\ lib' = "closed" /\ caller' = "none"
        /\ outcome' \in Seq([ok : BOOLEAN, rows : 0..MaxRows, from : {"query", "event"}])
        /\ Len(outcome') = 1
        /\ rowCount' \in 0..MaxRows /\ columns' \in BOOLEAN
        /\ memory' \in [blocks : SUBSET (0..MaxRows), sound : BOOLEAN]
        /\ ResultReleased'
        /\ \A i \in 1..Len(outcome') : outcome'[i].ok => outcome'[i].rows = answer
    BY <1>1, <1>5, FinishWorks
  <2>2. TypeOK'
    BY <1>1, <1>3, <1>5, <2>1 DEF DriverInv, TypeOK, States, library
  <2>3. QED
    BY <1>1, <2>1, <2>2 DEF DriverInv, LibraryProtocol, ResultComplete, library
<1>6. QED
  BY <1>1, <1>2, <1>4, <1>5 DEF Suspend, Reschedule

\* An operation that ends leaves none suspended; the rows counted are rows there are.
LEMMA CompleteInv ==
    ASSUME DriverInv, ConnectEnds \/ QueryEnds \/ StoreEnds \/ FetchEnds
    PROVE  DriverInv'
<1>1. PICK op \in Ops : Complete(op)
  BY DEF ConnectEnds, QueryEnds, StoreEnds, FetchEnds, Ops
<1>2. /\ query = "live" /\ caller # "none" /\ state \in DOMAIN OpOf /\ OpOf[state] = op
      /\ waits' = 0 /\ waiting' = FALSE /\ ioStatus' = FALSE
      /\ UNCHANGED <<query, event, caller, outcome, library>>
  BY <1>1 DEF Complete
<1>3. lib' = "none"
  BY <1>1, <1>2, CallsAreLegal DEF Complete
<1>4. /\ rowCount' \in 0..MaxRows /\ rowCount' <= answer
      /\ state' \in States
      /\ fields = 0 => state' \notin {"STORING_RESULT", "FETCHING_ROWS"}
      /\ state' \in {"INIT", "CONNECTING", "QUERYING", "STORING_RESULT"} => rowCount' = 0
      /\ state' = "FINISHED" => rowCount' = answer
      /\ columns' \in BOOLEAN
      /\ memory' \in [blocks : SUBSET (0..MaxRows), sound : BOOLEAN]
      /\ memory'.sound = memory.sound
      /\ Described' \subseteq memory'.blocks
      /\ memory'.blocks \subseteq
            Described' \cup (IF state' = "ERROR" THEN {rowCount' + 1} ELSE {})
  <2>1. /\ rowCount \in 0..MaxRows /\ answer \in 0..MaxRows /\ rowCount <= answer
        /\ MaxRows \in Nat /\ fields \in {0, 1} /\ (fields = 0 => answer = 0)
        /\ fields = 0 => state \notin {"STORING_RESULT", "FETCHING_ROWS"}
        /\ state \in {"INIT", "CONNECTING", "QUERYING", "STORING_RESULT"} => rowCount = 0
        /\ columns \in BOOLEAN
        /\ memory \in [blocks : SUBSET (0..MaxRows), sound : BOOLEAN]
    BY <1>2, DriverAssumption DEF DriverInv, TypeOK, DriverAssumption
  <2>2. memory.blocks = Described
    BY <1>2, Operations DEF DriverInv
  <2>3. UNCHANGED <<columns, rowCount, memory>> =>
           Described' = memory'.blocks /\ memory' = memory /\ Described' = Described
    BY <2>2 DEF Described
  <2>4. CASE ConnectEnds
    <3>1. state = "CONNECTING"
      BY <1>2, <2>4, Operations DEF ConnectEnds, Complete
    <3>2. state' \in {"QUERYING", "ERROR"} /\ UNCHANGED <<columns, rowCount, memory>>
      BY <2>4 DEF ConnectEnds, result
    <3>3. QED
      BY <2>1, <2>3, <3>1, <3>2 DEF States
  <2>5. CASE QueryEnds
    <3>1. state = "QUERYING"
      BY <1>2, <2>5, Operations DEF QueryEnds, Complete
    <3>2. rowCount = 0 /\ UNCHANGED <<columns, rowCount, memory>>
      BY <2>1, <2>5, <3>1 DEF QueryEnds, result
    <3>3. \/ state' = "ERROR"
          \/ fields = 1 /\ state' = "STORING_RESULT"
          \/ fields = 0 /\ state' = "FINISHED"
      BY <2>1, <2>5 DEF QueryEnds
    <3>4. QED
      BY <2>1, <2>3, <3>2, <3>3 DEF States
  <2>6. CASE StoreEnds
    <3>1. state = "STORING_RESULT"
      BY <1>2, <2>6, Operations DEF StoreEnds, Complete
    <3>2. rowCount = 0 /\ rowCount' = 0 /\ state' \in {"FETCHING_ROWS", "ERROR"} /\ fields = 1
      BY <2>1, <2>6, <3>1 DEF StoreEnds
    <3>3. CASE UNCHANGED <<columns, memory>>
      BY <2>1, <2>3, <3>2, <3>3 DEF States
    <3>4. CASE columns' = TRUE /\ memory' = With(0)
      <4>1. 0 \in 0..MaxRows
        BY <2>1
      <4>2. /\ memory' \in [blocks : SUBSET (0..MaxRows), sound : BOOLEAN]
            /\ memory'.sound = memory.sound
            /\ memory'.blocks = memory.blocks \cup {0}
        BY <3>4, <4>1, WithWorks
      <4>3. Described' = Described \cup {0}
        BY <3>2, <3>4 DEF Described
      <4>4. QED
        BY <2>1, <2>2, <3>2, <3>4, <4>2, <4>3 DEF States
    <3>5. QED
      BY <2>6, <3>3, <3>4 DEF StoreEnds
  <2>7. CASE FetchEnds
    <3>1. state = "FETCHING_ROWS" /\ columns' = columns
      BY <1>2, <2>7, Operations DEF FetchEnds, Complete
    <3>2. fields = 1
      BY <2>1, <3>1
    <3>3. PICK row : row = rowCount + 1
      OBVIOUS
    <3>4. rowCount < answer => row \in 0..MaxRows
      BY <2>1, <3>3
    <3>5. CASE RowAppended
      <4>1. rowCount < answer /\ rowCount' = row /\ memory' = With(row) /\ state' = state
        BY <3>3, <3>5 DEF RowAppended
      <4>2. /\ memory' \in [blocks : SUBSET (0..MaxRows), sound : BOOLEAN]
            /\ memory'.sound = memory.sound
            /\ memory'.blocks = memory.blocks \cup {row}
        BY <3>4, <4>1, WithWorks
      <4>3. 1..rowCount' = 1..rowCount \cup {row}
        BY <2>1, <3>3, <4>1
      <4>4. Described' = Described \cup {row}
        BY <3>1, <4>3 DEF Described
      <4>5. rowCount' \in 0..MaxRows /\ rowCount' <= answer
        BY <2>1, <3>3, <4>1
      <4>6. QED
        BY <2>1, <2>2, <3>1, <3>2, <4>1, <4>2, <4>4, <4>5 DEF States
    <3>6. CASE RowFails
      <4>1. /\ rowCount < answer /\ rowCount' = rowCount /\ state' = "ERROR"
            /\ memory' = memory \/ memory' = With(row)
        BY <3>3, <3>6 DEF RowFails
      <4>2. /\ memory' \in [blocks : SUBSET (0..MaxRows), sound : BOOLEAN]
            /\ memory'.sound = memory.sound
            /\ memory.blocks \subseteq memory'.blocks
            /\ memory'.blocks \subseteq memory.blocks \cup {row}
        BY <2>1, <3>4, <4>1, WithWorks
      <4>3. Described' = Described
        BY <3>1, <4>1 DEF Described
      <4>4. QED
        BY <2>1, <2>2, <3>1, <3>2, <3>3, <4>1, <4>2, <4>3 DEF States
    <3>7. CASE NoRowLeft
      BY <2>1, <2>3, <3>1, <3>2, <3>7 DEF NoRowLeft, States
    <3>8. QED
      BY <2>7, <3>5, <3>6, <3>7 DEF FetchEnds
  <2>8. QED
    BY <2>4, <2>5, <2>6, <2>7
<1>5. TypeOK'
  <2>1. waits' \in 0..MaxWaits
    BY <1>2, DriverAssumption DEF DriverAssumption
  <2>2. /\ rowCount' \in 0..MaxRows /\ state' \in States /\ columns' \in BOOLEAN
        /\ memory' \in [blocks : SUBSET (0..MaxRows), sound : BOOLEAN]
    BY <1>4
  <2>3. QED
    BY <1>2, <1>3, <2>1, <2>2 DEF DriverInv, TypeOK, library
<1>6. QED
  BY <1>2, <1>3, <1>4, <1>5 DEF DriverInv, LibraryProtocol, ResultComplete, ResultReleased, library

\* The two ends of the loop.
LEMMA LoopInv ==
    ASSUME DriverInv, Prepare \/ DriveEnds
    PROVE  DriverInv'
<1>1. CASE Prepare
  <2>1. /\ query = "live" /\ caller # "none" /\ state = "INIT" /\ ~waiting /\ rowCount = 0
        /\ UNCHANGED <<query, event, caller, columns, rowCount, memory, outcome, lib, waits,
                      library>>
        /\ state' \in {"CONNECTING", "ERROR"} /\ waiting' = FALSE /\ ioStatus' \in BOOLEAN
    BY <1>1, Operations DEF Prepare, DriverInv, TypeOK, result
  <2>2. Described \subseteq memory.blocks /\ memory.blocks \subseteq Described
    BY <2>1 DEF DriverInv
  <2>3. Described' = Described
    BY <2>1 DEF Described
  <2>4. QED
    BY <2>1, <2>2, <2>3
       DEF DriverInv, TypeOK, States, LibraryProtocol, ResultComplete, ResultReleased, library
<1>2. CASE DriveEnds
  <2>1. /\ query = "live" /\ caller # "none" /\ Finish(state = "FINISHED")
        /\ UNCHANGED <<state, waiting, ioStatus, waits, library>>
    BY <1>2 DEF DriveEnds
  <2>2. /\ query' = "freed" /\ event' = "none" /\ lib' = "closed" /\ caller' = "none"
        /\ outcome' \in Seq([ok : BOOLEAN, rows : 0..MaxRows, from : {"query", "event"}])
        /\ Len(outcome') = 1
        /\ rowCount' \in 0..MaxRows /\ columns' \in BOOLEAN
        /\ memory' \in [blocks : SUBSET (0..MaxRows), sound : BOOLEAN]
        /\ ResultReleased'
        /\ \A i \in 1..Len(outcome') : outcome'[i].ok => outcome'[i].rows = answer
    BY <2>1, FinishWorks
  <2>3. QED
    BY <2>1, <2>2 DEF DriverInv, TypeOK, LibraryProtocol, ResultComplete, library
<1>3. QED
  BY <1>1, <1>2

\* Every step keeps the invariant.
LEMMA DriverInvStep == DriverInv /\ [Next]_vars => DriverInv'
<1> SUFFICES ASSUME DriverInv, [Next]_vars PROVE DriverInv'
  OBVIOUS
<1>1. CASE UNCHANGED vars
  BY <1>1 DEF vars, result, library, DriverInv, TypeOK, LibraryProtocol, ResultComplete,
              ResultReleased, Described
<1>2. CASE Next
  BY <1>2, CallerInv, SuspendInv, CompleteInv, LoopInv DEF Next, Drive
<1>3. QED
  BY <1>1, <1>2

\* The inductive invariant of the driver.
THEOREM DriverInvariance == Spec => []DriverInv
BY DriverInvInit, DriverInvStep, PTL DEF Spec

\* The library is never misused, and a live query never waits for nothing.
THEOREM LibraryProtocolCorrect == Spec => []LibraryProtocol
<1>1. DriverInv => LibraryProtocol
  BY DEF DriverInv
<1>2. QED
  BY <1>1, DriverInvariance, PTL

\* A successful query reports every row.
THEOREM ResultCompleteCorrect == Spec => []ResultComplete
<1>1. DriverInv => ResultComplete
  BY DEF DriverInv
<1>2. QED
  BY <1>1, DriverInvariance, PTL

\* No block of a result is freed twice, and none is left but those of a row that could
\* not be copied (mariadb_async_finish, mariadb_async_append_row).
THEOREM ResultReleasedCorrect == Spec => []ResultReleased
<1>1. DriverInv => ResultReleased
  BY DEF DriverInv
<1>2. QED
  BY <1>1, DriverInvariance, PTL

\* A step of the driver is a step of the abstract query or a stutter.
LEMMA StepRefines == DriverInv /\ [Next]_vars => [Query!QueryNext]_(Query!queryVars)
<1> SUFFICES ASSUME DriverInv, [Next]_vars
             PROVE  Query!QueryNext \/ UNCHANGED <<QueryPhase, Len(outcome)>>
  BY DEF Query!queryVars
<1>1. ASSUME UNCHANGED <<query, outcome>>
      PROVE  UNCHANGED <<QueryPhase, Len(outcome)>>
  BY <1>1 DEF QueryPhase
<1>2. CASE UNCHANGED vars
  BY <1>1, <1>2 DEF vars
<1>3. CASE QueryRefused \/ QueryStart
  <2>1. query = "none" /\ query' \in {"refused", "live"} /\ UNCHANGED outcome
    BY <1>3 DEF QueryRefused, QueryStart
  <2>2. QueryPhase = "idle" /\ QueryPhase' \in {"refused", "running"}
    BY <2>1 DEF QueryPhase
  <2>3. QED
    BY <2>1, <2>2 DEF Query!QueryNext, Query!Refuse, Query!Start
<1>4. CASE EventFires \/ Prepare \/ ConnectEnds \/ QueryEnds \/ StoreEnds \/ FetchEnds
  BY <1>1, <1>4 DEF EventFires, Prepare, ConnectEnds, QueryEnds, StoreEnds, FetchEnds, Complete
<1>5. ASSUME NEW ok \in BOOLEAN, query = "live", caller # "none", Finish(ok),
             ok => state = "FINISHED"
      PROVE  Query!QueryNext
  <2>1. query' = "freed" /\ outcome'[1].ok = ok /\ Len(outcome') = 1
    BY <1>5, FinishWorks
  <2>2. Len(outcome) = 0
    BY <1>5 DEF DriverInv
  <2>3. QueryPhase = "running" /\ QueryPhase' \in {"succeeded", "failed"}
    BY <1>5, <2>1 DEF QueryPhase
  <2>4. QED
    BY <2>1, <2>2, <2>3 DEF Query!QueryNext, Query!End
<1>6. CASE Suspend
  BY <1>1, <1>5, <1>6 DEF Suspend, Reschedule
<1>7. CASE DriveEnds
  BY <1>5, <1>7 DEF DriveEnds
<1>8. QED
  BY <1>2, <1>3, <1>4, <1>6, <1>7 DEF Next, Drive

\* The driver implements the abstract query but for its fairness: one call of the
\* callback for a query that was accepted, none for one that was refused.
THEOREM QueryRefinement == Spec => Query!QueryInit /\ [][Query!QueryNext]_(Query!queryVars)
<1>1. Init => Query!QueryInit
  BY DEF Init, Query!QueryInit, QueryPhase
<1>2. QED
  BY <1>1, StepRefines, DriverInvariance, PTL DEF Spec
===============================================================================
