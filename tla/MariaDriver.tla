----------------------------- MODULE MariaDriver -----------------------------
(***************************************************************************)
(* The driver of one non-blocking database query                           *)
(* (app/plugins/db/mariadb_async.c): a state machine run by                *)
(* mariadb_async_drive, first from mariadb_async_query and then from the   *)
(* libevent watcher each time the client library had to wait.              *)
(*                                                                         *)
(* The library (libmariadb) is external.  Of each of its operations it is  *)
(* known that the _start call begins it, that a positive status suspends   *)
(* it until the socket is ready or a time is over, that _cont resumes it   *)
(* then, and that status 0 ends it, well or badly.                         *)
(*                                                                         *)
(* Rows are counted.  The blocks of the result are the column names, block *)
(* 0, and the values and lengths of each row, blocks 1, 2, ...; the array  *)
(* of the rows, which ctx->result always points to, is left out.           *)
(***************************************************************************)
EXTENDS Naturals, Sequences

CONSTANTS MaxRows,   \* bound: rows of a result set
          MaxWaits   \* times one operation may suspend before its timeout ends it

ASSUME DriverAssumption == MaxRows \in Nat /\ MaxWaits \in Nat

VARIABLES
    query,      \* the MariaDBAsyncContext: "none", "refused", "live" or "freed"
    state,      \* ctx->state
    waiting,    \* ctx->waiting_for_io
    event,      \* ctx->event: "none", "pending", or "spent" once it has fired
    ioStatus,   \* whether io_status holds flags of an event not yet used
    caller,     \* who runs mariadb_async_drive: "none", "query" or "event"
    rowCount,   \* ctx->result.row_count
    outcome,    \* the calls of the callback: what it was told, and from where
    columns,    \* whether ctx->result.column_names is set
    memory,     \* the blocks allocated, and whether none was ever freed twice
    lib,        \* operation suspended in the library; "confused" after misuse
    waits,      \* times the operation has suspended
    fields,     \* mysql_field_count: 0 without a result set, else 1 for any number
    answer      \* the number of its rows

library == <<fields, answer>>
result == <<columns, rowCount, memory>>
vars == <<query, state, waiting, event, ioStatus, caller, result, outcome, lib, waits,
          library>>

States == {"INIT", "CONNECTING", "QUERYING", "STORING_RESULT", "FETCHING_ROWS",
           "FINISHED", "ERROR"}

\* The operation a state runs.
OpOf == [CONNECTING |-> "connect", QUERYING |-> "query",
         STORING_RESULT |-> "store", FETCHING_ROWS |-> "fetch"]

Ops == {"connect", "query", "store", "fetch"}

TypeOK ==
    /\ query \in {"none", "refused", "live", "freed"}
    /\ state \in States
    /\ waiting \in BOOLEAN
    /\ event \in {"none", "pending", "spent"}
    /\ ioStatus \in BOOLEAN
    /\ caller \in {"none", "query", "event"}
    /\ rowCount \in 0..MaxRows
    /\ outcome \in Seq([ok : BOOLEAN, rows : 0..MaxRows, from : {"query", "event"}])
    /\ columns \in BOOLEAN
    /\ memory \in [blocks : SUBSET (0..MaxRows), sound : BOOLEAN]
    /\ lib \in Ops \cup {"none", "confused", "closed"}
    /\ waits \in 0..MaxWaits
    /\ fields \in {0, 1}
    /\ answer \in 0..MaxRows

Init ==
    /\ query = "none"
    /\ state = "INIT"
    /\ waiting = FALSE
    /\ event = "none"
    /\ ioStatus = FALSE
    /\ caller = "none"
    /\ rowCount = 0
    /\ outcome = <<>>
    /\ columns = FALSE
    /\ memory = [blocks |-> {}, sound |-> TRUE]
    /\ lib = "none"
    /\ waits = 0
    /\ fields \in {0, 1}
    /\ answer \in IF fields = 1 THEN 0..MaxRows ELSE {0}

-------------------------------------------------------------------------------
(* The result and the end of a query.                                      *)

\* The blocks that ctx->result describes.
Described == (IF columns THEN {0} ELSE {}) \cup 1..rowCount

With(block) == [memory EXCEPT !.blocks = @ \cup {block}]

\* mariadb_result_free of a result that describes the blocks.
Released(m, blocks) ==
    [blocks |-> m.blocks \ blocks, sound |-> m.sound /\ blocks \subseteq m.blocks]

\* Variant with a likely bug: the context keeps the result it hands over.
FinishKeepingResult(ok) ==
    /\ outcome' = Append(outcome, [ok |-> ok, rows |-> rowCount, from |-> caller])
    /\ memory' = Released(Released(memory, IF ok THEN Described ELSE {}), Described)
    /\ columns' = FALSE /\ rowCount' = 0
    /\ query' = "freed" /\ event' = "none" /\ lib' = "closed" /\ caller' = "none"

\* mariadb_async_finish: on success the result is handed to the callback, which frees it,
\* and ctx->result is empty from then on; on failure the callback gets the error.  Then
\* the context is freed with the watcher, the connection and the result it still has.
Finish(ok) ==
    /\ outcome' = Append(outcome, [ok |-> ok, rows |-> rowCount, from |-> caller])
    /\ memory' = LET handed == IF ok THEN Described ELSE {}
                     kept   == IF ok THEN {} ELSE Described
                 IN  Released(Released(memory, handed), kept)
    /\ columns' = FALSE /\ rowCount' = 0
    /\ query' = "freed" /\ event' = "none" /\ lib' = "closed" /\ caller' = "none"

-------------------------------------------------------------------------------
(* Calls of the library.                                                   *)

\* A call of op is legal as _start when nothing is suspended, and as _cont when op is,
\* and an event has occurred since.
Legal(op) == IF waiting THEN lib = op /\ ioStatus ELSE lib = "none"

\* Variant with a likely bug: a watcher that cannot be added is only reported.
RescheduleUnadded(op) ==
    /\ lib' = IF Legal(op) THEN op ELSE "confused"
    /\ state' \in {state, "ERROR"}
    /\ event' = IF state' = "ERROR" THEN "none" ELSE "pending"
    /\ caller' = "none"
    /\ UNCHANGED <<query, outcome, result>>

\* mariadb_async_reschedule, op being suspended: a new watcher replaces the old one;
\* when it cannot be created or added, the query ends here.
Reschedule(op) ==
    \/ /\ lib' = IF Legal(op) THEN op ELSE "confused"
       /\ event' = "pending"
       /\ caller' = "none"
       /\ UNCHANGED <<query, state, outcome, result>>
    \/ state' = "ERROR" /\ Finish(FALSE)

\* The operation of the present state suspends.
Suspend ==
    /\ query = "live" /\ caller # "none" /\ state \in DOMAIN OpOf
    /\ waits < MaxWaits
    /\ waits' = waits + 1
    /\ waiting' = TRUE
    /\ Reschedule(OpOf[state])
    /\ UNCHANGED <<ioStatus, library>>

\* Variant with a likely bug: waiting_for_io is not reset when an operation ends.
CompleteStillWaiting(op) ==
    /\ query = "live" /\ caller # "none" /\ state \in DOMAIN OpOf /\ OpOf[state] = op
    /\ lib' = IF Legal(op) THEN "none" ELSE "confused"
    /\ waits' = 0
    /\ waiting' = TRUE
    /\ ioStatus' = FALSE
    /\ UNCHANGED <<query, event, caller, outcome, library>>

\* The operation ends: the loop goes round with io_status 0.
Complete(op) ==
    /\ query = "live" /\ caller # "none" /\ state \in DOMAIN OpOf /\ OpOf[state] = op
    /\ lib' = IF Legal(op) THEN "none" ELSE "confused"
    /\ waits' = 0
    /\ waiting' = FALSE
    /\ ioStatus' = FALSE
    /\ UNCHANGED <<query, event, caller, outcome, library>>

-------------------------------------------------------------------------------
(* The caller and the loop of mariadb_async_drive.                         *)

\* mariadb_async_query: no context, no callback...
QueryRefused ==
    /\ query = "none"
    /\ query' = "refused"
    /\ UNCHANGED <<state, waiting, event, ioStatus, caller, result, outcome, lib, waits,
                   library>>

\* ... or a context, which is driven as far as it goes before the call returns.
QueryStart ==
    /\ query = "none"
    /\ query' = "live"
    /\ caller' = "query"
    /\ UNCHANGED <<state, waiting, event, ioStatus, result, outcome, lib, waits, library>>

\* mariadb_async_event_cb; the watcher is not persistent.
EventFires ==
    /\ query = "live" /\ caller = "none" /\ event = "pending"
    /\ event' = "spent"
    /\ ioStatus' = TRUE
    /\ caller' = "event"
    /\ UNCHANGED <<query, state, waiting, result, outcome, lib, waits, library>>

\* MDB_STATE_INIT: mariadb_async_prepare_connection.
Prepare ==
    /\ query = "live" /\ caller # "none" /\ state = "INIT"
    /\ \/ state' = "CONNECTING" /\ waiting' = FALSE /\ ioStatus' = FALSE
       \/ state' = "ERROR" /\ UNCHANGED <<waiting, ioStatus>>
    /\ UNCHANGED <<query, event, caller, result, outcome, lib, waits, library>>

ConnectEnds ==
    /\ Complete("connect")
    /\ state' \in {"QUERYING", "ERROR"}
    /\ UNCHANGED result

\* A statement without a result set is over here, with its affected rows.
QueryEnds ==
    /\ Complete("query")
    /\ \/ state' = "ERROR"
       \/ state' = IF fields = 0 THEN "FINISHED" ELSE "STORING_RESULT"
    /\ UNCHANGED result

\* The library returns no result only with an error set, there being fields.  The array
\* of column names cannot be allocated, or it is and one of the names cannot be copied.
StoreEnds ==
    /\ Complete("store")
    /\ \/ state' = "ERROR" /\ UNCHANGED <<columns, memory>>
       \/ state' \in {"FETCHING_ROWS", "ERROR"} /\ columns' = TRUE /\ memory' = With(0)
    /\ UNCHANGED rowCount

RowAppended ==
    /\ rowCount < answer
    /\ rowCount' = rowCount + 1 /\ memory' = With(rowCount')
    /\ UNCHANGED state

NoRowLeft == rowCount = answer /\ state' = "FINISHED" /\ UNCHANGED <<rowCount, memory>>

\* mariadb_async_append_row fails before it has allocated for the row, or after: the row
\* is not counted, and ctx->result does not describe what was allocated for it.
RowFails ==
    /\ rowCount < answer
    /\ state' = "ERROR"
    /\ memory' \in {memory, With(rowCount + 1)}
    /\ UNCHANGED rowCount

\* Variant with a likely bug: a row that cannot be copied ends the result set.
FetchEndsEarly ==
    /\ Complete("fetch")
    /\ RowAppended \/ (state' = "FINISHED" /\ UNCHANGED <<rowCount, memory>>)
    /\ UNCHANGED columns

\* One row is appended, or cannot be, or there is none left.
FetchEnds ==
    /\ Complete("fetch")
    /\ RowAppended \/ RowFails \/ NoRowLeft
    /\ UNCHANGED columns

\* The loop is left.
DriveEnds ==
    /\ query = "live" /\ caller # "none" /\ state \in {"FINISHED", "ERROR"}
    /\ Finish(state = "FINISHED")
    /\ UNCHANGED <<state, waiting, ioStatus, waits, library>>

Drive == Prepare \/ Suspend \/ ConnectEnds \/ QueryEnds \/ StoreEnds \/ FetchEnds \/ DriveEnds

Next == QueryRefused \/ QueryStart \/ EventFires \/ Drive

\* The loop of mariadb_async_drive is a loop of one callback.  The watcher fires: the
\* library asks for a timeout together with its socket events, since the caller sets
\* all three of its timeouts.
Fairness == WF_vars(Drive) /\ WF_vars(EventFires)

Spec == Init /\ [][Next]_vars /\ Fairness

-------------------------------------------------------------------------------
(* Correctness.                                                            *)

\* The library is used as it must be: an operation is started when none is suspended
\* and continued when it is the suspended one and something has happened; and between
\* two callbacks a live query has a pending watcher for its suspended operation.
LibraryProtocol ==
    /\ lib # "confused"
    /\ query = "live" /\ caller = "none" =>
          /\ event = "pending"
          /\ waiting
          /\ state \in DOMAIN OpOf /\ lib = OpOf[state]

\* A query that reports success reports every row, however the rows arrived, and one
\* that failed half way reports no success.
ResultComplete == \A i \in 1..Len(outcome) : outcome[i].ok => outcome[i].rows = answer

\* No block of the result is freed twice, by the callback and by the context, and none is
\* left when the query is over: none at all after a success, and after a failure none
\* but what was allocated for the row whose copy failed, which nothing frees any more.
ResultReleased ==
    /\ memory.sound
    /\ query = "freed" =>
          memory.blocks \subseteq (IF outcome[1].ok THEN {} ELSE {outcome[1].rows + 1})

\* The inductive invariant.
DriverInv ==
    /\ TypeOK
    /\ fields = 0 => answer = 0
    /\ query \in {"none", "refused"} =>
          state = "INIT" /\ ~waiting /\ lib = "none" /\ outcome = <<>> /\ caller = "none"
          /\ rowCount = 0 /\ ~columns /\ memory.blocks = {}
    /\ query = "live" =>
          /\ outcome = <<>>
          /\ waiting => state \in DOMAIN OpOf /\ lib = OpOf[state]
          /\ ~waiting => lib = "none" /\ caller # "none"
          /\ waiting /\ caller # "none" => ioStatus
          /\ rowCount <= answer
          /\ fields = 0 => state \notin {"STORING_RESULT", "FETCHING_ROWS"}
          /\ state \in {"INIT", "CONNECTING", "QUERYING", "STORING_RESULT"} => rowCount = 0
          /\ state = "FINISHED" => rowCount = answer
          /\ Described \subseteq memory.blocks
          /\ memory.blocks \subseteq
                Described \cup (IF state = "ERROR" THEN {rowCount + 1} ELSE {})
    /\ query = "freed" => Len(outcome) = 1 /\ lib = "closed" /\ caller = "none"
    /\ LibraryProtocol
    /\ ResultComplete
    /\ ResultReleased

\* mariadb_async.h:60-62 "The callback is executed on the libevent loop once the
\* operation finishes": never from inside mariadb_async_query.
CallbackOnLoop == \A i \in 1..Len(outcome) : outcome[i].from = "event"

QueryPhase ==
    CASE query = "none"    -> "idle"
      [] query = "refused" -> "refused"
      [] query = "live"    -> "running"
      [] query = "freed"   -> IF outcome[1].ok THEN "succeeded" ELSE "failed"

Query == INSTANCE AsyncQuery WITH phase <- QueryPhase, calls <- Len(outcome)

\* The driver implements AsyncQuery: every query that was accepted calls back once,
\* whichever step fails, and never hangs between two steps.
ImplementsQuery == Query!QuerySpec
===============================================================================
