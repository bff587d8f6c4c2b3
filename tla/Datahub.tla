------------------------------- MODULE Datahub -------------------------------
(***************************************************************************)
(* The /datahub page (app/routes/datahub/datahub.page.c) on the server: a  *)
(* handler that starts two operations, an HTTP transfer and a database     *)
(* query, and answers when both are over (app/plugins/                     *)
(* async_state_machine.c, fetch/github_fetcher.c).  It registers no cancel *)
(* hook.                                                                   *)
(*                                                                         *)
(* The query follows AsyncQuery, which MariaDriver implements: it may be   *)
(* refused, end inside its start call, or end later.  The transfer may be  *)
(* refused or end later, in a socket event; nothing says that it ends.     *)
(*                                                                         *)
(* The handler reads its context after the two start calls.  When the      *)
(* transfer was refused and the query ended inside its start call, the     *)
(* context has been freed by then: what the handler reads is a choice over *)
(* zero and another number, and the request joins "undefined".             *)
(*                                                                         *)
(* The callback of a transfer frees the request and the client, which      *)
(* fetch_check_multi_info goes on to use.  The page's own state is settled *)
(* by then; that the process may end there is a case of Stop.              *)
(***************************************************************************)
EXTENDS ServerPending

VARIABLES
    machine,    \* [Reqs -> Machine]: the AsyncStateMachine in the DatahubContext
    ops,        \* [Reqs -> SUBSET {"github", "db"}]: operations under way
    undefined   \* requests whose handler read its context after it was freed

hubVars == <<machine, ops, undefined>>
allVars == <<vars, hubVars>>

Outcome == {"none", "data", "error"}

\* fires counts the calls of datahub_completion_cb, the first of which frees the context.
\* The flag "completed" is left out: it is set right before that call, which clears it
\* and frees it, so that no check ever finds it set.
Machine == [pending : 0..2, github : Outcome, db : Outcome, fires : Nat]

\* async_state_machine_init.
NewMachine == [pending |-> 0, github |-> "none", db |-> "none", fires |-> 0]

HubInit ==
    /\ Init
    /\ machine = [r \in Reqs |-> NewMachine]
    /\ ops = [r \in Reqs |-> {}]
    /\ undefined = {}

-------------------------------------------------------------------------------
(* The state machine, as operators from one machine to the next.           *)

\* datahub_completion_cb: answer, clean the machine up, free the context.
Completion(m) ==
    [pending |-> 0, github |-> m.github, db |-> m.db, fires |-> m.fires + 1]

\* Variant with a likely bug: the first operation to end completes the page.
CheckCompletionEagerly(m) == Completion(m)

\* async_state_machine_check_completion.
CheckCompletion(m) == IF m.pending = 0 THEN Completion(m) ELSE m

Decremented(n) == IF n > 0 THEN n - 1 ELSE 0

\* async_state_machine_fetch_cb and async_state_machine_db_cb; a result that cannot
\* be copied is an error.
FetchCb(m, result) ==
    CheckCompletion([pending |-> Decremented(m.pending), github |-> result, db |-> m.db,
                     fires |-> m.fires])

DbCb(m, result) ==
    CheckCompletion([pending |-> Decremented(m.pending), github |-> m.github, db |-> result,
                     fires |-> m.fires])

\* Variant with a likely bug: the transfer is counted only if it is refused.
StartGithubUncounted(m, how) ==
    IF how = "refused" THEN [m EXCEPT !.github = "error"] ELSE m

\* async_state_machine_start_github_fetch: counted, and uncounted if refused.
StartGithub(m, how) ==
    IF how = "refused" THEN [m EXCEPT !.github = "error"]
                       ELSE [m EXCEPT !.pending = @ + 1]

\* Variant with a likely bug: a refused query stays counted.
StartDbKeepingCount(m, how) ==
    CASE how = "unset"             -> [m EXCEPT !.db = "error"]
      [] how = "refused"           -> [m EXCEPT !.db = "error", !.pending = @ + 1]
      [] how = "running"           -> [m EXCEPT !.pending = @ + 1]
      [] how \in {"data", "error"} -> DbCb([m EXCEPT !.pending = @ + 1], how)

\* async_state_machine_start_db_query, and the branch of the page that does without it.
StartDb(m, how) ==
    CASE how \in {"unset", "refused"} -> [m EXCEPT !.db = "error"]
      [] how = "running"              -> [m EXCEPT !.pending = @ + 1]
      [] how \in {"data", "error"}    -> DbCb([m EXCEPT !.pending = @ + 1], how)

GithubStarts == {"refused", "running"}
DbStarts == {"unset", "refused", "running", "data", "error"}

\* The machine when the two start calls have returned.
Started(gh, db) == StartDb(StartGithub(NewMachine, gh), db)

Running(gh, db) ==
    (IF gh = "running" THEN {"github"} ELSE {}) \cup (IF db = "running" THEN {"db"} ELSE {})

-------------------------------------------------------------------------------
\* datahub_page: another method than GET, or no memory for the context.
NoMachine(c, r) ==
    /\ ReadProcessed(c, r)
    /\ UNCHANGED hubVars

\* datahub_page: nothing is left to wait for, and the page completes at once.
CompleteAtOnce(c, r, gh, db) ==
    /\ Started(gh, db).fires = 0
    /\ Started(gh, db).pending = 0
    /\ ReadProcessed(c, r)
    /\ machine' = [machine EXCEPT ![r] = Completion(Started(gh, db))]
    /\ UNCHANGED <<ops, undefined>>

\* datahub_page: the response is left in state PROCESSING.
Wait(c, r, gh, db) ==
    /\ Started(gh, db).fires = 0
    /\ Started(gh, db).pending > 0
    /\ ReadPending(c, r, "PROCESSING", FALSE, TRUE)
    /\ machine' = [machine EXCEPT ![r] = Started(gh, db)]
    /\ ops' = [ops EXCEPT ![r] = Running(gh, db)]
    /\ UNCHANGED undefined

\* datahub_page: the query has completed the page, and pending_count is read from freed
\* memory.  Zero completes the page a second time; another number overwrites PROCESSED
\* with PROCESSING, which nothing will change any more.
ReadFreed(c, r, gh, db) ==
    /\ Started(gh, db).fires > 0
    /\ undefined' = undefined \cup {r}
    /\ \/ /\ ReadProcessed(c, r)
          /\ machine' = [machine EXCEPT ![r] = Completion(Started(gh, db))]
       \/ /\ ReadPending(c, r, "PROCESSING", FALSE, FALSE)
          /\ machine' = [machine EXCEPT ![r] = Started(gh, db)]
    /\ UNCHANGED ops

\* An operation op of r ends and leaves machine m, with the page completed or not.
OperationEnds(r, op, m) ==
    /\ Idle
    /\ op \in ops[r]
    /\ ops' = [ops EXCEPT ![r] = @ \ {op}]
    /\ machine' = [machine EXCEPT ![r] = m]
    /\ IF m.fires > machine[r].fires THEN HandlerDone(r) ELSE UNCHANGED vars
    /\ UNCHANGED undefined

\* github_fetch_callback_internal: the status, the JSON and the copy decide.
FetchEnds(r) ==
    \E result \in {"data", "error"} :
        OperationEnds(r, "github", FetchCb(machine[r], result))

\* mariadb_async_finish from the watcher's callback.
DbEnds(r) ==
    \E result \in {"data", "error"} :
        OperationEnds(r, "db", DbCb(machine[r], result))

ServerStep ==
    /\ \/ \E c \in Conns : Accept(c) \/ Receive(c) \/ ReadUnparsable(c) \/ Disconnect(c)
       \/ CheckStart \/ CheckFinished \/ CheckUnfinished
       \/ Stop
    /\ UNCHANGED hubVars

HubNext ==
    \/ \E c \in Conns, r \in Reqs : NoMachine(c, r)
    \/ \E c \in Conns, r \in Reqs, gh \in GithubStarts, db \in DbStarts :
          CompleteAtOnce(c, r, gh, db) \/ Wait(c, r, gh, db) \/ ReadFreed(c, r, gh, db)
    \/ \E r \in Reqs : FetchEnds(r) \/ DbEnds(r)
    \/ ServerStep

\* The timer as in ServerPending, and the query, which MariaDriver shows to end: strong
\* fairness, since the unfolded walk of the timer holds it back again and again.  A
\* transfer may last for ever: libcurl's timeouts are never given to the event loop.
HubFairness ==
    /\ WF_allVars(CheckStart /\ UNCHANGED hubVars)
    /\ WF_allVars((CheckFinished \/ CheckUnfinished) /\ UNCHANGED hubVars)
    /\ \A r \in Reqs : SF_allVars(DbEnds(r))

HubSpec == HubInit /\ [][HubNext]_allVars /\ HubFairness

-------------------------------------------------------------------------------
(* Correctness.                                                            *)

Defined(r) == r \notin undefined

\* The page is rendered once, when nothing is under way any more, with an outcome of
\* each operation: its two texts for an operation in progress are never sent.
AnsweredWithBoth ==
    \A r \in Reqs :
        /\ Defined(r) => machine[r].fires \in {0, 1}
        /\ machine[r].fires > 0 =>
              ops[r] = {} /\ machine[r].github # "none" /\ machine[r].db # "none"

\* pending_count is the number of operations under way as long as the context lives,
\* and is not zero while the response waits: neither a refused start nor one that ended
\* at once leaves it wrong.
PendingCounts ==
    loop = "running" =>
        \A r \in Reqs : mem[r] = "live" /\ state[r] # "PROCESSED" /\ Defined(r) =>
            /\ machine[r].pending = Cardinality(ops[r])
            /\ machine[r].pending > 0

\* An operation that will call back finds its context and a Response that is neither
\* freed nor sent, though the client may have left: there is no hook to tell the page.
OperationMemory ==
    loop = "running" =>
        \A r \in Reqs : ops[r] # {} =>
            machine[r].fires = 0 /\ mem[r] = "live" /\ state[r] # "PROCESSED"

\* The inductive invariant, request by request: the machine knows exactly which
\* operations are under way, and has fired when none is left.
ReqInv(r) ==
    /\ mem[r] = "none" => machine[r] = NewMachine /\ ops[r] = {} /\ r \notin undefined
    /\ loop = "running" => (r \in running <=> ops[r] # {})
    /\ ops[r] # {} =>
          /\ machine[r].fires = 0
          /\ machine[r].pending = Cardinality(ops[r])
          /\ machine[r].github = "none" <=> "github" \in ops[r]
          /\ machine[r].db = "none" <=> "db" \in ops[r]
    /\ Defined(r) => machine[r].fires \in {0, 1}
    /\ machine[r].fires > 0 =>
          ops[r] = {} /\ machine[r].github # "none" /\ machine[r].db # "none"
    /\ loop = "running" /\ mem[r] = "live" /\ state[r] # "PROCESSED" /\ Defined(r) =>
          ops[r] # {}

HubTypes ==
    /\ machine \in [Reqs -> Machine]
    /\ ops \in [Reqs -> SUBSET {"github", "db"}]
    /\ undefined \subseteq Reqs

HubInv == IInv /\ HubTypes /\ \A r \in Reqs : ReqInv(r)

\* A page that does not wait for its transfer is answered or released: the query ends,
\* the machine completes, the timer sends.
PageSettles ==
    \A r \in Reqs :
        (mem[r] = "live" /\ "github" \notin ops[r] /\ Defined(r)) ~> mem[r] = "freed"
===============================================================================
