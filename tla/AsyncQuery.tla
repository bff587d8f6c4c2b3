------------------------------ MODULE AsyncQuery ------------------------------
(***************************************************************************)
(* What mariadb_async_query promises its caller: a query is refused at     *)
(* once, in which case the callback is never called, or it runs and the    *)
(* callback is called once, with a result or with an error.                *)
(***************************************************************************)
EXTENDS Naturals

VARIABLES
    phase,      \* "idle", "refused", "running", "succeeded" or "failed"
    calls       \* number of times the callback was called

queryVars == <<phase, calls>>

QueryInit == phase = "idle" /\ calls = 0

Refuse == phase = "idle" /\ phase' = "refused" /\ UNCHANGED calls

Start == phase = "idle" /\ phase' = "running" /\ UNCHANGED calls

End ==
    /\ phase = "running"
    /\ phase' \in {"succeeded", "failed"}
    /\ calls' = calls + 1

QueryNext == Refuse \/ Start \/ End

\* A query that runs ends.
QuerySpec == QueryInit /\ [][QueryNext]_queryVars /\ WF_queryVars(End)
===============================================================================
