---------------------------- MODULE RequestService ----------------------------
(***************************************************************************)
(* What the server owes a client, with no queue, timer or memory in sight. *)
(* A request is taken from one connection; its response becomes ready, at  *)
(* once or later; a ready response is settled: answered if its connection  *)
(* is still there, abandoned if it is not.  ServerPending implements this. *)
(***************************************************************************)

CONSTANTS Conns,    \* connections the server ever accepts
          Reqs,     \* requests it ever parses
          NoConn    \* not a connection

VARIABLES peer,     \* [Conns -> "none", "open" or "gone"]
          owner,    \* [Reqs -> the connection a request came on, or NoConn]
          status,   \* [Reqs -> "idle", "taken", "ready", "answered", "abandoned"]
          up        \* TRUE until the server stops

absVars == <<peer, owner, status, up>>

Init ==
    /\ peer = [c \in Conns |-> "none"]
    /\ owner = [r \in Reqs |-> NoConn]
    /\ status = [r \in Reqs |-> "idle"]
    /\ up = TRUE

Connect(c) ==
    /\ up
    /\ peer[c] = "none"
    /\ peer' = [peer EXCEPT ![c] = "open"]
    /\ UNCHANGED <<owner, status, up>>

Disconnect(c) ==
    /\ up
    /\ peer[c] = "open"
    /\ peer' = [peer EXCEPT ![c] = "gone"]
    /\ UNCHANGED <<owner, status, up>>

\* A request enters the service; a synchronous handler answers it on the spot.
Take(c, r, st) ==
    /\ up
    /\ peer[c] = "open"
    /\ status[r] = "idle"
    /\ st \in {"taken", "answered"}
    /\ owner' = [owner EXCEPT ![r] = c]
    /\ status' = [status EXCEPT ![r] = st]
    /\ UNCHANGED <<peer, up>>

Ready(r) ==
    /\ up
    /\ status[r] = "taken"
    /\ status' = [status EXCEPT ![r] = "ready"]
    /\ UNCHANGED <<peer, owner, up>>

\* Answered only on the connection it came on, and only while that one is open.
Settle(r) ==
    /\ up
    /\ status[r] = "ready"
    /\ status' = [status EXCEPT ![r] = IF peer[owner[r]] = "open" THEN "answered"
                                                                  ELSE "abandoned"]
    /\ UNCHANGED <<peer, owner, up>>

Halt ==
    /\ up
    /\ up' = FALSE
    /\ status' = [r \in Reqs |-> IF status[r] \in {"taken", "ready"} THEN "abandoned"
                                                                     ELSE status[r]]
    /\ UNCHANGED <<peer, owner>>

Next ==
    \/ \E c \in Conns : Connect(c) \/ Disconnect(c)
    \/ \E c \in Conns, r \in Reqs : \E st \in {"taken", "answered"} : Take(c, r, st)
    \/ \E r \in Reqs : Ready(r) \/ Settle(r)
    \/ Halt

SafeSpec == Init /\ [][Next]_absVars

\* A ready response is always settled: no client waits on a finished handler.
Fairness == \A r \in Reqs : WF_absVars(Settle(r))

Spec == SafeSpec /\ Fairness
===============================================================================
