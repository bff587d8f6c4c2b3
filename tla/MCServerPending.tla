--------------------------- MODULE MCServerPending ---------------------------
(***************************************************************************)
(* ServerPending on two connections and three requests, two of them        *)
(* pipelined at most, with fewer timing slots than requests.               *)
(***************************************************************************)
EXTENDS ServerPending
===============================================================================
