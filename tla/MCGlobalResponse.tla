--------------------------- MODULE MCGlobalResponse ---------------------------
(***************************************************************************)
(* GlobalResponse with two requests: the least that share a g_response.    *)
(***************************************************************************)
EXTENDS GlobalResponse
===============================================================================
