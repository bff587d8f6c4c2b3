----------------------------- MODULE MCEasyFetch -----------------------------
(***************************************************************************)
(* EasyFetch on two connections and three requests.                        *)
(***************************************************************************)
EXTENDS EasyFetch
===============================================================================
