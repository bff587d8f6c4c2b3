------------------------------ MODULE MCDatahub ------------------------------
(***************************************************************************)
(* Datahub on two connections and two requests.                            *)
(***************************************************************************)
EXTENDS Datahub
===============================================================================
