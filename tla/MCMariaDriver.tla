---------------------------- MODULE MCMariaDriver ----------------------------
(***************************************************************************)
(* MariaDriver on result sets of up to two rows.                           *)
(***************************************************************************)
EXTENDS MariaDriver
===============================================================================
