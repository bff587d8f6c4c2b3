---------------------------- MODULE MCFetchClient ----------------------------
(***************************************************************************)
(* FetchClient with two clients and two requests, of one client or of two: *)
(* LoopTakesAll speaks of them one by one, so no symmetry is declared.     *)
(***************************************************************************)
EXTENDS FetchClient

\* Text, and text with a NUL after it.
SomeChunks == {[size |-> 1, text |-> 1], [size |-> 2, text |-> 1]}
==============================================================================
