------------------------------- MODULE MCSite -------------------------------
(***************************************************************************)
(* The site with three files, one of them in a directory assets of its own *)
(* and one excluded, two editions, a table of two slots and two routes.    *)
(***************************************************************************)
EXTENDS Site

CONSTANTS a, b, assets, up

U(s, q) == [segs |-> s, query |-> q]

MCFiles == {<<a>>, <<assets, a>>, <<b>>}
MCExcluded == {<<b>>}
MCRoutePaths == {U(<<assets>>, FALSE), U(<<assets, a>>, FALSE)}
MCUrls ==
    MCRoutePaths \cup
    {U(<<assets>>, TRUE), U(<<assets, a>>, TRUE), U(<<assets, b>>, FALSE),
     U(<<assets, assets, a>>, FALSE), U(<<assets, up, a>>, FALSE)}
=============================================================================
