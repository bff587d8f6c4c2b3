----------------------------- MODULE LeakTracker -----------------------------
(***************************************************************************)
(* The leak tracker (framework/src/leak_detector/leakdetect.c) of an       *)
(* application in DEV mode: a growing array of records, searched from the  *)
(* front, in which a freed record is overwritten by the last one.  In any  *)
(* other mode the tracker does nothing.                                    *)
(***************************************************************************)
EXTENDS Naturals, Sequences

VARIABLE g_records    \* Seq of [pointer, name]

\* find_record_index
IndexOf(records, p) == {i \in 1..Len(records) : records[i].pointer = p}

\* cweb_leak_tracker_record for an allocation: a pointer still tracked is relabelled.
Track(records, p, name) ==
    IF IndexOf(records, p) = {} THEN Append(records, [pointer |-> p, name |-> name])
    ELSE [i \in 1..Len(records) |->
             IF i \in IndexOf(records, p) THEN [pointer |-> p, name |-> name]
                                          ELSE records[i]]

\* Variant with a likely bug: the count is decremented without moving the last record.
UntrackLast(records, p) ==
    IF IndexOf(records, p) = {} THEN records
    ELSE [i \in 1..(Len(records) - 1) |-> records[i]]

\* cweb_leak_tracker_record for a release: the last record takes the freed one's
\* place.  An unknown pointer only causes a warning.
Untrack(records, p) ==
    IF IndexOf(records, p) = {} THEN records
    ELSE [i \in 1..(Len(records) - 1) |->
             IF i \in IndexOf(records, p) THEN records[Len(records)] ELSE records[i]]

\* cweb_leak_tracker_outstanding
Outstanding == Len(g_records)
===============================================================================
