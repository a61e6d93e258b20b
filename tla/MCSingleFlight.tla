--------------------------- MODULE MCSingleFlight ---------------------------
(***************************************************************************)
(* Three callers of one key, and of two.                                   *)
(***************************************************************************)
EXTENDS SingleFlight, TLC

\* Callers, keys and tasks are interchangeable, and no property is temporal.
Symmetry == Permutations(Caller) \cup Permutations(Key) \cup Permutations(Flight)
=============================================================================
