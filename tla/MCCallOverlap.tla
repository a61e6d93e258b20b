---------------------------- MODULE MCCallOverlap ----------------------------
(***************************************************************************)
(* Two requests of one operation each, consumed by two clients.            *)
(***************************************************************************)
EXTENDS CallOverlap, TLC

CONSTANTS k1, k2, q1, q2

TwoRequests == k1 :> q1 @@ k2 :> q2

\* Prepared calls and clients are interchangeable, and no property is temporal.
Symmetry == Permutations(Call) \cup Permutations(Client)
=============================================================================
