-------------------------- MODULE MCServerLifecycle --------------------------
(***************************************************************************)
(* ServerLifecycle with model values: three connections and an admission   *)
(* limit of two, so that requests are refused, or two connections where a  *)
(* run asks about an order of events that needs no more.                   *)
(***************************************************************************)
EXTENDS ServerLifecycle, TLC

CONSTANTS r1, r2, r3

OneRequest == {r1}
TwoRequests == {r1, r2}
ThreeRequests == {r1, r2, r3}

\* Requests are interchangeable; used by the runs without liveness only.
RequestSymmetry == Permutations(Requests)

=============================================================================
