---------------------------- MODULE MCHandlePool ----------------------------
(***************************************************************************)
(* HandlePool with model values for the threads: three requests compete    *)
(* for a pool of two handles, so one of them has to wait.                  *)
(***************************************************************************)
EXTENDS HandlePool, TLC

CONSTANTS r1, r2, r3, m, none

TwoRequests == {r1, r2}
ThreeRequests == {r1, r2, r3}

\* Requests are interchangeable; used by the runs without liveness only.
RequestSymmetry == Permutations(Requests)

=============================================================================
