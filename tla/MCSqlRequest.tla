----------------------------- MODULE MCSqlRequest -----------------------------
(***************************************************************************)
(* SqlRequest with timeouts around its two ceilings.                       *)
(***************************************************************************)
EXTENDS SqlRequest

\* Too small, below both ceilings, above both.
Asked == {0, 2, 5}

=============================================================================
