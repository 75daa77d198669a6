--------------------------- MODULE MCAIInvocation ---------------------------
(* Model-checking instances of AIInvocation.                                  *)
EXTENDS AIInvocation, TLC

\* Replicas and requests are interchangeable in every action and invariant.
Symmetry == Permutations(Replicas) \cup Permutations(Handlers)
=============================================================================
