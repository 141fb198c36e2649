----------------------------- MODULE MCSessions -----------------------------
(* Sessions for TLC: workers and tokens are interchangeable. *)
EXTENDS Sessions, TLC

Symmetric == Permutations(Workers) \cup Permutations(Tokens)

=============================================================================
