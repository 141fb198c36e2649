----------------------------- MODULE MCMessaging -----------------------------
(* Messaging for TLC: workers are interchangeable. *)
EXTENDS Messaging, TLC

Symmetric == Permutations(Workers)

=============================================================================
