----------------------------- MODULE MCProfiles -----------------------------
(* Profiles for TLC: workers, files and services are interchangeable. *)
EXTENDS Profiles, TLC

CONSTANTS l1, l2, l3

OneEach == {{l1}, {l2}, {l3}}

Symmetric == Permutations(Workers) \cup Permutations(Files) \cup Permutations({l1, l2, l3})

=============================================================================
