---------------------------- MODULE MCReputation ----------------------------
(* Reputation for TLC: one user is reported, and reviews one of the bookings;  *)
(* the two others can report it.  The thresholds are one below those of the    *)
(* code, so that two reporters reach the second.                               *)
EXTENDS Reputation, TLC

CONSTANTS alice, bob, carol, b1, b2

AllUsers == {alice, bob, carol}
BothBookings == {b1, b2}
Clients == b1 :> alice @@ b2 :> bob
Reported == {alice}

Symmetric == Permutations(Workers)

=============================================================================
