------------------------- MODULE MCBookingPayments -------------------------
(* A small marketplace for TLC: one client, one provider, one booking. *)
EXTENDS BookingPayments, TLC

CONSTANTS awa, koffi, p1, b1

MCProviderUser == [p \in Providers |-> koffi]
MCClientOf == [b \in Bookings |-> awa]
MCProviderOf == [b \in Bookings |-> p1]
MCBookingOf == [ref \in Payments |-> b1]

\* Workers and payments are interchangeable in every safety property.
Symmetric == Permutations(Workers) \cup Permutations(Payments)

=============================================================================
