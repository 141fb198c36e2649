------------------------ MODULE BookingStatusMachine ------------------------
(***************************************************************************)
(* The booking state machine of                                            *)
(* modules/bookings/services/booking-status.machine.ts: which role may     *)
(* take a booking from one status to another.  A pure module: it has no    *)
(* variables.                                                              *)
(***************************************************************************)

\* The enum BookingStatus of the Prisma schema.
BookingStatuses == {"pending", "confirmed", "in_progress", "completed", "cancelled"}

\* type BookingRole
BookingRoles == {"client", "provider"}

\* TRANSITIONS: one triple for each role listed under a status and a target.
Transitions ==
  { <<"pending",     "confirmed",   "provider">>,
    <<"pending",     "cancelled",   "client">>,
    <<"pending",     "cancelled",   "provider">>,
    <<"confirmed",   "in_progress", "provider">>,
    <<"confirmed",   "cancelled",   "client">>,
    <<"confirmed",   "cancelled",   "provider">>,
    <<"in_progress", "completed",   "provider">> }

\* The targets that TRANSITIONS[from] lists, whatever the role.
Successor(from, to) == \E role \in BookingRoles : <<from, to, role>> \in Transitions

\* Mutant: only the role is asked for.
TransitionAllowedByRole(from, to, role) ==
  \E s \in BookingStatuses : <<s, to, role>> \in Transitions

\* assertBookingTransition: the 409 of an unknown transition (Successor fails)
\* and the 403 of a known one with the wrong role both stop the caller.
TransitionAllowed(from, to, role) == <<from, to, role>> \in Transitions

=============================================================================
