\* Two bookings of one provider; two users can report the third, with and without a
\* booking.
SPECIFICATION Spec
CONSTANTS
  Workers = {w1, w2}
  alice = alice
  bob = bob
  carol = carol
  b1 = b1
  b2 = b2
  NoBooking = NoBooking
  Users <- AllUsers
  Bookings <- BothBookings
  ClientOf <- Clients
  Targets <- Reported
  References = {NoBooking, b1}
  WARN_THRESHOLD = 1
  SUSPEND_THRESHOLD = 2
SYMMETRY Symmetric
INVARIANT ReviewedWasCompleted
INVARIANT LostOnlyToOverlap
INVARIANT SanctionsJustified
INVARIANT ThresholdsApplied
INVARIANT DuplicatesBounded
INVARIANT SuspensionBites
PROPERTY ImplementsRating
\* The bookings come to an end and everybody may be suspended.
CHECK_DEADLOCK FALSE
