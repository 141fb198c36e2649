SPECIFICATION Spec
CONSTANTS
  awa = awa
  koffi = koffi
  p1 = p1
  b1 = b1
  Users = {awa, koffi}
  Providers = {p1}
  Bookings = {b1}
  Payments = {r1}
  Workers = {w1}
  ProviderUser <- MCProviderUser
  ClientOf <- MCClientOf
  ProviderOf <- MCProviderOf
  BookingOf <- MCBookingOf
  GatewayMode = "wave"
  AutocompleteMs = 0
  Faults = {}
INVARIANT EventsFollowStatus
\* The one booking and the references run out, and with them the requests.
CHECK_DEADLOCK FALSE
