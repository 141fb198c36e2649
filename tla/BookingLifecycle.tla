-------------------------- MODULE BookingLifecycle --------------------------
(***************************************************************************)
(* What the booking subsystem promises of a booking's history, whatever    *)
(* the interleaving of the requests and of the payment settlements that    *)
(* write its status: the status is always one that TRANSITIONS reaches     *)
(* from a status the booking has really held (not necessarily the current  *)
(* one: every writer decides on a status it read earlier).                 *)
(***************************************************************************)
EXTENDS BookingStatusMachine

CONSTANT Bookings

VARIABLES
  status,   \* status[b]: the status column, or "absent" before the insert
  visited   \* visited[b]: every status the booking has held

lifecycle == <<status, visited>>

Init ==
  /\ status = [b \in Bookings |-> "absent"]
  /\ visited = [b \in Bookings |-> {}]

\* A client's request creates the booking.
Open(b) ==
  /\ status[b] = "absent"
  /\ status' = [status EXCEPT ![b] = "pending"]
  /\ visited' = [visited EXCEPT ![b] = {"pending"}]

\* Someone acts on a status the booking holds or has held.
Advance(b, from, to) ==
  /\ from \in visited[b]
  /\ Successor(from, to)
  /\ status' = [status EXCEPT ![b] = to]
  /\ visited' = [visited EXCEPT ![b] = @ \cup {to}]

Next ==
  \E b \in Bookings :
    \/ Open(b)
    \/ \E from, to \in BookingStatuses : Advance(b, from, to)

Spec == Init /\ [][Next]_lifecycle

=============================================================================
