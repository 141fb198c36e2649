------------------------------- MODULE Ratings -------------------------------
(***************************************************************************)
(* What the review subsystem promises of a provider's rating, whatever     *)
(* transactions overlap and wherever they stop: it changes with a new      *)
(* review only, it counts that review, and it counts no review that is not *)
(* in the table.  It does not promise to count all of them.                *)
(***************************************************************************)

CONSTANT Bookings

VARIABLES
  rated,      \* the bookings of the provider that have a review
  published   \* the reviews that rating_avg and rating_count stand for

ratings == <<rated, published>>

Init == rated = {} /\ published = {}

\* A review enters the table, and the rating with it.
Publish(b) ==
  /\ b \notin rated
  /\ rated' = rated \cup {b}
  /\ \E earlier \in SUBSET rated : published' = earlier \cup {b}

Next == \E b \in Bookings : Publish(b)

Spec == Init /\ [][Next]_ratings

=============================================================================
