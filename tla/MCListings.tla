----------------------------- MODULE MCListings -----------------------------
(* Listings for TLC: rows are interchangeable, and any of them are listed   *)
(* when a walk begins, so that one order of the rows stands for all.        *)
EXTENDS Listings

\* Any ranking, with ties or without, is one of these but for the names of rows.
SortedRankings == {f \in [Rows -> 1..MaxRank] : \A r, s \in Rows : r < s => f[r] <= f[s]}

=============================================================================
