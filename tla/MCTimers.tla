----------------------------- MODULE MCTimers -----------------------------
(* One server and its timers for two or three peers. *)
EXTENDS ServerTimers, TLC

CONSTANTS p1, p2, p3

PeersAlike == Permutations(Peer)

=============================================================================
