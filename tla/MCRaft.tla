------------------------------- MODULE MCRaft -------------------------------
(* RaftServer clusters small enough to enumerate. *)
EXTENDS RaftProperties, TLC

CONSTANTS s1, s2, s3, s4, apply1, apply2

\* All servers may do the same things, and no command is special.
AllAlike == Permutations(Server) \cup Permutations(Command)

\* Those who stand for election are alike, and so are those who do not.
PeersAlike == Permutations(Candidates) \cup Permutations(Server \ Candidates)
              \cup Permutations(Command)

=============================================================================
