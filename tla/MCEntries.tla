----------------------------- MODULE MCEntries -----------------------------
(* Two entries whose encodings differ in length, and one more like the first. *)
EXTENDS EntriesStore

CONSTANTS a, b, c

MCWidth == [e \in Value |-> IF e = b THEN 2 ELSE 1]

=============================================================================
