----------------------------- MODULE CommandLog -----------------------------
(***************************************************************************)
(* What StateMachineControler promises: the entries that are committed are *)
(* applied to the state machine one after the other, each once, in the     *)
(* order of the log, and none is left out in the end.                      *)
(***************************************************************************)
EXTENDS Naturals, Sequences

VARIABLES
    committed,  \* the entries that were committed so far
    applied     \* the entries the state machine has applied

\* Several entries may be committed at once.
Commit ==
    /\ Len(committed') > Len(committed)
    /\ SubSeq(committed', 1, Len(committed)) = committed
    /\ UNCHANGED applied

Apply ==
    /\ Len(applied) < Len(committed)
    /\ applied' = Append(applied, committed[Len(applied) + 1])
    /\ UNCHANGED committed

Init == committed = << >> /\ applied = << >>

Spec ==
    /\ Init
    /\ [][Commit \/ Apply]_<<committed, applied>>
    /\ WF_<<committed, applied>>(Apply)

=============================================================================
