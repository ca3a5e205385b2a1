------------------------------ MODULE Network ------------------------------
(***************************************************************************)
(* What RaftServer takes for granted of the messages from one server to    *)
(* another: one that was sent may be lost, or be overtaken by later ones,  *)
(* but it is received as it was sent, and once at most.                    *)
(***************************************************************************)
EXTENDS Naturals, Sequences, SequencesExt

VARIABLES
    sent,       \* the messages sent so far
    received    \* the messages given to the receiver, in that order

Send ==
    \E m \in sent' :
        m \notin sent /\ sent' = sent \cup {m} /\ UNCHANGED received

Receive ==
    \E m \in sent \ Range(received) :
        received' = Append(received, m) /\ UNCHANGED sent

Init == sent = {} /\ received = << >>

Spec == Init /\ [][Send \/ Receive]_<<sent, received>>

=============================================================================
