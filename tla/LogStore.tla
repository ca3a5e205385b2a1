------------------------------ MODULE LogStore ------------------------------
(***************************************************************************)
(* What Entries promises to RaftServer: a log that survives restarts, read *)
(* by index, where inserting at an index discards what was there and after *)
(* it.  insert is one step: nobody sees half of it, not even a crash.      *)
(***************************************************************************)
EXTENDS Naturals, Sequences

CONSTANT Value

VARIABLE log

Insert(index, e) ==
    /\ index <= Len(log)
    /\ log' = Append(SubSeq(log, 1, index), e)

Init == log = << >>

Next == \E index \in 0 .. Len(log), e \in Value : Insert(index, e)

Spec == Init /\ [][Next]_log

=============================================================================
