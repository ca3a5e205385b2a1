-------------------------- MODULE RaftServerProofs --------------------------
(***************************************************************************)
(* Invariants of RaftServer proved for clusters of any size and every      *)
(* value of the bounds.  A server in the state v is sound if StateOK(v, s),*)
(* a message if MsgOK(m).  Each function of RaftServer.cpp that changes    *)
(* the members keeps StateOK (the first part), each one that builds a      *)
(* message makes a sound one (the second), and so each handler keeps the   *)
(* inductive invariant IInv (the third).                                   *)
(***************************************************************************)
EXTENDS RaftProperties, SequenceTheorems, TLAPS

\* The only assertions that a process of this cluster may die of.
Sound == {"none", "two primaries", "commit decreases",
          "resp_ae to non-primary", "index 0 denied"}

\* An entry carries its own place in the log: the index that
\* append_client_apply_to_entries gives it is where insert puts it.
Positions(log) == \A i \in 1 .. Len(log) : log[i].index = i - 1

\* A primary's books never run past the end of its log.
PrimaryOK(v, s) ==
    v.state = "primary" =>
        /\ \A p \in Server : /\ v.nextIndex[p] \in 0 .. Len(v.entries)
                             /\ v.Follower_saved_index[p] < Len(v.entries)
        /\ v.Follower_saved_index[s] = Len(v.entries) - 1

\* No timer of P has a handler that AE would find hooked.
NoneHooked(v, P) == \A p \in P : v.retry_timers[p] = "none"

\* Only a primary repeats AEs.
TimersOK(v) ==
    v.state # "primary" => \A p \in Server : v.retry_timers[p] # "AE"

\* The part of the inductive invariant about one server.
StateOK(v, s) ==
    /\ v \in ServerState
    /\ v.thrown \in Sound
    /\ Positions(v.entries)
    /\ v.commit_index < Len(v.entries)
    /\ PrimaryOK(v, s)
    /\ TimersOK(v)

-----------------------------------------------------------------------------
(* One lemma per state transformer of RaftServer. *)

\* A process starts in a sound state, whatever log it finds on disk (run).
LEMMA BootOK ==
    ASSUME NEW log \in Seq(Entry), Positions(log), NEW s \in Server
    PROVE  StateOK(Boot(log), s)
BY DEF StateOK, Boot, ServerState, Sound, PrimaryOK, TimersOK, Thrown

\* A process that died of one of these assertions is sound (throw_line).
LEMMA ThrowOK ==
    ASSUME NEW s \in Server, NEW v, StateOK(v, s), NEW what \in Sound
    PROVE  StateOK(throw_line(v, what), s)
<1> DEFINE b == Boot(v.entries)
<1>1. StateOK(b, s)
  BY BootOK DEF StateOK, ServerState
<1>2. b.state = "follower"
  BY DEF Boot
<1>. HIDE DEF b
<1>3. throw_line(v, what) = [b EXCEPT !.thrown = what, !.candidate_timer = FALSE]
  BY DEF throw_line, b
<1>4. QED
  BY <1>1, <1>2, <1>3 DEF StateOK, ServerState, Sound, Thrown, PrimaryOK,
                          TimersOK

\* A transformer that keeps the log and its indexes keeps StateOK.
LEMMA FrameOK ==
    ASSUME NEW s \in Server, NEW v, NEW w, StateOK(v, s), w \in ServerState,
           TimersOK(w), w.thrown = v.thrown,
           w.entries = v.entries, w.commit_index = v.commit_index,
           \/ w.state # "primary"
           \/ /\ w.state = v.state
              /\ w.nextIndex = v.nextIndex
              /\ w.Follower_saved_index = v.Follower_saved_index
    PROVE  StateOK(w, s)
BY DEF StateOK, PrimaryOK

\* cancel_all_timers unhooks every timer and touches nothing else.
LEMMA CancelOK ==
    ASSUME NEW s \in Server, NEW v, StateOK(v, s), NEW w,
           w = cancel_all_timers(v)
    PROVE  /\ StateOK(w, s)
           /\ w.term = v.term /\ w.entries = v.entries /\ w.thrown = v.thrown
           /\ w.commit_index = v.commit_index
           /\ ~w.candidate_timer
           /\ NoneHooked(w, Server)
<1>1. v \in ServerState
  BY DEF StateOK
<1>2. w \in ServerState
  BY <1>1 DEF cancel_all_timers, ServerState
<1>3. /\ w.term = v.term /\ w.entries = v.entries /\ w.thrown = v.thrown
      /\ w.commit_index = v.commit_index /\ w.state = v.state
      /\ w.nextIndex = v.nextIndex
      /\ w.Follower_saved_index = v.Follower_saved_index
      /\ w.candidate_timer = FALSE
      /\ w.retry_timers = [p \in Server |-> "none"]
  BY <1>1 DEF cancel_all_timers, ServerState
<1>4. TimersOK(w)
  BY <1>3 DEF TimersOK
<1>5. NoneHooked(w, Server)
  BY <1>3 DEF NoneHooked
<1>6. QED
  BY <1>2, <1>3, <1>4, <1>5, FrameOK

\* What update_term leaves alone.
SameButTerm(w, v) ==
    /\ w.thrown = v.thrown
    /\ w.state = v.state
    /\ w.already_voted = v.already_voted
    /\ w.winned_votes = v.winned_votes
    /\ w.candidate_timer = v.candidate_timer
    /\ w.retry_timers = v.retry_timers
    /\ w.entries = v.entries
    /\ w.commit_index = v.commit_index
    /\ w.nextIndex = v.nextIndex
    /\ w.Follower_saved_index = v.Follower_saved_index

\* update_term moves to a term that is not lower, and never throws then.
LEMMA UpdateTermOK ==
    ASSUME NEW s \in Server, NEW v, StateOK(v, s), NEW t \in Nat, t >= v.term,
           NEW w, w = update_term(v, t)
    PROVE  StateOK(w, s) /\ w.term = t /\ SameButTerm(w, v)
<1>1. v \in ServerState /\ v.term \in Nat
  BY DEF StateOK, ServerState
<1>2. CASE t = v.term
  <2>1. ~(t < v.term)
    BY <1>1, <1>2
  <2>2. w = v
    BY <1>2, <2>1, Zenon DEF update_term
  <2>3. QED
    BY <1>2, <2>2 DEF SameButTerm
<1>3. CASE t > v.term
  <2> DEFINE sent == [p \in Server |-> 0]
             seen == [p \in Server |-> -1]
  <2>1. ~(t < v.term) /\ t # v.term
    BY <1>1, <1>3
  <2>2. w = [v EXCEPT !.term = t, !.current_rpc_lsn = sent,
                                  !.follower_rpc_lsn = seen]
    BY <2>1, Zenon DEF update_term
  <2>3. sent \in [Server -> Nat] /\ seen \in [Server -> Int]
    OBVIOUS
  <2> HIDE DEF sent, seen
  <2>4. w \in ServerState /\ w.term = t
    BY <1>1, <2>2, <2>3 DEF ServerState
  <2>5. SameButTerm(w, v)
    BY <1>1, <2>2 DEF ServerState, SameButTerm
  <2>6. TimersOK(w)
    BY <2>5 DEF SameButTerm, StateOK, TimersOK
  <2>7. QED
    BY <2>4, <2>5, <2>6, FrameOK DEF SameButTerm
<1>4. QED
  BY <1>1, <1>2, <1>3

\* A live server becomes a live follower of term t with the same log.
LEMMA Trans2FOK ==
    ASSUME NEW s \in Server, NEW v, StateOK(v, s), Alive(v),
           NEW t \in Nat, t >= v.term, NEW f, f = trans2F(v, t)
    PROVE  /\ StateOK(f, s)
           /\ Alive(f)
           /\ f.term = t
           /\ f.entries = v.entries
           /\ f.state = "follower"
<1> DEFINE c == cancel_all_timers(v)
           d == [c EXCEPT !.winned_votes = 0]
           w == update_term(d, t)
           g == [w EXCEPT !.already_voted = FALSE, !.state = "follower"]
<1>1. /\ StateOK(c, s)
      /\ ~c.candidate_timer /\ NoneHooked(c, Server)
      /\ c.term = v.term /\ c.entries = v.entries /\ c.thrown = v.thrown
  BY CancelOK
<1> HIDE DEF c
<1>2. c \in ServerState
  BY <1>1 DEF StateOK
<1>3. d \in ServerState
  BY <1>2 DEF ServerState
<1>4. /\ d.term = v.term /\ d.entries = v.entries /\ d.thrown = v.thrown
      /\ ~d.candidate_timer
  BY <1>1, <1>2 DEF ServerState
<1>5. StateOK(d, s) /\ NoneHooked(d, Server)
  <2>1. /\ d.thrown = c.thrown /\ d.entries = c.entries
        /\ d.commit_index = c.commit_index /\ d.state = c.state
        /\ d.nextIndex = c.nextIndex
        /\ d.Follower_saved_index = c.Follower_saved_index
        /\ d.retry_timers = c.retry_timers
    BY <1>2 DEF ServerState
  <2>2. TimersOK(d) /\ NoneHooked(d, Server)
    BY <1>1, <2>1 DEF NoneHooked, TimersOK
  <2>3. QED
    BY <1>1, <1>3, <2>1, <2>2, FrameOK
<1> HIDE DEF d
<1>6. StateOK(w, s) /\ w.term = t /\ SameButTerm(w, d)
  BY <1>4, <1>5, UpdateTermOK
<1> HIDE DEF w
<1>7. w \in ServerState
  BY <1>6 DEF StateOK
<1>8. g \in ServerState
  BY <1>7 DEF ServerState
<1>9. /\ g.term = t /\ g.entries = v.entries /\ g.thrown = v.thrown
      /\ ~g.candidate_timer /\ g.state = "follower"
      /\ g.commit_index = w.commit_index
      /\ g.entries = w.entries /\ g.thrown = w.thrown
      /\ g.retry_timers = w.retry_timers
  BY <1>4, <1>6, <1>7 DEF ServerState, SameButTerm
<1>10. StateOK(g, s) /\ TimersOK(g)
  <2>1. TimersOK(g)
    BY <1>5, <1>6, <1>9 DEF TimersOK, NoneHooked, SameButTerm
  <2>2. QED
    BY <1>6, <1>8, <1>9, <2>1, FrameOK
<1> HIDE DEF g
<1>11. w.thrown = "none"
  BY <1>4, <1>6 DEF SameButTerm, Alive
<1>12. f = hook_candidate_timer(g)
  BY <1>11 DEF trans2F, Alive, c, d, w, g
<1>13. f = [g EXCEPT !.candidate_timer = TRUE]
  BY <1>9, <1>12 DEF hook_candidate_timer
<1>14. f \in ServerState
  BY <1>8, <1>13 DEF ServerState
<1>15. /\ f.term = t /\ f.entries = g.entries /\ f.thrown = g.thrown
       /\ f.state = "follower" /\ f.commit_index = g.commit_index
       /\ f.retry_timers = g.retry_timers
  BY <1>8, <1>9, <1>13 DEF ServerState
<1>16. TimersOK(f)
  BY <1>9, <1>10, <1>15 DEF TimersOK
<1>17. QED
  BY <1>9, <1>10, <1>14, <1>15, <1>16, FrameOK DEF Alive

\* trans2C makes a candidate of the next term with the same log.
LEMMA Trans2COK ==
    ASSUME NEW s \in Server, NEW v, StateOK(v, s), Alive(v),
           NEW f, f = trans2C(v)
    PROVE  /\ StateOK(f, s)
           /\ f.term = v.term + 1
           /\ f.entries = v.entries
           /\ f.state = "candidate"
<1> DEFINE c == cancel_all_timers(v)
           w == update_term(c, v.term + 1)
           g == [w EXCEPT !.state = "candidate", !.winned_votes = 1]
<1>1. /\ StateOK(c, s)
      /\ ~c.candidate_timer /\ NoneHooked(c, Server)
      /\ c.term = v.term /\ c.entries = v.entries /\ c.thrown = v.thrown
  BY CancelOK
<1>2. v.term \in Nat
  BY DEF StateOK, ServerState
<1> HIDE DEF c
<1>3. StateOK(w, s) /\ w.term = v.term + 1 /\ SameButTerm(w, c)
  <2>1. v.term + 1 \in Nat /\ v.term + 1 >= c.term
    BY <1>1, <1>2
  <2>2. QED
    BY <1>1, <2>1, UpdateTermOK
<1> HIDE DEF w
<1>4. w \in ServerState
  BY <1>3 DEF StateOK
<1>5. g \in ServerState
  BY <1>4 DEF ServerState
<1>6. /\ g.term = v.term + 1 /\ g.entries = v.entries /\ g.thrown = v.thrown
      /\ ~g.candidate_timer /\ g.state = "candidate"
      /\ g.commit_index = w.commit_index
      /\ g.entries = w.entries /\ g.thrown = w.thrown
      /\ g.retry_timers = w.retry_timers
  BY <1>1, <1>3, <1>4 DEF ServerState, SameButTerm
<1>7. StateOK(g, s) /\ TimersOK(g)
  <2>1. TimersOK(g)
    BY <1>1, <1>3, <1>6 DEF TimersOK, NoneHooked, SameButTerm
  <2>2. QED
    BY <1>3, <1>5, <1>6, <2>1, FrameOK
<1> HIDE DEF g
<1>8. f = hook_candidate_timer(g)
  BY DEF trans2C, c, w, g
<1>9. f = [g EXCEPT !.candidate_timer = TRUE]
  BY <1>6, <1>8 DEF hook_candidate_timer
<1>10. f \in ServerState
  BY <1>5, <1>9 DEF ServerState
<1>11. /\ f.term = g.term /\ f.entries = g.entries /\ f.thrown = g.thrown
       /\ f.state = g.state /\ f.commit_index = g.commit_index
       /\ f.retry_timers = g.retry_timers
  BY <1>5, <1>9 DEF ServerState
<1>12. TimersOK(f)
  BY <1>7, <1>11 DEF TimersOK
<1>13. QED
  BY <1>6, <1>7, <1>10, <1>11, <1>12, FrameOK

\* trans2P makes a primary whose books fit its log and whose timers are free,
\* so that the AEs it then sends find none hooked.
LEMMA Trans2POK ==
    ASSUME NEW s \in Server, NEW v, StateOK(v, s), NEW f, f = trans2P(v, s)
    PROVE  /\ StateOK(f, s)
           /\ f.state = "primary"
           /\ f.entries = v.entries
           /\ NoneHooked(f, Server)
<1> DEFINE c == cancel_all_timers(v)
           size == Len(v.entries)
           next == [p \in Server |-> size]
           saved == [p \in Server |-> IF p = s THEN size - 1 ELSE -1]
<1>1. /\ StateOK(c, s)
      /\ c.entries = v.entries /\ c.thrown = v.thrown
      /\ c.commit_index = v.commit_index
      /\ NoneHooked(c, Server)
  BY CancelOK
<1>2. size \in Nat
  BY LenProperties DEF StateOK, ServerState
<1>3. next \in [Server -> Int] /\ saved \in [Server -> Int]
  BY <1>2
<1>4. /\ \A p \in Server : next[p] = size /\ saved[p] < size
      /\ saved[s] = size - 1
  BY <1>2
<1>5. f = [c EXCEPT !.state = "primary", !.nextIndex = next,
                    !.Follower_saved_index = saved]
  BY DEF trans2P
<1> HIDE DEF c, next, saved
<1>6. c \in ServerState
  BY <1>1 DEF StateOK
<1>7. f \in ServerState
  BY <1>3, <1>5, <1>6 DEF ServerState
<1>8. /\ f.state = "primary" /\ f.nextIndex = next
      /\ f.Follower_saved_index = saved
      /\ f.thrown = c.thrown /\ f.entries = c.entries
      /\ f.commit_index = c.commit_index /\ f.retry_timers = c.retry_timers
  BY <1>5, <1>6 DEF ServerState
<1>9. PrimaryOK(f, s)
  BY <1>1, <1>2, <1>4, <1>8 DEF PrimaryOK
<1>10. TimersOK(f) /\ NoneHooked(f, Server)
  BY <1>1, <1>8 DEF TimersOK, NoneHooked
<1>11. QED
  BY <1>1, <1>7, <1>8, <1>9, <1>10 DEF StateOK

\* Lsns stay natural numbers (current_rpc_lsn_).
LEMMA NextLsnType ==
    ASSUME NEW v \in ServerState, NEW P
    PROVE  next_lsn(v, P) \in [Server -> Nat]
BY DEF next_lsn, ServerState

\* Lsns and retry timers may change freely, except that only a primary has
\* AE timers.
LEMMA SendFrame ==
    ASSUME NEW s \in Server, NEW v, StateOK(v, s), NEW lsn \in [Server -> Nat],
           NEW timers \in [Server -> {"none", "RV", "AE"}],
           v.state # "primary" => \A p \in Server : timers[p] # "AE",
           NEW w,
           w = [v EXCEPT !.current_rpc_lsn = lsn, !.retry_timers = timers]
    PROVE  StateOK(w, s)
<1>1. v \in ServerState
  BY DEF StateOK
<1>2. w \in ServerState
  BY <1>1 DEF ServerState
<1>3. /\ w.thrown = v.thrown /\ w.entries = v.entries
      /\ w.commit_index = v.commit_index /\ w.state = v.state
      /\ w.nextIndex = v.nextIndex
      /\ w.Follower_saved_index = v.Follower_saved_index
      /\ w.retry_timers = timers
  BY <1>1 DEF ServerState
<1>4. TimersOK(w)
  BY <1>3 DEF TimersOK
<1>5. QED
  BY <1>2, <1>3, <1>4, FrameOK

\* RV keeps a server sound, whether its timers were free or not.
LEMMA RvOK ==
    ASSUME NEW s \in Server, NEW v, StateOK(v, s), NEW P, NEW w, w = RV(v, P)
    PROVE  StateOK(w, s)
<1> DEFINE lsn == next_lsn(v, P)
           timers == [p \in Server |->
                  IF p \notin P THEN v.retry_timers[p]
                  ELSE IF v.retry_timers[p] = "none" THEN "RV" ELSE "none"]
<1>1. v \in ServerState
  BY DEF StateOK
<1>2. lsn \in [Server -> Nat]
  BY <1>1, NextLsnType
<1>3. timers \in [Server -> {"none", "RV", "AE"}]
  BY <1>1 DEF ServerState
<1>4. w = [v EXCEPT !.current_rpc_lsn = lsn, !.retry_timers = timers]
  BY DEF RV
<1>5. v.state # "primary" => \A p \in Server : timers[p] # "AE"
  BY DEF StateOK, TimersOK
<1> HIDE DEF lsn, timers
<1>6. QED
  BY <1>2, <1>3, <1>4, <1>5, SendFrame

\* AE keeps a primary sound if the timers it sets are free: the assertion
\* about a hooked timer does not fire.
LEMMA AeOK ==
    ASSUME NEW s \in Server, NEW v, StateOK(v, s), NEW P,
           NoneHooked(v, P), v.state = "primary", NEW w, w = AE(v, P)
    PROVE  StateOK(w, s) /\ w.entries = v.entries /\ w.state = v.state
<1> DEFINE lsn == next_lsn(v, P)
           timers == [p \in Server |->
                       IF p \in P THEN "AE" ELSE v.retry_timers[p]]
<1>1. v \in ServerState
  BY DEF StateOK
<1>2. lsn \in [Server -> Nat]
  BY <1>1, NextLsnType
<1>3. timers \in [Server -> {"none", "RV", "AE"}]
  BY <1>1 DEF ServerState
<1>4. w = [v EXCEPT !.current_rpc_lsn = lsn, !.retry_timers = timers]
  <2>1. ~ \E p \in P : v.retry_timers[p] # "none"
    BY DEF NoneHooked
  <2>2. QED
    BY <2>1, Zenon DEF AE
<1> HIDE DEF lsn, timers
<1>5. StateOK(w, s)
  BY <1>2, <1>3, <1>4, SendFrame
<1>6. w.entries = v.entries /\ w.state = v.state
  BY <1>1, <1>4 DEF ServerState
<1>7. QED
  BY <1>5, <1>6

-----------------------------------------------------------------------------
(* The log, the commit index and the state machine. *)

\* Types that the provers need of the log of a sound server.
LEMMA LogFacts ==
    ASSUME NEW s \in Server, NEW v, StateOK(v, s)
    PROVE  /\ v \in ServerState
           /\ v.entries \in Seq(Entry)
           /\ Len(v.entries) \in Nat
           /\ DOMAIN v.entries = 1 .. Len(v.entries)
           /\ v.commit_index \in Int
           /\ \A i \in 1 .. Len(v.entries) : v.entries[i] \in Entry
BY LenProperties, ElementOfSeq DEF StateOK, ServerState

\* insert at an index within the log truncates and appends.
LEMMA InsertOK ==
    ASSUME NEW s \in Server, NEW v, StateOK(v, s), NEW e \in Entry,
           NEW index \in 0 .. Len(v.entries), e.index = index,
           NEW w, w = insert(v, index, e)
    PROVE  /\ w \in ServerState
           /\ Positions(w.entries)
           /\ Len(w.entries) = index + 1
           /\ w = [v EXCEPT !.entries = w.entries]
           /\ w.thrown = v.thrown
           /\ w.commit_index = v.commit_index
           /\ w.state = v.state
           /\ w.nextIndex = v.nextIndex
           /\ w.Follower_saved_index = v.Follower_saved_index
           /\ w.retry_timers = v.retry_timers
<1> DEFINE log == SubSeq(v.entries, 1, index)
           new == Append(log, e)
<1>1. /\ v \in ServerState /\ v.entries \in Seq(Entry)
      /\ Len(v.entries) \in Nat
  BY LogFacts
<1>2. /\ log \in Seq(Entry)
      /\ Len(log) = index
      /\ \A i \in 1 .. index : log[i] = v.entries[i]
  BY <1>1, SubSeqProperties
<1>3. /\ new \in Seq(Entry)
      /\ Len(new) = index + 1
      /\ \A i \in 1 .. index : new[i] = v.entries[i]
      /\ new[index + 1] = e
  BY <1>2, AppendProperties
<1> HIDE DEF new
<1>4. Positions(new)
  <2> SUFFICES ASSUME NEW i \in 1 .. (index + 1) PROVE new[i].index = i - 1
    BY <1>3 DEF Positions
  <2>1. CASE i = index + 1
    BY <1>3, <2>1
  <2>2. CASE i # index + 1
    <3>1. i \in 1 .. index /\ i \in 1 .. Len(v.entries)
      BY <1>1, <2>2
    <3>2. QED
      BY <1>3, <3>1 DEF StateOK, Positions
  <2>3. QED
    BY <2>1, <2>2
<1>5. w = [v EXCEPT !.entries = new]
  <2>1. ~(index > Len(v.entries))
    BY <1>1
  <2>2. QED
    BY <2>1, Zenon DEF insert, new
<1>6. w \in ServerState
  BY <1>1, <1>3, <1>5 DEF ServerState
<1>7. /\ w.entries = new
      /\ w.thrown = v.thrown
      /\ w.commit_index = v.commit_index
      /\ w.state = v.state
      /\ w.nextIndex = v.nextIndex
      /\ w.Follower_saved_index = v.Follower_saved_index
      /\ w.retry_timers = v.retry_timers
  BY <1>1, <1>5 DEF ServerState
<1>8. QED
  BY <1>3, <1>4, <1>5, <1>6, <1>7

\* apply_to_state_machine hands over entries that exist and changes no index.
LEMMA ApplyOK ==
    ASSUME NEW v \in ServerState, v.commit_index < Len(v.entries),
           NEW w, w = apply_to_state_machine(v)
    PROVE  /\ w \in ServerState
           /\ w.thrown = v.thrown
           /\ w.entries = v.entries
           /\ w.commit_index = v.commit_index
           /\ w.state = v.state
           /\ w.nextIndex = v.nextIndex
           /\ w.Follower_saved_index = v.Follower_saved_index
           /\ w.retry_timers = v.retry_timers
<1> DEFINE more == SubSeq(v.entries, Len(v.applied) + 1, v.commit_index + 1)
           new == v.applied \o more
<1>1. /\ v.entries \in Seq(Entry) /\ v.applied \in Seq(Entry)
      /\ v.commit_index \in Int /\ Len(v.applied) \in Nat
      /\ Len(v.entries) \in Nat
  BY LenProperties DEF ServerState
<1>2. more \in Seq(Entry)
  <2>1. \A i \in (Len(v.applied) + 1) .. (v.commit_index + 1) :
            i \in 1 .. Len(v.entries)
    BY <1>1
  <2>2. QED
    BY <1>1, <2>1, SubSeqProperties
<1>3. new \in Seq(Entry)
  BY <1>1, <1>2, ConcatProperties
<1> HIDE DEF more, new
<1>4. w = [v EXCEPT !.applied = new]
  BY DEF apply_to_state_machine, new, more, ServerState
<1>5. QED
  BY <1>3, <1>4 DEF ServerState

\* follower_update_commit_index keeps the commit index within the log; a
\* commit index that would decrease ends the process.
LEMMA FollowerCommitOK ==
    ASSUME NEW s \in Server, NEW v \in ServerState, v.state # "primary",
           v.thrown = "none", TimersOK(v), Positions(v.entries), NEW r \in Int,
           NEW w, w = follower_update_commit_index(v, r)
    PROVE  StateOK(w, s)
<1> DEFINE latest_index == Len(v.entries) - 1
           c == IF latest_index < r THEN latest_index ELSE r
           u == [v EXCEPT !.commit_index = c]
<1>1. /\ v.entries \in Seq(Entry) /\ Len(v.entries) \in Nat
      /\ v.commit_index \in Int /\ c \in Int /\ c < Len(v.entries)
  BY LenProperties DEF ServerState
<1> HIDE DEF c
<1>2. CASE c < v.commit_index
  <2>1. w = throw_line(v, "commit decreases")
    BY <1>2, Zenon DEF follower_update_commit_index, c
  <2> DEFINE b == Boot(v.entries)
  <2>2. StateOK(b, s)
    BY <1>1, BootOK
  <2>3. b.state = "follower"
    BY DEF Boot
  <2> HIDE DEF b
  <2>4. w = [b EXCEPT !.thrown = "commit decreases", !.candidate_timer = FALSE]
    BY <2>1 DEF throw_line, b
  <2>5. QED
    BY <2>2, <2>3, <2>4 DEF StateOK, ServerState, Sound, Thrown, PrimaryOK,
                            TimersOK
<1>3. CASE c = v.commit_index
  <2>1. ~(c < v.commit_index)
    BY <1>1, <1>3
  <2>2. w = v
    BY <1>3, <2>1, Zenon DEF follower_update_commit_index, c
  <2>3. QED
    BY <1>1, <1>3, <2>2 DEF StateOK, Sound, PrimaryOK
<1>4. CASE c > v.commit_index
  <2>1. ~(c < v.commit_index) /\ c # v.commit_index
    BY <1>1, <1>4
  <2>2. w = apply_to_state_machine(u)
    BY <2>1, Zenon DEF follower_update_commit_index, c
  <2>3. u \in ServerState
    BY <1>1 DEF ServerState
  <2>4. /\ u.thrown = v.thrown /\ u.entries = v.entries
        /\ u.commit_index = c /\ u.state = v.state
        /\ u.retry_timers = v.retry_timers
    BY DEF ServerState
  <2> HIDE DEF u
  <2>5. /\ w \in ServerState /\ w.thrown = u.thrown /\ w.entries = u.entries
        /\ w.commit_index = u.commit_index /\ w.state = u.state
        /\ w.retry_timers = u.retry_timers
    BY <1>1, <2>2, <2>3, <2>4, ApplyOK
  <2>6. QED
    BY <1>1, <2>4, <2>5 DEF StateOK, Sound, PrimaryOK, TimersOK
<1>5. QED
  BY <1>1, <1>2, <1>3, <1>4

-----------------------------------------------------------------------------
(* Messages. *)

\* What an AE on the wire promises to its receiver.
AeFits(m) ==
    /\ m.prelog_index >= -1
    /\ m.prelog_index = -1 => m.prelog_term = -1
    /\ m.entry = << >> => m.commit_index <= m.prelog_index
    /\ m.entry # << >> => m.entry[1].index = m.prelog_index + 1

\* The part of the inductive invariant about one message.
MsgOK(m) ==
    /\ m \in Message
    /\ m.src # m.dst
    /\ m.type = "APPEND_ENTRY" => AeFits(m)

\* A message has the fields of its type.
LEMMA MsgTypes ==
    ASSUME NEW m \in Message
    PROVE  /\ m.src \in Server /\ m.dst \in Server
           /\ m.term \in Nat /\ m.lsn \in Nat
           /\ m.type = "REQUEST_VOTE" => m \in RvMsg
           /\ m.type = "APPEND_ENTRY" => m \in AeMsg
           /\ m.type = "RESP_VOTE" => m \in RespRvMsg
           /\ m.type = "RESP_APPEND" => m \in RespAeMsg
BY DEF Message, RvMsg, AeMsg, RespRvMsg, RespAeMsg

\* build_rpc_rv_string builds a sound message.
LEMMA RvMsgOK ==
    ASSUME NEW s \in Server, NEW v, StateOK(v, s), NEW p \in Peers(s)
    PROVE  MsgOK(build_rpc_rv_string(v, s, p))
<1>1. /\ v.term \in Nat /\ v.current_rpc_lsn[p] \in Nat /\ p \in Server
      /\ p # s /\ Len(v.entries) - 1 \in Int
  BY LogFacts DEF StateOK, ServerState, Peers
<1>2. QED
  BY <1>1 DEF build_rpc_rv_string, MsgOK, Message, RvMsg

\* build_rpc_ae_string builds a sound AE because the primary's nextIndex is
\* within its log: the prelog and the entry exist and fit together, and an
\* empty AE has the whole log, hence the commit index, before it.
LEMMA AeMsgOK ==
    ASSUME NEW s \in Server, NEW v, StateOK(v, s), v.state = "primary",
           NEW p \in Peers(s)
    PROVE  MsgOK(build_rpc_ae_string(v, s, p))
<1> DEFINE i == v.nextIndex[p]
           prelog_term == IF i > 0 THEN v.entries[i].term ELSE -1
           entry == IF i = Len(v.entries) THEN << >> ELSE <<v.entries[i + 1]>>
           m == build_rpc_ae_string(v, s, p)
<1>1. /\ v.term \in Nat /\ v.current_rpc_lsn[p] \in Nat /\ p \in Server
      /\ p # s
  BY DEF StateOK, ServerState, Peers
<1>2. /\ v.entries \in Seq(Entry) /\ Len(v.entries) \in Nat
      /\ v.commit_index \in Int /\ v.commit_index < Len(v.entries)
      /\ \A j \in 1 .. Len(v.entries) : v.entries[j] \in Entry
                                        /\ v.entries[j].index = j - 1
  BY LogFacts DEF StateOK, Positions
<1>3. i \in 0 .. Len(v.entries)
  BY <1>1 DEF StateOK, PrimaryOK
<1>4. prelog_term \in Int
  <2>1. CASE i > 0
    <3>1. v.entries[i] \in Entry
      BY <1>2, <1>3, <2>1
    <3>2. QED
      BY <2>1, <3>1 DEF Entry
  <2>2. QED
    BY <2>1
<1>5. entry \in Seq(Entry) /\ (entry # << >> => entry[1].index = i)
  <2>1. CASE i # Len(v.entries)
    <3>1. i + 1 \in 1 .. Len(v.entries)
      BY <1>2, <1>3, <2>1
    <3>2. v.entries[i + 1] \in Entry /\ v.entries[i + 1].index = i
      BY <1>2, <1>3, <3>1, SMTT(30)
    <3>3. QED
      BY <2>1, <3>2
  <2>2. QED
    BY <2>1
<1>6. m = [type |-> "APPEND_ENTRY", src |-> s, dst |-> p, term |-> v.term,
           lsn |-> v.current_rpc_lsn[p], prelog_index |-> i - 1,
           prelog_term |-> prelog_term, commit_index |-> v.commit_index,
           entry |-> entry]
  BY DEF build_rpc_ae_string
<1>7. /\ i > 0 \/ prelog_term = -1
      /\ entry = << >> => i = Len(v.entries)
  OBVIOUS
<1> HIDE DEF m, entry, prelog_term, i
<1>8. m \in AeMsg
  BY <1>1, <1>2, <1>3, <1>4, <1>5, <1>6 DEF AeMsg
<1>9. AeFits(m)
  BY <1>2, <1>3, <1>5, <1>6, <1>7 DEF AeFits
<1>10. QED
  BY <1>1, <1>6, <1>8, <1>9 DEF MsgOK, Message, m

\* make_resp_rv builds a sound answer.
LEMMA RespRvOK ==
    ASSUME NEW v \in ServerState, NEW m, MsgOK(m), NEW ok \in BOOLEAN
    PROVE  MsgOK(make_resp_rv(v, m, ok))
<1>1. /\ m.src \in Server /\ m.dst \in Server /\ m.src # m.dst
      /\ m.term \in Nat /\ m.lsn \in Nat /\ v.term \in Nat
  BY MsgTypes DEF MsgOK, ServerState
<1>2. QED
  BY <1>1 DEF make_resp_rv, MsgOK, Message, RespRvMsg

\* make_resp_ae builds a sound answer.
LEMMA RespAeOK ==
    ASSUME NEW v \in ServerState, NEW m, MsgOK(m), NEW ok \in BOOLEAN
    PROVE  MsgOK(make_resp_ae(v, m, ok))
<1>1. /\ m.src \in Server /\ m.dst \in Server /\ m.src # m.dst
      /\ m.term \in Nat /\ m.lsn \in Nat /\ v.term \in Nat
  BY MsgTypes DEF MsgOK, ServerState
<1>2. QED
  BY <1>1 DEF make_resp_ae, MsgOK, Message, RespAeMsg

-----------------------------------------------------------------------------
(* The handlers. *)

\* Remembering the lsn of an RPC changes nothing else.
LEMMA RememberOK ==
    ASSUME NEW s \in Server, NEW f, StateOK(f, s), NEW m \in Message,
           NEW g, g = remember_lsn(f, m)
    PROVE  /\ StateOK(g, s)
           /\ g.thrown = f.thrown /\ g.state = f.state
           /\ g.entries = f.entries /\ g.term = f.term
<1>1. f \in ServerState /\ m.src \in Server /\ m.lsn \in Nat
  BY MsgTypes DEF StateOK
<1> DEFINE seen == [f.follower_rpc_lsn EXCEPT ![m.src] = m.lsn]
<1>2. seen \in [Server -> Int]
  BY <1>1 DEF ServerState
<1>3. g = [f EXCEPT !.follower_rpc_lsn = seen]
  BY DEF remember_lsn
<1> HIDE DEF seen
<1>4. g \in ServerState
  BY <1>1, <1>2, <1>3 DEF ServerState
<1>5. /\ g.thrown = f.thrown /\ g.state = f.state
      /\ g.entries = f.entries /\ g.term = f.term
      /\ g.commit_index = f.commit_index /\ g.nextIndex = f.nextIndex
      /\ g.Follower_saved_index = f.Follower_saved_index
      /\ g.retry_timers = f.retry_timers
  BY <1>1, <1>3 DEF ServerState
<1>6. TimersOK(g)
  BY <1>5 DEF TimersOK, StateOK
<1>7. QED
  BY <1>4, <1>5, <1>6, FrameOK

\* The checks in react2ae make its assertions and insert's superfluous.
LEMMA AcceptOK ==
    ASSUME NEW s \in Server, NEW v, StateOK(v, s), Alive(v),
           v.state = "follower", NEW m, MsgOK(m), m.type = "APPEND_ENTRY",
           log_check(v, m)
    PROVE  StateOK(accept_ae(v, m), s)
<1>1. /\ m \in AeMsg /\ m.prelog_index \in Int /\ m.commit_index \in Int
      /\ m.entry \in Seq(Entry) /\ AeFits(m)
  BY MsgTypes DEF MsgOK, AeMsg
<1>2. v \in ServerState /\ Len(v.entries) \in Nat
  BY LogFacts
<1>3. m.prelog_index \in -1 .. (Len(v.entries) - 1)
  BY <1>1, <1>2 DEF AeFits, log_check
<1>4. CASE m.entry = << >>
  <2>1. ~(Len(v.entries) < m.commit_index)
    BY <1>1, <1>2, <1>3, <1>4 DEF AeFits
  <2>2. accept_ae(v, m) = follower_update_commit_index(v, m.commit_index)
    BY <1>4, <2>1, Zenon DEF accept_ae
  <2>3. QED
    BY <1>1, <1>2, <2>2, FollowerCommitOK DEF StateOK, Alive
<1>5. CASE m.entry # << >>
  <2> DEFINE e == m.entry[1]
             index == m.prelog_index + 1
             w == insert(v, index, e)
  <2>1. e \in Entry /\ e.index = index
    <3>1. 1 \in 1 .. Len(m.entry)
      BY <1>1, <1>5, EmptySeq, LenProperties
    <3>2. QED
      BY <1>1, <1>5, <3>1, ElementOfSeq DEF AeFits
  <2>2. index \in 0 .. Len(v.entries)
    BY <1>2, <1>3
  <2> HIDE DEF e, index
  <2>3. /\ w \in ServerState /\ Positions(w.entries) /\ w.thrown = v.thrown
        /\ w.state = v.state /\ w.retry_timers = v.retry_timers
    BY <2>1, <2>2, InsertOK
  <2>4. accept_ae(v, m) = follower_update_commit_index(w, m.commit_index)
    <3>1. ~(m.entry[1].index # m.prelog_index + 1)
      BY <2>1 DEF e, index
    <3>2. Alive(w)
      BY <2>3 DEF Alive
    <3>3. QED
      BY <1>5, <3>1, <3>2, Zenon DEF accept_ae, e, index
  <2> HIDE DEF w
  <2>5. TimersOK(w) /\ w.thrown = "none" /\ w.state # "primary"
    BY <2>3 DEF TimersOK, StateOK, Alive
  <2>6. QED
    BY <1>1, <2>3, <2>4, <2>5, FollowerCommitOK
<1>6. QED
  BY <1>4, <1>5

\* Indexes of the followers that fit the log.
BooksFit(log, s, next, saved) ==
    /\ next \in [Server -> Int]
    /\ saved \in [Server -> Int]
    /\ \A p \in Server : next[p] \in 0 .. Len(log) /\ saved[p] < Len(log)
    /\ saved[s] = Len(log) - 1

\* A primary that takes note of an accepted AE.
LEMMA PrimaryCommitOK ==
    ASSUME NEW s \in Server, NEW v, StateOK(v, s), v.state = "primary",
           NEW next, NEW saved, BooksFit(v.entries, s, next, saved),
           NEW c \in Int, is_majority_index(saved, c),
           NEW w, w = primary_update_commit_index(
                          [v EXCEPT !.nextIndex = next], saved, c)
    PROVE  /\ StateOK(w, s)
           /\ w.state = "primary" /\ w.entries = v.entries
           /\ w.thrown = v.thrown
<1> DEFINE u == [v EXCEPT !.nextIndex = next, !.Follower_saved_index = saved,
                          !.commit_index = c]
<1>1. v \in ServerState /\ Len(v.entries) \in Nat
  BY LogFacts
<1>2. c < Len(v.entries)
  BY DEF is_majority_index, BooksFit
<1>3. u \in ServerState
  BY <1>1 DEF ServerState, BooksFit
<1>4. /\ u.thrown = v.thrown /\ u.entries = v.entries /\ u.state = v.state
      /\ u.nextIndex = next /\ u.Follower_saved_index = saved
      /\ u.commit_index = c
  BY <1>1 DEF ServerState
<1>5. w = apply_to_state_machine(u)
  BY DEF primary_update_commit_index
<1> HIDE DEF u
<1>6. /\ w \in ServerState /\ w.thrown = u.thrown /\ w.entries = u.entries
      /\ w.commit_index = u.commit_index /\ w.state = u.state
      /\ w.nextIndex = u.nextIndex
      /\ w.Follower_saved_index = u.Follower_saved_index
  BY <1>2, <1>3, <1>4, <1>5, ApplyOK
<1>7. PrimaryOK(w, s) /\ TimersOK(w)
  BY <1>4, <1>6 DEF PrimaryOK, TimersOK, BooksFit
<1>8. QED
  BY <1>2, <1>4, <1>6, <1>7 DEF StateOK

\* Dropping a retry timer.
LEMMA UnhookOK ==
    ASSUME NEW s \in Server, NEW v, StateOK(v, s), NEW q \in Server,
           NEW w, w = [v EXCEPT !.retry_timers[q] = "none"]
    PROVE  /\ StateOK(w, s)
           /\ w.state = v.state /\ w.entries = v.entries
           /\ w.thrown = v.thrown
           /\ NoneHooked(w, {q})
<1> DEFINE timers == [v.retry_timers EXCEPT ![q] = "none"]
<1>1. v \in ServerState
  BY DEF StateOK
<1>2. timers \in [Server -> {"none", "RV", "AE"}] /\ timers[q] = "none"
  BY <1>1 DEF ServerState
<1>3. v.state # "primary" => \A p \in Server : timers[p] # "AE"
  BY <1>1 DEF StateOK, TimersOK, ServerState
<1>4. w = [v EXCEPT !.retry_timers = timers]
  OBVIOUS
<1> HIDE DEF timers
<1>5. w \in ServerState
  BY <1>1, <1>2, <1>4 DEF ServerState
<1>6. /\ w.thrown = v.thrown /\ w.entries = v.entries
      /\ w.commit_index = v.commit_index /\ w.state = v.state
      /\ w.nextIndex = v.nextIndex
      /\ w.Follower_saved_index = v.Follower_saved_index
      /\ w.retry_timers = timers
  BY <1>1, <1>4 DEF ServerState
<1>7. TimersOK(w) /\ NoneHooked(w, {q})
  BY <1>2, <1>3, <1>6 DEF TimersOK, NoneHooked
<1>8. QED
  BY <1>5, <1>6, <1>7, FrameOK

-----------------------------------------------------------------------------
(* The inductive invariant, and the actions. *)

\* Every process is sound.
ServersOK == /\ server \in [Server -> ServerState]
             /\ \A s \in Server : StateOK(server[s], s)

\* Every message in flight is sound.
NetOK == \A m \in net : MsgOK(m)

\* The history variables have their types.
HistoryOK == votes \in SUBSET Vote /\ restarts \in 0 .. MaxRestarts

\* The inductive invariant.
IInv == ServersOK /\ NetOK /\ HistoryOK

\* A step to a sound state that sends sound messages keeps servers and network
\* sound.
LEMMA StepOK ==
    ASSUME IInv, NEW s \in Server, NEW handled, NEW v, NEW sent,
           StateOK(v, s), Alive(v) => \A m \in sent : MsgOK(m),
           Step(s, handled, v, sent)
    PROVE  ServersOK' /\ NetOK'
<1>1. /\ server' = [server EXCEPT ![s] = v]
      /\ net' = (net \ handled) \cup (IF Alive(v) THEN sent ELSE {})
  BY DEF Step
<1>2. v \in ServerState
  BY DEF StateOK
<1>3. ServersOK'
  <2>1. server' \in [Server -> ServerState]
    BY <1>1, <1>2 DEF IInv, ServersOK
  <2>2. ASSUME NEW p \in Server PROVE StateOK(server'[p], p)
    <3>1. CASE p = s
      BY <1>1, <3>1 DEF IInv, ServersOK
    <3>2. CASE p # s
      BY <1>1, <3>2 DEF IInv, ServersOK
    <3>3. QED
      BY <3>1, <3>2
  <2>3. QED
    BY <2>1, <2>2 DEF ServersOK
<1>4. NetOK'
  <2>1. ASSUME NEW m \in net' PROVE MsgOK(m)
    BY <1>1 DEF IInv, NetOK
  <2>2. QED
    BY <2>1 DEF NetOK
<1>5. QED
  BY <1>3, <1>4

\* What IInv says of one server.
LEMMA StateFacts ==
    ASSUME IInv, NEW s \in Server
    PROVE  /\ StateOK(server[s], s)
           /\ server[s] \in ServerState
           /\ server[s].term \in Nat
           /\ server[s].current_rpc_lsn \in [Server -> Nat]
BY DEF IInv, ServersOK, StateOK, ServerState

\* What IInv says of one message.
LEMMA MsgFacts ==
    ASSUME IInv, NEW m \in net
    PROVE  /\ MsgOK(m) /\ m \in Message
           /\ m.src \in Server /\ m.dst \in Server /\ m.src \in Peers(m.dst)
           /\ m.term \in Nat /\ m.lsn \in Nat
<1>1. MsgOK(m) /\ m \in Message /\ m.src # m.dst
  BY DEF IInv, NetOK, MsgOK
<1>2. QED
  BY <1>1, MsgTypes DEF Peers

\* Most handlers leave the history alone.
LEMMA HistoryKept ==
    ASSUME IInv, UNCHANGED <<votes, restarts>> PROVE HistoryOK'
BY DEF IInv, HistoryOK

\* The candidate timer: trans2C and RV keep IInv.
LEMMA CandidateTimeoutOK ==
    ASSUME IInv, NEW s \in Server, candidate_timeout(s)
    PROVE  IInv'
<1> DEFINE v == trans2C(server[s])
           sent == {build_rpc_rv_string(v, s, p) : p \in Peers(s)}
<1>1. StateOK(v, s)
  BY StateFacts, Trans2COK DEF candidate_timeout
<1>2. StateOK(RV(v, Peers(s)), s)
  BY <1>1, RvOK
<1>3. \A m \in sent : MsgOK(m)
  BY <1>1, RvMsgOK
<1>4. Step(s, {}, RV(v, Peers(s)), sent) /\ UNCHANGED <<votes, restarts>>
  BY DEF candidate_timeout
<1> HIDE DEF v, sent
<1>5. QED
  BY <1>2, <1>3, <1>4, StepOK, HistoryKept DEF IInv

\* A retry timer has freed itself when AE looks at it, and only a primary has
\* an AE timer.
LEMMA RetryTimeoutOK ==
    ASSUME IInv, NEW s \in Server, NEW p \in Peers(s), retry_timeout(s, p)
    PROVE  IInv'
<1> DEFINE v == [server[s] EXCEPT !.retry_timers[p] = "none"]
<1>1. p \in Server /\ StateOK(server[s], s)
  BY StateFacts DEF Peers
<1>2. /\ StateOK(v, s) /\ v.state = server[s].state /\ NoneHooked(v, {p})
  BY <1>1, UnhookOK
<1> HIDE DEF v
<1>3. CASE /\ server[s].retry_timers[p] = "RV"
           /\ Step(s, {}, RV(v, {p}), {build_rpc_rv_string(v, s, p)})
  <2>1. StateOK(RV(v, {p}), s)
    BY <1>2, RvOK
  <2>2. \A m \in {build_rpc_rv_string(v, s, p)} : MsgOK(m)
    BY <1>2, RvMsgOK
  <2>3. QED
    BY <1>3, <2>1, <2>2, StepOK, HistoryKept DEF IInv, retry_timeout
<1>4. CASE /\ server[s].retry_timers[p] = "AE"
           /\ Step(s, {}, AE(v, {p}), {build_rpc_ae_string(v, s, p)})
  <2>1. v.state = "primary"
    BY <1>1, <1>2, <1>4 DEF StateOK, TimersOK
  <2>2. StateOK(AE(v, {p}), s)
    BY <1>2, <2>1, AeOK
  <2>3. \A m \in {build_rpc_ae_string(v, s, p)} : MsgOK(m)
    BY <1>2, <2>1, AeMsgOK
  <2>4. QED
    BY <1>4, <2>2, <2>3, StepOK, HistoryKept DEF IInv, retry_timeout
<1>5. QED
  BY <1>3, <1>4 DEF retry_timeout, v

\* A client's command lands at its own index; on a primary its own saved index
\* follows the end of the log.
LEMMA ClientApplyOK ==
    ASSUME IInv, NEW s \in Server, NEW c \in Command,
           append_client_apply_to_entries(s, c)
    PROVE  IInv'
<1> DEFINE v == server[s]
           index == Len(v.entries)
           e == [term |-> v.term, index |-> index, msg |-> c]
           w == insert(v, index, e)
           u == [w EXCEPT !.Follower_saved_index[s] = index]
<1>1. StateOK(v, s) /\ v \in ServerState /\ v.term \in Nat
  BY StateFacts
<1>2. index \in Nat
  BY <1>1, LogFacts
<1>3. e \in Entry /\ e.index = index /\ index \in 0 .. Len(v.entries)
  BY <1>1, <1>2 DEF Entry
<1>4. Step(s, {}, u, {}) /\ UNCHANGED <<votes, restarts>>
  BY DEF append_client_apply_to_entries
<1> HIDE DEF v, e
<1>5. /\ w \in ServerState /\ Positions(w.entries)
      /\ Len(w.entries) = index + 1
      /\ w.thrown = v.thrown /\ w.commit_index = v.commit_index
      /\ w.state = v.state /\ w.nextIndex = v.nextIndex
      /\ w.Follower_saved_index = v.Follower_saved_index
      /\ w.retry_timers = v.retry_timers
  BY <1>1, <1>3, InsertOK
<1> HIDE DEF w, index
<1> DEFINE saved == [w.Follower_saved_index EXCEPT ![s] = index]
<1>6. /\ saved \in [Server -> Int]
      /\ saved[s] = index
      /\ \A p \in Server : p # s => saved[p] = v.Follower_saved_index[p]
  BY <1>2, <1>5 DEF ServerState
<1>7. u = [w EXCEPT !.Follower_saved_index = saved]
  OBVIOUS
<1> HIDE DEF u, saved
<1>8. u \in ServerState
  BY <1>5, <1>6, <1>7 DEF ServerState
<1>9. /\ u.thrown = v.thrown /\ u.commit_index = v.commit_index
      /\ u.state = v.state /\ u.nextIndex = v.nextIndex
      /\ u.Follower_saved_index = saved /\ u.retry_timers = v.retry_timers
      /\ u.entries = w.entries
  BY <1>5, <1>7 DEF ServerState
<1>10. PrimaryOK(u, s)
  <2>1. CASE v.state = "primary"
    <3>1. \A p \in Server : /\ v.nextIndex[p] \in 0 .. index
                            /\ v.Follower_saved_index[p] < index
                            /\ v.Follower_saved_index[p] \in Int
      BY <1>1, <2>1 DEF StateOK, PrimaryOK, index, ServerState
    <3>2. \A p \in Server : /\ v.nextIndex[p] \in 0 .. (index + 1)
                            /\ saved[p] < index + 1
      BY <1>2, <1>6, <3>1
    <3>3. saved[s] = (index + 1) - 1
      BY <1>2, <1>6
    <3>4. Len(u.entries) = index + 1
      BY <1>5, <1>9
    <3>5. QED
      BY <1>9, <3>2, <3>3, <3>4 DEF PrimaryOK
  <2>2. QED
    BY <1>9, <2>1 DEF PrimaryOK
<1>11. TimersOK(u) /\ u.commit_index < Len(u.entries) /\ u.thrown \in Sound
  <2>1. v.commit_index < index /\ v.commit_index \in Int /\ TimersOK(v)
        /\ v.thrown \in Sound
    BY <1>1 DEF StateOK, ServerState, index
  <2>2. QED
    BY <1>2, <1>5, <1>9, <2>1 DEF TimersOK
<1>12. StateOK(u, s)
  BY <1>5, <1>8, <1>9, <1>10, <1>11 DEF StateOK
<1>13. QED
  BY <1>4, <1>12, StepOK, HistoryKept DEF IInv

\* react2rv, by its four outcomes.
LEMMA ReactRvOK ==
    ASSUME IInv, NEW m \in net, react2rv(m)
    PROVE  IInv'
<1> DEFINE s == m.dst
           v == server[s]
           f == IF v.term < m.term THEN trans2F(v, m.term) ELSE v
           g == remember_lsn(f, m)
           h == [g EXCEPT !.already_voted = TRUE]
           b == [voter |-> s, term |-> g.term, candidate |-> m.src]
<1>1. /\ MsgOK(m) /\ m \in Message
      /\ m.src \in Server /\ s \in Server /\ m.term \in Nat
  BY MsgFacts
<1>2. StateOK(v, s) /\ v \in ServerState /\ v.term \in Nat
  BY <1>1, StateFacts
<1>3. Alive(v) /\ restarts' = restarts
  BY DEF react2rv
<1>4. StateOK(f, s)
  BY <1>1, <1>2, <1>3, Trans2FOK
<1>5. StateOK(g, s)
  BY <1>1, <1>4, RememberOK
<1>6. g \in ServerState
  BY <1>5 DEF StateOK
<1>7. \/ /\ Step(s, {m}, v, {make_resp_rv(v, m, FALSE)})
         /\ UNCHANGED votes
      \/ Step(s, {m}, f, {}) /\ UNCHANGED votes
      \/ /\ Step(s, {m}, g, {make_resp_rv(g, m, FALSE)})
         /\ UNCHANGED votes
      \/ /\ Step(s, {m}, h, {make_resp_rv(g, m, TRUE)})
         /\ votes' = votes \cup {b}
  BY Zenon DEF react2rv
<1> HIDE DEF s, v, f, g
<1>8. CASE /\ Step(s, {m}, v, {make_resp_rv(v, m, FALSE)})
           /\ UNCHANGED votes
  BY <1>1, <1>2, <1>3, <1>8, RespRvOK, StepOK, HistoryKept DEF IInv
<1>9. CASE Step(s, {m}, f, {}) /\ UNCHANGED votes
  BY <1>1, <1>3, <1>4, <1>9, StepOK, HistoryKept DEF IInv
<1>10. CASE /\ Step(s, {m}, g, {make_resp_rv(g, m, FALSE)})
            /\ UNCHANGED votes
  BY <1>1, <1>3, <1>5, <1>6, <1>10, RespRvOK, StepOK, HistoryKept DEF IInv
<1>11. CASE /\ Step(s, {m}, h, {make_resp_rv(g, m, TRUE)})
            /\ votes' = votes \cup {b}
  <2>1. h \in ServerState
    BY <1>6 DEF ServerState
  <2>2. /\ h.thrown = g.thrown /\ h.entries = g.entries
        /\ h.commit_index = g.commit_index /\ h.state = g.state
        /\ h.nextIndex = g.nextIndex
        /\ h.Follower_saved_index = g.Follower_saved_index
        /\ h.retry_timers = g.retry_timers
    BY <1>6 DEF ServerState
  <2> HIDE DEF h
  <2>3. TimersOK(h)
    BY <1>5, <2>2 DEF TimersOK, StateOK
  <2>4. StateOK(h, s)
    BY <1>1, <1>5, <2>1, <2>2, <2>3, FrameOK
  <2>5. ServersOK' /\ NetOK'
    BY <1>1, <1>6, <1>11, <2>4, RespRvOK, StepOK
  <2>6. b \in Vote
    BY <1>1, <1>6 DEF Vote, ServerState
  <2>7. HistoryOK'
    BY <1>3, <1>11, <2>6 DEF IInv, HistoryOK
  <2>8. QED
    BY <2>5, <2>7 DEF IInv
<1>12. QED
  BY <1>7, <1>8, <1>9, <1>10, <1>11

\* react2resp_rv: trans2P frees the timers before AE sets them.
LEMMA ReactRespRvOK ==
    ASSUME IInv, NEW m \in net, react2resp_rv(m)
    PROVE  IInv'
<1> DEFINE s == m.dst
           v == server[s]
           won == [v EXCEPT !.winned_votes = @ + 1]
           p == trans2P(won, s)
           q == [won EXCEPT !.retry_timers[m.src] = "none"]
           sent == {build_rpc_ae_string(p, s, r) : r \in Peers(s)}
<1>1. /\ MsgOK(m) /\ m.src \in Server /\ s \in Server /\ m.term \in Nat
  BY MsgFacts
<1>2. StateOK(v, s) /\ v \in ServerState /\ v.term \in Nat
  BY <1>1, StateFacts
<1>3. Alive(v) /\ UNCHANGED <<votes, restarts>>
  BY DEF react2resp_rv
<1>4. \/ v.term < m.term /\ Step(s, {m}, trans2F(v, m.term), {})
      \/ Step(s, {m}, v, {})
      \/ Step(s, {m}, AE(p, Peers(s)), sent)
      \/ Step(s, {m}, q, {})
  BY Zenon DEF react2resp_rv
<1>5. StateOK(won, s)
  <2> DEFINE n == v.winned_votes + 1
  <2>0a. n \in Nat
    BY <1>2 DEF ServerState
  <2> HIDE DEF n
  <2>0b. won = [v EXCEPT !.winned_votes = n]
    BY DEF n
  <2>1. won \in ServerState
    BY <1>2, <2>0a, <2>0b DEF ServerState
  <2>2. /\ won.thrown = v.thrown /\ won.entries = v.entries
        /\ won.commit_index = v.commit_index /\ won.state = v.state
        /\ won.nextIndex = v.nextIndex
        /\ won.Follower_saved_index = v.Follower_saved_index
        /\ won.retry_timers = v.retry_timers
    BY <1>2 DEF ServerState
  <2> HIDE DEF won
  <2>3. TimersOK(won)
    BY <1>2, <2>2 DEF TimersOK, StateOK
  <2>4. QED
    BY <1>1, <1>2, <2>1, <2>2, <2>3, FrameOK
<1> HIDE DEF s, v, won
<1>6. CASE v.term < m.term /\ Step(s, {m}, trans2F(v, m.term), {})
  <2>1. StateOK(trans2F(v, m.term), s)
    BY <1>1, <1>2, <1>3, <1>6, Trans2FOK
  <2>2. QED
    BY <1>1, <1>3, <1>6, <2>1, StepOK, HistoryKept DEF IInv
<1>7. CASE Step(s, {m}, v, {})
  BY <1>1, <1>2, <1>3, <1>7, StepOK, HistoryKept DEF IInv
<1>8. CASE Step(s, {m}, AE(p, Peers(s)), sent)
  <2>1. StateOK(p, s) /\ p.state = "primary" /\ NoneHooked(p, Server)
    BY <1>1, <1>5, Trans2POK
  <2>2. NoneHooked(p, Peers(s))
    BY <2>1 DEF NoneHooked, Peers
  <2> HIDE DEF p
  <2>3. StateOK(AE(p, Peers(s)), s)
    BY <1>1, <2>1, <2>2, AeOK
  <2>4. \A a \in sent : MsgOK(a)
    BY <1>1, <2>1, AeMsgOK
  <2> HIDE DEF sent
  <2>5. QED
    BY <1>1, <1>3, <1>8, <2>3, <2>4, StepOK, HistoryKept DEF IInv
<1>9. CASE Step(s, {m}, q, {})
  <2>1. StateOK(q, s)
    BY <1>1, <1>5, UnhookOK
  <2>2. QED
    BY <1>1, <1>3, <1>9, <2>1, StepOK, HistoryKept DEF IInv
<1>10. QED
  BY <1>4, <1>6, <1>7, <1>8, <1>9

\* react2ae: of its assertions only the one about two primaries, and the
\* one of follower_update_commit_index, can fire.
LEMMA ReactAeOK ==
    ASSUME IInv, NEW m \in net, react2ae(m)
    PROVE  IInv'
<1> DEFINE s == m.dst
           v == server[s]
           f == IF v.state = "primary" /\ v.term = m.term
                THEN throw_line(v, "two primaries") ELSE trans2F(v, m.term)
           g == IF m.prelog_index = -1 /\ m.prelog_term # -1
                THEN throw_line(f, "prelog term") ELSE remember_lsn(f, m)
           a == IF Alive(g) THEN accept_ae(g, m) ELSE g
<1>1. /\ MsgOK(m) /\ m \in Message
      /\ m.src \in Server /\ s \in Server /\ m.term \in Nat
  BY MsgFacts
<1>2. StateOK(v, s) /\ v \in ServerState /\ v.term \in Nat
  BY <1>1, StateFacts
<1>3. /\ Alive(v) /\ UNCHANGED <<votes, restarts>>
      /\ m.type = "APPEND_ENTRY"
  BY DEF react2ae
<1>4. \/ Step(s, {m}, v, {make_resp_ae(v, m, FALSE)})
      \/ v.term <= m.term /\ Step(s, {m}, f, {})
      \/ /\ v.term <= m.term /\ Alive(f)
         /\ Step(s, {m}, g, {make_resp_ae(g, m, FALSE)})
      \/ /\ v.term <= m.term /\ Alive(f) /\ log_check(g, m)
         /\ Step(s, {m}, a, {make_resp_ae(a, m, TRUE)})
  BY Zenon DEF react2ae
<1> HIDE DEF s, v
<1>5. v.term <= m.term => StateOK(f, s)
  <2>1. CASE v.state = "primary" /\ v.term = m.term
    BY <1>1, <1>2, <2>1, ThrowOK DEF Sound
  <2>2. CASE ~(v.state = "primary" /\ v.term = m.term)
    <3>1. f = trans2F(v, m.term)
      BY <2>2, Zenon
    <3> HIDE DEF f
    <3>2. v.term <= m.term => m.term >= v.term
      BY <1>1, <1>2
    <3>3. QED
      BY <1>1, <1>2, <1>3, <3>1, <3>2, Trans2FOK
  <2>3. QED
    BY <2>1, <2>2
<1>6. v.term <= m.term /\ Alive(f) => f.state = "follower"
  <2>1. CASE v.state = "primary" /\ v.term = m.term
    <3>1. throw_line(v, "two primaries").thrown = "two primaries"
      BY DEF throw_line, Boot
    <3>2. QED
      BY <2>1, <3>1 DEF Alive
  <2>2. CASE ~(v.state = "primary" /\ v.term = m.term)
    <3>1. f = trans2F(v, m.term)
      BY <2>2, Zenon
    <3> HIDE DEF f
    <3>2. v.term <= m.term => m.term >= v.term
      BY <1>1, <1>2
    <3>3. QED
      BY <1>1, <1>2, <1>3, <3>1, <3>2, Trans2FOK
  <2>3. QED
    BY <2>1, <2>2
<1> HIDE DEF f
<1>7. v.term <= m.term =>
          /\ StateOK(g, s) /\ g.thrown = f.thrown /\ g.state = f.state
  <2>1. g = remember_lsn(f, m)
    BY <1>1, <1>3 DEF MsgOK, AeFits
  <2> HIDE DEF g
  <2>2. QED
    BY <1>1, <1>5, <2>1, RememberOK
<1> HIDE DEF g
<1>8. CASE Step(s, {m}, v, {make_resp_ae(v, m, FALSE)})
  BY <1>1, <1>2, <1>3, <1>8, RespAeOK, StepOK, HistoryKept DEF IInv
<1>9. CASE v.term <= m.term /\ Step(s, {m}, f, {})
  BY <1>1, <1>3, <1>5, <1>9, StepOK, HistoryKept DEF IInv
<1>10. CASE /\ v.term <= m.term
            /\ Step(s, {m}, g, {make_resp_ae(g, m, FALSE)})
  <2>1. StateOK(g, s) /\ g \in ServerState
    BY <1>7, <1>10 DEF StateOK
  <2>2. QED
    BY <1>1, <1>3, <1>10, <2>1, RespAeOK, StepOK, HistoryKept DEF IInv
<1>11. CASE /\ v.term <= m.term /\ Alive(f) /\ log_check(g, m)
            /\ Step(s, {m}, a, {make_resp_ae(a, m, TRUE)})
  <2>1. StateOK(g, s) /\ Alive(g) /\ g.state = "follower"
    BY <1>6, <1>7, <1>11 DEF Alive
  <2>2. a = accept_ae(g, m)
    BY <2>1
  <2> HIDE DEF a
  <2>3. StateOK(a, s)
    BY <1>1, <1>3, <1>11, <2>1, <2>2, AcceptOK
  <2>4. a \in ServerState
    BY <2>3 DEF StateOK
  <2>5. QED
    BY <1>1, <1>3, <1>11, <2>3, <2>4, RespAeOK, StepOK, HistoryKept DEF IInv
<1>12. QED
  BY <1>4, <1>8, <1>9, <1>10, <1>11

\* An accepted AE moves nextIndex by at most one and never past the log.
LEMMA DealOkOK ==
    ASSUME IInv, NEW s \in Server, NEW v, v = server[s], Alive(v),
           v.state = "primary", NEW q \in Peers(s), NEW m, NEW c \in Int,
           primary_deal_ok(v, s, q, m, c)
    PROVE  ServersOK' /\ NetOK'
<1> DEFINE size == Len(v.entries)
           next == v.nextIndex[q]
           took == took_entry(v, q, m)
           index == IF took THEN next ELSE next - 1
           saved == [v.Follower_saved_index EXCEPT ![q] = index]
           u == IF took THEN [v EXCEPT !.nextIndex[q] = next + 1] ELSE v
           w == primary_update_commit_index(u, saved, c)
           x == [w EXCEPT !.retry_timers[q] = "none"]
           nx == IF took THEN [v.nextIndex EXCEPT ![q] = next + 1]
                         ELSE v.nextIndex
<1>1. StateOK(v, s) /\ v \in ServerState /\ q \in Server /\ q # s
  BY StateFacts DEF Peers
<1>2. /\ size \in Nat
      /\ v.nextIndex \in [Server -> Int]
      /\ v.Follower_saved_index \in [Server -> Int]
      /\ \A p \in Server : /\ v.nextIndex[p] \in 0 .. size
                           /\ v.Follower_saved_index[p] < size
      /\ v.Follower_saved_index[s] = size - 1
  BY <1>1, LogFacts DEF StateOK, PrimaryOK, ServerState
<1>3. next \in 0 .. size /\ (took => next < size)
  BY <1>1, <1>2 DEF took_entry
<1>4. is_majority_index(saved, c)
  BY Zenon DEF primary_deal_ok
<1>5. \/ next > size
      \/ Step(s, {m}, w, {})
      \/ Step(s, {m}, AE(x, {q}), {build_rpc_ae_string(x, s, q)})
  BY Zenon DEF primary_deal_ok
<1> HIDE DEF took
<1>6. index \in Int /\ index < size
  BY <1>2, <1>3
<1> HIDE DEF index
<1>7. /\ saved \in [Server -> Int]
      /\ \A p \in Server : saved[p] < size
      /\ saved[s] = size - 1
  BY <1>1, <1>2, <1>6
<1>8. nx \in [Server -> Int] /\ \A p \in Server : nx[p] \in 0 .. size
  BY <1>1, <1>2, <1>3
<1>9. u = [v EXCEPT !.nextIndex = nx]
  <2>1. CASE took
    BY <2>1
  <2>2. CASE ~took
    <3>1. v = [v EXCEPT !.nextIndex = v.nextIndex]
      BY <1>1 DEF ServerState
    <3>2. QED
      BY <2>2, <3>1
  <2>3. QED
    BY <2>1, <2>2
<1> HIDE DEF u, saved, nx
<1>10. w = primary_update_commit_index([v EXCEPT !.nextIndex = nx], saved, c)
  BY <1>9
<1> HIDE DEF w
<1>11. StateOK(w, s) /\ w.state = "primary"
  <2>1. BooksFit(v.entries, s, nx, saved)
    BY <1>7, <1>8 DEF BooksFit
  <2>2. QED
    BY <1>1, <1>4, <1>10, <2>1, PrimaryCommitOK, SMTT(30)
<1>12. StateOK(x, s) /\ x.state = "primary" /\ NoneHooked(x, {q})
  BY <1>1, <1>11, UnhookOK
<1> HIDE DEF x
<1>13. StateOK(AE(x, {q}), s)
  BY <1>12, AeOK
<1>14. \A a \in {build_rpc_ae_string(x, s, q)} : MsgOK(a)
  BY <1>12, AeMsgOK
<1>15. ~(next > size)
  BY <1>2, <1>3
<1>16. QED
  BY <1>5, <1>11, <1>13, <1>14, <1>15, StepOK

\* A denied AE moves nextIndex back, or ends the process at index 0.
LEMMA DealDeniedOK ==
    ASSUME IInv, NEW s \in Server, NEW v, v = server[s], Alive(v),
           v.state = "primary", NEW q \in Peers(s), NEW m,
           primary_deal_denied(v, s, q, m)
    PROVE  ServersOK' /\ NetOK'
<1> DEFINE next == v.nextIndex[q] - 1
           nx == [v.nextIndex EXCEPT ![q] = next]
           u == [v EXCEPT !.nextIndex = nx]
           x == [u EXCEPT !.retry_timers[q] = "none"]
<1>1. StateOK(v, s) /\ v \in ServerState /\ q \in Server
  BY StateFacts DEF Peers
<1>2. /\ Len(v.entries) \in Nat
      /\ v.nextIndex \in [Server -> Int]
      /\ \A p \in Server : v.nextIndex[p] \in 0 .. Len(v.entries)
  BY <1>1, LogFacts DEF StateOK, PrimaryOK, ServerState
<1>3. CASE v.nextIndex[q] = 0
  <2> DEFINE w == throw_line(v, "index 0 denied")
  <2>1. w.thrown = "index 0 denied"
    BY DEF throw_line, Boot
  <2>2. Step(s, {m}, w, {})
    BY <1>3, <2>1, Zenon DEF primary_deal_denied, Alive
  <2>3. StateOK(w, s)
    BY <1>1, ThrowOK DEF Sound
  <2>4. QED
    BY <2>2, <2>3, StepOK
<1>4. CASE v.nextIndex[q] # 0
  <2>1. nx \in [Server -> Int] /\ \A p \in Server : nx[p] \in 0 .. Len(v.entries)
    BY <1>1, <1>2, <1>4
  <2>2. [v EXCEPT !.nextIndex[q] = @ - 1, !.retry_timers[q] = "none"] = x
    BY <1>1 DEF ServerState
  <2> HIDE DEF nx
  <2>3. u \in ServerState
    BY <1>1, <2>1 DEF ServerState
  <2>4. /\ u.thrown = v.thrown /\ u.entries = v.entries
        /\ u.commit_index = v.commit_index /\ u.state = v.state
        /\ u.nextIndex = nx
        /\ u.Follower_saved_index = v.Follower_saved_index
        /\ u.retry_timers = v.retry_timers
    BY <1>1 DEF ServerState
  <2> HIDE DEF u
  <2>5. StateOK(u, s)
    BY <1>1, <2>1, <2>3, <2>4 DEF StateOK, PrimaryOK, TimersOK
  <2>6. /\ StateOK(x, s) /\ x.state = "primary" /\ NoneHooked(x, {q})
        /\ x.thrown = "none"
    BY <1>1, <2>4, <2>5, UnhookOK DEF Alive
  <2> HIDE DEF x
  <2>7. Step(s, {m}, AE(x, {q}), {build_rpc_ae_string(x, s, q)})
    BY <1>4, <2>2, <2>6, Zenon DEF primary_deal_denied, Alive
  <2>8. StateOK(AE(x, {q}), s)
    BY <2>6, AeOK
  <2>9. \A a \in {build_rpc_ae_string(x, s, q)} : MsgOK(a)
    BY <2>6, AeMsgOK
  <2>10. QED
    BY <2>7, <2>8, <2>9, StepOK
<1>5. QED
  BY <1>3, <1>4

\* react2resp_ae, by role, term, lsn and outcome.
LEMMA ReactRespAeOK ==
    ASSUME IInv, NEW m \in net, react2resp_ae(m)
    PROVE  IInv'
<1> DEFINE s == m.dst
           v == server[s]
           q == m.src
<1>1. s \in Server /\ m.term \in Nat /\ q \in Peers(s)
  BY MsgFacts
<1>2. StateOK(v, s) /\ v.term \in Nat /\ Len(v.entries) \in Nat
  BY <1>1, StateFacts, LogFacts
<1>3. Alive(v) /\ UNCHANGED <<votes, restarts>>
  BY DEF react2resp_ae
<1>4. \/ v.term < m.term /\ Step(s, {m}, trans2F(v, m.term), {})
      \/ Step(s, {m}, v, {})
      \/ Step(s, {m}, throw_line(v, "resp_ae to non-primary"), {})
      \/ /\ v.state = "primary"
         /\ \E c \in -1 .. Len(v.entries) : primary_deal_ok(v, s, q, m, c)
      \/ v.state = "primary" /\ primary_deal_denied(v, s, q, m)
  BY Zenon DEF react2resp_ae
<1>5. v = server[s]
  OBVIOUS
<1> HIDE DEF s, v, q
<1>6. CASE v.term < m.term /\ Step(s, {m}, trans2F(v, m.term), {})
  <2>1. StateOK(trans2F(v, m.term), s)
    BY <1>1, <1>2, <1>3, <1>6, Trans2FOK
  <2>2. QED
    BY <1>1, <1>3, <1>6, <2>1, StepOK, HistoryKept DEF IInv
<1>7. CASE Step(s, {m}, v, {})
  BY <1>1, <1>2, <1>3, <1>7, StepOK, HistoryKept DEF IInv
<1>8. CASE Step(s, {m}, throw_line(v, "resp_ae to non-primary"), {})
  <2>1. StateOK(throw_line(v, "resp_ae to non-primary"), s)
    BY <1>1, <1>2, ThrowOK DEF Sound
  <2>2. QED
    BY <1>1, <1>3, <1>8, <2>1, StepOK, HistoryKept DEF IInv
<1>9. CASE /\ v.state = "primary"
           /\ \E c \in -1 .. Len(v.entries) : primary_deal_ok(v, s, q, m, c)
  <2>1. PICK c \in -1 .. Len(v.entries) : primary_deal_ok(v, s, q, m, c)
    BY <1>9
  <2>2. c \in Int
    BY <1>2
  <2>3. QED
    BY <1>1, <1>3, <1>5, <1>9, <2>1, <2>2, DealOkOK, HistoryKept DEF IInv
<1>10. CASE v.state = "primary" /\ primary_deal_denied(v, s, q, m)
  BY <1>1, <1>3, <1>5, <1>10, DealDeniedOK, HistoryKept DEF IInv
<1>11. QED
  BY <1>4, <1>6, <1>7, <1>8, <1>9, <1>10

\* A restart finds the log as it was.
LEMMA RestartOK ==
    ASSUME IInv, NEW s \in Server, Restart(s)
    PROVE  IInv'
<1> DEFINE b == Boot(server[s].entries)
<1>1. /\ restarts < MaxRestarts /\ restarts' = restarts + 1
      /\ server' = [server EXCEPT ![s] = b]
      /\ UNCHANGED <<net, votes>>
  BY DEF Restart
<1>2. server[s].entries \in Seq(Entry) /\ Positions(server[s].entries)
  BY StateFacts, LogFacts DEF StateOK
<1>3. StateOK(b, s)
  BY <1>2, BootOK
<1> HIDE DEF b
<1>4. b \in ServerState
  BY <1>3 DEF StateOK
<1>5. ServersOK'
  <2>1. server' \in [Server -> ServerState]
    BY <1>1, <1>4 DEF IInv, ServersOK
  <2>2. ASSUME NEW p \in Server PROVE StateOK(server'[p], p)
    <3>1. CASE p = s
      BY <1>1, <1>3, <3>1 DEF IInv, ServersOK
    <3>2. CASE p # s
      BY <1>1, <3>2 DEF IInv, ServersOK
    <3>3. QED
      BY <3>1, <3>2
  <2>3. QED
    BY <2>1, <2>2 DEF ServersOK
<1>6. NetOK'
  BY <1>1 DEF IInv, NetOK
<1>7. HistoryOK'
  BY <1>1, BoundAssumption DEF IInv, HistoryOK
<1>8. QED
  BY <1>5, <1>6, <1>7 DEF IInv

\* Losing a message keeps IInv.
LEMMA LoseOK ==
    ASSUME IInv, NEW m \in net, Lose(m)
    PROVE  IInv'
BY DEF IInv, ServersOK, NetOK, HistoryOK, Lose

\* The cluster starts in IInv.
LEMMA InitOK == Init => IInv
<1> SUFFICES ASSUME Init PROVE IInv
  OBVIOUS
<1>1. << >> \in Seq(Entry) /\ Positions(<< >>)
  BY EmptySeq DEF Positions
<1>2. \A s \in Server : StateOK(Boot(<< >>), s) /\ Boot(<< >>) \in ServerState
  BY <1>1, BootOK DEF StateOK
<1>3. server = [s \in Server |-> Boot(<< >>)]
  BY DEF Init
<1>4. ServersOK
  BY <1>2, <1>3 DEF ServersOK
<1>5. NetOK /\ HistoryOK
  BY BoundAssumption DEF Init, NetOK, HistoryOK
<1>6. QED
  BY <1>4, <1>5 DEF IInv

\* Every step keeps IInv: one case per action.
LEMMA NextOK == IInv /\ [Next]_vars => IInv'
<1> SUFFICES ASSUME IInv, [Next]_vars PROVE IInv'
  OBVIOUS
<1>1. ASSUME NEW s \in Candidates, candidate_timeout(s) PROVE IInv'
  BY <1>1, ConfigAssumption, CandidateTimeoutOK
<1>2. ASSUME NEW s \in Server, NEW p \in Peers(s), retry_timeout(s, p)
      PROVE  IInv'
  BY <1>2, RetryTimeoutOK
<1>3. ASSUME NEW s \in ClientServers, NEW c \in Command,
             append_client_apply_to_entries(s, c)
      PROVE  IInv'
  BY <1>3, ConfigAssumption, ClientApplyOK
<1>4. ASSUME NEW m \in net, react2rv(m) PROVE IInv'
  BY <1>4, ReactRvOK
<1>5. ASSUME NEW m \in net, react2resp_rv(m) PROVE IInv'
  BY <1>5, ReactRespRvOK
<1>6. ASSUME NEW m \in net, react2ae(m) PROVE IInv'
  BY <1>6, ReactAeOK
<1>7. ASSUME NEW m \in net, react2resp_ae(m) PROVE IInv'
  BY <1>7, ReactRespAeOK
<1>8. ASSUME NEW m \in net, Lose(m) PROVE IInv'
  BY <1>8, LoseOK
<1>9. ASSUME NEW s \in RestartServers, Restart(s) PROVE IInv'
  BY <1>9, ConfigAssumption, RestartOK
<1>10. CASE UNCHANGED vars
  BY <1>10 DEF vars, IInv, ServersOK, NetOK, HistoryOK
<1>11. QED
  BY <1>1, <1>2, <1>3, <1>4, <1>5, <1>6, <1>7, <1>8, <1>9, <1>10 DEF Next

-----------------------------------------------------------------------------
(* The results. *)

\* The invariant is kept by every step of every cluster.
LEMMA Invariance == Spec => []IInv
BY InitOK, NextOK, PTL DEF Spec

\* Every variable keeps its type, for clusters of any size, with any number of
\* terms, entries, retries and restarts.
THEOREM TypeCorrect == Spec => []TypeOK
<1>1. IInv => TypeOK
  BY DEF IInv, ServersOK, NetOK, HistoryOK, MsgOK, TypeOK
<1>2. QED
  BY <1>1, Invariance, PTL

\* The assertions on the internal bookkeeping (RaftServer.cpp:139, 200, 230,
\* 316, 496, 524, 533, 689 and entry.cpp:97) never end a process whose timers
\* are cancelled in time.
THEOREM AssertionsSound == Spec => []SoundAssertions
<1>1. IInv => SoundAssertions
  BY DEF IInv, ServersOK, StateOK, Sound, SoundAssertions
<1>2. QED
  BY <1>1, Invariance, PTL

\* commit_index of every server, and nextIndex and Follower_saved_index of
\* every primary, stay within its log.
THEOREM IndexesFit == Spec => []IndexesWithinLog
<1>1. IInv => IndexesWithinLog
  BY DEF IInv, ServersOK, StateOK, PrimaryOK, IndexesWithinLog
<1>2. QED
  BY <1>1, Invariance, PTL

=============================================================================
