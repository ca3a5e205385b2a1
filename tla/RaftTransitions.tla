-------------------------- MODULE RaftTransitions --------------------------
(***************************************************************************)
(* What each function of RaftServer.cpp does to the members of a server,   *)
(* all of them: the lemmas on which the proofs about elections and about   *)
(* log replication rest.  The members are grouped by what changes          *)
(* together, and a lemma says which groups a function leaves alone.        *)
(***************************************************************************)
EXTENDS RaftServerProofs

SameRole(w, v) == w.thrown = v.thrown /\ w.term = v.term /\ w.state = v.state

SameVotes(w, v) == /\ w.already_voted = v.already_voted
                   /\ w.winned_votes = v.winned_votes

SameLsns(w, v) == /\ w.current_rpc_lsn = v.current_rpc_lsn
                  /\ w.follower_rpc_lsn = v.follower_rpc_lsn

SameTimers(w, v) == /\ w.candidate_timer = v.candidate_timer
                    /\ w.retry_timers = v.retry_timers

SameLog(w, v) == /\ w.entries = v.entries
                 /\ w.commit_index = v.commit_index
                 /\ w.applied = v.applied

SameBooks(w, v) == /\ w.nextIndex = v.nextIndex
                   /\ w.Follower_saved_index = v.Follower_saved_index

-----------------------------------------------------------------------------
(* Terms, roles and timers. *)

\* cancel_all_timers unhooks every timer.
LEMMA CancelIs ==
    ASSUME NEW v \in ServerState, NEW w, w = cancel_all_timers(v)
    PROVE  /\ w \in ServerState
           /\ SameRole(w, v) /\ SameVotes(w, v) /\ SameLsns(w, v)
           /\ SameLog(w, v) /\ SameBooks(w, v)
           /\ w.candidate_timer = FALSE
           /\ w.retry_timers = [p \in Server |-> "none"]
<1>1. w \in ServerState
  BY DEF cancel_all_timers, ServerState
<1>2. /\ SameRole(w, v) /\ SameVotes(w, v) /\ SameLsns(w, v)
      /\ SameLog(w, v) /\ SameBooks(w, v)
      /\ w.candidate_timer = FALSE
      /\ w.retry_timers = [p \in Server |-> "none"]
  BY DEF cancel_all_timers, ServerState, SameRole, SameVotes, SameLsns,
         SameLog, SameBooks
<1>3. QED
  BY <1>1, <1>2

\* update_term: the lsns start again in a new term, and only there.
LEMMA UpdateTermIs ==
    ASSUME NEW v \in ServerState, NEW t \in Nat, t >= v.term,
           NEW w, w = update_term(v, t)
    PROVE  /\ w \in ServerState
           /\ w.thrown = v.thrown /\ w.state = v.state /\ w.term = t
           /\ SameVotes(w, v) /\ SameTimers(w, v) /\ SameLog(w, v)
           /\ SameBooks(w, v)
           /\ t = v.term => SameLsns(w, v)
           /\ t > v.term => /\ w.current_rpc_lsn = [p \in Server |-> 0]
                            /\ w.follower_rpc_lsn = [p \in Server |-> -1]
<1> DEFINE sent == [p \in Server |-> 0]
           seen == [p \in Server |-> -1]
<1>1. v.term \in Nat
  BY DEF ServerState
<1>2. CASE t = v.term
  <2>1. ~(t < v.term)
    BY <1>1, <1>2
  <2>2. w = v
    BY <1>2, <2>1, Zenon DEF update_term
  <2>3. QED
    BY <1>1, <1>2, <2>2 DEF SameVotes, SameTimers, SameLog, SameBooks, SameLsns
<1>3. CASE t > v.term
  <2>1. ~(t < v.term) /\ t # v.term
    BY <1>1, <1>3
  <2>2. w = [v EXCEPT !.term = t, !.current_rpc_lsn = sent,
                                  !.follower_rpc_lsn = seen]
    BY <2>1, Zenon DEF update_term
  <2>3. sent \in [Server -> Nat] /\ seen \in [Server -> Int]
    OBVIOUS
  <2> HIDE DEF sent, seen
  <2>4. w \in ServerState
    BY <2>2, <2>3 DEF ServerState
  <2>5. /\ w.thrown = v.thrown /\ w.state = v.state /\ w.term = t
        /\ SameVotes(w, v) /\ SameTimers(w, v) /\ SameLog(w, v)
        /\ SameBooks(w, v)
        /\ w.current_rpc_lsn = sent /\ w.follower_rpc_lsn = seen
    BY <2>2 DEF ServerState, SameVotes, SameTimers, SameLog, SameBooks
  <2>6. QED
    BY <2>1, <2>4, <2>5 DEF sent, seen
<1>4. QED
  BY <1>1, <1>2, <1>3

\* f is what trans2F makes of v in term t: a live follower of term t that has
\* not voted, with its candidate timer running and nothing else.
Down(f, v, t) ==
    /\ f \in ServerState
    /\ f.thrown = "none" /\ f.state = "follower" /\ f.term = t
    /\ f.already_voted = FALSE /\ f.winned_votes = 0
    /\ f.candidate_timer = TRUE
    /\ f.retry_timers = [p \in Server |-> "none"]
    /\ SameLog(f, v) /\ SameBooks(f, v)
    /\ t = v.term => SameLsns(f, v)
    /\ t > v.term => /\ f.current_rpc_lsn = [p \in Server |-> 0]
                     /\ f.follower_rpc_lsn = [p \in Server |-> -1]

\* trans2F to a term that is not lower.
LEMMA Trans2FIs ==
    ASSUME NEW v \in ServerState, Alive(v), NEW t \in Nat, v.term <= t,
           NEW f, f = trans2F(v, t)
    PROVE  Down(f, v, t)
<1> DEFINE c == cancel_all_timers(v)
           d == [c EXCEPT !.winned_votes = 0]
           w == update_term(d, t)
           g == [w EXCEPT !.already_voted = FALSE, !.state = "follower"]
<1>1. /\ c \in ServerState
      /\ SameRole(c, v) /\ SameLsns(c, v) /\ SameLog(c, v) /\ SameBooks(c, v)
      /\ c.candidate_timer = FALSE
      /\ c.retry_timers = [p \in Server |-> "none"]
  BY CancelIs
<1>2. f = IF ~Alive(w) THEN w ELSE hook_candidate_timer(g)
  BY DEF trans2F
<1> HIDE DEF c
<1>3. d \in ServerState
  BY <1>1 DEF ServerState
<1>4. /\ SameRole(d, c) /\ SameLsns(d, c) /\ SameLog(d, c) /\ SameBooks(d, c)
      /\ SameTimers(d, c) /\ d.winned_votes = 0
  BY <1>1 DEF ServerState, SameRole, SameLsns, SameLog, SameBooks, SameTimers
<1> HIDE DEF d
<1>5. d.term = v.term /\ d.thrown = "none" /\ t >= d.term
  BY <1>1, <1>4 DEF SameRole, Alive, ServerState
<1>6. /\ w \in ServerState
      /\ w.thrown = "none" /\ w.term = t /\ w.winned_votes = 0
      /\ SameTimers(w, d) /\ SameLog(w, d) /\ SameBooks(w, d)
      /\ t = v.term => SameLsns(w, d)
      /\ t > v.term => /\ w.current_rpc_lsn = [p \in Server |-> 0]
                       /\ w.follower_rpc_lsn = [p \in Server |-> -1]
  BY <1>3, <1>4, <1>5, UpdateTermIs DEF SameVotes
<1> HIDE DEF w
<1>7. g \in ServerState
  BY <1>6 DEF ServerState
<1>8. /\ g.thrown = w.thrown /\ g.term = w.term /\ g.winned_votes = w.winned_votes
      /\ g.already_voted = FALSE /\ g.state = "follower"
      /\ SameTimers(g, w) /\ SameLog(g, w) /\ SameBooks(g, w) /\ SameLsns(g, w)
  BY <1>6 DEF ServerState, SameLsns, SameLog, SameBooks, SameTimers
<1> HIDE DEF g
<1>9. f = [g EXCEPT !.candidate_timer = TRUE]
  BY <1>1, <1>2, <1>4, <1>6, <1>8 DEF hook_candidate_timer, Alive, SameTimers
<1>10. f \in ServerState
  BY <1>7, <1>9 DEF ServerState
<1>11. /\ SameRole(f, g) /\ SameVotes(f, g) /\ SameLsns(f, g)
       /\ SameLog(f, g) /\ SameBooks(f, g)
       /\ f.candidate_timer = TRUE /\ f.retry_timers = g.retry_timers
  BY <1>7, <1>9 DEF ServerState, SameRole, SameVotes, SameLsns, SameLog,
                    SameBooks
<1>12. SameLog(f, v) /\ SameBooks(f, v) /\ (t = v.term => SameLsns(f, v))
  BY <1>1, <1>4, <1>6, <1>8, <1>11 DEF SameLog, SameBooks, SameLsns
<1>13. QED
  BY <1>1, <1>4, <1>6, <1>8, <1>10, <1>11, <1>12
     DEF SameRole, SameVotes, SameTimers, SameLsns, Down

\* trans2C: a candidate of the next term with one vote, its own.
LEMMA Trans2CIs ==
    ASSUME NEW v \in ServerState, Alive(v), NEW f, f = trans2C(v)
    PROVE  /\ f \in ServerState
           /\ f.thrown = "none" /\ f.state = "candidate"
           /\ f.term = v.term + 1 /\ f.winned_votes = 1
           /\ f.candidate_timer = TRUE
           /\ f.retry_timers = [p \in Server |-> "none"]
           /\ SameLog(f, v) /\ SameBooks(f, v)
           /\ f.current_rpc_lsn = [p \in Server |-> 0]
           /\ f.follower_rpc_lsn = [p \in Server |-> -1]
<1> DEFINE c == cancel_all_timers(v)
           w == update_term(c, v.term + 1)
           g == [w EXCEPT !.state = "candidate", !.winned_votes = 1]
<1>1. /\ c \in ServerState
      /\ SameRole(c, v) /\ SameLog(c, v) /\ SameBooks(c, v)
      /\ c.candidate_timer = FALSE
      /\ c.retry_timers = [p \in Server |-> "none"]
  BY CancelIs
<1>2. f = hook_candidate_timer(g)
  BY DEF trans2C
<1> HIDE DEF c
<1>3. v.term \in Nat /\ c.term = v.term /\ c.thrown = "none"
  BY <1>1 DEF ServerState, SameRole, Alive
<1>4. v.term + 1 \in Nat /\ v.term + 1 >= c.term /\ v.term + 1 > c.term
  BY <1>3
<1>5. /\ w \in ServerState
      /\ w.thrown = "none" /\ w.term = v.term + 1
      /\ SameTimers(w, c) /\ SameLog(w, c) /\ SameBooks(w, c)
      /\ w.current_rpc_lsn = [p \in Server |-> 0]
      /\ w.follower_rpc_lsn = [p \in Server |-> -1]
  BY <1>1, <1>3, <1>4, UpdateTermIs
<1> HIDE DEF w
<1>6. g \in ServerState
  BY <1>5 DEF ServerState
<1>7. /\ g.thrown = w.thrown /\ g.term = w.term /\ g.winned_votes = 1
      /\ g.state = "candidate"
      /\ SameTimers(g, w) /\ SameLog(g, w) /\ SameBooks(g, w) /\ SameLsns(g, w)
  BY <1>5 DEF ServerState, SameLsns, SameLog, SameBooks, SameTimers
<1> HIDE DEF g
<1>8. f = [g EXCEPT !.candidate_timer = TRUE]
  BY <1>1, <1>2, <1>5, <1>7 DEF hook_candidate_timer, SameTimers
<1>9. f \in ServerState
  BY <1>6, <1>8 DEF ServerState
<1>10. /\ SameRole(f, g) /\ SameVotes(f, g) /\ SameLsns(f, g)
       /\ SameLog(f, g) /\ SameBooks(f, g)
       /\ f.candidate_timer = TRUE /\ f.retry_timers = g.retry_timers
  BY <1>6, <1>8 DEF ServerState, SameRole, SameVotes, SameLsns, SameLog,
                    SameBooks
<1>11. SameLog(f, v) /\ SameBooks(f, v)
  BY <1>1, <1>5, <1>7, <1>10 DEF SameLog, SameBooks
<1>12. QED
  BY <1>1, <1>5, <1>7, <1>9, <1>10, <1>11
     DEF SameRole, SameVotes, SameTimers, SameLsns

\* x is v elected, before it has sent anything.
Rises(x, v, s) ==
    /\ x \in ServerState
    /\ x.thrown = v.thrown /\ x.term = v.term /\ x.state = "primary"
    /\ SameLsns(x, v) /\ SameLog(x, v)
    /\ x.candidate_timer = FALSE
    /\ x.retry_timers = [p \in Server |-> "none"]
    /\ x.nextIndex = [p \in Server |-> Len(v.entries)]
    /\ x.Follower_saved_index =
            [p \in Server |-> IF p = s THEN Len(v.entries) - 1 ELSE -1]

\* trans2P: the followers are assumed to have the whole log and to have saved
\* nothing.
LEMMA Trans2PIs ==
    ASSUME NEW s \in Server, NEW v \in ServerState, NEW f, f = trans2P(v, s)
    PROVE  Rises(f, v, s)
<1> DEFINE c == cancel_all_timers(v)
           size == Len(v.entries)
           next == [p \in Server |-> size]
           saved == [p \in Server |-> IF p = s THEN size - 1 ELSE -1]
<1>1. /\ c \in ServerState
      /\ SameRole(c, v) /\ SameVotes(c, v) /\ SameLsns(c, v) /\ SameLog(c, v)
      /\ c.candidate_timer = FALSE
      /\ c.retry_timers = [p \in Server |-> "none"]
  BY CancelIs
<1>2. size \in Nat
  BY LenProperties DEF ServerState
<1>3. next \in [Server -> Int] /\ saved \in [Server -> Int]
  BY <1>2
<1>4. f = [c EXCEPT !.state = "primary", !.nextIndex = next,
                    !.Follower_saved_index = saved]
  BY DEF trans2P
<1> HIDE DEF c, next, saved
<1>5. f \in ServerState
  <2>1. c \in ServerState
    BY <1>1
  <2>2. QED
    BY <1>3, <1>4, <2>1 DEF ServerState
<1>6. /\ f.thrown = c.thrown /\ f.term = c.term /\ f.state = "primary"
      /\ SameVotes(f, c) /\ SameLsns(f, c) /\ SameLog(f, c)
      /\ SameTimers(f, c)
      /\ f.nextIndex = next /\ f.Follower_saved_index = saved
  BY <1>1, <1>4 DEF ServerState, SameVotes, SameLsns, SameLog, SameTimers
<1>7. SameVotes(f, v) /\ SameLsns(f, v) /\ SameLog(f, v)
  BY <1>1, <1>6 DEF SameVotes, SameLsns, SameLog
<1>8. QED
  BY <1>1, <1>5, <1>6, <1>7 DEF SameRole, SameTimers, Rises, next, saved, size

-----------------------------------------------------------------------------
(* RPCs. *)

\* w is v with other lsns for the RPCs to come and other retry timers.
Sends(w, v, lsn, timers) ==
    /\ w \in ServerState
    /\ SameRole(w, v) /\ SameVotes(w, v) /\ SameLog(w, v) /\ SameBooks(w, v)
    /\ w.candidate_timer = v.candidate_timer
    /\ w.follower_rpc_lsn = v.follower_rpc_lsn
    /\ w.current_rpc_lsn = lsn
    /\ w.retry_timers = timers

\* Sending and hooking change lsns and retry timers only.
LEMMA SendIs ==
    ASSUME NEW v \in ServerState, NEW lsn \in [Server -> Nat],
           NEW timers \in [Server -> {"none", "RV", "AE"}], NEW w,
           w = [v EXCEPT !.current_rpc_lsn = lsn, !.retry_timers = timers]
    PROVE  Sends(w, v, lsn, timers)
<1>1. w \in ServerState
  BY DEF ServerState
<1>2. QED
  BY <1>1 DEF ServerState, SameRole, SameVotes, SameLog, SameBooks, Sends

\* The timers after RPCs of kind k to the peers P.
Hooked(v, P, k) ==
    [p \in Server |-> IF p \in P THEN k ELSE v.retry_timers[p]]

\* RV to peers of which none is hooked.
LEMMA RvIs ==
    ASSUME NEW v \in ServerState, NEW P, NoneHooked(v, P),
           NEW w, w = RV(v, P)
    PROVE  Sends(w, v, next_lsn(v, P), Hooked(v, P, "RV"))
<1> DEFINE lsn == next_lsn(v, P)
           timers == [p \in Server |->
                  IF p \notin P THEN v.retry_timers[p]
                  ELSE IF v.retry_timers[p] = "none" THEN "RV" ELSE "none"]
<1>1. lsn \in [Server -> Nat]
  BY NextLsnType
<1>2. timers \in [Server -> {"none", "RV", "AE"}]
  BY DEF ServerState
<1>3. w = [v EXCEPT !.current_rpc_lsn = lsn, !.retry_timers = timers]
  BY DEF RV
<1>4. timers = Hooked(v, P, "RV")
  BY DEF NoneHooked, Hooked
<1> HIDE DEF lsn, timers
<1>5. Sends(w, v, lsn, timers)
  BY <1>1, <1>2, <1>3, SendIs
<1>6. QED
  BY <1>4, <1>5 DEF lsn

\* AE to peers of which none is hooked.
LEMMA AeIs ==
    ASSUME NEW v \in ServerState, NEW P, NoneHooked(v, P),
           NEW w, w = AE(v, P)
    PROVE  Sends(w, v, next_lsn(v, P), Hooked(v, P, "AE"))
<1> DEFINE lsn == next_lsn(v, P)
           timers == Hooked(v, P, "AE")
<1>1. lsn \in [Server -> Nat]
  BY NextLsnType
<1>2. timers \in [Server -> {"none", "RV", "AE"}]
  BY DEF ServerState, Hooked
<1>3. w = [v EXCEPT !.current_rpc_lsn = lsn, !.retry_timers = timers]
  <2>1. ~ \E p \in P : v.retry_timers[p] # "none"
    BY DEF NoneHooked
  <2>2. QED
    BY <2>1, Zenon DEF AE, Hooked
<1> HIDE DEF lsn, timers
<1>4. Sends(w, v, lsn, timers)
  BY <1>1, <1>2, <1>3, SendIs
<1>5. QED
  BY <1>4 DEF lsn, timers

\* g is f after it has remembered the lsn of m.
Noted(g, f, m) ==
    /\ g \in ServerState
    /\ SameRole(g, f) /\ SameVotes(g, f) /\ SameLog(g, f)
    /\ SameBooks(g, f) /\ SameTimers(g, f)
    /\ g.current_rpc_lsn = f.current_rpc_lsn
    /\ g.follower_rpc_lsn = [f.follower_rpc_lsn EXCEPT ![m.src] = m.lsn]

\* The lsn of every RPC that is looked at is remembered.
LEMMA RememberIs ==
    ASSUME NEW f \in ServerState, NEW m \in Message,
           NEW g, g = remember_lsn(f, m)
    PROVE  Noted(g, f, m)
<1> DEFINE seen == [f.follower_rpc_lsn EXCEPT ![m.src] = m.lsn]
<1>1. m.src \in Server /\ m.lsn \in Nat
  BY MsgTypes
<1>2. seen \in [Server -> Int]
  BY <1>1 DEF ServerState
<1>3. g = [f EXCEPT !.follower_rpc_lsn = seen]
  BY DEF remember_lsn
<1> HIDE DEF seen
<1>4. g \in ServerState
  BY <1>2, <1>3 DEF ServerState
<1>5. /\ SameRole(g, f) /\ SameVotes(g, f) /\ SameLog(g, f)
      /\ SameBooks(g, f) /\ SameTimers(g, f)
      /\ g.current_rpc_lsn = f.current_rpc_lsn
      /\ g.follower_rpc_lsn = seen
  BY <1>3 DEF ServerState, SameRole, SameVotes, SameLog, SameBooks, SameTimers
<1>6. QED
  BY <1>4, <1>5 DEF seen, Noted

\* w is v with the retry timer of q dropped.
Unhooked(w, v, q) ==
    /\ w \in ServerState
    /\ SameRole(w, v) /\ SameVotes(w, v) /\ SameLog(w, v)
    /\ SameBooks(w, v) /\ SameLsns(w, v)
    /\ w.candidate_timer = v.candidate_timer
    /\ w.retry_timers = [v.retry_timers EXCEPT ![q] = "none"]
    /\ NoneHooked(w, {q})

LEMMA UnhookIs ==
    ASSUME NEW v \in ServerState, NEW q \in Server,
           NEW w, w = [v EXCEPT !.retry_timers[q] = "none"]
    PROVE  Unhooked(w, v, q)
<1> DEFINE timers == [v.retry_timers EXCEPT ![q] = "none"]
<1>1. timers \in [Server -> {"none", "RV", "AE"}] /\ timers[q] = "none"
  BY DEF ServerState
<1>2. w = [v EXCEPT !.retry_timers = timers]
  OBVIOUS
<1> HIDE DEF timers
<1>3. w \in ServerState
  BY <1>1, <1>2 DEF ServerState
<1>4. /\ SameRole(w, v) /\ SameVotes(w, v) /\ SameLog(w, v) /\ SameBooks(w, v)
      /\ SameLsns(w, v) /\ w.candidate_timer = v.candidate_timer
      /\ w.retry_timers = timers
  BY <1>2 DEF ServerState, SameRole, SameVotes, SameLog, SameBooks, SameLsns
<1>5. QED
  BY <1>1, <1>3, <1>4 DEF NoneHooked, Unhooked, timers

-----------------------------------------------------------------------------
(* The log, the commit index and the state machine. *)

\* w is v with another log, commit index or state machine.
OnlyLog(w, v) ==
    /\ w \in ServerState
    /\ SameRole(w, v) /\ SameVotes(w, v) /\ SameLsns(w, v) /\ SameTimers(w, v)
    /\ SameBooks(w, v)

LEMMA OnlyLogTrans ==
    ASSUME NEW u, NEW v, NEW w, OnlyLog(v, u), OnlyLog(w, v)
    PROVE  OnlyLog(w, u)
BY DEF OnlyLog, SameRole, SameVotes, SameLsns, SameTimers, SameBooks

\* insert at an index within the log.
LEMMA InsertIs ==
    ASSUME NEW v \in ServerState, NEW e \in Entry,
           NEW index \in 0 .. Len(v.entries),
           NEW w, w = insert(v, index, e)
    PROVE  /\ OnlyLog(w, v)
           /\ w.entries = Append(SubSeq(v.entries, 1, index), e)
           /\ w.commit_index = v.commit_index /\ w.applied = v.applied
<1> DEFINE new == Append(SubSeq(v.entries, 1, index), e)
<1>1. v.entries \in Seq(Entry) /\ Len(v.entries) \in Nat
  BY LenProperties DEF ServerState
<1>2. new \in Seq(Entry)
  BY <1>1, SubSeqProperties, AppendProperties
<1>3. w = [v EXCEPT !.entries = new]
  <2>1. ~(index > Len(v.entries))
    BY <1>1
  <2>2. QED
    BY <2>1, Zenon DEF insert
<1> HIDE DEF new
<1>4. w \in ServerState
  BY <1>2, <1>3 DEF ServerState
<1>5. OnlyLog(w, v)
  BY <1>3, <1>4 DEF OnlyLog, ServerState, SameRole, SameVotes, SameLsns,
                    SameTimers, SameBooks
<1>6. /\ w.entries = new
      /\ w.commit_index = v.commit_index /\ w.applied = v.applied
  BY <1>3 DEF ServerState
<1>7. QED
  BY <1>5, <1>6 DEF new

\* What the state machine has got after commit index c is reached.
AppliedUpTo(v, c) == v.applied \o SubSeq(v.entries, Len(v.applied) + 1, c + 1)

\* A commit index is set and the entries up to it are handed over.
LEMMA CommitIs ==
    ASSUME NEW v \in ServerState, NEW c \in Int, c < Len(v.entries),
           NEW w, w = apply_to_state_machine([v EXCEPT !.commit_index = c])
    PROVE  /\ OnlyLog(w, v)
           /\ w.entries = v.entries /\ w.commit_index = c
           /\ w.applied = AppliedUpTo(v, c)
<1> DEFINE new == AppliedUpTo(v, c)
           u == [v EXCEPT !.commit_index = c]
<1>1. /\ v.entries \in Seq(Entry) /\ v.applied \in Seq(Entry)
      /\ Len(v.applied) \in Nat /\ Len(v.entries) \in Nat
  BY LenProperties DEF ServerState
<1>2. new \in Seq(Entry)
  <2>1. \A i \in (Len(v.applied) + 1) .. (c + 1) : i \in 1 .. Len(v.entries)
    BY <1>1
  <2>2. SubSeq(v.entries, Len(v.applied) + 1, c + 1) \in Seq(Entry)
    BY <1>1, <2>1, SubSeqProperties
  <2>3. QED
    BY <1>1, <2>2, ConcatProperties DEF AppliedUpTo
<1>3. u \in ServerState /\ u.applied = v.applied /\ u.entries = v.entries
      /\ u.commit_index = c
  BY DEF ServerState
<1>4. w = [u EXCEPT !.applied = new]
  BY <1>3 DEF apply_to_state_machine, AppliedUpTo
<1> HIDE DEF new
<1>5. w = [v EXCEPT !.commit_index = c, !.applied = new]
  BY <1>4 DEF ServerState
<1> HIDE DEF u
<1>6. w \in ServerState
  BY <1>2, <1>5 DEF ServerState
<1>7. OnlyLog(w, v)
  BY <1>5, <1>6 DEF OnlyLog, ServerState, SameRole, SameVotes, SameLsns,
                    SameTimers, SameBooks
<1>8. w.entries = v.entries /\ w.commit_index = c /\ w.applied = new
  BY <1>5 DEF ServerState
<1>9. QED
  BY <1>7, <1>8 DEF new

\* w is dead, as throw_line leaves a process.
Dead(w) == ~Alive(w) /\ w.state = "follower"

LEMMA DeadIs ==
    ASSUME NEW v, NEW what, what # "none", NEW w, w = throw_line(v, what)
    PROVE  Dead(w)
BY DEF throw_line, Boot, Dead, Alive

\* The commit index a follower takes from a primary.
FollowerCommit(v, r) ==
    IF Len(v.entries) - 1 < r THEN Len(v.entries) - 1 ELSE r

\* w is v after the commit index a follower takes over came out as c.
Commits(w, v, c) ==
    /\ c < v.commit_index => w = throw_line(v, "commit decreases")
    /\ c = v.commit_index => w = v
    /\ c > v.commit_index =>
         /\ OnlyLog(w, v)
         /\ w.entries = v.entries /\ w.commit_index = c
         /\ w.applied = AppliedUpTo(v, c)

\* follower_update_commit_index throws or goes on to the new commit index.
LEMMA FollowerCommitIs ==
    ASSUME NEW v \in ServerState, NEW r \in Int,
           NEW w, w = follower_update_commit_index(v, r),
           NEW c, c = FollowerCommit(v, r)
    PROVE  Commits(w, v, c)
<1>1. /\ Len(v.entries) \in Nat /\ v.commit_index \in Int
      /\ c \in Int /\ c < Len(v.entries)
  BY LenProperties DEF ServerState, FollowerCommit
<1>2. w = IF c < v.commit_index THEN throw_line(v, "commit decreases")
          ELSE IF c = v.commit_index THEN v
          ELSE apply_to_state_machine([v EXCEPT !.commit_index = c])
  BY DEF follower_update_commit_index, FollowerCommit
<1>3. ASSUME c > v.commit_index
      PROVE  /\ OnlyLog(w, v)
             /\ w.entries = v.entries /\ w.commit_index = c
             /\ w.applied = AppliedUpTo(v, c)
  <2>1. ~(c < v.commit_index) /\ c # v.commit_index
    BY <1>1, <1>3
  <2>2. w = apply_to_state_machine([v EXCEPT !.commit_index = c])
    BY <1>2, <2>1, Zenon
  <2>3. QED
    BY <1>1, <2>2, CommitIs
<1>4. c < v.commit_index => w = throw_line(v, "commit decreases")
  BY <1>2
<1>5. ASSUME c = v.commit_index PROVE w = v
  <2>1. ~(c < v.commit_index)
    BY <1>1, <1>5
  <2>2. QED
    BY <1>2, <1>5, <2>1, Zenon
<1>6. QED
  BY <1>3, <1>4, <1>5 DEF Commits

\* The log of v after the AE m, and the commit index then taken over.
LogAfter(v, m) ==
    IF m.entry = << >> THEN v.entries
    ELSE Append(SubSeq(v.entries, 1, m.prelog_index + 1), m.entry[1])

CommitAfter(log, m) ==
    IF Len(log) - 1 < m.commit_index THEN Len(log) - 1 ELSE m.commit_index

\* An AE that passes the log check: its entry is put behind its prelog, then
\* the commit index is taken over.
LEMMA AcceptIs ==
    ASSUME NEW v \in ServerState, Alive(v), NEW m, MsgOK(m),
           m.type = "APPEND_ENTRY", log_check(v, m),
           NEW a, a = accept_ae(v, m),
           NEW log, log = LogAfter(v, m), NEW c, c = CommitAfter(log, m)
    PROVE  \/ c < v.commit_index /\ Dead(a)
           \/ /\ c >= v.commit_index
              /\ OnlyLog(a, v)
              /\ a.entries = log
              /\ a.commit_index = c
              /\ a.applied = IF c = v.commit_index THEN v.applied
                   ELSE v.applied \o SubSeq(log, Len(v.applied) + 1, c + 1)
<1>1. /\ m.prelog_index \in Int /\ m.commit_index \in Int
      /\ m.entry \in Seq(Entry) /\ AeFits(m)
  BY MsgTypes DEF MsgOK, AeMsg
<1>2. v.entries \in Seq(Entry) /\ Len(v.entries) \in Nat /\ v.commit_index \in Int
  BY LenProperties DEF ServerState
<1>3. m.prelog_index \in -1 .. (Len(v.entries) - 1)
  BY <1>1, <1>2 DEF AeFits, log_check
<1>4. \E w : /\ OnlyLog(w, v) /\ w.entries = log
             /\ w.commit_index = v.commit_index /\ w.applied = v.applied
             /\ a = follower_update_commit_index(w, m.commit_index)
  <2>1. CASE m.entry = << >>
    <3>1. ~(Len(v.entries) < m.commit_index)
      BY <1>1, <1>2, <1>3, <2>1 DEF AeFits
    <3>2. a = follower_update_commit_index(v, m.commit_index)
      BY <2>1, <3>1, Zenon DEF accept_ae
    <3>3. OnlyLog(v, v)
      BY DEF OnlyLog, SameRole, SameVotes, SameLsns, SameTimers, SameBooks
    <3>4. v.entries = log
      BY <2>1 DEF LogAfter
    <3>5. QED
      BY <3>2, <3>3, <3>4
  <2>2. CASE m.entry # << >>
    <3> DEFINE e == m.entry[1]
               index == m.prelog_index + 1
               w == insert(v, index, e)
    <3>1. e \in Entry /\ e.index = index
      <4>1. 1 \in 1 .. Len(m.entry)
        BY <1>1, <2>2, EmptySeq, LenProperties
      <4>2. QED
        BY <1>1, <2>2, <4>1, ElementOfSeq DEF AeFits
    <3>2. index \in 0 .. Len(v.entries)
      BY <1>2, <1>3
    <3>3. /\ OnlyLog(w, v) /\ w.entries = log
          /\ w.commit_index = v.commit_index /\ w.applied = v.applied
      <4> HIDE DEF e, index
      <4>1. /\ OnlyLog(w, v)
            /\ w.entries = Append(SubSeq(v.entries, 1, index), e)
            /\ w.commit_index = v.commit_index /\ w.applied = v.applied
        BY <3>1, <3>2, InsertIs
      <4>2. log = Append(SubSeq(v.entries, 1, index), e)
        BY <2>2, Zenon DEF e, index, LogAfter
      <4>3. QED
        BY <4>1, <4>2
    <3>4. Alive(w)
      BY <3>3 DEF OnlyLog, SameRole, Alive
    <3>5. a = follower_update_commit_index(w, m.commit_index)
      <4>1. ~(m.entry[1].index # m.prelog_index + 1)
        BY <3>1
      <4>2. QED
        BY <2>2, <3>4, <4>1, Zenon DEF accept_ae
    <3>6. QED
      BY <3>3, <3>5
  <2>3. QED
    BY <2>1, <2>2
<1>5. PICK w : /\ OnlyLog(w, v) /\ w.entries = log
               /\ w.commit_index = v.commit_index /\ w.applied = v.applied
               /\ a = follower_update_commit_index(w, m.commit_index)
  BY <1>4
<1>6. w \in ServerState /\ Len(log) \in Nat /\ c \in Int
  BY <1>1, <1>5, LenProperties, SMTT(30) DEF OnlyLog, ServerState, CommitAfter
<1>7. c = FollowerCommit(w, m.commit_index)
  BY <1>5 DEF FollowerCommit, CommitAfter
<1>8. /\ c < v.commit_index => a = throw_line(w, "commit decreases")
      /\ c = v.commit_index => a = w
      /\ c > v.commit_index =>
            /\ OnlyLog(a, w)
            /\ a.entries = log /\ a.commit_index = c
            /\ a.applied = AppliedUpTo(w, c)
  <2>1. Commits(a, w, c)
    BY <1>1, <1>5, <1>6, <1>7, FollowerCommitIs
  <2>2. QED
    BY <1>5, <2>1 DEF Commits
<1>9. CASE c < v.commit_index
  <2>1. a = throw_line(w, "commit decreases")
    BY <1>8, <1>9
  <2>2. QED
    BY <1>9, <2>1, DeadIs
<1>10. CASE c = v.commit_index
  <2>1. a = w
    BY <1>8, <1>10, Zenon
  <2>2. OnlyLog(a, v) /\ a.entries = log /\ a.commit_index = c
        /\ a.applied = v.applied
    BY <1>5, <1>10, <2>1
  <2>3. c >= v.commit_index
    BY <1>2, <1>6, <1>10
  <2>4. QED
    BY <1>10, <2>2, <2>3
<1>11. CASE c > v.commit_index
  <2>1. OnlyLog(a, v)
    BY <1>5, <1>8, <1>11, OnlyLogTrans
  <2>2. a.applied = v.applied \o SubSeq(log, Len(v.applied) + 1, c + 1)
    BY <1>5, <1>8, <1>11 DEF AppliedUpTo
  <2>3. c >= v.commit_index /\ c # v.commit_index
    BY <1>2, <1>6, <1>11
  <2>4. a.entries = log /\ a.commit_index = c
    BY <1>8, <1>11
  <2>5. QED
    BY <2>1, <2>2, <2>3, <2>4
<1>12. QED
  BY <1>2, <1>6, <1>9, <1>10, <1>11

-----------------------------------------------------------------------------
(* Handlers: the state they leave the server in, and what they send. *)

\* What react2rv has made of v when it looks at the lsn of the RV m.
Caught(f, v, m) ==
    \/ v.term = m.term /\ f = v
    \/ v.term < m.term /\ Down(f, v, m.term)

\* g votes for the sender of m.
Voted(w, g) ==
    /\ w \in ServerState
    /\ SameRole(w, g) /\ SameLsns(w, g) /\ SameTimers(w, g) /\ SameLog(w, g)
    /\ SameBooks(w, g) /\ w.winned_votes = g.winned_votes

\* The four outcomes of react2rv.
RvOutdated(s, v, m) ==
    /\ v.term > m.term
    /\ Step(s, {m}, v, {make_resp_rv(v, m, FALSE)})
    /\ votes' = votes

RvIgnored(s, v, m) ==
    \E f : /\ Caught(f, v, m) /\ f \in ServerState
           /\ Step(s, {m}, f, {})
           /\ votes' = votes

RvDenied(s, v, m) ==
    \E f, g : /\ Caught(f, v, m) /\ f \in ServerState /\ Noted(g, f, m)
              /\ ~should_ignore_remote_rpc(f, m)
              /\ Step(s, {m}, g, {make_resp_rv(g, m, FALSE)})
              /\ votes' = votes

RvGranted(s, v, m) ==
    \E f, g, w : /\ Caught(f, v, m) /\ f \in ServerState /\ Noted(g, f, m)
                 /\ ~should_ignore_remote_rpc(f, m)
                 /\ g.state = "follower"
                 /\ Voted(w, g)
                 /\ Step(s, {m}, w, {make_resp_rv(g, m, TRUE)})
                 /\ votes' = votes \cup
                        {[voter |-> s, term |-> g.term, candidate |-> m.src]}

LEMMA ReactRvIs ==
    ASSUME IInv, NEW m \in net, react2rv(m), NEW s, s = m.dst,
           NEW v, v = server[s]
    PROVE  /\ m.type = "REQUEST_VOTE" /\ Alive(v) /\ restarts' = restarts
           /\ \/ RvOutdated(s, v, m) \/ RvIgnored(s, v, m)
              \/ RvDenied(s, v, m) \/ RvGranted(s, v, m)
<1> DEFINE f == IF v.term < m.term THEN trans2F(v, m.term) ELSE v
           g == remember_lsn(f, m)
           w == [g EXCEPT !.already_voted = TRUE]
           b == [voter |-> s, term |-> g.term, candidate |-> m.src]
<1>1. m \in Message /\ s \in Server /\ m.term \in Nat
  BY MsgFacts
<1>2. v \in ServerState /\ v.term \in Nat
  BY <1>1, StateFacts
<1>3. m.type = "REQUEST_VOTE" /\ Alive(v) /\ restarts' = restarts
  BY DEF react2rv
<1>4. \/ /\ v.term > m.term
         /\ Step(s, {m}, v, {make_resp_rv(v, m, FALSE)})
         /\ UNCHANGED votes
      \/ v.term <= m.term /\ Step(s, {m}, f, {}) /\ UNCHANGED votes
      \/ /\ v.term <= m.term /\ ~should_ignore_remote_rpc(f, m)
         /\ Step(s, {m}, g, {make_resp_rv(g, m, FALSE)})
         /\ UNCHANGED votes
      \/ /\ v.term <= m.term /\ ~should_ignore_remote_rpc(f, m)
         /\ g.state = "follower"
         /\ Step(s, {m}, w, {make_resp_rv(g, m, TRUE)})
         /\ votes' = votes \cup {b}
  BY Zenon DEF react2rv
<1>5. v.term <= m.term => Caught(f, v, m) /\ f \in ServerState
  <2>1. CASE v.term < m.term
    <3>1. f = trans2F(v, m.term) /\ v.term <= m.term
      BY <1>1, <1>2, <2>1
    <3> HIDE DEF f
    <3>2. Down(f, v, m.term)
      BY <1>1, <1>2, <1>3, <3>1, Trans2FIs
    <3>3. QED
      BY <2>1, <3>2 DEF Caught, Down
  <2>2. CASE v.term = m.term
    <3>1. f = v
      BY <1>1, <1>2, <2>2
    <3>2. QED
      BY <1>2, <2>2, <3>1 DEF Caught
  <2>3. QED
    BY <1>1, <1>2, <2>1, <2>2
<1> HIDE DEF f
<1>6. v.term <= m.term => Noted(g, f, m)
  BY <1>1, <1>5, RememberIs
<1> HIDE DEF g
<1>7. v.term <= m.term => Voted(w, g)
  <2>1. v.term <= m.term => g \in ServerState
    BY <1>6 DEF Noted
  <2>2. g \in ServerState => w \in ServerState
    BY DEF ServerState
  <2>3. g \in ServerState =>
        /\ SameRole(w, g) /\ SameLsns(w, g) /\ SameTimers(w, g) /\ SameLog(w, g)
        /\ SameBooks(w, g) /\ w.winned_votes = g.winned_votes
    BY DEF ServerState, SameRole, SameLsns, SameTimers, SameLog, SameBooks
  <2>4. QED
    BY <2>1, <2>2, <2>3 DEF Voted
<1> HIDE DEF w
<1>8. CASE /\ v.term > m.term
           /\ Step(s, {m}, v, {make_resp_rv(v, m, FALSE)})
           /\ UNCHANGED votes
  BY <1>3, <1>8 DEF RvOutdated
<1>9. CASE v.term <= m.term /\ Step(s, {m}, f, {}) /\ UNCHANGED votes
  BY <1>3, <1>5, <1>9 DEF RvIgnored
<1>10. CASE /\ v.term <= m.term /\ ~should_ignore_remote_rpc(f, m)
            /\ Step(s, {m}, g, {make_resp_rv(g, m, FALSE)})
            /\ UNCHANGED votes
  BY <1>3, <1>5, <1>6, <1>10 DEF RvDenied
<1>11. CASE /\ v.term <= m.term /\ ~should_ignore_remote_rpc(f, m)
            /\ g.state = "follower"
            /\ Step(s, {m}, w, {make_resp_rv(g, m, TRUE)})
            /\ votes' = votes \cup {b}
  BY <1>3, <1>5, <1>6, <1>7, <1>11 DEF RvGranted
<1>12. QED
  BY <1>4, <1>8, <1>9, <1>10, <1>11

\* What react2ae has made of v when the lsn of the AE m is not an old one.
Heard(g, v, m) ==
    \E f : /\ v.term <= m.term
           /\ ~(v.state = "primary" /\ v.term = m.term)
           /\ Down(f, v, m.term)
           /\ f.follower_rpc_lsn[m.src] < m.lsn
           /\ Noted(g, f, m)

\* a is g after the AE m.
Took(a, g, m) ==
    LET c == CommitAfter(LogAfter(g, m), m)
    IN  /\ c >= g.commit_index
        /\ OnlyLog(a, g)
        /\ a.entries = LogAfter(g, m)
        /\ a.commit_index = c
        /\ a.applied = IF c = g.commit_index THEN g.applied
             ELSE g.applied \o SubSeq(LogAfter(g, m), Len(g.applied) + 1, c + 1)

\* The outcomes of react2ae.
AeOutdated(s, v, m) ==
    /\ v.term > m.term
    /\ Step(s, {m}, v, {make_resp_ae(v, m, FALSE)})

AeTwoPrimaries(s, v, m) ==
    \E w : /\ v.state = "primary" /\ v.term = m.term
           /\ Dead(w)
           /\ Step(s, {m}, w, {})

AeIgnored(s, v, m) ==
    \E f : /\ v.term <= m.term
           /\ Down(f, v, m.term)
           /\ f.follower_rpc_lsn[m.src] >= m.lsn
           /\ Step(s, {m}, f, {})

AeDenied(s, v, m) ==
    \E g : /\ Heard(g, v, m) /\ ~log_check(g, m)
           /\ Step(s, {m}, g, {make_resp_ae(g, m, FALSE)})

AeDecreases(s, v, m) ==
    \E g, a : /\ Heard(g, v, m) /\ log_check(g, m)
              /\ CommitAfter(LogAfter(g, m), m) < g.commit_index
              /\ Dead(a)
              /\ Step(s, {m}, a, {make_resp_ae(a, m, TRUE)})

AeAccepted(s, v, m) ==
    \E g, a : /\ Heard(g, v, m) /\ log_check(g, m)
              /\ Took(a, g, m)
              /\ Step(s, {m}, a, {make_resp_ae(a, m, TRUE)})

LEMMA ReactAeIs ==
    ASSUME IInv, NEW m \in net, react2ae(m), NEW s, s = m.dst,
           NEW v, v = server[s]
    PROVE  /\ m.type = "APPEND_ENTRY" /\ Alive(v)
           /\ votes' = votes /\ restarts' = restarts
           /\ \/ AeOutdated(s, v, m) \/ AeTwoPrimaries(s, v, m)
              \/ AeIgnored(s, v, m) \/ AeDenied(s, v, m)
              \/ AeDecreases(s, v, m) \/ AeAccepted(s, v, m)
<1> DEFINE f == IF v.state = "primary" /\ v.term = m.term
                THEN throw_line(v, "two primaries") ELSE trans2F(v, m.term)
           g == IF m.prelog_index = -1 /\ m.prelog_term # -1
                THEN throw_line(f, "prelog term") ELSE remember_lsn(f, m)
           a == IF Alive(g) THEN accept_ae(g, m) ELSE g
           log == LogAfter(g, m)
           c == CommitAfter(log, m)
<1>1. /\ MsgOK(m) /\ m \in Message /\ m.src \in Server
      /\ s \in Server /\ m.term \in Nat /\ m.lsn \in Nat
  BY MsgFacts
<1>2. v \in ServerState /\ v.term \in Nat
  BY <1>1, StateFacts
<1>3. /\ m.type = "APPEND_ENTRY" /\ Alive(v)
      /\ votes' = votes /\ restarts' = restarts
  BY DEF react2ae
<1>4. \/ AeOutdated(s, v, m)
      \/ /\ v.term <= m.term
         /\ ~Alive(f) \/ should_ignore_remote_rpc(f, m)
         /\ Step(s, {m}, f, {})
      \/ /\ v.term <= m.term
         /\ Alive(f) /\ ~should_ignore_remote_rpc(f, m) /\ ~log_check(g, m)
         /\ Step(s, {m}, g, {make_resp_ae(g, m, FALSE)})
      \/ /\ v.term <= m.term
         /\ Alive(f) /\ ~should_ignore_remote_rpc(f, m) /\ log_check(g, m)
         /\ Step(s, {m}, a, {make_resp_ae(a, m, TRUE)})
  BY Zenon DEF react2ae, AeOutdated
<1>5. CASE AeOutdated(s, v, m)
  BY <1>3, <1>5
<1>6. CASE v.state = "primary" /\ v.term = m.term
  <2>1. f = throw_line(v, "two primaries")
    BY <1>6, Zenon
  <2> HIDE DEF f
  <2>2. Dead(f)
    BY <2>1, DeadIs
  <2>3. AeOutdated(s, v, m) \/ Step(s, {m}, f, {})
    BY <1>4, <2>2 DEF Dead
  <2>4. QED
    BY <1>3, <1>6, <2>2, <2>3 DEF AeTwoPrimaries
<1>7. CASE v.term <= m.term /\ ~(v.state = "primary" /\ v.term = m.term)
  <2>1. f = trans2F(v, m.term)
    BY <1>7, Zenon
  <2>2. g = remember_lsn(f, m)
    BY <1>1, <1>3 DEF MsgOK, AeFits
  <2> HIDE DEF f, g
  <2>3. Down(f, v, m.term)
    BY <1>1, <1>2, <1>3, <1>7, <2>1, Trans2FIs
  <2>4. f \in ServerState /\ Alive(f)
    BY <2>3 DEF Down, Alive
  <2>5. Noted(g, f, m)
    BY <1>1, <2>2, <2>4, RememberIs
  <2>6. g \in ServerState /\ Alive(g)
    BY <2>4, <2>5 DEF Noted, SameRole, Alive
  <2>7. a = accept_ae(g, m)
    BY <2>6
  <2> HIDE DEF a
  <2>8. f.follower_rpc_lsn[m.src] \in Int
    BY <1>1, <2>4 DEF ServerState
  <2>9. ~should_ignore_remote_rpc(f, m) => Heard(g, v, m)
    <3>1. ~should_ignore_remote_rpc(f, m) => f.follower_rpc_lsn[m.src] < m.lsn
      BY <1>1, <2>8 DEF should_ignore_remote_rpc
    <3>2. QED
      BY <1>7, <2>3, <2>5, <3>1 DEF Heard
  <2>10. CASE Step(s, {m}, f, {}) /\ should_ignore_remote_rpc(f, m)
    BY <1>3, <1>7, <2>3, <2>10 DEF AeIgnored, should_ignore_remote_rpc
  <2>11. CASE /\ ~should_ignore_remote_rpc(f, m) /\ ~log_check(g, m)
              /\ Step(s, {m}, g, {make_resp_ae(g, m, FALSE)})
    BY <1>3, <2>9, <2>11 DEF AeDenied
  <2>12. CASE /\ ~should_ignore_remote_rpc(f, m) /\ log_check(g, m)
              /\ Step(s, {m}, a, {make_resp_ae(a, m, TRUE)})
    <3>1. \/ c < g.commit_index /\ Dead(a)
          \/ Took(a, g, m)
      <4> HIDE DEF log, c
      <4>1. log = LogAfter(g, m) /\ c = CommitAfter(log, m)
        BY DEF log, c
      <4>2. \/ c < g.commit_index /\ Dead(a)
            \/ /\ c >= g.commit_index
               /\ OnlyLog(a, g)
               /\ a.entries = log
               /\ a.commit_index = c
               /\ a.applied = IF c = g.commit_index THEN g.applied
                    ELSE g.applied \o SubSeq(log, Len(g.applied) + 1, c + 1)
        BY <1>1, <1>3, <2>6, <2>7, <2>12, <4>1, AcceptIs
      <4>3. QED
        BY <4>1, <4>2, Zenon DEF Took
    <3>2. QED
      BY <1>3, <2>9, <2>12, <3>1 DEF AeDecreases, AeAccepted
  <2>13. QED
    BY <1>3, <1>4, <2>4, <2>10, <2>11, <2>12
<1>8. QED
  BY <1>4, <1>5, <1>6, <1>7

\* w is v after it has taken the entry e from a client.
Appended(w, v, s, e) ==
    /\ w \in ServerState
    /\ SameRole(w, v) /\ SameVotes(w, v) /\ SameLsns(w, v) /\ SameTimers(w, v)
    /\ w.entries = Append(v.entries, e)
    /\ w.commit_index = v.commit_index /\ w.applied = v.applied
    /\ w.nextIndex = v.nextIndex
    /\ w.Follower_saved_index =
            [v.Follower_saved_index EXCEPT ![s] = Len(v.entries)]

LEMMA ClientApplyIs ==
    ASSUME IInv, NEW s \in Server, NEW c \in Command,
           append_client_apply_to_entries(s, c), NEW v, v = server[s]
    PROVE  /\ Alive(v) /\ UNCHANGED <<votes, restarts>>
           /\ \E w : /\ Appended(w, v, s, [term |-> v.term,
                                           index |-> Len(v.entries), msg |-> c])
                     /\ Step(s, {}, w, {})
<1> DEFINE index == Len(v.entries)
           e == [term |-> v.term, index |-> index, msg |-> c]
           w == insert(v, index, e)
           u == [w EXCEPT !.Follower_saved_index[s] = index]
<1>1. v \in ServerState /\ v.term \in Nat
  BY StateFacts
<1>2. index \in Nat /\ v.entries \in Seq(Entry)
  BY <1>1, LenProperties DEF ServerState
<1>3. e \in Entry /\ index \in 0 .. Len(v.entries)
  BY <1>1, <1>2 DEF Entry
<1>4. /\ Alive(v) /\ Step(s, {}, u, {}) /\ UNCHANGED <<votes, restarts>>
  BY DEF append_client_apply_to_entries
<1> HIDE DEF e
<1>5. /\ OnlyLog(w, v)
      /\ w.entries = Append(SubSeq(v.entries, 1, index), e)
      /\ w.commit_index = v.commit_index /\ w.applied = v.applied
  BY <1>1, <1>3, InsertIs, SMTT(30)
<1>6. SubSeq(v.entries, 1, index) = v.entries
  BY <1>2, LenProperties
<1> HIDE DEF w
<1> DEFINE saved == [w.Follower_saved_index EXCEPT ![s] = index]
<1>7. w \in ServerState /\ saved \in [Server -> Int]
  BY <1>2, <1>5, SMTT(30) DEF ServerState, OnlyLog
<1>8. u = [w EXCEPT !.Follower_saved_index = saved]
  OBVIOUS
<1> HIDE DEF u, saved
<1>9. u \in ServerState
  BY <1>7, <1>8 DEF ServerState
<1>10. /\ SameRole(u, w) /\ SameVotes(u, w) /\ SameLsns(u, w)
       /\ SameTimers(u, w) /\ SameLog(u, w) /\ u.nextIndex = w.nextIndex
       /\ u.Follower_saved_index = saved
  BY <1>7, <1>8 DEF ServerState, SameRole, SameVotes, SameLsns, SameTimers,
                    SameLog
<1>11. /\ SameRole(u, v) /\ SameVotes(u, v) /\ SameLsns(u, v)
       /\ SameTimers(u, v) /\ u.nextIndex = v.nextIndex
       /\ w.Follower_saved_index = v.Follower_saved_index
  BY <1>5, <1>10 DEF OnlyLog, SameRole, SameVotes, SameLsns, SameTimers,
                     SameBooks
<1>12. /\ u.entries = Append(v.entries, e)
       /\ u.commit_index = v.commit_index /\ u.applied = v.applied
  BY <1>5, <1>6, <1>10 DEF SameLog
<1>13. Appended(u, v, s, e)
  BY <1>9, <1>10, <1>11, <1>12 DEF Appended, saved, index
<1>14. QED
  BY <1>4, <1>13 DEF e, index

\* The primary's books after q has accepted the AE that m answers.
AckIndex(v, q, m) ==
    IF took_entry(v, q, m) THEN v.nextIndex[q] ELSE v.nextIndex[q] - 1

AckSaved(v, q, m) == [v.Follower_saved_index EXCEPT ![q] = AckIndex(v, q, m)]

AckNext(v, q, m) ==
    IF took_entry(v, q, m) THEN [v.nextIndex EXCEPT ![q] = v.nextIndex[q] + 1]
    ELSE v.nextIndex

\* w is the primary v with those books and the commit index c.
Acked(w, v, q, m, c) ==
    /\ w \in ServerState
    /\ SameRole(w, v) /\ SameVotes(w, v)
    /\ w.candidate_timer = v.candidate_timer
    /\ w.follower_rpc_lsn = v.follower_rpc_lsn
    /\ w.entries = v.entries
    /\ w.commit_index = c
    /\ w.applied = AppliedUpTo(v, c)
    /\ w.nextIndex = AckNext(v, q, m)
    /\ w.Follower_saved_index = AckSaved(v, q, m)

\* x and w differ in what sending an AE to q changes.
Resent(w, x, v, q) ==
    /\ x.current_rpc_lsn = v.current_rpc_lsn
    /\ w.current_rpc_lsn = next_lsn(v, {q})
    /\ w.retry_timers = Hooked(v, {q}, "AE")

\* x is u but for the lsns of the RPCs to come and the retry timers.
AsBefore(x, u) ==
    /\ x \in ServerState
    /\ SameRole(x, u) /\ SameVotes(x, u) /\ SameLog(x, u)
    /\ SameBooks(x, u) /\ x.candidate_timer = u.candidate_timer
    /\ x.follower_rpc_lsn = u.follower_rpc_lsn

LEMMA ResentIs ==
    ASSUME NEW v \in ServerState, NEW q \in Server, NEW u \in ServerState,
           u.current_rpc_lsn = v.current_rpc_lsn,
           u.retry_timers = v.retry_timers,
           NEW x, x = [u EXCEPT !.retry_timers[q] = "none"],
           NEW w, w = AE(x, {q})
    PROVE  AsBefore(x, u) /\ AsBefore(w, u) /\ Resent(w, x, v, q)
<1>1. /\ x \in ServerState
      /\ SameRole(x, u) /\ SameVotes(x, u) /\ SameLog(x, u)
      /\ SameBooks(x, u) /\ SameLsns(x, u)
      /\ x.candidate_timer = u.candidate_timer
      /\ x.retry_timers = [u.retry_timers EXCEPT ![q] = "none"]
      /\ NoneHooked(x, {q})
  BY UnhookIs DEF Unhooked
<1>2. Sends(w, x, next_lsn(x, {q}), Hooked(x, {q}, "AE"))
  BY <1>1, AeIs
<1>3. x.current_rpc_lsn = v.current_rpc_lsn
  BY <1>1 DEF SameLsns
<1>4. next_lsn(x, {q}) = next_lsn(v, {q})
  BY <1>3 DEF next_lsn
<1>5. Hooked(x, {q}, "AE") = Hooked(v, {q}, "AE")
  BY <1>1 DEF Hooked, ServerState
<1>6. Resent(w, x, v, q)
  BY <1>2, <1>3, <1>4, <1>5 DEF Resent, Sends
<1>7. /\ w \in ServerState
      /\ SameRole(w, u) /\ SameVotes(w, u) /\ SameLog(w, u)
      /\ SameBooks(w, u) /\ w.candidate_timer = u.candidate_timer
      /\ w.follower_rpc_lsn = u.follower_rpc_lsn
  BY <1>1, <1>2 DEF Sends, SameRole, SameVotes, SameLog, SameBooks, SameLsns
<1>8. QED
  BY <1>1, <1>6, <1>7 DEF SameLsns, AsBefore

\* The outcomes of primary_deal_ok: with nothing more to send the retry timer
\* is left alone, otherwise the next AE goes out.
AckIdle(s, v, q, m, c) ==
    \E w : /\ v.nextIndex[q] = Len(v.entries)
           /\ Acked(w, v, q, m, c)
           /\ w.current_rpc_lsn = v.current_rpc_lsn
           /\ w.retry_timers = v.retry_timers
           /\ Step(s, {m}, w, {})

AckSends(s, v, q, m, c) ==
    \E x, w : /\ v.nextIndex[q] < Len(v.entries)
              /\ Acked(x, v, q, m, c) /\ Acked(w, v, q, m, c)
              /\ Resent(w, x, v, q)
              /\ Step(s, {m}, w, {build_rpc_ae_string(x, s, q)})

LEMMA DealOkIs ==
    ASSUME IInv, NEW s \in Server, NEW v, v = server[s], Alive(v),
           v.state = "primary", NEW q \in Peers(s), NEW m, NEW c \in Int,
           primary_deal_ok(v, s, q, m, c)
    PROVE  /\ is_majority_index(AckSaved(v, q, m), c)
           /\ AckIdle(s, v, q, m, c) \/ AckSends(s, v, q, m, c)
<1> DEFINE size == Len(v.entries)
           next == v.nextIndex[q]
           took == took_entry(v, q, m)
           saved == AckSaved(v, q, m)
           nx == AckNext(v, q, m)
           u == IF took THEN [v EXCEPT !.nextIndex[q] = next + 1] ELSE v
           y == [v EXCEPT !.nextIndex = nx, !.Follower_saved_index = saved]
           w == primary_update_commit_index(u, saved, c)
           x == [w EXCEPT !.retry_timers[q] = "none"]
           z == AE(x, {q})
<1>1. StateOK(v, s) /\ v \in ServerState /\ q \in Server /\ q # s
  BY StateFacts DEF Peers
<1>2. /\ size \in Nat
      /\ v.nextIndex \in [Server -> Int]
      /\ v.Follower_saved_index \in [Server -> Int]
      /\ \A p \in Server : /\ v.nextIndex[p] \in 0 .. size
                           /\ v.Follower_saved_index[p] < size
  BY <1>1, LogFacts DEF StateOK, PrimaryOK, ServerState
<1>3. next \in 0 .. size /\ (took => next < size)
  BY <1>1, <1>2 DEF took_entry
<1>4. is_majority_index(saved, c)
  BY Zenon DEF primary_deal_ok, AckSaved, AckIndex
<1>5. \/ next > size
      \/ next = size /\ Step(s, {m}, w, {})
      \/ next # size /\ Step(s, {m}, z, {build_rpc_ae_string(x, s, q)})
  BY Zenon DEF primary_deal_ok, AckSaved, AckIndex
<1>6. saved \in [Server -> Int] /\ \A p \in Server : saved[p] < size
  <2>1. AckIndex(v, q, m) \in Int /\ AckIndex(v, q, m) < size
    BY <1>2, <1>3 DEF AckIndex
  <2>2. QED
    BY <1>1, <1>2, <2>1 DEF AckSaved
<1>7. nx \in [Server -> Int]
  BY <1>1, <1>2, <1>3 DEF AckNext
<1>8. c < size
  BY <1>4, <1>6 DEF is_majority_index
<1>9. u = [v EXCEPT !.nextIndex = nx]
  <2>1. CASE took
    BY <2>1 DEF AckNext
  <2>2. CASE ~took
    <3>1. v = [v EXCEPT !.nextIndex = v.nextIndex]
      BY <1>1 DEF ServerState
    <3>2. QED
      BY <2>2, <3>1 DEF AckNext
  <2>3. QED
    BY <2>1, <2>2
<1> HIDE DEF u, saved, nx, took
<1>10. y \in ServerState
  BY <1>1, <1>6, <1>7 DEF ServerState
<1>11. /\ SameRole(y, v) /\ SameVotes(y, v) /\ SameLsns(y, v)
       /\ SameTimers(y, v) /\ SameLog(y, v)
       /\ y.nextIndex = nx /\ y.Follower_saved_index = saved
  BY <1>1 DEF ServerState, SameRole, SameVotes, SameLsns, SameTimers, SameLog
<1>12. w = apply_to_state_machine([y EXCEPT !.commit_index = c])
  <2>1. [u EXCEPT !.Follower_saved_index = saved, !.commit_index = c]
            = [y EXCEPT !.commit_index = c]
    BY <1>1, <1>9 DEF ServerState
  <2>2. QED
    BY <2>1 DEF primary_update_commit_index
<1> HIDE DEF y, w
<1>13. /\ OnlyLog(w, y)
       /\ w.entries = y.entries /\ w.commit_index = c
       /\ w.applied = AppliedUpTo(y, c)
  <2>1. c < Len(y.entries)
    BY <1>8, <1>11 DEF SameLog
  <2>2. QED
    BY <1>10, <1>12, <2>1, CommitIs
<1>14. AppliedUpTo(y, c) = AppliedUpTo(v, c)
  BY <1>11 DEF AppliedUpTo, SameLog
<1>15. Acked(w, v, q, m, c)
  BY <1>11, <1>13, <1>14 DEF Acked, OnlyLog, SameRole, SameVotes, SameLsns,
         SameTimers, SameLog, SameBooks, nx, saved
<1>16. w.current_rpc_lsn = v.current_rpc_lsn /\ w.retry_timers = v.retry_timers
       /\ w \in ServerState
  BY <1>11, <1>13 DEF OnlyLog, SameLsns, SameTimers
<1>17. AsBefore(x, w) /\ AsBefore(z, w) /\ Resent(z, x, v, q)
  <2>1. x = [w EXCEPT !.retry_timers[q] = "none"] /\ z = AE(x, {q})
    OBVIOUS
  <2> HIDE DEF x, z
  <2>2. QED
    BY <1>1, <1>16, <2>1, ResentIs
<1> HIDE DEF x, z
<1>18. Acked(x, v, q, m, c)
  BY <1>15, <1>17 DEF Acked, AsBefore, SameRole, SameVotes, SameLog, SameBooks
<1>19. Acked(z, v, q, m, c)
  BY <1>15, <1>17 DEF Acked, AsBefore, SameRole, SameVotes, SameLog, SameBooks
<1>20. CASE next = size /\ Step(s, {m}, w, {})
  BY <1>4, <1>15, <1>16, <1>20 DEF AckIdle, saved
<1>21. CASE next # size /\ Step(s, {m}, z, {build_rpc_ae_string(x, s, q)})
  <2>1. next < size
    BY <1>2, <1>3, <1>21
  <2>2. QED
    BY <1>4, <1>17, <1>18, <1>19, <1>21, <2>1 DEF AckSends, saved
<1>22. QED
  BY <1>2, <1>3, <1>5, <1>20, <1>21

\* w is the primary v after q has denied an AE.
Backed(w, v, q) ==
    /\ w \in ServerState
    /\ SameRole(w, v) /\ SameVotes(w, v) /\ SameLog(w, v)
    /\ w.candidate_timer = v.candidate_timer
    /\ w.follower_rpc_lsn = v.follower_rpc_lsn
    /\ w.nextIndex = [v.nextIndex EXCEPT ![q] = v.nextIndex[q] - 1]
    /\ w.Follower_saved_index = v.Follower_saved_index

\* The outcomes of primary_deal_denied.
DeniedAtZero(s, v, q, m) ==
    \E w : /\ v.nextIndex[q] = 0
           /\ Dead(w)
           /\ Step(s, {m}, w, {})

DeniedSends(s, v, q, m) ==
    \E x, w : /\ v.nextIndex[q] # 0
              /\ Backed(x, v, q) /\ Backed(w, v, q)
              /\ Resent(w, x, v, q)
              /\ Step(s, {m}, w, {build_rpc_ae_string(x, s, q)})

LEMMA DealDeniedIs ==
    ASSUME IInv, NEW s \in Server, NEW v, v = server[s], Alive(v),
           v.state = "primary", NEW q \in Peers(s), NEW m,
           primary_deal_denied(v, s, q, m)
    PROVE  DeniedAtZero(s, v, q, m) \/ DeniedSends(s, v, q, m)
<1> DEFINE nx == [v.nextIndex EXCEPT ![q] = v.nextIndex[q] - 1]
           u == [v EXCEPT !.nextIndex = nx]
           x == [u EXCEPT !.retry_timers[q] = "none"]
           w == AE(x, {q})
<1>1. v \in ServerState /\ q \in Server
  BY StateFacts DEF Peers
<1>2. CASE v.nextIndex[q] = 0
  <2> DEFINE d == throw_line(v, "index 0 denied")
  <2>1. Dead(d)
    BY DeadIs
  <2>2. Step(s, {m}, d, {})
    BY <1>2, <2>1, Zenon DEF primary_deal_denied, Dead
  <2>3. QED
    BY <1>2, <2>1, <2>2 DEF DeniedAtZero
<1>3. CASE v.nextIndex[q] # 0
  <2>1. nx \in [Server -> Int]
    <3>1. v.nextIndex \in [Server -> Int]
      BY <1>1 DEF ServerState
    <3>2. QED
      BY <1>1, <3>1
  <2>2. [v EXCEPT !.nextIndex[q] = @ - 1, !.retry_timers[q] = "none"] = x
    BY <1>1 DEF ServerState
  <2> HIDE DEF nx
  <2>3. u \in ServerState
    BY <1>1, <2>1 DEF ServerState
  <2>4. /\ SameRole(u, v) /\ SameVotes(u, v) /\ SameLsns(u, v)
        /\ SameTimers(u, v) /\ SameLog(u, v) /\ u.nextIndex = nx
        /\ u.Follower_saved_index = v.Follower_saved_index
    BY <1>1 DEF ServerState, SameRole, SameVotes, SameLsns, SameTimers, SameLog
  <2> HIDE DEF u, w
  <2>5. u.current_rpc_lsn = v.current_rpc_lsn /\ u.retry_timers = v.retry_timers
    BY <2>4 DEF SameLsns, SameTimers
  <2>6. AsBefore(x, u) /\ AsBefore(w, u) /\ Resent(w, x, v, q)
    <3>1. x = [u EXCEPT !.retry_timers[q] = "none"] /\ w = AE(x, {q})
      BY DEF w
    <3> HIDE DEF x
    <3>2. QED
      BY <1>1, <2>3, <2>5, <3>1, ResentIs
  <2> HIDE DEF x
  <2>7. Backed(x, v, q)
    BY <2>4, <2>6 DEF Backed, AsBefore, SameRole, SameVotes, SameLog, SameBooks,
           SameTimers, SameLsns, nx
  <2>8. Backed(w, v, q)
    BY <2>4, <2>6 DEF Backed, AsBefore, SameRole, SameVotes, SameLog, SameBooks,
           SameTimers, SameLsns, nx
  <2>9. Alive(x)
    BY <2>7 DEF Backed, SameRole, Alive
  <2>10. Step(s, {m}, w, {build_rpc_ae_string(x, s, q)})
    BY <1>3, <2>2, <2>9, Zenon DEF primary_deal_denied, w
  <2>11. QED
    BY <1>3, <2>6, <2>7, <2>8, <2>10 DEF DeniedSends
<1>4. QED
  BY <1>2, <1>3

\* x is v standing for election, before it has sent anything.
Stands(x, v) ==
    /\ x \in ServerState
    /\ x.thrown = "none" /\ x.state = "candidate"
    /\ x.term = v.term + 1 /\ x.winned_votes = 1
    /\ x.candidate_timer = TRUE
    /\ x.retry_timers = [p \in Server |-> "none"]
    /\ SameLog(x, v) /\ SameBooks(x, v)
    /\ x.current_rpc_lsn = [p \in Server |-> 0]
    /\ x.follower_rpc_lsn = [p \in Server |-> -1]

LEMMA CandidateTimeoutIs ==
    ASSUME IInv, NEW s \in Server, candidate_timeout(s), NEW v, v = server[s]
    PROVE  /\ Alive(v) /\ v.candidate_timer /\ UNCHANGED <<votes, restarts>>
           /\ \E x, w :
                /\ Stands(x, v)
                /\ Sends(w, x, next_lsn(x, Peers(s)), Hooked(x, Peers(s), "RV"))
                /\ Step(s, {}, w,
                        {build_rpc_rv_string(x, s, p) : p \in Peers(s)})
<1> DEFINE x == trans2C(v)
           w == RV(x, Peers(s))
<1>1. v \in ServerState
  BY StateFacts
<1>2. /\ Alive(v) /\ v.candidate_timer /\ UNCHANGED <<votes, restarts>>
      /\ Step(s, {}, w, {build_rpc_rv_string(x, s, p) : p \in Peers(s)})
  BY DEF candidate_timeout
<1> HIDE DEF x
<1>3. Stands(x, v)
  BY <1>1, <1>2, Trans2CIs DEF x, Stands
<1>4. x \in ServerState /\ NoneHooked(x, Peers(s))
  BY <1>3 DEF Stands, NoneHooked, Peers
<1>5. Sends(w, x, next_lsn(x, Peers(s)), Hooked(x, Peers(s), "RV"))
  BY <1>4, RvIs
<1>6. QED
  BY <1>2, <1>3, <1>5

\* The outcomes of retry_timeout.
RetryRv(s, v, p) ==
    \E x, w : /\ v.retry_timers[p] = "RV"
              /\ AsBefore(x, v) /\ x.current_rpc_lsn = v.current_rpc_lsn
              /\ AsBefore(w, v) /\ w.current_rpc_lsn = next_lsn(v, {p})
              /\ w.retry_timers = v.retry_timers
              /\ Step(s, {}, w, {build_rpc_rv_string(x, s, p)})

RetryAe(s, v, p) ==
    \E x, w : /\ v.retry_timers[p] = "AE"
              /\ AsBefore(x, v) /\ AsBefore(w, v)
              /\ Resent(w, x, v, p)
              /\ Step(s, {}, w, {build_rpc_ae_string(x, s, p)})

LEMMA RetryTimeoutIs ==
    ASSUME IInv, NEW s \in Server, NEW p \in Peers(s), retry_timeout(s, p),
           NEW v, v = server[s]
    PROVE  /\ Alive(v) /\ UNCHANGED <<votes, restarts>>
           /\ RetryRv(s, v, p) \/ RetryAe(s, v, p)
<1> DEFINE x == [v EXCEPT !.retry_timers[p] = "none"]
           r == RV(x, {p})
           a == AE(x, {p})
<1>1. v \in ServerState /\ p \in Server
  BY StateFacts DEF Peers
<1>2. Alive(v) /\ UNCHANGED <<votes, restarts>>
  BY DEF retry_timeout
<1>3. \/ /\ v.retry_timers[p] = "RV"
         /\ Step(s, {}, r, {build_rpc_rv_string(x, s, p)})
      \/ /\ v.retry_timers[p] = "AE"
         /\ Step(s, {}, a, {build_rpc_ae_string(x, s, p)})
  BY DEF retry_timeout
<1>4. AsBefore(x, v) /\ AsBefore(a, v) /\ Resent(a, x, v, p)
  <2>1. x = [v EXCEPT !.retry_timers[p] = "none"] /\ a = AE(x, {p})
    OBVIOUS
  <2> HIDE DEF x, a
  <2>2. QED
    BY <1>1, <2>1, ResentIs
<1>5. /\ x \in ServerState /\ SameLsns(x, v) /\ NoneHooked(x, {p})
      /\ x.retry_timers = [v.retry_timers EXCEPT ![p] = "none"]
  <2>1. x = [v EXCEPT !.retry_timers[p] = "none"]
    OBVIOUS
  <2> HIDE DEF x
  <2>2. Unhooked(x, v, p)
    BY <1>1, <2>1, UnhookIs
  <2>3. QED
    BY <2>2 DEF Unhooked
<1> HIDE DEF x, a
<1>6. Sends(r, x, next_lsn(x, {p}), Hooked(x, {p}, "RV"))
  BY <1>5, RvIs
<1> HIDE DEF r
<1>7. CASE /\ v.retry_timers[p] = "RV"
           /\ Step(s, {}, r, {build_rpc_rv_string(x, s, p)})
  <2>1. x.current_rpc_lsn = v.current_rpc_lsn
    BY <1>5 DEF SameLsns
  <2>2. next_lsn(x, {p}) = next_lsn(v, {p})
    BY <2>1 DEF next_lsn
  <2>3. v.retry_timers \in [Server -> {"none", "RV", "AE"}]
    BY <1>1 DEF ServerState
  <2>4. Hooked(x, {p}, "RV") = v.retry_timers
    BY <1>5, <1>7, <2>3 DEF Hooked
  <2>5. AsBefore(r, v)
    BY <1>4, <1>6 DEF Sends, AsBefore, SameRole, SameVotes, SameLog, SameBooks
  <2>6. r.current_rpc_lsn = next_lsn(v, {p}) /\ r.retry_timers = v.retry_timers
    BY <1>6, <2>2, <2>4 DEF Sends
  <2>7. QED
    BY <1>2, <1>4, <1>7, <2>1, <2>5, <2>6 DEF RetryRv
<1>8. CASE /\ v.retry_timers[p] = "AE"
           /\ Step(s, {}, a, {build_rpc_ae_string(x, s, p)})
  BY <1>2, <1>4, <1>8 DEF RetryAe
<1>9. QED
  BY <1>3, <1>7, <1>8

\* w is v with one more vote, that of q.
Gains(w, v, q) ==
    /\ w \in ServerState
    /\ SameRole(w, v) /\ SameLsns(w, v) /\ SameLog(w, v) /\ SameBooks(w, v)
    /\ w.candidate_timer = v.candidate_timer
    /\ w.winned_votes = v.winned_votes + 1
    /\ w.retry_timers = [v.retry_timers EXCEPT ![q] = "none"]

\* The outcomes of react2resp_rv.
VoteLater(s, v, m) ==
    \E f : /\ v.term < m.term /\ Down(f, v, m.term)
           /\ Step(s, {m}, f, {})

VoteIgnored(s, v, m) == Step(s, {m}, v, {})

VoteWins(s, v, m) ==
    \E x, w : /\ vote_counts(v, m)
              /\ v.winned_votes + 1 >= majority
              /\ Rises(x, v, s)
              /\ Sends(w, x, next_lsn(x, Peers(s)), Hooked(x, Peers(s), "AE"))
              /\ Step(s, {m}, w,
                      {build_rpc_ae_string(x, s, q) : q \in Peers(s)})

VoteCounts(s, v, m) ==
    \E w : /\ vote_counts(v, m)
           /\ Gains(w, v, m.src)
           /\ Step(s, {m}, w, {})

LEMMA ReactRespRvIs ==
    ASSUME IInv, NEW m \in net, react2resp_rv(m), NEW s, s = m.dst,
           NEW v, v = server[s]
    PROVE  /\ m.type = "RESP_VOTE" /\ Alive(v)
           /\ votes' = votes /\ restarts' = restarts
           /\ \/ VoteLater(s, v, m) \/ VoteIgnored(s, v, m)
              \/ VoteWins(s, v, m) \/ VoteCounts(s, v, m)
<1> DEFINE won == [v EXCEPT !.winned_votes = @ + 1]
           x == trans2P(won, s)
           w == AE(x, Peers(s))
           g == [won EXCEPT !.retry_timers[m.src] = "none"]
<1>1. m \in Message /\ m.src \in Server /\ s \in Server /\ m.term \in Nat
  BY MsgFacts
<1>2. v \in ServerState /\ v.term \in Nat /\ v.winned_votes \in Nat
  BY <1>1, StateFacts DEF ServerState
<1>3. /\ m.type = "RESP_VOTE" /\ Alive(v)
      /\ votes' = votes /\ restarts' = restarts
  BY DEF react2resp_rv
<1>4. \/ v.term < m.term /\ Step(s, {m}, trans2F(v, m.term), {})
      \/ Step(s, {m}, v, {})
      \/ /\ vote_counts(v, m) /\ won.winned_votes >= majority
         /\ Step(s, {m}, w, {build_rpc_ae_string(x, s, q) : q \in Peers(s)})
      \/ vote_counts(v, m) /\ Step(s, {m}, g, {})
  BY Zenon DEF react2resp_rv
<1>5. won \in ServerState
  <2> DEFINE n == v.winned_votes + 1
  <2>1. n \in Nat /\ won = [v EXCEPT !.winned_votes = n]
    BY <1>2
  <2> HIDE DEF n, won
  <2>2. QED
    BY <1>2, <2>1 DEF ServerState
<1>6. /\ SameRole(won, v) /\ SameLsns(won, v) /\ SameLog(won, v)
      /\ SameBooks(won, v) /\ SameTimers(won, v)
      /\ won.winned_votes = v.winned_votes + 1
  BY <1>2 DEF ServerState, SameRole, SameLsns, SameLog, SameBooks, SameTimers
<1> HIDE DEF won
<1>7. Rises(x, v, s)
  <2> HIDE DEF x
  <2>1. Rises(x, won, s)
    BY <1>1, <1>5, Trans2PIs DEF x
  <2>2. QED
    BY <1>6, <2>1 DEF Rises, SameRole, SameLsns, SameLog
<1> HIDE DEF x
<1>8. x \in ServerState /\ NoneHooked(x, Peers(s))
  BY <1>7 DEF Rises, NoneHooked, Peers
<1>9. Sends(w, x, next_lsn(x, Peers(s)), Hooked(x, Peers(s), "AE"))
  BY <1>8, AeIs
<1> HIDE DEF w
<1>10. Gains(g, v, m.src)
  <2> HIDE DEF g
  <2>1. /\ g \in ServerState
        /\ SameRole(g, won) /\ SameVotes(g, won) /\ SameLog(g, won)
        /\ SameBooks(g, won) /\ SameLsns(g, won)
        /\ g.candidate_timer = won.candidate_timer
        /\ g.retry_timers = [won.retry_timers EXCEPT ![m.src] = "none"]
    BY <1>1, <1>5, UnhookIs DEF g, Unhooked
  <2>2. QED
    BY <1>6, <2>1 DEF Gains, SameRole, SameVotes, SameLsns, SameLog, SameBooks,
                      SameTimers
<1> HIDE DEF g
<1>11. CASE v.term < m.term /\ Step(s, {m}, trans2F(v, m.term), {})
  <2>1. v.term <= m.term
    BY <1>1, <1>2, <1>11
  <2>2. Down(trans2F(v, m.term), v, m.term)
    BY <1>1, <1>2, <1>3, <2>1, Trans2FIs
  <2>3. QED
    BY <1>3, <1>11, <2>2 DEF VoteLater
<1>12. CASE Step(s, {m}, v, {})
  BY <1>3, <1>12 DEF VoteIgnored
<1>13. CASE /\ vote_counts(v, m) /\ won.winned_votes >= majority
            /\ Step(s, {m}, w, {build_rpc_ae_string(x, s, q) : q \in Peers(s)})
  BY <1>3, <1>6, <1>7, <1>9, <1>13 DEF VoteWins
<1>14. CASE vote_counts(v, m) /\ Step(s, {m}, g, {})
  BY <1>3, <1>10, <1>14 DEF VoteCounts
<1>15. QED
  BY <1>4, <1>11, <1>12, <1>13, <1>14

\* The outcomes of react2resp_ae.
AckLater(s, v, m) ==
    \E f : /\ v.term < m.term /\ Down(f, v, m.term)
           /\ Step(s, {m}, f, {})

AckIgnored(s, v, m) == Step(s, {m}, v, {})

AckStray(s, v, m) ==
    \E w : /\ v.term = m.term /\ v.state # "primary"
           /\ Dead(w)
           /\ Step(s, {m}, w, {})

\* The last AE is answered.
AckCurrent(v, m) ==
    /\ v.term = m.term /\ v.state = "primary"
    /\ v.current_rpc_lsn[m.src] = m.lsn + 1

AckTaken(s, v, m) ==
    \E c \in Int : /\ AckCurrent(v, m) /\ m.ok
                   /\ is_majority_index(AckSaved(v, m.src, m), c)
                   /\ AckIdle(s, v, m.src, m, c) \/ AckSends(s, v, m.src, m, c)

AckDenied(s, v, m) ==
    /\ AckCurrent(v, m) /\ ~m.ok
    /\ DeniedAtZero(s, v, m.src, m) \/ DeniedSends(s, v, m.src, m)

LEMMA ReactRespAeIs ==
    ASSUME IInv, NEW m \in net, react2resp_ae(m), NEW s, s = m.dst,
           NEW v, v = server[s]
    PROVE  /\ m.type = "RESP_APPEND" /\ Alive(v)
           /\ votes' = votes /\ restarts' = restarts
           /\ \/ AckLater(s, v, m) \/ AckIgnored(s, v, m) \/ AckStray(s, v, m)
              \/ AckTaken(s, v, m) \/ AckDenied(s, v, m)
<1> DEFINE q == m.src
<1>1. m \in Message /\ q \in Peers(s) /\ s \in Server /\ m.term \in Nat
  BY MsgFacts
<1>2. v \in ServerState /\ v.term \in Nat /\ Len(v.entries) \in Nat
  BY <1>1, StateFacts, LenProperties DEF ServerState
<1>3. /\ m.type = "RESP_APPEND" /\ Alive(v)
      /\ votes' = votes /\ restarts' = restarts
  BY DEF react2resp_ae
<1>4. \/ v.term < m.term /\ Step(s, {m}, trans2F(v, m.term), {})
      \/ Step(s, {m}, v, {})
      \/ /\ v.term = m.term /\ v.state # "primary"
         /\ Step(s, {m}, throw_line(v, "resp_ae to non-primary"), {})
      \/ /\ AckCurrent(v, m) /\ m.ok
         /\ \E c \in -1 .. Len(v.entries) : primary_deal_ok(v, s, q, m, c)
      \/ AckCurrent(v, m) /\ ~m.ok /\ primary_deal_denied(v, s, q, m)
  BY Zenon DEF react2resp_ae, AckCurrent
<1> HIDE DEF q
<1>5. CASE v.term < m.term /\ Step(s, {m}, trans2F(v, m.term), {})
  <2>1. v.term <= m.term
    BY <1>1, <1>2, <1>5
  <2>2. Down(trans2F(v, m.term), v, m.term)
    BY <1>1, <1>2, <1>3, <2>1, Trans2FIs
  <2>3. QED
    BY <1>3, <1>5, <2>2 DEF AckLater
<1>6. CASE Step(s, {m}, v, {})
  BY <1>3, <1>6 DEF AckIgnored
<1>7. CASE /\ v.term = m.term /\ v.state # "primary"
           /\ Step(s, {m}, throw_line(v, "resp_ae to non-primary"), {})
  <2>1. Dead(throw_line(v, "resp_ae to non-primary"))
    BY DeadIs
  <2>2. QED
    BY <1>3, <1>7, <2>1 DEF AckStray
<1>8. CASE /\ AckCurrent(v, m) /\ m.ok
           /\ \E c \in -1 .. Len(v.entries) : primary_deal_ok(v, s, q, m, c)
  <2>1. PICK c \in -1 .. Len(v.entries) : primary_deal_ok(v, s, q, m, c)
    BY <1>8
  <2>2. c \in Int /\ v.state = "primary"
    BY <1>2, <1>8 DEF AckCurrent
  <2>3. /\ is_majority_index(AckSaved(v, q, m), c)
        /\ AckIdle(s, v, q, m, c) \/ AckSends(s, v, q, m, c)
    BY <1>1, <1>3, <2>1, <2>2, DealOkIs
  <2>4. QED
    BY <1>3, <1>8, <2>2, <2>3 DEF AckTaken, q
<1>9. CASE AckCurrent(v, m) /\ ~m.ok /\ primary_deal_denied(v, s, q, m)
  <2>1. v.state = "primary"
    BY <1>9 DEF AckCurrent
  <2>2. DeniedAtZero(s, v, q, m) \/ DeniedSends(s, v, q, m)
    BY <1>1, <1>3, <1>9, <2>1, DealDeniedIs
  <2>3. QED
    BY <1>3, <1>9, <2>2 DEF AckDenied, q
<1>10. QED
  BY <1>4, <1>5, <1>6, <1>7, <1>8, <1>9

-----------------------------------------------------------------------------
(* A result that follows from the outcomes alone: primaries only append.   *)

AppendsOnly(w, v) ==
    Alive(v) /\ v.state = "primary" /\ w.state = "primary" =>
        /\ Len(v.entries) <= Len(w.entries)
        /\ SubSeq(w.entries, 1, Len(v.entries)) = v.entries

\* Who keeps the log or is no primary afterwards is not concerned.
LEMMA KeepsLog ==
    ASSUME NEW v \in ServerState, NEW w,
           w.entries = v.entries \/ w.state = "follower" \/ v.state = "candidate"
    PROVE  AppendsOnly(w, v)
<1>1. v.entries \in Seq(Entry) /\ Len(v.entries) \in Nat
  BY LenProperties DEF ServerState
<1>2. SubSeq(v.entries, 1, Len(v.entries)) = v.entries
  BY <1>1
<1>3. QED
  BY <1>1, <1>2 DEF AppendsOnly

AllAppendOnly == \A s \in Server : AppendsOnly(server'[s], server[s])

\* Only the server that takes the step changes.
LEMMA AppendStep ==
    ASSUME IInv, NEW s \in Server, NEW w, AppendsOnly(w, server[s]),
           server' = [server EXCEPT ![s] = w]
    PROVE  AllAppendOnly
<1>1. ASSUME NEW p \in Server PROVE AppendsOnly(server'[p], server[p])
  <2>1. server \in [Server -> ServerState]
    BY DEF IInv, ServersOK
  <2>2. CASE p = s
    BY <2>1, <2>2
  <2>3. CASE p # s
    <3>1. server'[p] = server[p] /\ server[p] \in ServerState
      BY <2>1, <2>3
    <3>2. QED
      BY <3>1, KeepsLog
  <2>4. QED
    BY <2>2, <2>3
<1>2. QED
  BY <1>1 DEF AllAppendOnly

\* The actions, by their outcomes.
LEMMA NextAppends ==
    ASSUME IInv, [Next]_vars PROVE AllAppendOnly
<1>1. ASSUME NEW s \in Server, NEW handled, NEW w, NEW sent,
             Step(s, handled, w, sent),
             \/ w.entries = server[s].entries \/ w.state = "follower"
             \/ server[s].state = "candidate"
      PROVE  AllAppendOnly
  <2>1. AppendsOnly(w, server[s])
    BY <1>1, StateFacts, KeepsLog
  <2>2. QED
    BY <1>1, <2>1, AppendStep DEF Step
<1>2. ASSUME NEW s \in Candidates, candidate_timeout(s) PROVE AllAppendOnly
  <2>1. s \in Server
    BY ConfigAssumption
  <2>2. PICK x, w :
            /\ Stands(x, server[s])
            /\ Sends(w, x, next_lsn(x, Peers(s)), Hooked(x, Peers(s), "RV"))
            /\ Step(s, {}, w, {build_rpc_rv_string(x, s, p) : p \in Peers(s)})
    BY <1>2, <2>1, CandidateTimeoutIs
  <2>3. w.entries = server[s].entries
    BY <2>2 DEF Stands, Sends, SameLog
  <2>4. QED
    BY <1>1, <2>1, <2>2, <2>3
<1>3. ASSUME NEW s \in Server, NEW p \in Peers(s), retry_timeout(s, p)
      PROVE  AllAppendOnly
  <2>1. RetryRv(s, server[s], p) \/ RetryAe(s, server[s], p)
    BY <1>3, RetryTimeoutIs
  <2>2. \E w, sent : AsBefore(w, server[s]) /\ Step(s, {}, w, sent)
    BY <2>1 DEF RetryRv, RetryAe
  <2>3. QED
    BY <1>1, <2>2 DEF AsBefore, SameLog
<1>4. ASSUME NEW s \in ClientServers, NEW c \in Command,
             append_client_apply_to_entries(s, c)
      PROVE  AllAppendOnly
  <2> DEFINE v == server[s]
             e == [term |-> v.term, index |-> Len(v.entries), msg |-> c]
  <2>1. s \in Server /\ v \in ServerState
    BY ConfigAssumption, StateFacts
  <2>2. PICK w : Appended(w, v, s, e) /\ Step(s, {}, w, {})
    BY <1>4, <2>1, ClientApplyIs
  <2>3. /\ v.entries \in Seq(Entry) /\ Len(v.entries) \in Nat /\ e \in Entry
        /\ w.entries = Append(v.entries, e)
    BY <2>1, <2>2, LenProperties DEF ServerState, Entry, Appended
  <2> HIDE DEF v, e
  <2>4. /\ Len(w.entries) = Len(v.entries) + 1
        /\ SubSeq(w.entries, 1, Len(v.entries)) = v.entries
    BY <2>3, AppendProperties, SubSeqProperties, LenProperties
  <2>5. AppendsOnly(w, v)
    BY <2>3, <2>4 DEF AppendsOnly
  <2>6. QED
    BY <2>1, <2>2, <2>5, AppendStep DEF Step, v
<1>5. ASSUME NEW m \in net, react2rv(m) PROVE AllAppendOnly
  <2> DEFINE s == m.dst
             v == server[s]
  <2>1. s \in Server
    BY MsgFacts
  <2>2. \/ RvOutdated(s, v, m) \/ RvIgnored(s, v, m)
        \/ RvDenied(s, v, m) \/ RvGranted(s, v, m)
    BY <1>5, ReactRvIs
  <2> HIDE DEF s, v
  <2>3. \A f : Caught(f, v, m) => f.entries = v.entries
    BY DEF Caught, Down, SameLog
  <2>4. \E w, sent : Step(s, {m}, w, sent) /\ w.entries = v.entries
    <3>1. CASE RvOutdated(s, v, m)
      BY <3>1 DEF RvOutdated
    <3>2. CASE RvIgnored(s, v, m)
      BY <2>3, <3>2 DEF RvIgnored
    <3>3. CASE RvDenied(s, v, m)
      BY <2>3, <3>3 DEF RvDenied, Noted, SameLog
    <3>4. CASE RvGranted(s, v, m)
      BY <2>3, <3>4 DEF RvGranted, Noted, Voted, SameLog
    <3>5. QED
      BY <2>2, <3>1, <3>2, <3>3, <3>4
  <2>5. QED
    BY <1>1, <2>1, <2>4 DEF v
<1>6. ASSUME NEW m \in net, react2resp_rv(m) PROVE AllAppendOnly
  <2> DEFINE s == m.dst
             v == server[s]
  <2>1. s \in Server
    BY MsgFacts
  <2>2. \/ VoteLater(s, v, m) \/ VoteIgnored(s, v, m)
        \/ VoteWins(s, v, m) \/ VoteCounts(s, v, m)
    BY <1>6, ReactRespRvIs
  <2> HIDE DEF s, v
  <2>3. \E w, sent : Step(s, {m}, w, sent) /\ w.entries = v.entries
    <3>1. CASE VoteLater(s, v, m)
      BY <3>1 DEF VoteLater, Down, SameLog
    <3>2. CASE VoteIgnored(s, v, m)
      BY <3>2 DEF VoteIgnored
    <3>3. CASE VoteWins(s, v, m)
      BY <3>3 DEF VoteWins, Rises, Sends, SameLog
    <3>4. CASE VoteCounts(s, v, m)
      BY <3>4 DEF VoteCounts, Gains, SameLog
    <3>5. QED
      BY <2>2, <3>1, <3>2, <3>3, <3>4
  <2>4. QED
    BY <1>1, <2>1, <2>3 DEF v
<1>7. ASSUME NEW m \in net, react2ae(m) PROVE AllAppendOnly
  <2> DEFINE s == m.dst
             v == server[s]
  <2>1. s \in Server
    BY MsgFacts
  <2>2. \/ AeOutdated(s, v, m) \/ AeTwoPrimaries(s, v, m)
        \/ AeIgnored(s, v, m) \/ AeDenied(s, v, m)
        \/ AeDecreases(s, v, m) \/ AeAccepted(s, v, m)
    BY <1>7, ReactAeIs
  <2> HIDE DEF s, v
  <2>3. \A g : Heard(g, v, m) => g.state = "follower"
    BY DEF Heard, Down, Noted, SameRole
  <2>4. \E w, sent : /\ Step(s, {m}, w, sent)
                     /\ w.entries = v.entries \/ w.state = "follower"
    <3>1. CASE AeOutdated(s, v, m)
      BY <3>1 DEF AeOutdated
    <3>2. CASE AeTwoPrimaries(s, v, m)
      BY <3>2 DEF AeTwoPrimaries, Dead
    <3>3. CASE AeIgnored(s, v, m)
      BY <3>3 DEF AeIgnored, Down
    <3>4. CASE AeDenied(s, v, m)
      BY <2>3, <3>4 DEF AeDenied
    <3>5. CASE AeDecreases(s, v, m)
      BY <3>5 DEF AeDecreases, Dead
    <3>6. CASE AeAccepted(s, v, m)
      <4>1. PICK g, a : /\ Heard(g, v, m) /\ Took(a, g, m)
                        /\ Step(s, {m}, a, {make_resp_ae(a, m, TRUE)})
        BY <3>6 DEF AeAccepted
      <4>2. a.state = g.state
        BY <4>1 DEF Took, OnlyLog, SameRole
      <4>3. QED
        BY <2>3, <4>1, <4>2
    <3>7. QED
      BY <2>2, <3>1, <3>2, <3>3, <3>4, <3>5, <3>6
  <2>5. QED
    BY <1>1, <2>1, <2>4 DEF v
<1>8. ASSUME NEW m \in net, react2resp_ae(m) PROVE AllAppendOnly
  <2> DEFINE s == m.dst
             v == server[s]
  <2>1. s \in Server
    BY MsgFacts
  <2>2. \/ AckLater(s, v, m) \/ AckIgnored(s, v, m) \/ AckStray(s, v, m)
        \/ AckTaken(s, v, m) \/ AckDenied(s, v, m)
    BY <1>8, ReactRespAeIs
  <2> HIDE DEF s, v
  <2>3. \E w, sent : /\ Step(s, {m}, w, sent)
                     /\ w.entries = v.entries \/ w.state = "follower"
    <3>1. CASE AckLater(s, v, m)
      BY <3>1 DEF AckLater, Down
    <3>2. CASE AckIgnored(s, v, m)
      BY <3>2 DEF AckIgnored
    <3>3. CASE AckStray(s, v, m)
      BY <3>3 DEF AckStray, Dead
    <3>4. CASE AckTaken(s, v, m)
      BY <3>4 DEF AckTaken, AckIdle, AckSends, Acked
    <3>5. CASE AckDenied(s, v, m)
      BY <3>5 DEF AckDenied, DeniedAtZero, DeniedSends, Dead, Backed, SameLog
    <3>6. QED
      BY <2>2, <3>1, <3>2, <3>3, <3>4, <3>5
  <2>4. QED
    BY <1>1, <2>1, <2>3 DEF v
<1>9. ASSUME server' = server PROVE AllAppendOnly
  BY <1>9, StateFacts, KeepsLog DEF AllAppendOnly
<1>10. ASSUME NEW m \in net, Lose(m) PROVE AllAppendOnly
  BY <1>9, <1>10 DEF Lose
<1>11. ASSUME NEW s \in RestartServers, Restart(s) PROVE AllAppendOnly
  <2> DEFINE w == Boot(server[s].entries)
  <2>1. s \in Server /\ server[s] \in ServerState
    BY ConfigAssumption, StateFacts
  <2>2. w.state = "follower" /\ server' = [server EXCEPT ![s] = w]
    BY <1>11 DEF Boot, Restart
  <2> HIDE DEF w
  <2>3. QED
    BY <2>1, <2>2, KeepsLog, AppendStep
<1>12. CASE UNCHANGED vars
  BY <1>9, <1>12 DEF vars
<1>13. QED
  BY <1>2, <1>3, <1>4, <1>5, <1>6, <1>7, <1>8, <1>10, <1>11, <1>12 DEF Next

\* No step of any cluster, restarts included, takes an entry from a server
\* that is and stays primary: insert truncates, but a primary gets no AE it
\* would follow without stepping down.
THEOREM PrimariesAppend == Spec => PrimaryAppendsOnly
<1>1. IInv /\ [Next]_vars =>
        [\A s \in Server :
            Primary(s) /\ server'[s].state = "primary" =>
                /\ Len(server[s].entries) <= Len(server'[s].entries)
                /\ SubSeq(server'[s].entries, 1, Len(server[s].entries))
                    = server[s].entries]_vars
  BY NextAppends DEF AllAppendOnly, AppendsOnly, Primary
<1>2. QED
  BY <1>1, Invariance, PTL DEF Spec, PrimaryAppendsOnly

=============================================================================
