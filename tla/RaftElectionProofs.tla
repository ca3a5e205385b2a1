------------------------- MODULE RaftElectionProofs -------------------------
(***************************************************************************)
(* Elections of RaftServer, proved for clusters of any size whose servers  *)
(* stay up: a primary was elected by a majority, each vote counted once,   *)
(* and nobody waits for a timer that is not running.  The argument is that *)
(* an RV and the vote it is answered with are one ballot, known by the two *)
(* servers, the term and the lsn, which is never in flight twice; and that *)
(* a candidate's retry timer for a peer runs as long as the ballot that    *)
(* counts (the one of the last lsn) is out.                                *)
(***************************************************************************)
EXTENDS RaftTransitions, FiniteSetTheorems

-----------------------------------------------------------------------------
(* The inductive invariant. *)

VoteOf(p, t, s) == [voter |-> p, term |-> t, candidate |-> s]

\* The peers a candidate still asks, and the servers that voted for it.
Asked(v, s) == {p \in Peers(s) : v.retry_timers[p] = "RV"}

Voters(s, t, b) == {p \in Server : VoteOf(p, t, s) \in b}

\* What a candidate's books say: whoever is not asked any more has voted.
Counted(v, s, b) ==
    /\ Cardinality(Asked(v, s)) + v.winned_votes = Cardinality(Server)
    /\ \A p \in Peers(s) \ Asked(v, s) : VoteOf(p, v.term, s) \in b

Elected(v, s, b) ==
    2 * Cardinality(Voters(s, v.term, b) \cup {s}) > Cardinality(Server)

AllAe(v, s) == \A p \in Peers(s) : v.retry_timers[p] = "AE"

\* The part of the invariant about one server.
RoleOK(v, s, b) ==
    Alive(v) =>
        /\ v.state # "primary" => v.candidate_timer = TRUE
        /\ v.state = "primary" => AllAe(v, s) /\ Elected(v, s, b)
        /\ v.state = "candidate" => Counted(v, s, b)

\* A ballot: the RV or, once it is granted, the answer.
Granted(m) == m.type = "RESP_VOTE" /\ m.ok

Ballot(m) == m.type = "REQUEST_VOTE" \/ Granted(m)

Asker(m) == IF m.type = "REQUEST_VOTE" THEN m.src ELSE m.dst

Voter(m) == IF m.type = "REQUEST_VOTE" THEN m.dst ELSE m.src

\* No ballot is ahead of the server v that asked, and while the last one sent
\* to a peer is out, so is the retry timer.
BallotOK(m, v) ==
    Alive(v) =>
        /\ m.term <= v.term
        /\ m.term = v.term =>
            /\ m.lsn < v.current_rpc_lsn[Voter(m)]
            /\ v.state = "candidate"
               /\ m.lsn + 1 = v.current_rpc_lsn[Voter(m)] =>
                    v.retry_timers[Voter(m)] = "RV"

SameBallot(m, n) == /\ Asker(m) = Asker(n) /\ Voter(m) = Voter(n)
                    /\ m.term = n.term /\ m.lsn = n.lsn

RolesOK == \A s \in Server : RoleOK(server[s], s, votes)

BallotsOK == \A m \in net : Ballot(m) => BallotOK(m, server[Asker(m)])

VotesKept == \A m \in net : Granted(m) =>
                /\ VoteOf(m.src, m.term, m.dst) \in votes
                /\ m.rpc_term = m.term

BallotsDiffer == \A m, n \in net :
                    Ballot(m) /\ Ballot(n) /\ SameBallot(m, n) => m = n

\* The inductive invariant, on top of IInv.
EInv == RolesOK /\ BallotsOK /\ VotesKept /\ BallotsDiffer

-----------------------------------------------------------------------------
(* Counting. *)

\* Sets of servers are finite.
LEMMA ServerSets ==
    ASSUME NEW S \in SUBSET Server
    PROVE  /\ IsFiniteSet(S) /\ Cardinality(S) \in Nat
           /\ Cardinality(S) <= Cardinality(Server)
BY ConfigAssumption, FS_Subset, FS_CardinalityType

\* Larger sets of servers have more elements.
LEMMA CountMonotone ==
    ASSUME NEW S \in SUBSET Server, NEW T \in SUBSET S
    PROVE  Cardinality(T) <= Cardinality(S)
BY ServerSets, FS_Subset

\* A server and its peers are all servers.
LEMMA PeersCount ==
    ASSUME NEW s \in Server, NEW A \in SUBSET Peers(s)
    PROVE  /\ Cardinality(Peers(s)) + 1 = Cardinality(Server)
           /\ Cardinality(Server \ A) = Cardinality(Server) - Cardinality(A)
<1>1. Peers(s) \in SUBSET Server /\ A \in SUBSET Server
  BY DEF Peers
<1>2. IsFiniteSet(Server) /\ IsFiniteSet(A)
  BY <1>1, ServerSets, ConfigAssumption
<1>3. Cardinality(Server \ {s}) = Cardinality(Server) - 1
  BY <1>2, FS_RemoveElement
<1>4. Cardinality(Server \ A) = Cardinality(Server) - Cardinality(Server \cap A)
  BY <1>2, FS_Difference
<1>5. Server \cap A = A
  BY <1>1
<1>6. Cardinality(Server) \in Nat
  BY <1>2, FS_CardinalityType
<1>7. QED
  BY <1>3, <1>4, <1>5, <1>6 DEF Peers

\* More votes make nobody less elected.
LEMMA RoleMonotone ==
    ASSUME NEW s \in Server, NEW v, NEW b, NEW c, b \subseteq c, RoleOK(v, s, b)
    PROVE  RoleOK(v, s, c)
<1>1. Voters(s, v.term, b) \cup {s} \subseteq Voters(s, v.term, c) \cup {s}
  BY DEF Voters
<1>2. Voters(s, v.term, c) \cup {s} \in SUBSET Server
      /\ Voters(s, v.term, b) \cup {s} \in SUBSET Server
  BY DEF Voters
<1>3. Cardinality(Voters(s, v.term, b) \cup {s})
        <= Cardinality(Voters(s, v.term, c) \cup {s})
  BY <1>1, <1>2, CountMonotone
<1>4. /\ Cardinality(Voters(s, v.term, b) \cup {s}) \in Nat
      /\ Cardinality(Voters(s, v.term, c) \cup {s}) \in Nat
      /\ Cardinality(Server) \in Nat
  BY <1>2, ServerSets
<1>5. Elected(v, s, b) => Elected(v, s, c)
  BY <1>3, <1>4 DEF Elected
<1>6. Counted(v, s, b) => Counted(v, s, c)
  BY DEF Counted
<1>7. QED
  BY <1>5, <1>6 DEF RoleOK

\* What the books of a candidate say about its voters.
LEMMA CountedVotes ==
    ASSUME NEW s \in Server, NEW v \in ServerState, NEW b, Counted(v, s, b)
    PROVE  v.winned_votes <= Cardinality(Voters(s, v.term, b) \cup {s})
<1> DEFINE A == Asked(v, s)
           V == Voters(s, v.term, b) \cup {s}
<1>1. A \in SUBSET Peers(s) /\ A \in SUBSET Server /\ V \in SUBSET Server
  BY DEF Asked, Voters, Peers
<1>2. Server \ A \subseteq V
  BY DEF Counted, Voters, Peers
<1>3. Cardinality(Server \ A) <= Cardinality(V)
  BY <1>1, <1>2, CountMonotone
<1>4. Cardinality(Server \ A) = Cardinality(Server) - Cardinality(A)
  BY <1>1, PeersCount
<1>5. Cardinality(A) \in Nat /\ Cardinality(Server) \in Nat
      /\ Cardinality(V) \in Nat /\ v.winned_votes \in Nat
  BY <1>1, ServerSets DEF ServerState
<1>6. Cardinality(A) + v.winned_votes = Cardinality(Server)
  BY DEF Counted
<1> HIDE DEF A, V
<1>7. v.winned_votes <= Cardinality(V)
  BY <1>3, <1>4, <1>5, <1>6
<1>8. QED
  BY <1>7 DEF V

-----------------------------------------------------------------------------
(* Steps that leave the ballots alone. *)

\* A server moves on: to a later term, or within its term with lsns that do
\* not decrease and, as a candidate, with the retry timer of every peer that
\* was sent nothing new.
Follows(w, v) ==
    Alive(w) =>
        /\ Alive(v)
        /\ \/ w.term > v.term
           \/ /\ w.term = v.term
              /\ w.state = "candidate" => v.state = "candidate"
              /\ \A p \in Server : w.current_rpc_lsn[p] >= v.current_rpc_lsn[p]
              /\ w.state = "candidate" =>
                    \A p \in Server :
                        w.current_rpc_lsn[p] = v.current_rpc_lsn[p] =>
                            w.retry_timers[p] = v.retry_timers[p]

\* The ballots of a server that moves on stay sound.
LEMMA FollowsBallot ==
    ASSUME NEW v \in ServerState, NEW w \in ServerState, Follows(w, v),
           NEW m \in Message, BallotOK(m, v)
    PROVE  BallotOK(m, w)
<1> SUFFICES ASSUME Alive(w) PROVE BallotOK(m, w)
  BY DEF BallotOK
<1> DEFINE p == Voter(m)
<1>1. /\ p \in Server /\ m.term \in Nat /\ m.lsn \in Nat
  BY MsgTypes DEF Voter
<1>2. /\ v.term \in Nat /\ w.term \in Nat
      /\ v.current_rpc_lsn[p] \in Nat /\ w.current_rpc_lsn[p] \in Nat
  BY <1>1 DEF ServerState
<1>3. m.term <= v.term
  BY DEF BallotOK, Follows
<1>4. CASE w.term > v.term
  BY <1>1, <1>2, <1>3, <1>4 DEF BallotOK
<1>5. CASE w.term = v.term
  <2>1. /\ w.state = "candidate" => v.state = "candidate"
        /\ w.current_rpc_lsn[p] >= v.current_rpc_lsn[p]
        /\ w.state = "candidate"
           /\ w.current_rpc_lsn[p] = v.current_rpc_lsn[p] =>
                w.retry_timers[p] = v.retry_timers[p]
    BY <1>1, <1>2, <1>5 DEF Follows
  <2>2. m.term = v.term =>
            /\ m.lsn < v.current_rpc_lsn[p]
            /\ v.state = "candidate" /\ m.lsn + 1 = v.current_rpc_lsn[p] =>
                  v.retry_timers[p] = "RV"
    BY DEF BallotOK, Follows
  <2> HIDE DEF p
  <2>3. m.term = w.term =>
            /\ m.lsn < w.current_rpc_lsn[p]
            /\ w.state = "candidate" /\ m.lsn + 1 = w.current_rpc_lsn[p] =>
                  w.retry_timers[p] = "RV"
    BY <1>1, <1>2, <1>5, <2>1, <2>2
  <2>4. m.term <= w.term
    BY <1>3, <1>5
  <2>5. QED
    BY <2>3, <2>4 DEF BallotOK, p
<1>6. QED
  BY <1>4, <1>5 DEF Follows

\* The servers named by a ballot.
LEMMA BallotServers ==
    ASSUME IInv, NEW m \in net
    PROVE  /\ m \in Message /\ Asker(m) \in Server /\ Voter(m) \in Server
           /\ server[Asker(m)] \in ServerState
BY MsgFacts, StateFacts DEF Asker, Voter

\* A step of s from v to w keeps the invariant if the ballots it leaves in
\* flight and the ones it adds are sound and differ.
LEMMA ElectionStep ==
    ASSUME IInv, IInv', EInv, NEW s \in Server, NEW w,
           server' = [server EXCEPT ![s] = w],
           votes \subseteq votes', RoleOK(w, s, votes'),
           \A m \in net' : m \in net /\ Ballot(m) /\ Asker(m) = s =>
                BallotOK(m, w),
           \A m \in net' : m \notin net /\ Ballot(m) =>
                BallotOK(m, server'[Asker(m)]),
           \A m \in net' : m \notin net /\ Granted(m) =>
                VoteOf(m.src, m.term, m.dst) \in votes' /\ m.rpc_term = m.term,
           BallotsDiffer'
    PROVE  EInv'
<1>1. server'[s] = w /\ \A p \in Server : p # s => server'[p] = server[p]
  BY DEF IInv, ServersOK
<1>2. RolesOK'
  <2>1. ASSUME NEW p \in Server PROVE RoleOK(server'[p], p, votes')
    <3>1. CASE p = s
      BY <1>1, <3>1
    <3>2. CASE p # s
      BY <1>1, <3>2, RoleMonotone DEF EInv, RolesOK
    <3>3. QED
      BY <3>1, <3>2
  <2>2. QED
    BY <2>1 DEF RolesOK
<1>3. BallotsOK'
  <2>1. ASSUME NEW m \in net', Ballot(m)
        PROVE  BallotOK(m, server'[Asker(m)])
    <3>1. CASE m \notin net
      BY <2>1, <3>1
    <3>2. CASE m \in net /\ Asker(m) = s
      BY <1>1, <2>1, <3>2
    <3>3. CASE m \in net /\ Asker(m) # s
      BY <1>1, <2>1, <3>3, BallotServers DEF EInv, BallotsOK
    <3>4. QED
      BY <3>1, <3>2, <3>3
  <2>2. QED
    BY <2>1 DEF BallotsOK
<1>4. VotesKept'
  BY DEF VotesKept, EInv
<1>5. QED
  BY <1>2, <1>3, <1>4 DEF EInv

\* A step that sends no ballot.
LEMMA QuietStep ==
    ASSUME IInv, IInv', EInv, NEW s \in Server, NEW w, NEW handled, NEW sent,
           Step(s, handled, w, sent), votes' = votes,
           RoleOK(w, s, votes), Follows(w, server[s]),
           \A m \in sent : ~Ballot(m)
    PROVE  EInv'
<1>1. server' = [server EXCEPT ![s] = w]
  BY DEF Step
<1>2. \A m \in net' : Ballot(m) => m \in net
  BY DEF Step
<1>3. w \in ServerState /\ server[s] \in ServerState
  <2>1. server'[s] = w
    BY <1>1 DEF IInv, ServersOK
  <2>2. server'[s] \in ServerState
    BY DEF IInv, ServersOK
  <2>3. QED
    BY <2>1, <2>2, StateFacts
<1>4. ASSUME NEW m \in net', m \in net, Ballot(m), Asker(m) = s
      PROVE  BallotOK(m, w)
  <2>1. BallotOK(m, server[s]) /\ m \in Message
    BY <1>4, BallotServers DEF EInv, BallotsOK
  <2>2. QED
    BY <1>3, <2>1, FollowsBallot
<1>5. BallotsDiffer'
  BY <1>2 DEF EInv, BallotsDiffer
<1>6. \A m \in net' : m \notin net => ~Ballot(m) /\ ~Granted(m)
  BY <1>2 DEF Ballot
<1>7. RoleOK(w, s, votes') /\ votes \subseteq votes'
  OBVIOUS
<1>8. QED
  BY <1>1, <1>4, <1>5, <1>6, <1>7, ElectionStep

\* A process that died says nothing.
LEMMA DeadQuiet ==
    ASSUME NEW s, NEW v, NEW w, NEW b, ~Alive(w)
    PROVE  RoleOK(w, s, b) /\ Follows(w, v)
BY DEF RoleOK, Follows

\* A server that becomes or stays a follower, its candidate timer running.
LEMMA DownQuiet ==
    ASSUME NEW s \in Server, NEW v \in ServerState, NEW w, NEW b, Alive(v),
           w.state = "follower", w.candidate_timer = TRUE,
           \/ w.term > v.term
           \/ w.term = v.term /\ w.current_rpc_lsn = v.current_rpc_lsn
    PROVE  RoleOK(w, s, b) /\ Follows(w, v)
<1>1. \A p \in Server : v.current_rpc_lsn[p] >= v.current_rpc_lsn[p]
  BY DEF ServerState
<1>2. QED
  BY <1>1 DEF RoleOK, Follows

\* A server that keeps its role, votes, lsns and timers.
LEMMA SameQuiet ==
    ASSUME NEW s \in Server, NEW v \in ServerState, NEW w, NEW b,
           RoleOK(v, s, b), SameRole(w, v), w.winned_votes = v.winned_votes,
           w.current_rpc_lsn = v.current_rpc_lsn, SameTimers(w, v)
    PROVE  RoleOK(w, s, b) /\ Follows(w, v)
<1>1. \A p \in Server : v.current_rpc_lsn[p] >= v.current_rpc_lsn[p]
  BY DEF ServerState
<1>2. Asked(w, s) = Asked(v, s)
  BY DEF Asked, SameTimers
<1>3. RoleOK(w, s, b)
  BY <1>2 DEF RoleOK, SameRole, SameTimers, Alive, AllAe, Elected, Counted
<1>4. Follows(w, v)
  BY <1>1 DEF Follows, SameRole, SameTimers, Alive
<1>5. QED
  BY <1>3, <1>4

\* A primary that sends AEs: it stays elected, all its AE timers running.
LEMMA PrimaryQuiet ==
    ASSUME NEW s \in Server, NEW v \in ServerState, NEW w, NEW b,
           RoleOK(v, s, b), v.state = "primary", SameRole(w, v), AllAe(w, s),
           \A p \in Server : w.current_rpc_lsn[p] >= v.current_rpc_lsn[p]
    PROVE  RoleOK(w, s, b) /\ Follows(w, v)
<1>1. RoleOK(w, s, b)
  BY DEF RoleOK, SameRole, Alive, Elected
<1>2. Follows(w, v)
  BY DEF Follows, SameRole, Alive
<1>3. QED
  BY <1>1, <1>2

-----------------------------------------------------------------------------
(* The actions: first the ones that send no ballot. *)

\* Answers to AEs, AEs and denied votes are not ballots.
LEMMA NoBallot ==
    ASSUME NEW v, NEW m, NEW ok, NEW s, NEW q
    PROVE  /\ ~Ballot(make_resp_rv(v, m, FALSE))
           /\ ~Ballot(make_resp_ae(v, m, ok))
           /\ ~Ballot(build_rpc_ae_string(v, s, q))
BY DEF Ballot, Granted, make_resp_rv, make_resp_ae, build_rpc_ae_string

\* Lsns only grow when RPCs are sent.
LEMMA NextLsnGrows ==
    ASSUME NEW v \in ServerState, NEW P
    PROVE  \A p \in Server :
                /\ next_lsn(v, P)[p] \in Nat
                /\ next_lsn(v, P)[p] >= v.current_rpc_lsn[p]
                /\ p \in P => next_lsn(v, P)[p] = v.current_rpc_lsn[p] + 1
                /\ p \notin P => next_lsn(v, P)[p] = v.current_rpc_lsn[p]
BY DEF next_lsn, ServerState

\* What the invariants say of one server.
LEMMA RoleFacts ==
    ASSUME IInv, EInv, NEW s \in Server, NEW v, v = server[s]
    PROVE  v \in ServerState /\ RoleOK(v, s, votes)
BY StateFacts DEF EInv, RolesOK

\* trans2F, seen by the election.
LEMMA DownFollows ==
    ASSUME NEW s \in Server, NEW v \in ServerState, Alive(v), NEW b, NEW t \in Nat,
           v.term <= t, NEW f, Down(f, v, t)
    PROVE  RoleOK(f, s, b) /\ Follows(f, v)
<1>1. f.term > v.term \/ f.term = v.term
  BY DEF Down, ServerState
<1>2. f.term = v.term => f.current_rpc_lsn = v.current_rpc_lsn
  BY DEF Down, SameLsns
<1>3. f.state = "follower" /\ f.candidate_timer = TRUE
  BY DEF Down
<1>4. QED
  BY <1>1, <1>2, <1>3, DownQuiet

\* A primary that sends an AE to q.
LEMMA ResentFollows ==
    ASSUME NEW s \in Server, NEW v \in ServerState, NEW b, RoleOK(v, s, b),
           Alive(v), v.state = "primary", NEW w, NEW x, NEW q \in Server,
           SameRole(w, v), Resent(w, x, v, q)
    PROVE  RoleOK(w, s, b) /\ Follows(w, v)
<1>1. AllAe(w, s)
  BY DEF RoleOK, AllAe, Resent, Hooked, Peers
<1>2. \A p \in Server : w.current_rpc_lsn[p] >= v.current_rpc_lsn[p]
  BY NextLsnGrows DEF Resent
<1>3. QED
  BY <1>1, <1>2, PrimaryQuiet

\* CLIENT_APPLY does not touch the election.
LEMMA ClientApplyE ==
    ASSUME IInv, IInv', EInv, NEW s \in Server, NEW c \in Command,
           append_client_apply_to_entries(s, c)
    PROVE  EInv'
<1> DEFINE v == server[s]
           e == [term |-> v.term, index |-> Len(v.entries), msg |-> c]
<1>1. v \in ServerState /\ RoleOK(v, s, votes)
  BY RoleFacts
<1>2. /\ votes' = votes
      /\ \E w : Appended(w, v, s, e) /\ Step(s, {}, w, {})
  BY ClientApplyIs
<1>3. PICK w : Appended(w, v, s, e) /\ Step(s, {}, w, {})
  BY <1>2
<1> HIDE DEF v, e
<1>4. RoleOK(w, s, votes) /\ Follows(w, v)
  BY <1>1, <1>3, SameQuiet DEF Appended, SameLsns, SameVotes
<1>5. QED
  BY <1>2, <1>3, <1>4, QuietStep DEF v

\* react2ae: the server is a follower afterwards, or it is dead, or it does
\* nothing but answer.
LEMMA ReactAeE ==
    ASSUME IInv, IInv', EInv, NEW m \in net, react2ae(m)
    PROVE  EInv'
<1> DEFINE s == m.dst
           v == server[s]
<1>1. s \in Server /\ m.term \in Nat /\ m.src \in Server
  BY MsgFacts
<1>2. v \in ServerState /\ RoleOK(v, s, votes)
  BY <1>1, RoleFacts
<1>3. /\ Alive(v) /\ votes' = votes
      /\ \/ AeOutdated(s, v, m) \/ AeTwoPrimaries(s, v, m)
         \/ AeIgnored(s, v, m) \/ AeDenied(s, v, m)
         \/ AeDecreases(s, v, m) \/ AeAccepted(s, v, m)
  BY ReactAeIs
<1>4. ASSUME NEW w, NEW sent, Step(s, {m}, w, sent), \A n \in sent : ~Ballot(n),
             RoleOK(w, s, votes), Follows(w, v)
      PROVE  EInv'
  BY <1>1, <1>3, <1>4, QuietStep
<1> HIDE DEF s, v
<1>5. ASSUME NEW g, Heard(g, v, m)
      PROVE  /\ RoleOK(g, s, votes) /\ Follows(g, v) /\ g.state = "follower"
             /\ g.candidate_timer = TRUE
             /\ \/ g.term > v.term
                \/ g.term = v.term /\ g.current_rpc_lsn = v.current_rpc_lsn
  <2>1. PICK f : v.term <= m.term /\ Down(f, v, m.term) /\ Noted(g, f, m)
    BY <1>5 DEF Heard
  <2>2. f.term > v.term \/ f.term = v.term
    BY <1>1, <1>2, <2>1, SMTT(30) DEF Down, ServerState
  <2>3. f.term = v.term => f.current_rpc_lsn = v.current_rpc_lsn
    BY <2>1 DEF Down, SameLsns
  <2>4. f.state = "follower" /\ f.candidate_timer = TRUE
    BY <2>1 DEF Down
  <2>5. /\ g.state = "follower" /\ g.candidate_timer = TRUE
        /\ \/ g.term > v.term
           \/ g.term = v.term /\ g.current_rpc_lsn = v.current_rpc_lsn
    BY <2>1, <2>2, <2>3, <2>4 DEF Noted, SameRole, SameTimers
  <2>6. QED
    BY <1>1, <1>2, <1>3, <2>5, DownQuiet
<1>6. CASE AeOutdated(s, v, m)
  <2>1. SameRole(v, v) /\ SameTimers(v, v)
    BY DEF SameRole, SameTimers
  <2>2. RoleOK(v, s, votes) /\ Follows(v, v)
    BY <1>1, <1>2, <2>1, SameQuiet
  <2> DEFINE sent == {make_resp_ae(v, m, FALSE)}
  <2>3. (\A n \in sent : ~Ballot(n)) /\ Step(s, {m}, v, sent)
    BY <1>6, NoBallot DEF AeOutdated
  <2> HIDE DEF sent
  <2>4. QED
    BY <1>4, <2>2, <2>3
<1>7. CASE AeTwoPrimaries(s, v, m)
  <2>1. PICK w : Dead(w) /\ Step(s, {m}, w, {})
    BY <1>7 DEF AeTwoPrimaries
  <2>2. QED
    BY <1>4, <2>1, DeadQuiet DEF Dead
<1>8. CASE AeIgnored(s, v, m)
  <2>1. PICK f : /\ v.term <= m.term /\ Down(f, v, m.term)
                 /\ Step(s, {m}, f, {})
    BY <1>8 DEF AeIgnored
  <2>2. RoleOK(f, s, votes) /\ Follows(f, v)
    BY <1>1, <1>2, <1>3, <2>1, DownFollows
  <2>3. QED
    BY <1>4, <2>1, <2>2
<1>9. CASE AeDenied(s, v, m)
  <2>1. PICK g : /\ Heard(g, v, m)
                 /\ Step(s, {m}, g, {make_resp_ae(g, m, FALSE)})
    BY <1>9 DEF AeDenied
  <2> DEFINE sent == {make_resp_ae(g, m, FALSE)}
  <2>2. (\A n \in sent : ~Ballot(n)) /\ Step(s, {m}, g, sent)
    BY <2>1, NoBallot
  <2> HIDE DEF sent
  <2>3. QED
    BY <1>4, <1>5, <2>1, <2>2
<1>10. CASE AeDecreases(s, v, m)
  <2>1. PICK a : Dead(a) /\ Step(s, {m}, a, {make_resp_ae(a, m, TRUE)})
    BY <1>10 DEF AeDecreases
  <2> DEFINE sent == {make_resp_ae(a, m, TRUE)}
  <2>2. (\A n \in sent : ~Ballot(n)) /\ Step(s, {m}, a, sent)
    BY <2>1, NoBallot
  <2> HIDE DEF sent
  <2>3. QED
    BY <1>4, <2>1, <2>2, DeadQuiet DEF Dead
<1>11. CASE AeAccepted(s, v, m)
  <2>1. PICK g, a : /\ Heard(g, v, m) /\ Took(a, g, m)
                    /\ Step(s, {m}, a, {make_resp_ae(a, m, TRUE)})
    BY <1>11 DEF AeAccepted
  <2>2. OnlyLog(a, g)
    BY <2>1 DEF Took
  <2>3. /\ a.state = "follower" /\ a.candidate_timer = TRUE
        /\ \/ a.term > v.term
           \/ a.term = v.term /\ a.current_rpc_lsn = v.current_rpc_lsn
    BY <1>5, <2>1, <2>2 DEF OnlyLog, SameRole, SameTimers, SameLsns
  <2>4. RoleOK(a, s, votes) /\ Follows(a, v)
    BY <1>1, <1>2, <1>3, <2>3, DownQuiet
  <2> DEFINE sent == {make_resp_ae(a, m, TRUE)}
  <2>5. (\A n \in sent : ~Ballot(n)) /\ Step(s, {m}, a, sent)
    BY <2>1, NoBallot
  <2> HIDE DEF sent
  <2>6. QED
    BY <1>4, <2>4, <2>5
<1>12. QED
  BY <1>3, <1>6, <1>7, <1>8, <1>9, <1>10, <1>11

\* react2resp_ae: a primary stays one, its timers running.
LEMMA ReactRespAeE ==
    ASSUME IInv, IInv', EInv, NEW m \in net, react2resp_ae(m)
    PROVE  EInv'
<1> DEFINE s == m.dst
           v == server[s]
<1>1. s \in Server /\ m.term \in Nat /\ m.src \in Server
  BY MsgFacts
<1>2. v \in ServerState /\ RoleOK(v, s, votes) /\ v.term \in Nat
  BY <1>1, RoleFacts, StateFacts
<1>3. /\ Alive(v) /\ votes' = votes
      /\ \/ AckLater(s, v, m) \/ AckIgnored(s, v, m) \/ AckStray(s, v, m)
         \/ AckTaken(s, v, m) \/ AckDenied(s, v, m)
  BY ReactRespAeIs
<1>4. ASSUME NEW w, NEW sent, Step(s, {m}, w, sent), \A n \in sent : ~Ballot(n),
             RoleOK(w, s, votes), Follows(w, v)
      PROVE  EInv'
  BY <1>1, <1>3, <1>4, QuietStep
<1> HIDE DEF s, v
<1>5. CASE AckLater(s, v, m)
  <2>1. PICK f : /\ v.term < m.term /\ Down(f, v, m.term)
                 /\ Step(s, {m}, f, {})
    BY <1>5 DEF AckLater
  <2>2. v.term <= m.term
    BY <1>1, <1>2, <2>1
  <2>3. RoleOK(f, s, votes) /\ Follows(f, v)
    BY <1>1, <1>2, <1>3, <2>1, <2>2, DownFollows
  <2>4. QED
    BY <1>4, <2>1, <2>3
<1>6. CASE AckIgnored(s, v, m)
  <2>1. SameRole(v, v) /\ SameTimers(v, v)
    BY DEF SameRole, SameTimers
  <2>2. RoleOK(v, s, votes) /\ Follows(v, v)
    BY <1>1, <1>2, <2>1, SameQuiet
  <2>3. QED
    BY <1>4, <1>6, <2>2 DEF AckIgnored
<1>7. CASE AckStray(s, v, m)
  <2>1. PICK w : Dead(w) /\ Step(s, {m}, w, {})
    BY <1>7 DEF AckStray
  <2>2. QED
    BY <1>4, <2>1, DeadQuiet DEF Dead
<1>8. CASE AckTaken(s, v, m)
  <2>1. PICK c \in Int : /\ AckCurrent(v, m)
                         /\ \/ AckIdle(s, v, m.src, m, c)
                            \/ AckSends(s, v, m.src, m, c)
    BY <1>8 DEF AckTaken
  <2>2. v.state = "primary"
    BY <2>1 DEF AckCurrent
  <2>3. CASE AckIdle(s, v, m.src, m, c)
    <3>1. PICK w : /\ Acked(w, v, m.src, m, c)
                   /\ w.current_rpc_lsn = v.current_rpc_lsn
                   /\ w.retry_timers = v.retry_timers
                   /\ Step(s, {m}, w, {})
      BY <2>3 DEF AckIdle
    <3>2. RoleOK(w, s, votes) /\ Follows(w, v)
      BY <1>1, <1>2, <3>1, SameQuiet DEF Acked, SameVotes, SameTimers
    <3>3. QED
      BY <1>4, <3>1, <3>2
  <2>4. CASE AckSends(s, v, m.src, m, c)
    <3>1. PICK x, w : /\ Acked(w, v, m.src, m, c) /\ Resent(w, x, v, m.src)
                      /\ Step(s, {m}, w, {build_rpc_ae_string(x, s, m.src)})
      BY <2>4 DEF AckSends
    <3>2. RoleOK(w, s, votes) /\ Follows(w, v)
      BY <1>1, <1>2, <1>3, <2>2, <3>1, ResentFollows DEF Acked
    <3>3. \A n \in {build_rpc_ae_string(x, s, m.src)} : ~Ballot(n)
      BY NoBallot
    <3>4. QED
      BY <1>4, <3>1, <3>2, <3>3
  <2>5. QED
    BY <2>1, <2>3, <2>4
<1>9. CASE AckDenied(s, v, m)
  <2>1. CASE DeniedAtZero(s, v, m.src, m)
    <3>1. PICK w : Dead(w) /\ Step(s, {m}, w, {})
      BY <2>1 DEF DeniedAtZero
    <3>2. QED
      BY <1>4, <3>1, DeadQuiet DEF Dead
  <2>2. CASE DeniedSends(s, v, m.src, m)
    <3>1. PICK x, w : /\ Backed(w, v, m.src) /\ Resent(w, x, v, m.src)
                      /\ Step(s, {m}, w, {build_rpc_ae_string(x, s, m.src)})
      BY <2>2 DEF DeniedSends
    <3>2. RoleOK(w, s, votes) /\ Follows(w, v)
      BY <1>1, <1>2, <1>3, <1>9, <3>1, ResentFollows
         DEF Backed, AckDenied, AckCurrent
    <3>3. \A n \in {build_rpc_ae_string(x, s, m.src)} : ~Ballot(n)
      BY NoBallot
    <3>4. QED
      BY <1>4, <3>1, <3>2, <3>3
  <2>3. QED
    BY <1>9, <2>1, <2>2 DEF AckDenied
<1>10. QED
  BY <1>3, <1>5, <1>6, <1>7, <1>8, <1>9

-----------------------------------------------------------------------------
(* The actions that send or count ballots. *)

\* New RVs of the server s: each has the lsn that comes next.
LEMMA AskStep ==
    ASSUME IInv, IInv', EInv, NEW s \in Server, NEW v, v = server[s], Alive(v),
           NEW w, NEW sent, Step(s, {}, w, sent), votes' = votes,
           RoleOK(w, s, votes), Follows(w, v),
           \A r \in sent :
                /\ r.type = "REQUEST_VOTE" /\ r.src = s /\ r.dst \in Server
                /\ r.lsn \in Nat /\ r.term = w.term
                /\ r.lsn + 1 = w.current_rpc_lsn[r.dst]
                /\ w.retry_timers[r.dst] = "RV"
                /\ \/ w.term > v.term
                   \/ w.term = v.term /\ r.lsn = v.current_rpc_lsn[r.dst],
           \A r, q \in sent : r.dst = q.dst => r = q
    PROVE  EInv'
<1>1. server' = [server EXCEPT ![s] = w] /\ server'[s] = w
  BY DEF Step, IInv, ServersOK
<1>2. \A m \in net' : m \in net \/ m \in sent
  BY DEF Step
<1>3. /\ w \in ServerState /\ v \in ServerState
      /\ w.term \in Nat /\ v.term \in Nat
  <2>1. server'[s] \in ServerState
    BY DEF IInv, ServersOK
  <2>2. v \in ServerState
    BY StateFacts
  <2>3. QED
    BY <1>1, <2>1, <2>2 DEF ServerState
<1>4. ASSUME NEW m \in net', m \in net, Ballot(m), Asker(m) = s
      PROVE  BallotOK(m, w)
  <2>1. BallotOK(m, v) /\ m \in Message
    BY <1>4, BallotServers DEF EInv, BallotsOK
  <2>2. QED
    BY <1>3, <2>1, FollowsBallot
<1>5. ASSUME NEW r \in sent
      PROVE  Asker(r) = s /\ Voter(r) = r.dst /\ BallotOK(r, w) /\ ~Granted(r)
  <2>1. Asker(r) = s /\ Voter(r) = r.dst /\ ~Granted(r)
    BY DEF Asker, Voter, Granted
  <2>2. BallotOK(r, w)
    BY <1>3, <2>1 DEF BallotOK
  <2>3. QED
    BY <2>1, <2>2
<1>6. ASSUME NEW r \in sent, NEW n \in net, Ballot(n), SameBallot(r, n)
      PROVE  FALSE
  <2>1. Asker(n) = s /\ Voter(n) = r.dst /\ n.term = w.term /\ n.lsn = r.lsn
    BY <1>5, <1>6 DEF SameBallot
  <2>2. BallotOK(n, v)
    BY <1>6, <2>1 DEF EInv, BallotsOK
  <2>3. n.term <= v.term
        /\ (n.term = v.term => n.lsn < v.current_rpc_lsn[r.dst])
    BY <2>1, <2>2 DEF BallotOK
  <2>4. v.current_rpc_lsn[r.dst] \in Nat
    BY <1>3 DEF ServerState
  <2>5. QED
    BY <1>3, <2>1, <2>3, <2>4
<1>7. BallotsDiffer'
  <2>1. ASSUME NEW m \in net', NEW n \in net',
               Ballot(m), Ballot(n), SameBallot(m, n)
        PROVE  m = n
    <3>1. SameBallot(n, m)
      BY <2>1 DEF SameBallot
    <3>2. CASE m \in net /\ n \in net
      BY <2>1, <3>2 DEF EInv, BallotsDiffer
    <3>3. CASE m \in sent /\ n \in sent
      BY <1>5, <2>1, <3>3 DEF SameBallot
    <3>4. QED
      BY <1>2, <1>6, <2>1, <3>1, <3>2, <3>3
  <2>2. QED
    BY <2>1 DEF BallotsDiffer
<1>8. \A m \in net' : m \notin net => /\ BallotOK(m, server'[Asker(m)])
                                     /\ ~Granted(m)
  BY <1>1, <1>2, <1>5
<1>9. RoleOK(w, s, votes') /\ votes \subseteq votes'
  OBVIOUS
<1>10. QED
  BY <1>1, <1>4, <1>7, <1>8, <1>9, ElectionStep

\* A new candidate asks everybody.
LEMMA CandidateTimeoutE ==
    ASSUME IInv, IInv', EInv, NEW s \in Server, candidate_timeout(s)
    PROVE  EInv'
<1> DEFINE v == server[s]
<1>1. v \in ServerState /\ v.term \in Nat
  BY StateFacts
<1>2. /\ Alive(v) /\ votes' = votes
      /\ \E x, w :
            /\ Stands(x, v)
            /\ Sends(w, x, next_lsn(x, Peers(s)), Hooked(x, Peers(s), "RV"))
            /\ Step(s, {}, w, {build_rpc_rv_string(x, s, p) : p \in Peers(s)})
  BY CandidateTimeoutIs
<1>3. PICK x, w :
            /\ Stands(x, v)
            /\ Sends(w, x, next_lsn(x, Peers(s)), Hooked(x, Peers(s), "RV"))
            /\ Step(s, {}, w, {build_rpc_rv_string(x, s, p) : p \in Peers(s)})
  BY <1>2
<1> DEFINE sent == {build_rpc_rv_string(x, s, p) : p \in Peers(s)}
<1>4. /\ x \in ServerState /\ x.term = v.term + 1 /\ x.winned_votes = 1
      /\ x.current_rpc_lsn = [p \in Server |-> 0]
      /\ x.state = "candidate" /\ x.candidate_timer = TRUE
  BY <1>3 DEF Stands
<1>5. /\ w.term = x.term /\ w.state = "candidate" /\ w.winned_votes = 1
      /\ w.candidate_timer = TRUE
      /\ w.current_rpc_lsn = next_lsn(x, Peers(s))
      /\ w.retry_timers = Hooked(x, Peers(s), "RV")
  BY <1>3, <1>4 DEF Sends, SameRole, SameVotes
<1>6. \A p \in Peers(s) : /\ w.current_rpc_lsn[p] = 0 + 1
                          /\ w.retry_timers[p] = "RV"
                          /\ x.current_rpc_lsn[p] = 0 /\ p \in Server
  BY <1>4, <1>5, NextLsnGrows DEF Hooked, Peers
<1>7. w.term > v.term
  BY <1>1, <1>4, <1>5
<1>8. ASSUME NEW r \in sent
      PROVE  /\ r.type = "REQUEST_VOTE" /\ r.src = s /\ r.dst \in Server
             /\ r.lsn \in Nat /\ r.term = w.term
             /\ r.lsn + 1 = w.current_rpc_lsn[r.dst]
             /\ w.retry_timers[r.dst] = "RV"
  <2>1. PICK p \in Peers(s) : r = build_rpc_rv_string(x, s, p)
    OBVIOUS
  <2>2. /\ r.type = "REQUEST_VOTE" /\ r.src = s /\ r.dst = p
        /\ r.lsn = x.current_rpc_lsn[p] /\ r.term = x.term
    BY <2>1 DEF build_rpc_rv_string
  <2>3. QED
    BY <1>5, <1>6, <2>2
<1>9. \A r, q \in sent : r.dst = q.dst => r = q
  BY DEF build_rpc_rv_string
<1>10. RoleOK(w, s, votes)
  <2>1. Asked(w, s) = Peers(s)
    BY <1>6 DEF Asked
  <2>2. Cardinality(Peers(s)) + 1 = Cardinality(Server)
    BY PeersCount
  <2>3. Counted(w, s, votes)
    BY <1>5, <2>1, <2>2 DEF Counted
  <2>4. QED
    BY <1>5, <2>3 DEF RoleOK
<1>11. Follows(w, v)
  BY <1>2, <1>7 DEF Follows
<1> HIDE DEF v
<1>12. v = server[s] /\ Step(s, {}, w, sent)
  BY <1>3 DEF v
<1> HIDE DEF sent
<1>13. QED
  BY <1>2, <1>7, <1>8, <1>9, <1>10, <1>11, <1>12, AskStep

\* A candidate asks again; a primary repeats its AE.
LEMMA RetryTimeoutE ==
    ASSUME IInv, IInv', EInv, NEW s \in Server, NEW p \in Peers(s),
           retry_timeout(s, p)
    PROVE  EInv'
<1> DEFINE v == server[s]
<1>1. v \in ServerState /\ RoleOK(v, s, votes) /\ StateOK(v, s) /\ p \in Server
  BY RoleFacts, StateFacts DEF Peers
<1>2. Alive(v) /\ votes' = votes /\ (RetryRv(s, v, p) \/ RetryAe(s, v, p))
  BY RetryTimeoutIs
<1>3. v = server[s]
  OBVIOUS
<1> HIDE DEF v
<1>4. CASE RetryRv(s, v, p)
  <2>1. PICK x, w : /\ v.retry_timers[p] = "RV"
                    /\ AsBefore(x, v) /\ x.current_rpc_lsn = v.current_rpc_lsn
                    /\ AsBefore(w, v) /\ w.current_rpc_lsn = next_lsn(v, {p})
                    /\ w.retry_timers = v.retry_timers
                    /\ Step(s, {}, w, {build_rpc_rv_string(x, s, p)})
    BY <1>4 DEF RetryRv
  <2> DEFINE r == build_rpc_rv_string(x, s, p)
  <2>2. /\ r.type = "REQUEST_VOTE" /\ r.src = s /\ r.dst = p
        /\ r.lsn = x.current_rpc_lsn[p] /\ r.term = x.term
    BY DEF build_rpc_rv_string
  <2>3. Step(s, {}, w, {r})
    BY <2>1
  <2> HIDE DEF r
  <2>4. SameRole(w, v) /\ w.winned_votes = v.winned_votes /\ SameTimers(w, v)
        /\ x.term = v.term
    BY <2>1 DEF AsBefore, SameVotes, SameRole, SameTimers
  <2>5. /\ \A q \in Server : w.current_rpc_lsn[q] >= v.current_rpc_lsn[q]
        /\ w.current_rpc_lsn[p] = v.current_rpc_lsn[p] + 1
        /\ v.current_rpc_lsn[p] \in Nat
    <3>1. w.current_rpc_lsn = next_lsn(v, {p}) /\ v \in ServerState
      BY <1>1, <2>1
    <3>2. \A q \in Server : next_lsn(v, {p})[q] >= v.current_rpc_lsn[q]
      BY <3>1, NextLsnGrows
    <3>3. next_lsn(v, {p})[p] = v.current_rpc_lsn[p] + 1
      BY <1>1, NextLsnGrows
    <3>4. v.current_rpc_lsn[p] \in Nat
      BY <1>1 DEF ServerState
    <3>5. QED
      BY <3>1, <3>2, <3>3, <3>4
  <2>6. Follows(w, v)
    BY <1>2, <2>4, <2>5 DEF Follows, SameRole, SameTimers
  <2>7. RoleOK(w, s, votes)
    <3>1. Asked(w, s) = Asked(v, s)
      BY <2>4 DEF Asked, SameTimers
    <3>2. QED
      BY <1>1, <2>4, <3>1 DEF RoleOK, SameRole, SameTimers, Alive, AllAe,
                              Elected, Counted
  <2>8. /\ r.type = "REQUEST_VOTE" /\ r.src = s /\ r.dst \in Server
        /\ r.lsn \in Nat /\ r.term = w.term
        /\ r.lsn + 1 = w.current_rpc_lsn[r.dst]
        /\ w.retry_timers[r.dst] = "RV"
        /\ w.term = v.term /\ r.lsn = v.current_rpc_lsn[r.dst]
    BY <1>1, <2>1, <2>2, <2>4, <2>5 DEF SameRole
  <2>9. QED
    BY <1>2, <1>3, <2>3, <2>6, <2>7, <2>8, AskStep
<1>5. CASE RetryAe(s, v, p)
  <2>1. PICK x, w : /\ v.retry_timers[p] = "AE"
                    /\ AsBefore(w, v) /\ Resent(w, x, v, p)
                    /\ Step(s, {}, w, {build_rpc_ae_string(x, s, p)})
    BY <1>5 DEF RetryAe
  <2>2. v.state = "primary"
    BY <1>1, <2>1 DEF StateOK, TimersOK
  <2>3. RoleOK(w, s, votes) /\ Follows(w, v)
    BY <1>1, <1>2, <2>1, <2>2, ResentFollows DEF AsBefore
  <2>4. \A n \in {build_rpc_ae_string(x, s, p)} : ~Ballot(n)
    BY NoBallot
  <2>5. QED
    BY <1>2, <1>3, <2>1, <2>3, <2>4, QuietStep
<1>6. QED
  BY <1>2, <1>4, <1>5

\* A granted vote takes the place of the RV that asked for it.
LEMMA GrantStep ==
    ASSUME IInv, IInv', EInv, NEW m \in net, m.type = "REQUEST_VOTE",
           NEW s, s = m.dst, NEW w, NEW r,
           Step(s, {m}, w, {r}), RoleOK(w, s, votes), Follows(w, server[s]),
           r.type = "RESP_VOTE", r.ok, r.src = s, r.dst = m.src,
           r.term = m.term, r.lsn = m.lsn, r.rpc_term = m.term,
           votes' = votes \cup {VoteOf(s, m.term, m.src)}
    PROVE  EInv'
<1>1. /\ s \in Server /\ m.src \in Server /\ m.src # s /\ m \in Message
  BY MsgFacts DEF Peers
<1>2. /\ server' = [server EXCEPT ![s] = w] /\ server'[s] = w
      /\ server'[m.src] = server[m.src]
  BY <1>1 DEF Step, IInv, ServersOK
<1>3. \A n \in net' : n = r \/ (n \in net /\ n # m)
  BY DEF Step
<1>4. w \in ServerState /\ server[s] \in ServerState
  <2>1. server'[s] \in ServerState
    BY <1>1 DEF IInv, ServersOK
  <2>2. QED
    BY <1>1, <1>2, <2>1, StateFacts
<1>5. Ballot(m) /\ Asker(m) = m.src /\ Voter(m) = s
  BY DEF Ballot, Asker, Voter
<1>6. Ballot(r) /\ Granted(r) /\ Asker(r) = m.src /\ Voter(r) = s
  BY DEF Ballot, Granted, Asker, Voter
<1>7. BallotOK(r, server'[Asker(r)])
  <2>1. BallotOK(m, server[m.src])
    BY <1>5 DEF EInv, BallotsOK
  <2>2. QED
    BY <1>2, <1>5, <1>6, <2>1 DEF BallotOK
<1>8. ASSUME NEW n \in net', n \in net, Ballot(n), Asker(n) = s
      PROVE  BallotOK(n, w)
  <2>1. BallotOK(n, server[s]) /\ n \in Message
    BY <1>8, BallotServers DEF EInv, BallotsOK
  <2>2. QED
    BY <1>4, <2>1, FollowsBallot
<1>9. BallotsDiffer'
  <2>1. ASSUME NEW n \in net', NEW k \in net',
               Ballot(n), Ballot(k), SameBallot(n, k)
        PROVE  n = k
    <3>1. CASE n = r /\ k # r
      <4>1. k \in net /\ k # m
        BY <1>3, <3>1
      <4>2. SameBallot(m, k)
        BY <1>5, <1>6, <2>1, <3>1 DEF SameBallot
      <4>3. QED
        BY <1>5, <2>1, <4>1, <4>2 DEF EInv, BallotsDiffer
    <3>2. CASE k = r /\ n # r
      <4>1. n \in net /\ n # m
        BY <1>3, <3>2
      <4>2. SameBallot(m, n)
        BY <1>5, <1>6, <2>1, <3>2 DEF SameBallot
      <4>3. QED
        BY <1>5, <2>1, <4>1, <4>2 DEF EInv, BallotsDiffer
    <3>3. CASE n # r /\ k # r
      BY <1>3, <2>1, <3>3 DEF EInv, BallotsDiffer
    <3>4. QED
      BY <3>1, <3>2, <3>3
  <2>2. QED
    BY <2>1 DEF BallotsDiffer
<1>10. votes \subseteq votes' /\ VoteOf(r.src, r.term, r.dst) \in votes'
  OBVIOUS
<1>11. RoleOK(w, s, votes')
  BY <1>1, <1>10, RoleMonotone
<1>12. \A n \in net' : n \notin net => n = r
  BY <1>3
<1>13. QED
  BY <1>1, <1>2, <1>7, <1>8, <1>9, <1>10, <1>11, <1>12, ElectionStep

\* react2rv, by its four outcomes.
LEMMA ReactRvE ==
    ASSUME IInv, IInv', EInv, NEW m \in net, react2rv(m)
    PROVE  EInv'
<1> DEFINE s == m.dst
           v == server[s]
<1>1. s \in Server /\ m.term \in Nat /\ m.src \in Server
  BY MsgFacts
<1>2. v \in ServerState /\ RoleOK(v, s, votes) /\ v.term \in Nat
  BY <1>1, RoleFacts, StateFacts
<1>3. /\ m.type = "REQUEST_VOTE" /\ Alive(v)
      /\ \/ RvOutdated(s, v, m) \/ RvIgnored(s, v, m)
         \/ RvDenied(s, v, m) \/ RvGranted(s, v, m)
  BY ReactRvIs
<1>4. ASSUME NEW w, NEW sent, Step(s, {m}, w, sent), \A n \in sent : ~Ballot(n),
             votes' = votes, RoleOK(w, s, votes), Follows(w, v)
      PROVE  EInv'
  BY <1>1, <1>4, QuietStep
<1>5. s = m.dst /\ v = server[s]
  OBVIOUS
<1> HIDE DEF s, v
<1>6. SameRole(v, v) /\ SameTimers(v, v)
  BY DEF SameRole, SameTimers
<1>7. RoleOK(v, s, votes) /\ Follows(v, v)
  BY <1>1, <1>2, <1>6, SameQuiet
<1>8. ASSUME NEW f, Caught(f, v, m)
      PROVE  RoleOK(f, s, votes) /\ Follows(f, v) /\ f.term = m.term
  <2>1. CASE v.term = m.term /\ f = v
    BY <1>7, <2>1
  <2>2. CASE v.term < m.term /\ Down(f, v, m.term)
    <3>1. v.term <= m.term
      BY <1>1, <1>2, <2>2
    <3>2. RoleOK(f, s, votes) /\ Follows(f, v)
      BY <1>1, <1>2, <1>3, <2>2, <3>1, DownFollows
    <3>3. QED
      BY <2>2, <3>2 DEF Down
  <2>3. QED
    BY <1>8, <2>1, <2>2 DEF Caught
<1>9. ASSUME NEW f \in ServerState, Caught(f, v, m), NEW g,
             SameRole(g, f), g.winned_votes = f.winned_votes,
             g.current_rpc_lsn = f.current_rpc_lsn, SameTimers(g, f)
      PROVE  RoleOK(g, s, votes) /\ Follows(g, v) /\ g.term = m.term
  <2>1. RoleOK(f, s, votes) /\ Follows(f, v) /\ f.term = m.term
    BY <1>8, <1>9
  <2>2. RoleOK(g, s, votes)
    BY <1>1, <1>9, <2>1, SameQuiet
  <2>3. Follows(g, v)
    BY <1>9, <2>1 DEF Follows, SameRole, SameTimers, Alive
  <2>4. QED
    BY <1>9, <2>1, <2>2, <2>3 DEF SameRole
<1>10. CASE RvOutdated(s, v, m)
  <2> DEFINE sent == {make_resp_rv(v, m, FALSE)}
  <2>1. (\A n \in sent : ~Ballot(n)) /\ Step(s, {m}, v, sent) /\ votes' = votes
    BY <1>10, NoBallot DEF RvOutdated
  <2> HIDE DEF sent
  <2>2. QED
    BY <1>4, <1>7, <2>1
<1>11. CASE RvIgnored(s, v, m)
  <2>1. PICK f : Caught(f, v, m) /\ Step(s, {m}, f, {}) /\ votes' = votes
    BY <1>11 DEF RvIgnored
  <2>2. QED
    BY <1>4, <1>8, <2>1
<1>12. CASE RvDenied(s, v, m)
  <2>1. PICK f, g : /\ Caught(f, v, m) /\ f \in ServerState /\ Noted(g, f, m)
                    /\ Step(s, {m}, g, {make_resp_rv(g, m, FALSE)})
                    /\ votes' = votes
    BY <1>12 DEF RvDenied
  <2> DEFINE sent == {make_resp_rv(g, m, FALSE)}
  <2>2. (\A n \in sent : ~Ballot(n)) /\ Step(s, {m}, g, sent)
    BY <2>1, NoBallot
  <2> HIDE DEF sent
  <2>3. RoleOK(g, s, votes) /\ Follows(g, v)
    BY <1>9, <2>1 DEF Noted, SameVotes
  <2>4. QED
    BY <1>4, <2>1, <2>2, <2>3
<1>13. CASE RvGranted(s, v, m)
  <2>1. PICK f, g, w :
            /\ Caught(f, v, m) /\ f \in ServerState /\ Noted(g, f, m)
            /\ Voted(w, g)
            /\ Step(s, {m}, w, {make_resp_rv(g, m, TRUE)})
            /\ votes' = votes \cup
                   {[voter |-> s, term |-> g.term, candidate |-> m.src]}
    BY <1>13 DEF RvGranted
  <2> DEFINE r == make_resp_rv(g, m, TRUE)
  <2>2. RoleOK(w, s, votes) /\ Follows(w, v) /\ w.term = m.term
    <3>1. /\ SameRole(w, f) /\ w.winned_votes = f.winned_votes
          /\ w.current_rpc_lsn = f.current_rpc_lsn /\ SameTimers(w, f)
      BY <2>1 DEF Noted, Voted, SameRole, SameVotes, SameLsns, SameTimers
    <3>2. QED
      BY <1>9, <2>1, <3>1
  <2>3. g.term = m.term
    BY <2>1, <2>2 DEF Voted, SameRole
  <2>4. /\ r.type = "RESP_VOTE" /\ r.ok /\ r.src = s /\ r.dst = m.src
        /\ r.term = m.term /\ r.lsn = m.lsn /\ r.rpc_term = m.term
    BY <1>5, <2>3 DEF make_resp_rv
  <2>5. Step(s, {m}, w, {r}) /\ votes' = votes \cup {VoteOf(s, m.term, m.src)}
    BY <2>1, <2>3 DEF VoteOf
  <2> HIDE DEF r
  <2>6. QED
    BY <1>3, <1>5, <2>2, <2>4, <2>5, GrantStep
<1>14. QED
  BY <1>3, <1>10, <1>11, <1>12, <1>13

\* A vote that counts: its sender was still being asked.
LEMMA CountedStep ==
    ASSUME IInv, EInv, NEW m \in net, NEW s, s = m.dst, NEW v, v = server[s],
           m.type = "RESP_VOTE", Alive(v), vote_counts(v, m)
    PROVE  /\ v.state = "candidate" /\ Counted(v, s, votes)
           /\ m.src \in Asked(v, s) /\ Granted(m)
           /\ VoteOf(m.src, v.term, s) \in votes
<1>1. s \in Server /\ m.src \in Peers(s) /\ m.lsn \in Nat
  BY MsgFacts
<1>2. v.state = "candidate" /\ m.term = v.term /\ m.ok
      /\ v.current_rpc_lsn[m.src] = m.lsn + 1
  BY DEF vote_counts
<1>3. Granted(m) /\ Ballot(m) /\ Asker(m) = s /\ Voter(m) = m.src
  BY <1>2 DEF Granted, Ballot, Asker, Voter
<1>4. BallotOK(m, v)
  BY <1>3 DEF EInv, BallotsOK
<1>5. v.retry_timers[m.src] = "RV"
  BY <1>1, <1>2, <1>3, <1>4 DEF BallotOK
<1>6. VoteOf(m.src, v.term, s) \in votes
  BY <1>2, <1>3 DEF EInv, VotesKept
<1>7. Counted(v, s, votes)
  BY <1>1, <1>2 DEF EInv, RolesOK, RoleOK
<1>8. QED
  BY <1>1, <1>2, <1>3, <1>5, <1>6, <1>7 DEF Asked

\* The votes of a majority are won: the voters are a majority.
LEMMA MajorityWon ==
    ASSUME NEW s \in Server, NEW v \in ServerState, NEW b, Counted(v, s, b),
           NEW q \in Asked(v, s), VoteOf(q, v.term, s) \in b,
           v.winned_votes + 1 >= majority
    PROVE  Elected(v, s, b)
<1> DEFINE A == Asked(v, s) \ {q}
           V == Voters(s, v.term, b) \cup {s}
<1>1. /\ Asked(v, s) \in SUBSET Server /\ A \in SUBSET Peers(s)
      /\ A \in SUBSET Server /\ V \in SUBSET Server
  BY DEF Asked, Voters, Peers
<1>2. Server \ A \subseteq V
  BY DEF Counted, Voters, Peers
<1>3. Cardinality(Server \ A) <= Cardinality(V)
  BY <1>1, <1>2, CountMonotone
<1>4. Cardinality(Server \ A) = Cardinality(Server) - Cardinality(A)
  BY <1>1, PeersCount
<1>5. Cardinality(A) = Cardinality(Asked(v, s)) - 1
  <2>1. IsFiniteSet(Asked(v, s))
    BY <1>1, ServerSets
  <2>2. QED
    BY <2>1, FS_RemoveElement
<1>6. /\ Cardinality(Asked(v, s)) \in Nat /\ Cardinality(Server) \in Nat
      /\ Cardinality(V) \in Nat /\ v.winned_votes \in Nat
  BY <1>1, ServerSets DEF ServerState
<1>7. Cardinality(Asked(v, s)) + v.winned_votes = Cardinality(Server)
  BY DEF Counted
<1> HIDE DEF A, V
<1>8. v.winned_votes + 1 <= Cardinality(V)
  BY <1>3, <1>4, <1>5, <1>6, <1>7
<1>9. v.winned_votes + 1 >= Cardinality(Server) \div 2 + 1
  BY DEF majority
<1>10. 2 * (Cardinality(Server) \div 2 + 1) > Cardinality(Server)
  BY <1>6
<1>11. Cardinality(Server) \div 2 + 1 \in Nat
  BY <1>6
<1>12. 2 * Cardinality(V) > Cardinality(Server)
  BY <1>6, <1>8, <1>9, <1>10, <1>11
<1>13. QED
  BY <1>12 DEF Elected, V

\* react2resp_rv, by its outcomes.
LEMMA ReactRespRvE ==
    ASSUME IInv, IInv', EInv, NEW m \in net, react2resp_rv(m)
    PROVE  EInv'
<1> DEFINE s == m.dst
           v == server[s]
<1>1. /\ s \in Server /\ m.term \in Nat /\ m.src \in Server
      /\ m.src \in Peers(s)
  BY MsgFacts
<1>2. v \in ServerState /\ RoleOK(v, s, votes) /\ v.term \in Nat
  BY <1>1, RoleFacts, StateFacts
<1>3. /\ m.type = "RESP_VOTE" /\ Alive(v) /\ votes' = votes
      /\ \/ VoteLater(s, v, m) \/ VoteIgnored(s, v, m)
         \/ VoteWins(s, v, m) \/ VoteCounts(s, v, m)
  BY ReactRespRvIs
<1>4. ASSUME NEW w, NEW sent, Step(s, {m}, w, sent), \A n \in sent : ~Ballot(n),
             RoleOK(w, s, votes), Follows(w, v)
      PROVE  EInv'
  BY <1>1, <1>3, <1>4, QuietStep
<1>5. s = m.dst /\ v = server[s]
  OBVIOUS
<1> HIDE DEF s, v
<1>6. CASE VoteLater(s, v, m)
  <2>1. PICK f : /\ v.term < m.term /\ Down(f, v, m.term)
                 /\ Step(s, {m}, f, {})
    BY <1>6 DEF VoteLater
  <2>2. v.term <= m.term
    BY <1>1, <1>2, <2>1
  <2>3. RoleOK(f, s, votes) /\ Follows(f, v)
    BY <1>1, <1>2, <1>3, <2>1, <2>2, DownFollows
  <2>4. QED
    BY <1>4, <2>1, <2>3
<1>7. CASE VoteIgnored(s, v, m)
  <2>1. SameRole(v, v) /\ SameTimers(v, v)
    BY DEF SameRole, SameTimers
  <2>2. RoleOK(v, s, votes) /\ Follows(v, v)
    BY <1>1, <1>2, <2>1, SameQuiet
  <2>3. QED
    BY <1>4, <1>7, <2>2 DEF VoteIgnored
<1>8. CASE VoteWins(s, v, m)
  <2>1. PICK x, w :
            /\ vote_counts(v, m) /\ v.winned_votes + 1 >= majority
            /\ Rises(x, v, s)
            /\ Sends(w, x, next_lsn(x, Peers(s)), Hooked(x, Peers(s), "AE"))
            /\ Step(s, {m}, w, {build_rpc_ae_string(x, s, q) : q \in Peers(s)})
    BY <1>8 DEF VoteWins
  <2> DEFINE sent == {build_rpc_ae_string(x, s, q) : q \in Peers(s)}
  <2>2. Elected(v, s, votes)
    BY <1>1, <1>2, <1>3, <1>5, <2>1, CountedStep, MajorityWon
  <2>3. /\ x \in ServerState /\ w.term = v.term /\ w.state = "primary"
        /\ x.current_rpc_lsn = v.current_rpc_lsn
    BY <2>1 DEF Rises, Sends, SameRole, SameLsns
  <2>4. AllAe(w, s)
    BY <2>1 DEF AllAe, Sends, Hooked, Peers
  <2>5. RoleOK(w, s, votes)
    BY <2>2, <2>3, <2>4 DEF RoleOK, Elected
  <2>6. \A p \in Server : w.current_rpc_lsn[p] >= v.current_rpc_lsn[p]
    <3>1. w.current_rpc_lsn = next_lsn(x, Peers(s))
      BY <2>1 DEF Sends
    <3>2. \A p \in Server : next_lsn(x, Peers(s))[p] >= x.current_rpc_lsn[p]
      BY <2>3, NextLsnGrows
    <3>3. QED
      BY <2>3, <3>1, <3>2
  <2>7. Follows(w, v)
    BY <1>3, <2>3, <2>6 DEF Follows
  <2>8. (\A n \in sent : ~Ballot(n)) /\ Step(s, {m}, w, sent)
    BY <2>1, NoBallot
  <2> HIDE DEF sent
  <2>9. QED
    BY <1>4, <2>5, <2>7, <2>8
<1>9. CASE VoteCounts(s, v, m)
  <2>1. PICK w : /\ vote_counts(v, m) /\ Gains(w, v, m.src)
                 /\ Step(s, {m}, w, {})
    BY <1>9 DEF VoteCounts
  <2>2. /\ v.state = "candidate" /\ Counted(v, s, votes)
        /\ m.src \in Asked(v, s) /\ Granted(m)
        /\ VoteOf(m.src, v.term, s) \in votes
    BY <1>3, <1>5, <2>1, CountedStep
  <2>3. /\ SameRole(w, v) /\ w.candidate_timer = v.candidate_timer
        /\ w.winned_votes = v.winned_votes + 1
        /\ w.retry_timers = [v.retry_timers EXCEPT ![m.src] = "none"]
        /\ w.current_rpc_lsn = v.current_rpc_lsn
    BY <2>1 DEF Gains, SameLsns
  <2>4. v.retry_timers \in [Server -> {"none", "RV", "AE"}]
    BY <1>2 DEF ServerState
  <2>5. Asked(w, s) = Asked(v, s) \ {m.src}
    BY <1>1, <2>3, <2>4 DEF Asked, Peers
  <2>6. Counted(w, s, votes)
    <3>1. Asked(v, s) \in SUBSET Server
      BY DEF Asked, Peers
    <3>2. IsFiniteSet(Asked(v, s)) /\ Cardinality(Asked(v, s)) \in Nat
          /\ Cardinality(Server) \in Nat /\ v.winned_votes \in Nat
      BY <1>2, <3>1, ServerSets DEF ServerState
    <3>3. Cardinality(Asked(w, s)) = Cardinality(Asked(v, s)) - 1
      BY <2>2, <2>5, <3>2, FS_RemoveElement
    <3>4. Cardinality(Asked(w, s)) + w.winned_votes = Cardinality(Server)
      BY <2>2, <2>3, <3>2, <3>3 DEF Counted
    <3>5. \A p \in Peers(s) \ Asked(w, s) : VoteOf(p, w.term, s) \in votes
      BY <2>2, <2>3, <2>5 DEF Counted, SameRole
    <3>6. QED
      BY <3>4, <3>5 DEF Counted
  <2>7. RoleOK(w, s, votes)
    BY <1>2, <2>2, <2>3, <2>6 DEF RoleOK, SameRole, Alive
  <2>8. server' = [server EXCEPT ![s] = w] /\ \A n \in net' : n \in net /\ n # m
    BY <2>1 DEF Step
  <2>9. ASSUME NEW n \in net', n \in net, Ballot(n), Asker(n) = s
        PROVE  BallotOK(n, w)
    <3>1. BallotOK(n, v) /\ n # m
      BY <1>5, <2>8, <2>9 DEF EInv, BallotsOK
    <3>2. Ballot(m) /\ Asker(m) = s /\ Voter(m) = m.src
      BY <1>3, <1>5, <2>2 DEF Ballot, Asker, Voter
    <3>3. ~SameBallot(n, m)
      BY <2>9, <3>1, <3>2 DEF EInv, BallotsDiffer
    <3>4. Voter(n) \in Server /\ n.lsn \in Nat /\ m.lsn \in Nat
      BY <2>9, BallotServers, MsgFacts
    <3>5. m.term = v.term /\ v.current_rpc_lsn[m.src] = m.lsn + 1
      BY <2>1 DEF vote_counts
    <3>6. ~(Voter(n) = m.src /\ n.term = v.term
            /\ n.lsn + 1 = v.current_rpc_lsn[m.src])
      BY <2>9, <3>2, <3>3, <3>4, <3>5 DEF SameBallot
    <3>7. Voter(n) # m.src => w.retry_timers[Voter(n)] = v.retry_timers[Voter(n)]
      BY <2>3, <2>4, <3>4
    <3>8. QED
      BY <2>3, <3>1, <3>6, <3>7 DEF BallotOK, SameRole, Alive
  <2>10. BallotsDiffer'
    BY <2>8 DEF EInv, BallotsDiffer
  <2>11. RoleOK(w, s, votes') /\ votes \subseteq votes'
    BY <1>3, <2>7
  <2>12. QED
    BY <1>1, <2>8, <2>9, <2>10, <2>11, ElectionStep
<1>10. QED
  BY <1>3, <1>6, <1>7, <1>8, <1>9

\* A lost ballot is just gone.
LEMMA LoseE ==
    ASSUME IInv, EInv, NEW m \in net, Lose(m)
    PROVE  EInv'
BY DEF Lose, EInv, RolesOK, BallotsOK, VotesKept, BallotsDiffer

\* At the start nobody stands and nothing is in flight.
LEMMA InitE == Init => EInv
<1> SUFFICES ASSUME Init PROVE EInv
  OBVIOUS
<1>1. ASSUME NEW s \in Server PROVE RoleOK(server[s], s, votes)
  BY DEF Init, Boot, RoleOK
<1>2. net = {}
  BY DEF Init
<1>3. QED
  BY <1>1, <1>2 DEF EInv, RolesOK, BallotsOK, VotesKept, BallotsDiffer

\* Every step of servers that stay up keeps EInv.
LEMMA NextE ==
    ASSUME RestartServers = {}, IInv, IInv', EInv, [Next]_vars PROVE EInv'
<1>1. ASSUME NEW s \in Candidates, candidate_timeout(s) PROVE EInv'
  BY <1>1, ConfigAssumption, CandidateTimeoutE
<1>2. ASSUME NEW s \in Server, NEW p \in Peers(s), retry_timeout(s, p)
      PROVE  EInv'
  BY <1>2, RetryTimeoutE
<1>3. ASSUME NEW s \in ClientServers, NEW c \in Command,
             append_client_apply_to_entries(s, c)
      PROVE  EInv'
  BY <1>3, ConfigAssumption, ClientApplyE
<1>4. ASSUME NEW m \in net, react2rv(m) PROVE EInv'
  BY <1>4, ReactRvE
<1>5. ASSUME NEW m \in net, react2resp_rv(m) PROVE EInv'
  BY <1>5, ReactRespRvE
<1>6. ASSUME NEW m \in net, react2ae(m) PROVE EInv'
  BY <1>6, ReactAeE
<1>7. ASSUME NEW m \in net, react2resp_ae(m) PROVE EInv'
  BY <1>7, ReactRespAeE
<1>8. ASSUME NEW m \in net, Lose(m) PROVE EInv'
  BY <1>8, LoseE
<1>9. CASE UNCHANGED vars
  BY <1>9 DEF vars, EInv, RolesOK, BallotsOK, VotesKept, BallotsDiffer
<1>10. QED
  BY <1>1, <1>2, <1>3, <1>4, <1>5, <1>6, <1>7, <1>8, <1>9 DEF Next

-----------------------------------------------------------------------------
(* The results. *)

\* The invariant is kept as long as no server is restarted.
LEMMA ElectionInvariance ==
    ASSUME RestartServers = {} PROVE Spec => [](IInv /\ EInv)
<1>1. IInv /\ IInv' /\ EInv /\ [Next]_vars => EInv'
  BY NextE
<1>2. QED
  BY <1>1, InitE, Invariance, PTL DEF Spec

\* A primary was elected: a majority of a cluster of any size voted for it in
\* its term, each vote counted once however often RVs are lost, repeated and
\* overtaken (candidate_deal_resp_rv_with_same_term).
THEOREM Elections ==
    ASSUME RestartServers = {} PROVE Spec => []ElectedByMajority
<1>1. IInv /\ EInv => ElectedByMajority
  <2> SUFFICES ASSUME IInv, EInv PROVE ElectedByMajority
    OBVIOUS
  <2>1. ASSUME NEW s \in Server, Alive(server[s])
        PROVE  LET v == server[s]
                   voters == {p \in Server : \E b \in votes :
                        b.voter = p /\ b.candidate = s /\ b.term = v.term}
               IN  /\ v.state = "candidate" =>
                        v.winned_votes <= Cardinality(voters \cup {s})
                   /\ v.state = "primary" =>
                        2 * Cardinality(voters \cup {s}) > Cardinality(Server)
    <3> DEFINE v == server[s]
               voters == {p \in Server : \E b \in votes :
                        b.voter = p /\ b.candidate = s /\ b.term = v.term}
    <3>1. v \in ServerState /\ RoleOK(v, s, votes)
      BY RoleFacts
    <3>2. votes \in SUBSET Vote
      BY DEF IInv, HistoryOK
    <3>3. voters = Voters(s, v.term, votes)
      BY <3>2 DEF Voters, VoteOf, Vote
    <3> HIDE DEF v, voters
    <3>4. v.state = "candidate" => v.winned_votes <= Cardinality(voters \cup {s})
      BY <2>1, <3>1, <3>3, CountedVotes DEF RoleOK, v
    <3>5. v.state = "primary" => 2 * Cardinality(voters \cup {s}) > Cardinality(Server)
      BY <2>1, <3>1, <3>3 DEF RoleOK, Elected, v
    <3>6. QED
      BY <3>4, <3>5 DEF v, voters
  <2>2. QED
    BY <2>1 DEF ElectedByMajority
<1>2. QED
  BY <1>1, ElectionInvariance, PTL

\* In a cluster of any size a primary has its AE timers running, everyone else
\* the candidate timer, and a candidate the RV timers of just the peers whose
\* votes it has not counted (trans2F, trans2C, trans2P, RV, AE).
THEOREM NobodyWaitsInVain ==
    ASSUME RestartServers = {} PROVE Spec => []TimersArmed
<1>1. EInv => TimersArmed
  BY DEF EInv, RolesOK, RoleOK, TimersArmed, AllAe, Counted, Asked
<1>2. QED
  BY <1>1, ElectionInvariance, PTL

=============================================================================
