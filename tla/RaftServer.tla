----------------------------- MODULE RaftServer -----------------------------
(***************************************************************************)
(* A cluster of RaftServer processes (RaftServer.cpp): election, log       *)
(* replication, commitment and the hand-over of committed entries to the   *)
(* state machine controller.  Each process runs all its handlers on one io *)
(* thread, so a handler (a timer callback, reactToIncomingMsg, a client    *)
(* request) is one atomic step.  The members of the C++ object are the     *)
(* fields of the record server[s], without their trailing underscore.      *)
(*                                                                         *)
(* throw_line escapes ioContext.run() and ends the process: a failed       *)
(* assertion leaves the server down, with its reason in the field thrown   *)
(* and only the entries (which are on disk) kept.                          *)
(*                                                                         *)
(* The handler of a timer runs in the step in which the timer expires, so  *)
(* that a timer that is cancelled is cancelled.  The handlers that were    *)
(* queued before the cancellation are the subject of ServerTimers.         *)
(*                                                                         *)
(* Indexes are the code's (from 0); entry i is entries[i + 1].             *)
(***************************************************************************)
EXTENDS Integers, FiniteSets, Sequences

CONSTANTS
    Server,         \* configuration_: the addresses in the config file
    Command,        \* encoded client commands, opaque to the servers
    Candidates,     \* servers whose candidate timer may run out
    ClientServers,  \* servers that some client was started with as its server
    RestartServers, \* servers that may be killed and started again
    MaxTerm,        \* bound: no candidate timer runs out in term MaxTerm
    MaxLsn,         \* bound: RPCs per peer and term sent by retry timers
    MaxEntries,     \* bound: clients add to logs shorter than this
    MaxInFlight,    \* bound: timers run out while fewer messages are in flight
    MaxRestarts     \* bound: process restarts in a behaviour

ASSUME ConfigAssumption ==
    /\ IsFiniteSet(Server)
    /\ Candidates \subseteq Server
    /\ ClientServers \subseteq Server
    /\ RestartServers \subseteq Server

ASSUME BoundAssumption ==
    /\ MaxTerm \in Nat
    /\ MaxLsn \in Nat
    /\ MaxEntries \in Nat
    /\ MaxInFlight \in Nat
    /\ MaxRestarts \in Nat

VARIABLES
    server,     \* the RaftServer object of each process
    net,        \* messages written to sockets and not yet handled
    votes,      \* history: the votes granted so far
    restarts    \* number of restarts so far

vars == <<server, net, votes, restarts>>

majority == Cardinality(Server) \div 2 + 1

-----------------------------------------------------------------------------
(* Data types. *)

Entry == [term : Nat, index : Nat, msg : Command]

RvMsg == [type : {"REQUEST_VOTE"}, src : Server, dst : Server, term : Nat,
          lsn : Nat, latest_index : Int]

AeMsg == [type : {"APPEND_ENTRY"}, src : Server, dst : Server, term : Nat,
          lsn : Nat, prelog_index : Int, prelog_term : Int,
          commit_index : Int, entry : Seq(Entry)]

\* rpc_term is history: the term of the RPC that is answered, which the
\* implementation's responses do not carry.
RespRvMsg == [type : {"RESP_VOTE"}, src : Server, dst : Server, term : Nat,
              lsn : Nat, ok : BOOLEAN, rpc_term : Nat]

RespAeMsg == [type : {"RESP_APPEND"}, src : Server, dst : Server, term : Nat,
              lsn : Nat, ok : BOOLEAN, is_empty_ae : BOOLEAN, rpc_term : Nat]

Message == RvMsg \cup AeMsg \cup RespRvMsg \cup RespAeMsg

\* The assertions (throw_line) that end a process.
Thrown == {"none", "term decreases", "candidate timer hooked",
           "ae timer hooked", "two primaries", "prelog term", "empty ae commit",
           "entry index", "insert index", "commit decreases",
           "resp_ae to non-primary", "last_send_index", "index 0 denied"}

ServerState ==
    [thrown : Thrown,
     term : Nat,
     state : {"follower", "candidate", "primary"},
     already_voted : BOOLEAN,
     winned_votes : Nat,
     current_rpc_lsn : [Server -> Nat],
     follower_rpc_lsn : [Server -> Int],
     candidate_timer : BOOLEAN,
     retry_timers : [Server -> {"none", "RV", "AE"}],
     entries : Seq(Entry),
     commit_index : Int,
     nextIndex : [Server -> Int],
     Follower_saved_index : [Server -> Int],
     applied : Seq(Entry)]

Vote == [voter : Server, term : Nat, candidate : Server]

-----------------------------------------------------------------------------
(* Life and death of a process. *)

\* RaftServer::RaftServer and run(): nothing but the entries is read from
\* disk, and the candidate timer is started.
Boot(entries) ==
    [thrown |-> "none",
     term |-> 0,
     state |-> "follower",
     already_voted |-> FALSE,
     winned_votes |-> 0,
     current_rpc_lsn |-> [p \in Server |-> 0],
     follower_rpc_lsn |-> [p \in Server |-> -1],
     candidate_timer |-> TRUE,
     retry_timers |-> [p \in Server |-> "none"],
     entries |-> entries,
     commit_index |-> -1,
     nextIndex |-> [p \in Server |-> 0],
     Follower_saved_index |-> [p \in Server |-> -1],
     applied |-> << >>]

\* throw_line: the memory of the process is gone, its files remain.
throw_line(v, what) ==
    [Boot(v.entries) EXCEPT !.thrown = what, !.candidate_timer = FALSE]

Alive(v) == v.thrown = "none"

-----------------------------------------------------------------------------
(* Terms, roles and timers. *)

\* Every pending wait is cancelled and its handler does nothing.
cancel_all_timers(v) ==
    [v EXCEPT !.candidate_timer = FALSE,
              !.retry_timers = [p \in Server |-> "none"]]

\* candidate_timer_.expires_from_now followed by async_wait.
hook_candidate_timer(v) ==
    IF v.candidate_timer THEN throw_line(v, "candidate timer hooked")
    ELSE [v EXCEPT !.candidate_timer = TRUE]

\* Slip: reset_both_rpc_lsn resets both to -1.
update_term_lsn(v, t) ==
    IF t < v.term THEN throw_line(v, "term decreases")
    ELSE IF t = v.term THEN v
    ELSE [v EXCEPT !.term = t,
                   !.current_rpc_lsn = [p \in Server |-> -1],
                   !.follower_rpc_lsn = [p \in Server |-> -1]]

\* The lsns restart from zero (from -1 for the RPCs received) in a new term.
update_term(v, t) ==
    IF t < v.term THEN throw_line(v, "term decreases")
    ELSE IF t = v.term THEN v
    ELSE [v EXCEPT !.term = t,
                   !.current_rpc_lsn = [p \in Server |-> 0],
                   !.follower_rpc_lsn = [p \in Server |-> -1]]

\* Slip: the candidate timer is not set again within a term.
trans2F_same_term(v, t) ==
    LET w == update_term([cancel_all_timers(v) EXCEPT !.winned_votes = 0], t)
        f == [w EXCEPT !.already_voted = FALSE, !.state = "follower"]
    IN  IF Alive(w) /\ t > v.term THEN hook_candidate_timer(f) ELSE f

trans2F(v, t) ==
    LET w == update_term([cancel_all_timers(v) EXCEPT !.winned_votes = 0], t)
    IN  IF ~Alive(w) THEN w
        ELSE hook_candidate_timer([w EXCEPT !.already_voted = FALSE,
                                            !.state = "follower"])

\* Note that already_voted is left as it was.
trans2C(v) ==
    LET w == update_term(cancel_all_timers(v), v.term + 1)
    IN  hook_candidate_timer([w EXCEPT !.state = "candidate",
                                       !.winned_votes = 1])

\* Slip: the retry timers of the election are left running.
trans2P_no_cancel(v, s) ==
    LET size == Len(v.entries)
    IN  [v EXCEPT
            !.state = "primary",
            !.nextIndex = [p \in Server |-> size],
            !.Follower_saved_index =
                [p \in Server |-> IF p = s THEN size - 1 ELSE -1]]

\* Slip: the primary's own saved index is its log size.
trans2P_size(v, s) ==
    LET size == Len(v.entries)
    IN  [cancel_all_timers(v) EXCEPT
            !.state = "primary",
            !.nextIndex = [p \in Server |-> size],
            !.Follower_saved_index =
                [p \in Server |-> IF p = s THEN size ELSE -1]]

trans2P(v, s) ==
    LET size == Len(v.entries)
    IN  [cancel_all_timers(v) EXCEPT
            !.state = "primary",
            !.nextIndex = [p \in Server |-> size],
            !.Follower_saved_index =
                [p \in Server |-> IF p = s THEN size - 1 ELSE -1]]

-----------------------------------------------------------------------------
(* RPCs sent.  RV and AE send to every peer of a set and hook its timer. *)

build_rpc_rv_string(v, s, p) ==
    [type |-> "REQUEST_VOTE", src |-> s, dst |-> p, term |-> v.term,
     lsn |-> v.current_rpc_lsn[p], latest_index |-> Len(v.entries) - 1]

\* Slip: the entry before nextIndex is sent, if there is one.
build_rpc_ae_string_prelog(v, s, p) ==
    LET i == v.nextIndex[p]
    IN  [type |-> "APPEND_ENTRY", src |-> s, dst |-> p, term |-> v.term,
         lsn |-> v.current_rpc_lsn[p],
         prelog_index |-> i - 1,
         prelog_term |-> IF i > 0 THEN v.entries[i].term ELSE -1,
         commit_index |-> v.commit_index,
         entry |-> IF i = 0 THEN << >> ELSE <<v.entries[i]>>]

\* One entry at most: the one at nextIndex, if there is one.
build_rpc_ae_string(v, s, p) ==
    LET i == v.nextIndex[p]
    IN  [type |-> "APPEND_ENTRY", src |-> s, dst |-> p, term |-> v.term,
         lsn |-> v.current_rpc_lsn[p],
         prelog_index |-> i - 1,
         prelog_term |-> IF i > 0 THEN v.entries[i].term ELSE -1,
         commit_index |-> v.commit_index,
         entry |-> IF i = Len(v.entries) THEN << >> ELSE <<v.entries[i + 1]>>]

next_lsn(v, P) ==
    [p \in Server |-> IF p \in P THEN v.current_rpc_lsn[p] + 1
                                 ELSE v.current_rpc_lsn[p]]

\* A handler still hooked on the timer is cancelled and no new one replaces it.
RV(v, P) ==
    [v EXCEPT !.current_rpc_lsn = next_lsn(v, P),
              !.retry_timers = [p \in Server |->
                  IF p \notin P THEN v.retry_timers[p]
                  ELSE IF v.retry_timers[p] = "none" THEN "RV" ELSE "none"]]

AE(v, P) ==
    IF \E p \in P : v.retry_timers[p] # "none"
    THEN throw_line(v, "ae timer hooked")
    ELSE [v EXCEPT !.current_rpc_lsn = next_lsn(v, P),
                   !.retry_timers = [p \in Server |->
                       IF p \in P THEN "AE" ELSE v.retry_timers[p]]]

make_resp_rv(v, m, vote) ==
    [type |-> "RESP_VOTE", src |-> m.dst, dst |-> m.src, term |-> v.term,
     lsn |-> m.lsn, ok |-> vote, rpc_term |-> m.term]

make_resp_ae(v, m, ok) ==
    [type |-> "RESP_APPEND", src |-> m.dst, dst |-> m.src, term |-> v.term,
     lsn |-> m.lsn, ok |-> ok, is_empty_ae |-> m.entry = << >>,
     rpc_term |-> m.term]

-----------------------------------------------------------------------------
(* Log, commit index and state machine. *)

\* Slip: the entry before index goes too.
insert_short(v, index, e) ==
    IF index > Len(v.entries) THEN throw_line(v, "insert index")
    ELSE [v EXCEPT !.entries = Append(SubSeq(v.entries, 1, index - 1), e)]

\* Entries::insert: whatever was at or after index is gone.
insert(v, index, e) ==
    IF index > Len(v.entries) THEN throw_line(v, "insert index")
    ELSE [v EXCEPT !.entries = Append(SubSeq(v.entries, 1, index), e)]

\* Slip: applied_index_ is not kept, so every entry is applied once more.
apply_to_state_machine_again(v) ==
    [v EXCEPT !.applied = @ \o SubSeq(v.entries, 1, v.commit_index + 1)]

\* StateMachineControler: entries go to the single write thread, each once,
\* in the order of their indexes.
apply_to_state_machine(v) ==
    [v EXCEPT !.applied =
        @ \o SubSeq(v.entries, Len(@) + 1, v.commit_index + 1)]

\* Slip: element majority - 2 of the sorted indexes is taken.
is_majority_index_low(saved, c) ==
    /\ \E p \in Server : saved[p] = c
    /\ Cardinality({p \in Server : saved[p] >= c}) >= majority - 1
    /\ Cardinality({p \in Server : saved[p] > c}) < majority - 1

\* c is the element majority - 1 of the saved indexes in descending order.
is_majority_index(saved, c) ==
    /\ \E p \in Server : saved[p] = c
    /\ Cardinality({p \in Server : saved[p] >= c}) >= majority
    /\ Cardinality({p \in Server : saved[p] > c}) < majority

primary_update_commit_index(v, saved, c) ==
    apply_to_state_machine([v EXCEPT !.Follower_saved_index = saved,
                                     !.commit_index = c])

follower_update_commit_index(v, remote_commit_index) ==
    LET latest_index == Len(v.entries) - 1
        c == IF latest_index < remote_commit_index THEN latest_index
                                                   ELSE remote_commit_index
    IN  IF c < v.commit_index THEN throw_line(v, "commit decreases")
        ELSE IF c = v.commit_index THEN v
        ELSE apply_to_state_machine([v EXCEPT !.commit_index = c])

-----------------------------------------------------------------------------
(* Steps.  A handler that throws has sent nothing: the one assertion that  *)
(* follows a send in its handler is AE's, and it never fires here.         *)

Step(s, handled, v, sent) ==
    /\ server' = [server EXCEPT ![s] = v]
    /\ net' = (net \ handled) \cup (IF Alive(v) THEN sent ELSE {})

Peers(s) == Server \ {s}

\* The candidate timer runs out: trans2C, then an RV to every peer.
candidate_timeout(s) ==
    LET v == trans2C(server[s])
    IN  /\ Alive(server[s])
        /\ server[s].candidate_timer
        /\ server[s].term < MaxTerm
        /\ Cardinality(net) < MaxInFlight
        /\ Step(s, {}, RV(v, Peers(s)),
                {build_rpc_rv_string(v, s, p) : p \in Peers(s)})
        /\ UNCHANGED <<votes, restarts>>

\* The retry timer of peer p runs out: the RV or AE is built anew and sent.
retry_timeout(s, p) ==
    LET v == [server[s] EXCEPT !.retry_timers[p] = "none"]
    IN  /\ Alive(server[s])
        /\ server[s].current_rpc_lsn[p] < MaxLsn
        /\ Cardinality(net) < MaxInFlight
        /\ \/ /\ server[s].retry_timers[p] = "RV"
              /\ Step(s, {}, RV(v, {p}), {build_rpc_rv_string(v, s, p)})
           \/ /\ server[s].retry_timers[p] = "AE"
              /\ Step(s, {}, AE(v, {p}), {build_rpc_ae_string(v, s, p)})
        /\ UNCHANGED <<votes, restarts>>

\* CLIENT_APPLY: any server takes the command into its own log.
append_client_apply_to_entries(s, c) ==
    LET v == server[s]
        index == Len(v.entries)
        e == [term |-> v.term, index |-> index, msg |-> c]
    IN  /\ Alive(v)
        /\ index < MaxEntries
        /\ Step(s, {},
                [insert(v, index, e) EXCEPT !.Follower_saved_index[s] = index],
                {})
        /\ UNCHANGED <<votes, restarts>>

-----------------------------------------------------------------------------
(* RequestVote. *)

\* Slip: the lsn of an RPC is not looked at.
should_ignore_no_rpc(v, m) == FALSE

\* The term and lsn of an RPC are looked at first, then the handler proper.
should_ignore_remote_rpc(v, m) == v.follower_rpc_lsn[m.src] >= m.lsn

remember_lsn(v, m) == [v EXCEPT !.follower_rpc_lsn[m.src] = m.lsn]

\* The candidate's term, not the term of its last entry, is compared.
should_vote(v, m) ==
    v.entries # << >> =>
        LET last == v.entries[Len(v.entries)]
        IN  \/ last.term < m.term
            \/ last.term = m.term /\ last.index <= m.latest_index

react2rv(m) ==
    LET s == m.dst
        v == server[s]
        f == IF v.term < m.term THEN trans2F(v, m.term) ELSE v
        g == remember_lsn(f, m)
        grant == g.state = "follower" /\ ~g.already_voted /\ should_vote(g, m)
    IN  /\ m.type = "REQUEST_VOTE"
        /\ Alive(v)
        /\ \/ /\ v.term > m.term
              /\ Step(s, {m}, v, {make_resp_rv(v, m, FALSE)})
              /\ UNCHANGED votes
           \/ /\ v.term <= m.term
              /\ should_ignore_remote_rpc(f, m)
              /\ Step(s, {m}, f, {})
              /\ UNCHANGED votes
           \/ /\ v.term <= m.term
              /\ ~should_ignore_remote_rpc(f, m)
              /\ ~grant
              /\ Step(s, {m}, g, {make_resp_rv(g, m, FALSE)})
              /\ UNCHANGED votes
           \/ /\ v.term <= m.term
              /\ ~should_ignore_remote_rpc(f, m)
              /\ grant
              /\ Step(s, {m}, [g EXCEPT !.already_voted = TRUE],
                      {make_resp_rv(g, m, TRUE)})
              /\ votes' = votes \cup
                    {[voter |-> s, term |-> g.term, candidate |-> m.src]}
        /\ UNCHANGED restarts

\* Slip: a denied vote counts like a granted one.
vote_counts_denied(v, m) ==
    /\ v.term = m.term
    /\ v.state = "candidate"
    /\ v.current_rpc_lsn[m.src] = m.lsn + 1

\* A vote counts only if it answers the last RPC sent to that peer.
vote_counts(v, m) ==
    /\ v.term = m.term
    /\ v.state = "candidate"
    /\ v.current_rpc_lsn[m.src] = m.lsn + 1
    /\ m.ok

react2resp_rv(m) ==
    LET s == m.dst
        v == server[s]
        won == [v EXCEPT !.winned_votes = @ + 1]
        p == trans2P(won, s)
    IN  /\ m.type = "RESP_VOTE"
        /\ Alive(v)
        /\ \/ /\ v.term < m.term
              /\ Step(s, {m}, trans2F(v, m.term), {})
           \/ /\ v.term >= m.term
              /\ ~vote_counts(v, m)
              /\ Step(s, {m}, v, {})
           \/ /\ vote_counts(v, m)
              /\ \/ /\ won.winned_votes >= majority
                    /\ Step(s, {m}, AE(p, Peers(s)),
                            {build_rpc_ae_string(p, s, q) : q \in Peers(s)})
                 \/ /\ won.winned_votes < majority
                    /\ Step(s, {m},
                            [won EXCEPT !.retry_timers[m.src] = "none"], {})
        /\ UNCHANGED <<votes, restarts>>

-----------------------------------------------------------------------------
(* AppendEntry. *)

log_check(v, m) ==
    m.prelog_index # -1 =>
        /\ m.prelog_index < Len(v.entries)
        /\ v.entries[m.prelog_index + 1].term = m.prelog_term

\* The log check passed: take the entry, if any, and then the commit index.
accept_ae(v, m) ==
    IF m.entry = << >>
    THEN IF Len(v.entries) < m.commit_index
         THEN throw_line(v, "empty ae commit")
         ELSE follower_update_commit_index(v, m.commit_index)
    ELSE IF m.entry[1].index # m.prelog_index + 1
         THEN throw_line(v, "entry index")
         ELSE LET w == insert(v, m.prelog_index + 1, m.entry[1])
              IN  IF Alive(w) THEN follower_update_commit_index(w, m.commit_index)
                              ELSE w

\* Even in the same term an AE makes the server a follower that has not voted.
react2ae(m) ==
    LET s == m.dst
        v == server[s]
        f == IF v.state = "primary" /\ v.term = m.term
             THEN throw_line(v, "two primaries") ELSE trans2F(v, m.term)
        g == IF m.prelog_index = -1 /\ m.prelog_term # -1
             THEN throw_line(f, "prelog term") ELSE remember_lsn(f, m)
        a == IF Alive(g) THEN accept_ae(g, m) ELSE g
    IN  /\ m.type = "APPEND_ENTRY"
        /\ Alive(v)
        /\ \/ /\ v.term > m.term
              /\ Step(s, {m}, v, {make_resp_ae(v, m, FALSE)})
           \/ /\ v.term <= m.term
              /\ ~Alive(f) \/ should_ignore_remote_rpc(f, m)
              /\ Step(s, {m}, f, {})
           \/ /\ v.term <= m.term
              /\ Alive(f) /\ ~should_ignore_remote_rpc(f, m)
              /\ ~log_check(g, m)
              /\ Step(s, {m}, g, {make_resp_ae(g, m, FALSE)})
           \/ /\ v.term <= m.term
              /\ Alive(f) /\ ~should_ignore_remote_rpc(f, m)
              /\ log_check(g, m)
              /\ Step(s, {m}, a, {make_resp_ae(a, m, TRUE)})
        /\ UNCHANGED <<votes, restarts>>

\* Slip: the answer to a heartbeat is taken for the answer to an entry.
took_entry_scene_2(v, q, m) == v.nextIndex[q] < Len(v.entries)

\* The accepted AE carried the entry at nextIndex: with an entry there, the AE
\* may still have been an empty one, sent before the entry was added.
took_entry(v, q, m) == v.nextIndex[q] < Len(v.entries) /\ ~m.is_empty_ae

\* q accepted an AE; c becomes the commit index.
primary_deal_ok(v, s, q, m, c) ==
    LET next == v.nextIndex[q]
        index == IF took_entry(v, q, m) THEN next ELSE next - 1
        saved == [v.Follower_saved_index EXCEPT ![q] = index]
    IN  /\ is_majority_index(saved, c)
        /\ LET w == primary_update_commit_index(
                        IF took_entry(v, q, m)
                        THEN [v EXCEPT !.nextIndex[q] = next + 1] ELSE v,
                        saved, c)
               x == [w EXCEPT !.retry_timers[q] = "none"]
           IN  IF next > Len(v.entries)
               THEN Step(s, {m}, throw_line(v, "last_send_index"), {})
               ELSE IF next = Len(v.entries)
               THEN Step(s, {m}, w, {})
               ELSE Step(s, {m}, AE(x, {q}), {build_rpc_ae_string(x, s, q)})

primary_deal_denied(v, s, q, m) ==
    LET w == IF v.nextIndex[q] = 0 THEN throw_line(v, "index 0 denied")
             ELSE [v EXCEPT !.nextIndex[q] = @ - 1, !.retry_timers[q] = "none"]
    IN  IF Alive(w)
        THEN Step(s, {m}, AE(w, {q}), {build_rpc_ae_string(w, s, q)})
        ELSE Step(s, {m}, w, {})

react2resp_ae(m) ==
    LET s == m.dst
        v == server[s]
    IN  /\ m.type = "RESP_APPEND"
        /\ Alive(v)
        /\ \/ /\ v.term < m.term
              /\ Step(s, {m}, trans2F(v, m.term), {})
           \/ /\ v.term > m.term
              /\ Step(s, {m}, v, {})
           \/ /\ v.term = m.term
              /\ v.state # "primary"
              /\ Step(s, {m}, throw_line(v, "resp_ae to non-primary"), {})
           \/ /\ v.term = m.term
              /\ v.state = "primary"
              /\ \/ /\ v.current_rpc_lsn[m.src] # m.lsn + 1
                    /\ Step(s, {m}, v, {})
                 \/ /\ v.current_rpc_lsn[m.src] = m.lsn + 1
                    /\ m.ok
                    /\ \E c \in -1 .. Len(v.entries) :
                            primary_deal_ok(v, s, m.src, m, c)
                 \/ /\ v.current_rpc_lsn[m.src] = m.lsn + 1
                    /\ ~m.ok
                    /\ primary_deal_denied(v, s, m.src, m)
        /\ UNCHANGED <<votes, restarts>>

-----------------------------------------------------------------------------

\* connection::connect or connection::deliver fails, or the other side closes
\* the connection first: the message is dropped and only logged.
Lose(m) ==
    /\ net' = net \ {m}
    /\ UNCHANGED <<server, votes, restarts>>

\* The process is killed, if it still runs, and started again.
Restart(s) ==
    /\ restarts < MaxRestarts
    /\ restarts' = restarts + 1
    /\ server' = [server EXCEPT ![s] = Boot(server[s].entries)]
    /\ UNCHANGED <<net, votes>>

Init ==
    /\ server = [s \in Server |-> Boot(<< >>)]
    /\ net = {}
    /\ votes = {}
    /\ restarts = 0

\* Nothing orders the messages between two servers: RPC::make_rpc_call opens a
\* new connection whenever none is established yet, and each connection is
\* read on its own.
Next ==
    \/ \E s \in Candidates : candidate_timeout(s)
    \/ \E s \in Server : \E p \in Peers(s) : retry_timeout(s, p)
    \/ \E s \in ClientServers, c \in Command :
            append_client_apply_to_entries(s, c)
    \/ \E m \in net : react2rv(m)
    \/ \E m \in net : react2resp_rv(m)
    \/ \E m \in net : react2ae(m)
    \/ \E m \in net : react2resp_ae(m)
    \/ \E m \in net : Lose(m)
    \/ \E s \in RestartServers : Restart(s)

Spec == Init /\ [][Next]_vars

=============================================================================
