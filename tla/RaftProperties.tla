--------------------------- MODULE RaftProperties ---------------------------
(***************************************************************************)
(* What a cluster of RaftServer processes promises, and what its comments  *)
(* and assertions claim.                                                   *)
(***************************************************************************)
EXTENDS RaftServer

\* Every variable holds a value of its declared type, in particular every
\* message on the wire is one that rpc.proto can carry.
TypeOK ==
    /\ server \in [Server -> ServerState]
    /\ net \in SUBSET Message
    /\ votes \in SUBSET Vote
    /\ restarts \in 0 .. MaxRestarts

Primary(s) == Alive(server[s]) /\ server[s].state = "primary"

-----------------------------------------------------------------------------
(* Kept by every cluster, whatever is elected, restarted, lost or reordered. *)

\* The assertions that guard the internal bookkeeping never fire: terms grow
\* (RaftServer.cpp:200), a timer is not hooked twice (139, 230, 316) unless a
\* queued handler escapes its cancellation (ServerTimers), the prelog and the
\* entry of an AE fit together (496, 533), an empty AE carries no commit index
\* beyond the follower's log (524), insert leaves no hole (entry.cpp:97) and
\* nextIndex stays within the log (689).
SoundAssertions ==
    \A s \in Server : server[s].thrown \in
        {"none", "two primaries", "commit decreases",
         "resp_ae to non-primary", "index 0 denied"}

\* A server never waits for nothing: a primary has an AE timer running for
\* each peer, everyone else the candidate timer (trans2F, trans2C), and a
\* candidate an RV timer for each peer that has not granted its vote.
TimersArmed ==
    \A s \in Server : Alive(server[s]) =>
        LET v == server[s]
            asked == {p \in Peers(s) : v.retry_timers[p] = "RV"}
        IN  /\ v.state = "primary" =>
                \A p \in Peers(s) : v.retry_timers[p] = "AE"
            /\ v.state # "primary" => v.candidate_timer
            /\ v.state = "candidate" =>
                Cardinality(asked) + v.winned_votes = Cardinality(Server)

\* A primary only ever appends to its log (insert truncates, and is also how
\* append_client_apply_to_entries writes).
PrimaryAppendsOnly ==
    [][\A s \in Server :
          Primary(s) /\ server'[s].state = "primary" =>
              /\ Len(server[s].entries) <= Len(server'[s].entries)
              /\ SubSeq(server'[s].entries, 1, Len(server[s].entries))
                    = server[s].entries]_vars

\* The indexes of a live server stay within its log: commit_index, and for a
\* primary nextIndex and Follower_saved_index, its own entry of which names
\* the end of its log (trans2P, append_client_apply_to_entries).
IndexesWithinLog ==
    \A s \in Server : Alive(server[s]) =>
        LET v == server[s]
        IN  /\ v.commit_index < Len(v.entries)
            /\ v.state = "primary" =>
                /\ \A p \in Server : /\ v.nextIndex[p] \in 0 .. Len(v.entries)
                                     /\ v.Follower_saved_index[p] < Len(v.entries)
                /\ v.Follower_saved_index[s] = Len(v.entries) - 1

\* Whoever is primary was elected: a majority of the servers, itself included,
\* voted for it in its term, each counted once although RVs are sent again
\* and answered again (candidate_deal_resp_rv_with_same_term).  Votes are
\* forgotten by a restart, so this is about servers that stay up.
ElectedByMajority ==
    \A s \in Server :
        LET v == server[s]
            voters == {p \in Server : \E b \in votes :
                          b.voter = p /\ b.candidate = s /\ b.term = v.term}
        IN  Alive(v) =>
                /\ v.state = "candidate" =>
                        v.winned_votes <= Cardinality(voters \cup {s})
                /\ v.state = "primary" =>
                        2 * Cardinality(voters \cup {s}) > Cardinality(Server)

-----------------------------------------------------------------------------
(* Kept while one server only stands for election and serves the clients,  *)
(* and nobody restarts: log replication by one primary.                    *)

IsPrefixUpTo(i, log1, log2) ==
    /\ i <= Len(log1) /\ i <= Len(log2)
    /\ \A j \in 1 .. i : log1[j] = log2[j]

\* What the primary believes a follower has saved, it has saved, although
\* entries, heartbeats and their answers overtake each other and are sent
\* again (Scenes 1 and 2 of primary_deal_resp_ae_with_same_term).
FollowerHoldsSaved ==
    \A s, p \in Server : Primary(s) =>
        IsPrefixUpTo(server[s].Follower_saved_index[p] + 1,
                     server[s].entries, server[p].entries)

\* A committed entry is in the logs of a majority, whoever regards it as
\* committed (primary_update_commit_index, follower_update_commit_index).
CommittedOnMajority ==
    \A s \in Server : Alive(server[s]) =>
        LET n == server[s].commit_index + 1
        IN  2 * Cardinality({p \in Server :
                    IsPrefixUpTo(n, server[s].entries, server[p].entries)})
                > Cardinality(Server)

\* No two state machines are given different commands at the same place
\* (StateMachineControler::update_commit_index_and_apply).
StateMachineSafety ==
    \A s, p \in Server :
        \A i \in 1 .. Len(server[s].applied) :
            i <= Len(server[p].applied) =>
                server[s].applied[i] = server[p].applied[i]

\* Once the terms at an index are equal, so are the entries up to it: what
\* the log check of react2ae rests on (RaftServer.h:97).  A second server that
\* takes commands while it is not primary would break it.
LogMatching ==
    \A s, p \in Server :
        \A i \in 1 .. Len(server[s].entries) :
            i <= Len(server[p].entries)
            /\ server[s].entries[i].term = server[p].entries[i].term
                => IsPrefixUpTo(i, server[s].entries, server[p].entries)

\* No assertion fires: not even a late AE makes a follower's commit index
\* decrease (Scene 111 in todo_stack) or an answer reach the wrong role.
NothingThrown == \A s \in Server : server[s].thrown = "none"

-----------------------------------------------------------------------------
(* Claims of comments and assertions that the code does not keep. *)

\* RaftServer.h:111: there is one primary at most in a term.
OnePrimaryPerTerm ==
    \A s, p \in Server :
        Primary(s) /\ Primary(p) /\ server[s].term = server[p].term => s = p

\* RaftServer.cpp:602: a server with entries the candidate lacks denies its
\* vote, so that a primary has every entry committed in an earlier term.
PrimaryHasCommitted ==
    \A s, p \in Server :
        Primary(s) /\ Alive(server[p]) /\ server[p].term < server[s].term =>
            IsPrefixUpTo(server[p].commit_index + 1,
                         server[p].entries, server[s].entries)

=============================================================================
