# A verification of my_raft

`my_raft` is a small Raft server in C++ on boost::asio: leader election, log
replication, a log on disk, and a state machine to which committed client
commands are applied.  This directory holds TLA+ models of its parts, TLC runs
that check them on small instances, and TLAPS proofs for clusters of any size.
Paths and line numbers are those of the repository.

## The system

| Part | State | Operations | Interacts with |
|---|---|---|---|
| `RaftServer` (RaftServer.cpp) | role, `term_`, vote, vote count, `current_rpc_lsn_` / `follower_rpc_lsn_` per peer, `nextIndex_`, `Follower_saved_index`, `commit_index_` | candidate timer, retry timers, `react2rv`, `react2ae`, `react2resp_rv`, `react2resp_ae`, client commands and queries | its peers by messages, `Entries` and `StateMachineControler` by calls |
| Timers (RaftServer.cpp, Timer.cpp) | `candidate_timer_`, one `retry_timers_` element per peer | `cancel_all_timers`, hooking and cancelling of handlers | the asio reactor, every handler of `RaftServer` |
| `Entries`, `data` (entry/) | entries and offsets in memory, a data file, an offset file | `insert`, `get`, `size`, loading at start | called by `RaftServer` and `StateMachineControler` |
| `StateMachineControler`, `ThreadPool`, `EasyStateMachine` (state_machine/) | `applied_index_`, two task queues, a map | apply in one writer thread, query in five reader threads, results posted back to the io thread | `RaftServer` both ways |
| `RPC`, `connection` (rpc/) | map of connections, buffers | connect, accept, framing, deliver, remove on error | sockets; `reactToIncomingMsg` |
| `client` (client/) | the server it was started with | apply, query from the console | one server |

All of `RaftServer` runs on one io thread, so its handlers are atomic for
everybody but the threads of the two pools; what is hard is the order of things:
elections that overlap with replication, RPCs that are repeated every 5 to 10 ms
while answers are late, answers that carry the responder's term, handlers that
are queued when they are cancelled, kills between two file writes, tasks that
are notified when no worker waits, and reads of a socket that overlap.
`throw_line` is how the code asserts: the exception leaves `ioContext.run()` and
the process ends.  The hazards, each with its line, are listed in
`PROJECT.json`.

What makes each part correct:

* election: a primary has the votes of a majority; one primary per term; every
  server that is not primary will stand for election;
* replication: what a primary believes its followers have saved, they have;
  committed entries are on a majority and in every later primary's log; state
  machines get the same commands in the same order; no assertion fires;
* timers: a cancelled handler does nothing; a primary keeps its heartbeats;
* log: `insert` is atomic even under kills, and what is on disk can be loaded;
* state machine: committed commands are applied once each and in log order; a
  query is answered, and not with something older than the client knows; only
  the client of a command is told of it; the threads do not break the map; the
  pools can be destroyed;
* connections: a message is received as it was sent, at most once; a dead
  connection does not stay in use; a peer's end does not end the process (it
  does if the peer ends within a message, and not otherwise).

## Modules

| Module | What it is |
|---|---|
| `RaftServer` | the cluster: one record per process with the members of the C++ object, a set of messages in flight, one action per handler |
| `RaftProperties` | invariants and claims about it |
| `RaftServerProofs` | proofs about every cluster: types, assertions, indexes |
| `RaftTransitions` | what each function of the code does to each member, as lemmas; a primary's log only grows |
| `RaftElectionProofs` | proofs about elections in clusters that stay up |
| `RaftReplicationProofs` | proofs about log replication with one proposer |
| `ServerTimers` | the timers of one server as asio runs them; its properties at the end |
| `ServerTimersProofs` | their proofs |
| `LogStore` | abstract: a log whose `insert` happens at once and that survives restarts |
| `EntriesStore` | `Entries` with its two files, each effect of `insert` a step; refines `LogStore` |
| `EntriesStoreProofs` | proofs of that and of `OffsetsMatchData` |
| `ThreadPool` | a queue, its workers, `enqueue` and the destructor; used twice by the next |
| `CommandLog` | abstract: committed entries are applied one by one, in order, and all of them in the end |
| `ApplyPipeline` | one server's `StateMachineControler`, both pools, the map and the answers to clients; refines `CommandLog` |
| `ApplyPipelineProofs` | proofs of its safety |
| `Network` | abstract: messages from one process to another, lost or reordered but neither changed nor duplicated |
| `Connections` | `RPC` and `connection` between a caller and a callee, down to asio's read operations; refines `Network` |
| `ConnectionsProofs` | proofs of that refinement, of types and of when a caller's end is the callee's |
| `MCRaft`, `MCTimers`, `MCEntries` | model values and symmetry sets for TLC |

Operators that begin with a comment "Slip:" are plausible mistakes in the
operator that follows them.  They are not part of any specification; the
mutants of `PROJECT.json` put them in its place to show that a property notices.

### RaftServer

`server[s]` has the members of the object without the trailing underscore, and
`thrown`, the assertion that ended the process.  A function of the code is an
operator on such a record (`trans2F`, `update_term`, `insert`, `AE`...), a
handler is an action:

| Action | Code |
|---|---|
| `candidate_timeout` | handler of `candidate_timer_`, `trans2C`, `RV` to all |
| `retry_timeout` | handler of a retry timer, `RV` or `AE` |
| `react2rv`, `react2resp_rv`, `react2ae`, `react2resp_ae` | the same |
| `append_client_apply_to_entries` | the same, at any server |
| `Lose` | connect or write error, peer gone |
| `Restart` | the process is killed, or has died, and is started again |

What is abstracted:

* A message is a record and the network a set: messages are delayed without
  bound, overtake each other (every connection is read on its own, and
  several may exist between two servers) and get lost.  TCP does not duplicate,
  so delivery removes the message.  Equal messages (possible only across a
  restart, when lsns start again) are one element of the set.
* A response has a history field `rpc_term` that no action reads, and `votes`
  is a history of the votes granted; both serve the properties only.
* Commands are opaque.  `applied` is the sequence of entries handed to the
  write thread.
* Servers are told apart by identity; the code compares ports only, so
  configurations with equal ports on different hosts are outside the model, as
  are configurations in which a server's own address is not 127.0.0.1.
* The handler of a timer runs in the step in which the timer expires.
  `ServerTimers` shows what happens otherwise.
* Messages arrive as they were sent or not at all: that is `Network`, which
  `Connections` is proved to implement as long as no body arrives in parts.  Log output
  is left out, and with it the read of `temp_sort[2]` (RaftServer.cpp:788) in
  clusters of two, which are used below as the smallest instances.

### ServerTimers

A timer is a flag (set to `min_date_time`?) and the waiting handler.  A pass of
the reactor (`Expire`) queues the handlers of any of the expired timers; from
then on they cannot be cancelled.  Messages found in the same pass are handled
before them, and no other pass begins before they have run.  Whether a pass may
find more than one thing at a time is chosen once, in `overtaking`; if not,
handlers are prompt, which is what `RaftServer` assumes.  The rest of the
cluster is an environment that may at any time make the server step down, grant
a vote, or answer an AE.

### EntriesStore

An encoding is a sequence of cells that know their entry and place, so that a
read with wrong offsets is recognised (`Unparsable`).  `insert` is six steps:
`insert` (the check), `write`, `ftruncate`, `open_offset_file` (which empties the
file), `write_offset_to_file`, `insert_in_memory`.  `Crash` kills the process
before any step in `CrashAppend` (for an insert at the end) or `CrashOverwrite`
(for any other), and `Load` is the constructor in the next process.  Kills are of the
process: what was written to a file is not lost.  The constants say which kills a run
looks at; those of `EntriesDurable` are all but the two kinds that do harm, which
are described under "Disagreements".

### ApplyPipeline and ThreadPool

`ThreadPool` has the steps of a worker's loop (`take`, `wait`, `wake`, `return`,
`end_task`) and those of its owner (`enqueue`, `notify_one`, and `set_stop`,
`notify_all`, `joined` for the destructor).  What happens under `queue_mutex` is
one step, notifications are steps of their own, and a waiting worker may wake
without one.  `ApplyPipeline` instantiates it for `write_thread_pool_` (`Write`) and
`read_thread_pool` (`Read`).

The variable `io` says where the io thread is.  At `poll` it may take up a handler;
between the handler's calls it is elsewhere, and the pools run meanwhile:

| Action | Code |
|---|---|
| `append_client_apply_to_entries`, `trans2P`, `react2ae` | what handlers of `RaftServer` do to the role, the log and the client addresses; the guards keep committed entries, as the log would in a cluster whose elections are right |
| `update_commit_index_and_apply`, `apply_to_state_machine`, `notify_write` | the loop that hands entries over, one turn after the other; the new index may be a lower one |
| `get_from_state_machine`, `notify_read` | a query goes to the read pool |
| `write_resp_call` | a posted handler: `write_resp_apply_call` or `write_resp_query_call` |
| `throw_line`, `destroy_read_pool`, `destroy_write_pool` | an exception, and the destructors |
| `apply`, `get`, `post` | a worker calls `EasyStateMachine`, and posts the result |

`InMap(t)` holds while thread `t` may be inside the map.  Two threads `Race` if
both are, and one of them adds a key.  Nothing keeps a client from asking for a key
that nobody stored, so this happens; from then on (`raced`) the map and all that is read
from it are undefined (`Lookup`), and nothing is claimed of answers.  What is left out
is that such a call may also never return or end the process.  A value is told apart
by the client that wanted it stored, or `elsewhere` for an entry that an AE brought, so
that a client has at most one entry in a log, and one query at a time.  `of` and
`applied` are history.

### Connections

The caller is a process that sends with `make_rpc_call`, the callee one that accepts
and reads; a server is both.  A frame is a header cell and `Width` body
cells that know their message and place, so that a read that is out of step is
recognised: `atoi` of something that is no header gives any length, and
`process_msg` of something that is no body gives 0, which was never sent.
`connection_map_` is `held` at the caller, a single connection or none, and
`accepted` at the callee.

`read_body` starts two reads at once, of the body and of the next header.  asio
serves the reads of a socket in the order they were started; one that got only part
of what it wants is continued by a handler, which puts the rest *behind* the reads
started meanwhile.  `ops` is that queue and `done` the queue of handlers.  `Split` says
whether part of a body may arrive before the rest.

What a process wrote before it died may arrive all the same, or be `lost`, from any
frame or body on.  If a header came and its body did not, the body's read fails and
`body_callback` throws.

The handler of a failed write captures `this` only.  If by then the read handler
has removed the connection, which frees it, `deliver_failed` may remove anything or
end the process.  Both processes may be killed, the callee is started again, and
every message sent while no connection is established opens one of its own.

## Runs

Every run is a `.cfg` of the same name.  Bounds are constants, all named:
`MaxTerm` (elections), `MaxLsn` (RPCs per peer and term that retry timers send),
`MaxEntries` (entries that clients add), `MaxInFlight` (timers run out only while fewer
messages are in flight; answers are never held back), `MaxRestarts`.

| Run | Instance | Checks |
|---|---|---|
| `Elections` | 4 servers, 2 candidates, 1 term | `ElectedByMajority` |
| `TwoServers` | 2 servers, both candidates, both with clients, 2 terms, logs of 2 | `SoundAssertions`, `IndexesWithinLog`, `TimersArmed`, `PrimaryAppendsOnly` |
| `Restarts` | 2 servers, 2 terms, 1 restart of either | `TypeOK`, `SoundAssertions` |
| `OneProposer` | 3 servers, one candidate with a client, 2 commands, logs of 2, 3 retries | `FollowerHoldsSaved`, `CommittedOnMajority`, `StateMachineSafety`, `LogMatching`, `NothingThrown` |
| `Timers` | 3 peers, 5 messages | `ElectionPending`, `TimersFitRole`, `PromptHandlersSound`, liveness `ElectionsGoOn` |
| `EntriesDurable` | 3 entries of 2 lengths, logs of 3, 2 kills | `OffsetsMatchData`, refinement `InsertIsAtomic` |
| `Pipeline` | 1 writer, 2 readers, 2 clients of which 1 asks, 1 key, logs of 2 | `TypeOK`, `QueryFresh`, `ToldOfOwnCommand`, refinement `AppliesInOrder`, liveness `QueryAnswered`, `ShutdownEnds` |
| `Connections` | 3 connections, 3 messages of 2 body cells, 1 restart, bodies whole or lost | `TypeOK`, `EndsOnlyWithinMessage`, refinement `DeliversMessages`, liveness `ClosedIsRemoved` |

Why the bounds suffice for the cases meant: four servers are the fewest with
which one vote does not elect a candidate; two terms give a deposed primary
and a new one; two entries give a log whose tail is overwritten and a prelog
other than -1; two RPCs per peer and term give a late answer and a current one,
and the third retry in `OneProposer` an entry behind a heartbeat; two messages in flight
plus all answers give reordering.  In `Pipeline` two readers give one that
waits beside one that works, and two entries a queue behind a busy writer and an
index that has moved on; one key suffices because a second only separates the
clients.  In `Connections` three messages give two connects in progress at once and
a message behind them, or two frames read in one go and a third after a restart;
two body cells are the fewest of which a part can be missing.

The properties of `OneProposer` need its
restriction: with several candidates the findings below break them.  Symmetry
permutes servers that may do the same things, and commands; liveness is checked
without.  `CHECK_DEADLOCK FALSE` stands where the bounded environment, or a process
that has died or shut down, may have nothing left to do; the runs on
`EntriesStore` check deadlock.

Fairness is assumed in three places.

* `ServerTimers!FairSpec`: `io_service::run` runs what it has queued (weak), and a
  timer that is not set again is found expired by some later pass (strong,
  because passes come and go).  Messages are not fair.
* `ApplyPipeline!Spec`: the io thread goes on with what it is doing and runs
  posted handlers in turn, and every worker that is not blocked runs (weak, the
  operating system's scheduling).  Clients, other servers, exceptions and
  spurious wakeups are not fair: a lost notification would not be repaired.
* `Connections!Spec`: kernels deliver what was written and report what was closed,
  and asio serves each socket and runs its handlers (weak).  Nothing has to be sent,
  killed, refused or started again.

### Disagreements between the code and what it says

Each of these runs ends in a violation of what a comment or an assertion
claims; `findings` in `PROJECT.json` has the quotations.

| Run | What happens |
|---|---|
| `OnePrimary` | `trans2F`, called for an AE of the same term, forgets the vote: two primaries in a term |
| `OldLogElected` | a candidate without a committed entry is elected |
| `LateHandlers` | a cancelled handler that was already queued runs and throws (399) |
| `QueryRace` | `Pipeline` with two clients that ask, for the property `RaceFree`: two readers add a key to the map at the same time |

More can be seen by changing the constants of a run.  Each of these is excluded
by a named constant in the runs above and noted with its hazard:

* a new primary's lower commit index ends a follower (RaftServer.cpp:808):
  `NothingThrown` in `TwoServers`.  The repository's `todo_stack` knows of it;
* a follower takes commands into its log, so that equal index and term do not
  mean equal entries: `LogMatching` with a second server in `ClientServers`;
* an answer carries the responder's term and an lsn that restarts with every
  term, so that an answer to an AE of an earlier term may reach a former primary
  (623: `NothingThrown` with two servers, both candidates, two terms) or pass for
  a current one and be a denial at index 0 (729: the same with three terms);
* an overwriting insert killed between the two files leaves offsets that cut
  through entries: `OffsetsMatchData` with `"ftruncate"`, `"open"` or `"flush"` in
  `CrashOverwrite`.  Killed between opening and writing the offset file an insert
  leaves it empty, so that `Load` is never enabled again: with `"flush"` in
  `CrashAppend`;
* when only part of a body has arrived, the rest of it is read as the next
  header: `EndsOnlyWithinMessage` and `DeliversMessages` with `Split = TRUE`;
* a client whose entry was overwritten is told that the entry in its place
  was applied: `ToldOfOwnCommand` without `elsewhere`.

One hazard is no disagreement, because the code admits it: a caller that dies within a
message ends the callee too.  The comment on that throw (connection.cpp:105) says that
the case is entirely possible and that it has still to be dealt with.  `Connections`
reaches it, and `EndsOnlyWithinMessage` says that it is reached in no other way.

## Proofs

Every theorem holds for every value of the constants that satisfies the `ASSUME`
of the model, with the hypotheses named below.  Each inductive invariant was
checked by TLC on the run of its model before it was proved.

### Every cluster (`RaftServerProofs`, `RaftTransitions`)

* `TypeCorrect`: `Spec => []TypeOK`;
* `AssertionsSound`: `Spec => []SoundAssertions`, nine assertions of the code never fire;
* `IndexesFit`: `Spec => []IndexesWithinLog`;
* `PrimariesAppend`: `Spec => PrimaryAppendsOnly`.

The first three are not inductive by themselves.  That an AE fits together when it
arrives (496, 524, 533) depends on the primary's `nextIndex_` having been
within its log when it was sent, and on entries carrying their own position;
that AE finds no timer hooked (316) depends on only primaries having AE timers
and on `trans2P` having cancelled the rest.  So the invariant is

    IInv == ServersOK /\ NetOK /\ HistoryOK

`ServersOK` says of each process (`StateOK`): its type, no assertion but the
four of `Sound`, every entry at its index (`Positions`), the commit index
within the log, a primary's books within its log (`PrimaryOK`), AE timers in
primaries only (`TimersOK`).  `NetOK` says of each message (`MsgOK`): its type,
two different ends, and for an AE (`AeFits`) that prelog and entry fit together
and that an empty AE's commit index is at most its prelog index.  One lemma per
function of the code shows that it keeps `StateOK`, one per message builder that it
makes a sound message, one per handler that it keeps `IInv`.

`RaftTransitions` says of each function what it does to *every* member, and of each
handler which of a few outcomes it has (`RvGranted`, `AeAccepted`, `Acked`...).  The
next two modules reason about these outcomes, not about the functions.

### Elections (`RaftElectionProofs`, hypothesis `RestartServers = {}`)

* `Elections`: `Spec => []ElectedByMajority`;
* `NobodyWaitsInVain`: `Spec => []TimersArmed`.

`EInv`, on top of `IInv`: whoever a candidate does not ask any more has voted for it,
and the number of those asked and of the votes won is the size of the cluster
(`RolesOK`); an RV and the vote that answers it are one *ballot*, no ballot is ahead of
its candidate's term and lsn, and while the ballot that counts, the one of the last
lsn, is out, the retry timer of its peer runs (`BallotsOK`); a granted vote is on
record (`VotesKept`); no ballot is in flight twice (`BallotsDiffer`).  The timer is what
makes a vote count once: counting it cancels the timer.  The hypothesis is needed
because a process that is restarted starts its lsns again, so that a vote from before
may look like an answer to the last RV.

### Replication (`RaftReplicationProofs`, hypothesis `SoleProposer(c)`)

* `NoAssertionFires`: `Spec => []NothingThrown`;
* `LogsMatch`: `Spec => []LogMatching`;
* `StateMachinesAgree`: `Spec => []StateMachineSafety`;
* `SavedIsHeld`: `Spec => []FollowerHoldsSaved`;
* `CommittedIsHeld`: `Spec => []CommittedOnMajority`.

`SoleProposer(c)` is the restriction of the run `OneProposer`: one server stands for
election and serves the clients, nobody restarts.  Without it the findings
below break all five.  `RInv(c)` is one condition per follower (`LinkOK`): its log is a
prefix of the primary's and not longer than the books allow; every AE in flight is a
copy of a part of the primary's log; an AE is *fresh* if the follower would still look
at it, and a fresh one shortens neither the follower's log nor its commit index; of
two AEs the later carries no less; the answer to the last AE says about the
follower's log what the primary will conclude from it (`Tells`).  For the commitment
the sorted saved indexes are shown to have a majority at or above the one picked.

### Timers (`ServerTimersProofs`)

* `ElectionStaysPending`: `Spec => []ElectionPending`;
* `RolesHaveTheirTimers`: `Spec => []TimersFitRole`;
* `PromptHandlersAreSound`: `Spec => []PromptHandlersSound`.

A late handler meets timers that were set after it was queued.  `TInv` says which
these can be: a timer and the handlers queued for it are of one kind; in a follower a
retry timer with a queued handler is cancelled; no AE handler is queued beside a
candidate handler, so that none runs in a candidate; and without overtaking at most
one handler is queued, its timer as it was when it expired.

### Log on disk (`EntriesStoreProofs`, hypothesis `HarmlessKills`)

* `OffsetsFitData`: `Spec => []OffsetsMatchData`;
* `InsertsAreAtomic`: `Spec => InsertIsAtomic`, the whole refinement of `LogStore`.

`HarmlessKills` excludes the two kinds of kills described under "Disagreements" and
no other.  `Fits(off, log, file)` says that the offsets cut the file into the
encodings of the log, one behind the other; the offsets being ordered is part of
it, since a write at one offset must not touch what lies before.  `SInv` says, for each
step of the insert under way, which of the old and the new log the offsets in
memory, the offsets on disk and the data file fit.

### State machine (`ApplyPipelineProofs`)

* `PipelineTypes`: `Spec => []TypeOK`;
* `PipelineAppliesInOrder`: the safety part of `AppliesInOrder` (`Log!Init` and
  `[][Log!Commit \/ Log!Apply]`, all of `CommandLog` but its fairness);
* `ClientsToldOfTheirOwn`: `Spec => ToldOfOwnCommand`;
* `QueriesAreFresh`: `Spec => QueryFresh`.

`PInv` has at its heart `HandoverOK`: what was applied, the task in the write thread's
hand and the queue of the write pool are together, and in this order, the entries
handed over so far; the task for entry n carries index n.  It needs that the io
thread is in the loop exactly while there is something to hand over (`IoOK`) and that
only a thread that runs a task holds a result (`ResultsOK`).  `AddressesOK` says that
the address on record for an index belongs to the entry there, and to what was
applied of it.  `MapOK`, for the last theorem, says that until two threads have raced
the map holds, for each key to which an entry was applied, the value of the last such
entry, and 0 for any other key it has.  None of the theorems keeps clients from
asking for keys that are not there.  That the threads do not race is not proved
because it is false: that is the run `QueryRace`.

### Connections (`ConnectionsProofs`)

* `ConnectionsTypes`: `Spec => []TypeOK`, however the cells arrive;
* `CalleeEndsWithinMessage`: `Spec => []EndsOnlyWithinMessage`, if `Split = FALSE`;
* `ConnectionsImplementNetwork`: `Spec => DeliversMessages`, if `Split = FALSE`, the
  whole refinement of `Network`.

The type invariant needs that an operation never has more cells than it needs.
For the other two, `Inv` says that there is a `full`, the wire as it would be had
nothing been lost, for which `CInv(full)` holds.  It takes the cells that arrived and
those of `full` as one *stream*: every cell is followed by the rest of its frame and
then by another frame (`Whole`), a message has one frame in it (`OneFrame`), and what
arrived ends with a header or a body (`Cut`).  The reads of a socket are none, a
header, or a body and a header, and the stream starts with what the oldest asks for
(`ConnOK`), so that a body read that is served finds all of its body.  The end of
what arrives is met by a header read, unless cells were lost: only then is it met
by a body read, whose header is still in `header_` and whose message can never be
received.  That is the throw, and it is how `EndsOnlyWithinMessage` follows.  A body's
handler is queued before the one of the next header (`InOrder`), so that `data_` still
holds the body when it runs.  `MessagesOK` says where a message can be that was not
received yet (with a connect in progress, in a stream, in `data_`) and that it is in one
of these places only.  `Split = FALSE` is the restriction of the run: if part of a body
arrives first, the header read queued behind takes the rest of it.

### Only model-checked

All liveness (`ElectionsGoOn`, `QueryAnswered`, `ShutdownEnds`, `ClosedIsRemoved`, and the
fairness part of `AppliesInOrder`): fairness and `ENABLED` are out of the prover's
reach.

## Not modelled

Snapshots and reconfiguration do not exist in the code.  Printing, logging,
generated protobuf code, the console dialogue of the client and the parsing
of the configuration file hold no state worth a model.  Beyond that:

* a short write of the data file, which the code does not notice, is not a step
  of `EntriesStore`;
* a write to a socket takes the whole frame.  When the send buffer is full
  `async_write` goes on later with a string that is gone (connection.cpp:119);
* messages that do not fit the four digits of the header or the buffer of a
  connection;
* the client's two threads, which share its connection map: `Connections` has one
  thread on either side, as in the server;
* time.  Whether somebody is elected when RVs are repeated every 5 to 10 ms, and
  only the answer to the last one counts, depends on how long messages take;
* the unused futures of `ThreadPool::enqueue`, and the exceptions a task may throw
  into them.

## Plan

1. `Elections` with restarts, for votes that were given before the restart.
2. An election module with bounded message delays.
