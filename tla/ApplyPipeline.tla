--------------------------- MODULE ApplyPipeline ---------------------------
(***************************************************************************)
(* What one server does with committed entries and with queries:           *)
(* StateMachineControler hands them from the io thread to the write pool   *)
(* and the read pool, whose threads call EasyStateMachine and post the     *)
(* answer back to the io thread, which sends it to the client.             *)
(*                                                                         *)
(* The rest of the server appears as what its handlers (RaftServer) do to  *)
(* its role, its log and the commit index, each by a step of its own: the  *)
(* pools may run between two effects of one handler.                       *)
(*                                                                         *)
(* Indexes are the code's (from 0); entry i is entries[i + 1].             *)
(***************************************************************************)
EXTENDS Integers, FiniteSetsExt, SequencesExt

CONSTANTS
    Writer,         \* threads of write_thread_pool_
    Reader,         \* threads of read_thread_pool
    Client,         \* addresses of clients
    Asker,          \* the clients that send queries
    Key,            \* the keys of the map
    MaxEntries      \* bound: entries in the log

ASSUME PoolAssumption ==
    /\ IsFiniteSet(Writer)
    /\ Cardinality(Writer) = 1      \* the constructor throws otherwise
    /\ Writer \cap Reader = {}
    /\ Reader # {}
    /\ Asker \subseteq Client

VARIABLES
    state,          \* RaftServer::state_: primary, or not
    entries,        \* RaftServer::entries_
    socketAddr,     \* entryIndex_to_socketAddr_map_
    commit_index,   \* StateMachineControler::commit_index_
    applied_index,  \* StateMachineControler::applied_index_
    io,             \* where the io thread is
    posted,         \* handlers posted to the io_service
    wtasks, wstop, wat, wtask,  \* write_thread_pool_
    rtasks, rstop, rat, rtask,  \* read_thread_pool
    store,          \* EasyStateMachine::mock_state_machine_
    raced,          \* has a data race left the map undefined?
    result,         \* what apply or get returned to each thread, once it did
    applied,        \* history: the entries applied to the map
    asking          \* the clients that wait for the answer to a query

write_pool == <<wtasks, wstop, wat, wtask>>
read_pool == <<rtasks, rstop, rat, rtask>>
log == <<state, entries, socketAddr>>
controler == <<commit_index, applied_index>>
machine == <<store, raced, result, applied>>
vars == <<log, controler, io, posted, write_pool, read_pool, machine, asking>>

\* A value is told apart by who wanted it stored: a client of this server, or
\* somebody elsewhere if the entry came with an AE.
Value == Client \cup {"elsewhere"}
Entry == [key : Key, v : Value]
WriteTask == [index : Nat, entry : Entry]

Query == [to : Client, key : Key]

\* The handlers that are posted to the io thread; of is history: the entry
\* that was applied.
ApplyDone == [type : {"RESP_CLIENT_APPLY"}, index : Nat, of : Entry]
QueryDone == [type : {"RESP_CLIENT_QUERY"}, to : Client,
              v : Value \cup {"0", "undefined"}]

Write == INSTANCE ThreadPool WITH
    Worker <- Writer, Task <- WriteTask,
    tasks <- wtasks, stop <- wstop, at <- wat, task <- wtask

Read == INSTANCE ThreadPool WITH
    Worker <- Reader, Task <- Query,
    tasks <- rtasks, stop <- rstop, at <- rat, task <- rtask

Thread == Writer \cup Reader

\* std::map: m[k] = v
Put(m, k, v) == [x \in {k} \cup DOMAIN m |-> IF x = k THEN v ELSE m[x]]

Init ==
    /\ state = "follower"
    /\ entries = << >>
    /\ socketAddr = << >>
    /\ commit_index = -1
    /\ applied_index = -1
    /\ io = "poll"
    /\ posted = << >>
    /\ Write!Start
    /\ Read!Start
    /\ store = << >>
    /\ raced = FALSE
    /\ result = [t \in Thread |-> << >>]
    /\ applied = << >>
    /\ asking = {}

-----------------------------------------------------------------------------
(* The io thread: the rest of the server. *)

\* client::apply_to_server
apply_to_server(c, k) == [key |-> k, v |-> c]

\* Not only a primary takes commands.
append_client_apply_to_entries(c, k) ==
    /\ io = "poll"
    /\ Len(entries) < MaxEntries
    /\ \A j \in DOMAIN entries : entries[j].v # c   \* bound: one of a client
    /\ entries' = Append(entries, apply_to_server(c, k))
    /\ socketAddr' = Put(socketAddr, Len(entries), c)
    /\ UNCHANGED <<state, controler, io, posted, write_pool, read_pool, machine,
                   asking>>

trans2P ==
    /\ io = "poll"
    /\ state' = "primary"
    /\ UNCHANGED <<entries, socketAddr, controler, io, posted, write_pool,
                   read_pool, machine, asking>>

\* The last entry that was ever committed; commit_index may have gone back.
handed_over == IF applied_index < commit_index THEN commit_index
                                               ELSE applied_index

\* An AE of another primary brings entry i and cuts off what is behind it.
\* The socket address of the old entry i is kept.
react2ae(i, k) ==
    /\ io = "poll"
    /\ i \in handed_over + 1 .. Len(entries)
    /\ i < MaxEntries
    /\ state' = "follower"
    /\ entries' = Append(SubSeq(entries, 1, i),
                         [key |-> k, v |-> "elsewhere"])
    /\ UNCHANGED <<socketAddr, controler, io, posted, write_pool, read_pool,
                   machine, asking>>

-----------------------------------------------------------------------------
(* The io thread: StateMachineControler. *)

\* primary_update_commit_index passes any index, of a new primary even one
\* below an earlier one; follower_update_commit_index only a greater one.
passes(new_index) ==
    /\ new_index \in -1 .. Len(entries) - 1
    /\ state = "primary" \/ commit_index < new_index

update_commit_index_and_apply(new_index) ==
    /\ io = "poll"
    /\ passes(new_index)
    /\ commit_index' = new_index
    /\ io' = IF applied_index < new_index THEN "apply" ELSE "poll"
    /\ UNCHANGED <<log, applied_index, posted, write_pool, read_pool, machine,
                   asking>>

\* Slip: the index is the member, not a copy, and has moved on.
apply_to_state_machine_by_reference ==
    /\ io = "apply"
    /\ Write!enqueue([index |-> commit_index,
                      entry |-> entries[applied_index + 2]])
    /\ io' = "notify_write"
    /\ UNCHANGED <<log, controler, posted, read_pool, machine, asking>>

\* One turn of the loop, up to the end of enqueue's critical section; the
\* command and the index are copied into the task.
apply_to_state_machine ==
    /\ io = "apply"
    /\ Write!enqueue([index |-> applied_index + 1,
                      entry |-> entries[applied_index + 2]])
    /\ io' = "notify_write"
    /\ UNCHANGED <<log, controler, posted, read_pool, machine, asking>>

\* The end of enqueue, of the turn and, after the last one, of the handler.
notify_write ==
    /\ io = "notify_write"
    /\ Write!notify_one
    /\ applied_index' = applied_index + 1
    /\ io' = IF applied_index' < commit_index THEN "apply" ELSE "poll"
    /\ UNCHANGED <<log, commit_index, posted, read_pool, machine, asking>>

\* client::query_from_server
query_from_server(c) ==
    /\ c \notin asking      \* bound: one query of a client at a time
    /\ asking' = asking \cup {c}

\* As in apply_to_state_machine, up to the end of enqueue's critical section.
get_from_state_machine(c, k) ==
    /\ io = "poll"
    /\ query_from_server(c)
    /\ Read!enqueue([to |-> c, key |-> k])
    /\ io' = "notify_read"
    /\ UNCHANGED <<log, controler, posted, write_pool, machine>>

notify_read ==
    /\ io = "notify_read"
    /\ Read!notify_one
    /\ io' = "poll"
    /\ UNCHANGED <<log, controler, posted, write_pool, machine, asking>>

-----------------------------------------------------------------------------
(* The io thread: the answers. *)

\* write_resp_apply_call: the address to which the answer goes, if any.
answered_client(r) ==
    IF state = "primary" /\ r.index \in DOMAIN socketAddr
    THEN {socketAddr[r.index]} ELSE {}

\* client::react_to_resp
react_to_resp(r) ==
    asking' = IF r.type = "RESP_CLIENT_QUERY" THEN asking \ {r.to}
                                              ELSE asking

\* write_resp_apply_call or write_resp_query_call, whichever was posted first.
write_resp_call ==
    /\ io = "poll"
    /\ posted # << >>
    /\ posted' = Tail(posted)
    /\ react_to_resp(Head(posted))
    /\ UNCHANGED <<log, controler, io, write_pool, read_pool, machine>>

-----------------------------------------------------------------------------
(* The io thread: a handler throws, main catches, and the members of the   *)
(* server and then of the controler are destroyed, the last one declared   *)
(* first.  What is posted, or posted later, is never run.                  *)

Running == {"poll", "apply", "notify_write", "notify_read"}

throw_line ==
    /\ io = "poll"
    /\ io' = "stop_read"
    /\ socketAddr' = << >>
    /\ posted' = << >>
    /\ UNCHANGED <<state, entries, controler, write_pool, read_pool, machine,
                   asking>>

destroy_read_pool ==
    /\ \/ io = "stop_read" /\ Read!set_stop /\ io' = "notify_all_read"
       \/ io = "notify_all_read" /\ Read!notify_all /\ io' = "join_read"
       \/ io = "join_read" /\ Read!joined /\ io' = "stop_write"
                           /\ UNCHANGED read_pool
    /\ UNCHANGED <<log, controler, posted, write_pool, machine, asking>>

destroy_write_pool ==
    /\ \/ io = "stop_write" /\ Write!set_stop /\ io' = "notify_all_write"
       \/ io = "notify_all_write" /\ Write!notify_all /\ io' = "join_write"
       \/ io = "join_write" /\ Write!joined /\ io' = "ended"
                            /\ UNCHANGED write_pool
    /\ UNCHANGED <<log, controler, posted, read_pool, machine, asking>>

-----------------------------------------------------------------------------
(* The threads of the pools. *)

task_of(t) == IF t \in Writer THEN wtask[t] ELSE rtask[t]

key_of(t) == IF t \in Writer THEN wtask[t][1].entry.key ELSE rtask[t][1].key

\* The thread is calling apply or get, and may be in the map: nothing locks it.
InMap(t) == task_of(t) # << >> /\ result[t] = << >>

\* Both apply and get use operator[], which adds a missing key.
Inserts(t) == key_of(t) \notin DOMAIN store

Race(t, u) == t # u /\ InMap(t) /\ InMap(u) /\ Inserts(t)

\* operator[] for key k, which finds or adds the key, and what it holds then.
\* If one thread uses the map while another adds a key, the map and all that
\* is read from it are undefined for good: no property tells apart what the
\* build makes of it.
Lookup(t, k, v) ==
    /\ raced' = (raced \/ \E u \in Thread : Race(t, u) \/ Race(u, t))
    /\ store' = IF raced' THEN << >> ELSE Put(store, k, v)

Returns(t, r) == result' = [result EXCEPT ![t] = <<r>>]

\* Slip: map.insert, which leaves the value of a present key as it is.
apply_inserts(t) ==
    /\ t \in Writer
    /\ InMap(t)
    /\ LET e == wtask[t][1].entry
       IN  /\ Lookup(t, e.key, IF Inserts(t) THEN e.v ELSE store[e.key])
           /\ applied' = Append(applied, e)
           /\ Returns(t, [type |-> "RESP_CLIENT_APPLY",
                          index |-> wtask[t][1].index, of |-> e])
    /\ UNCHANGED <<log, controler, io, posted, write_pool, read_pool, asking>>

\* EasyStateMachine::apply
apply(t) ==
    /\ t \in Writer
    /\ InMap(t)
    /\ LET e == wtask[t][1].entry
       IN  /\ Lookup(t, e.key, e.v)
           /\ applied' = Append(applied, e)
           /\ Returns(t, [type |-> "RESP_CLIENT_APPLY",
                          index |-> wtask[t][1].index, of |-> e])
    /\ UNCHANGED <<log, controler, io, posted, write_pool, read_pool, asking>>

\* EasyStateMachine::get: a missing key is added with the value 0.
get(t) ==
    /\ t \in Reader
    /\ InMap(t)
    /\ LET q == rtask[t][1]
           v == IF Inserts(t) THEN "0" ELSE store[q.key]
       IN  /\ Lookup(t, q.key, v)
           /\ Returns(t, [type |-> "RESP_CLIENT_QUERY", to |-> q.to,
                          v |-> IF raced' THEN "undefined" ELSE v])
    /\ UNCHANGED <<log, controler, io, posted, write_pool, read_pool, applied,
                   asking>>

\* io_service_.post, and task() returns.
post(t) ==
    /\ result[t] # << >>
    /\ posted' = IF io \in Running THEN posted \o result[t] ELSE posted
    /\ result' = [result EXCEPT ![t] = << >>]
    /\ \/ t \in Writer /\ Write!end_task(t) /\ UNCHANGED read_pool
       \/ t \in Reader /\ Read!end_task(t) /\ UNCHANGED write_pool
    /\ UNCHANGED <<log, controler, io, store, raced, applied, asking>>

write_worker(t) ==
    /\ Write!take(t) \/ Write!wait(t) \/ Write!return(t)
    /\ UNCHANGED <<log, controler, io, posted, read_pool, machine, asking>>

read_worker(t) ==
    /\ Read!take(t) \/ Read!wait(t) \/ Read!return(t)
    /\ UNCHANGED <<log, controler, io, posted, write_pool, machine, asking>>

spurious_wakeup ==
    /\ \/ \E t \in Writer : Write!wake(t) /\ UNCHANGED read_pool
       \/ \E t \in Reader : Read!wake(t) /\ UNCHANGED write_pool
    /\ UNCHANGED <<log, controler, io, posted, machine, asking>>

-----------------------------------------------------------------------------

\* What the io thread does without anybody's asking.
IoThread ==
    \/ apply_to_state_machine \/ notify_write
    \/ notify_read
    \/ write_resp_call
    \/ destroy_read_pool \/ destroy_write_pool

Worker(t) ==
    \/ t \in Writer /\ write_worker(t)
    \/ t \in Reader /\ read_worker(t)
    \/ apply(t) \/ get(t) \/ post(t)

Environment ==
    \/ \E c \in Client, k \in Key : append_client_apply_to_entries(c, k)
    \/ trans2P
    \/ \E i \in 0 .. MaxEntries - 1, k \in Key : react2ae(i, k)
    \/ \E n \in -1 .. MaxEntries - 1 : update_commit_index_and_apply(n)
    \/ \E c \in Asker, k \in Key : get_from_state_machine(c, k)
    \/ throw_line

Next == IoThread \/ (\E t \in Thread : Worker(t)) \/ Environment
        \/ spurious_wakeup

\* The operating system runs every thread that is not blocked, and the
\* io_service runs its handlers first in, first out.  No fairness is assumed
\* of spurious wakeups, nor of clients, other servers and exceptions.
Spec ==
    /\ Init
    /\ [][Next]_vars
    /\ WF_vars(IoThread)
    /\ \A t \in Thread : WF_vars(Worker(t))

-----------------------------------------------------------------------------
(* Properties. *)

\* Every variable holds a value of its declared type.
TypeOK ==
    /\ state \in {"follower", "primary"}
    /\ entries \in Seq(Entry)
    /\ commit_index \in -1 .. Len(entries) - 1
    /\ applied_index \in -1 .. Len(entries) - 1
    /\ posted \in Seq(ApplyDone \cup QueryDone)
    /\ Write!TypeOK
    /\ Read!TypeOK
    /\ store \in UNION {[ks -> Value \cup {"0"}] : ks \in SUBSET Key}
    /\ raced \in BOOLEAN
    /\ result \in [Thread -> Seq(ApplyDone \cup QueryDone)]
    /\ asking \in SUBSET Asker

\* Each committed entry is applied to the state machine, once and in the
\* order of the log, although the commit index of a new primary may go back,
\* and although the write pool may be busy, waiting or being destroyed.
Log == INSTANCE CommandLog WITH
    committed <- SubSeq(entries, 1, handed_over + 1)

AppliesInOrder == Log!Spec

\* A query is answered with the value that the last applied entry of its key
\* stored, and with 0 if there is none: as of the moment the thread of the
\* read pool gets to it, and so never with one older than an apply that was
\* answered before the query came.  Only after a race (RaceFree) is it not.
QueryFresh ==
    [][\A t \in Reader : get(t) /\ ~raced' =>
          LET sets == {j \in DOMAIN applied :
                          applied[j].key = rtask[t][1].key}
          IN  result'[t][1].v = IF sets = {} THEN "0"
                                             ELSE applied[Max(sets)].v]_vars

\* A client is told that a command was applied only if the command was its
\* own, or came with the AE of another primary that took the client's place
\* in the log.
ToldOfOwnCommand ==
    [][write_resp_call /\ Head(posted).type = "RESP_CLIENT_APPLY" =>
          \A c \in answered_client(Head(posted)) :
              Head(posted).of.v \in {c, "elsewhere"}]_vars

\* No thread looks a key up in the map while another adds one.
\* StateMachineControler.h:40 says that the read pool supports queries from
\* several threads.
RaceFree == \A t, u \in Thread : ~Race(t, u)

\* A query that reached the server is answered, or the server ends: no task
\* waits forever beside threads that wait to be notified.
QueryAnswered ==
    \A c \in Asker : c \in asking ~> c \notin asking \/ io = "ended"

\* Destroying the controler ends: both pools finish their queues and every
\* thread is joined.
ShutdownEnds == io = "stop_read" ~> io = "ended"

=============================================================================
