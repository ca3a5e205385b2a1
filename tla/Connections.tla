----------------------------- MODULE Connections -----------------------------
(***************************************************************************)
(* The messages one process (the caller) sends to another (the callee)     *)
(* with RPC::make_rpc_call (rpc.cpp), over connections (connection.cpp)    *)
(* that the caller opens whenever its connection_map_ holds none, and that *)
(* the callee accepts and reads.                                           *)
(*                                                                         *)
(* A message is a number.  Its frame is a cell for the header of four      *)
(* bytes and Width cells for the body.  Both processes run their handlers  *)
(* on one io thread; the callee's reads are modelled down to the           *)
(* operations asio queues, because two of them are in flight at once.      *)
(***************************************************************************)
EXTENDS Naturals, Sequences, SequencesExt

CONSTANTS
    Conn,           \* connections, in the order of their being opened: 1 .. n
    Width,          \* cells in the body of a frame
    Split,          \* may part of a body arrive before the rest of it?
    MaxMsg,         \* bound: messages in a behaviour
    MaxRestarts     \* bound: times the callee is killed and started again

ASSUME ConnectionsAssumption ==
    /\ Conn \subseteq Nat \ {0}
    /\ Width \in Nat \ {0}
    /\ Split \in BOOLEAN
    /\ MaxMsg \in Nat /\ MaxRestarts \in Nat

VARIABLES
    \* the caller
    up,             \* is the caller running?
    sent,           \* number of messages so far
    near,           \* the caller's end of each connection
    first,          \* the message that waits for the connection to be made
    held,           \* connection_map_ at the callee's address, or 0
    failed,         \* connections with a failed write, its handler queued
    \* TCP
    wire,           \* cells on their way
    \* the callee
    thrown,         \* has an exception ended the callee?
    restarts,       \* how often it was killed and started
    far,            \* the callee's end of each connection
    accepted,       \* the callee's connection_map_
    inbox,          \* cells that arrived and were not read
    header, data,   \* header_ and data_
    ops,            \* read operations started on each socket, first the oldest
    done,           \* completed operations whose handlers are queued
    received        \* history: the messages given to process_msg

caller == <<up, sent, near, first, held, failed>>
callee == <<thrown, restarts, far, accepted, inbox, header, data, ops, done,
            received>>
vars == <<caller, wire, callee>>

Cell == (0 .. MaxMsg) \X (0 .. Width)
Blank == <<0, 0>>

\* RPC::msg_encode
Frame(m) == [i \in 1 .. Width + 1 |-> <<m, i - 1>>]
Body(m) == [i \in 1 .. Width |-> <<m, i>>]

\* Operations of asio: a read of need cells of which have are there, for the
\* buffer header_ or data_.  error says how a completed one ended.
Op == {op \in [buf : {"header", "data"}, have : 0 .. Width, need : 0 .. Width] :
            op.have <= op.need}
Done == [conn : Conn, op : Op, error : BOOLEAN]
ReadHeader == [buf |-> "header", have |-> 0, need |-> 1]

Init ==
    /\ up = TRUE
    /\ sent = 0
    /\ near = [c \in Conn |-> "none"]
    /\ first = [c \in Conn |-> 0]
    /\ held = 0
    /\ failed = {}
    /\ wire = [c \in Conn |-> << >>]
    /\ thrown = FALSE
    /\ restarts = 0
    /\ far = [c \in Conn |-> "none"]
    /\ accepted = {}
    /\ inbox = [c \in Conn |-> << >>]
    /\ header = [c \in Conn |-> Blank]
    /\ data = [c \in Conn |-> [i \in 1 .. Width |-> Blank]]
    /\ ops = [c \in Conn |-> << >>]
    /\ done = << >>
    /\ received = << >>

-----------------------------------------------------------------------------
(* The caller. *)

\* RPC::get, RPC::insert and RPC::remove for the callee's address.  remove
\* does not look which connection it takes away.
get == held
insert(c) == held' = c
remove == held' = 0

\* connection::deliver.  The write fails if the other end is closed, or goes
\* into the send buffer and is lost.
deliver(c, m) ==
    \/ /\ far[c] # "closed"
       /\ wire' = [wire EXCEPT ![c] = @ \o Frame(m)]
       /\ UNCHANGED failed
    \/ /\ far[c] = "closed"
       /\ failed' \in {failed, failed \cup {c}}
       /\ UNCHANGED wire

\* Over the connection in the map, or over a new one.
make_rpc_call ==
    LET m == sent + 1
    IN  /\ up
        /\ sent < MaxMsg
        /\ sent' = m
        /\ \/ /\ get # 0
              /\ deliver(get, m)
              /\ UNCHANGED <<near, first>>
           \/ /\ get = 0
              /\ \E c \in Conn :
                    /\ near[c] = "none"
                    /\ \A d \in Conn : d < c => near[d] # "none"
                    /\ near' = [near EXCEPT ![c] = "connecting"]
                    /\ first' = [first EXCEPT ![c] = m]
              /\ UNCHANGED <<failed, wire>>
        /\ UNCHANGED <<up, held, callee>>

\* The handler of async_connect: read, insert into the map, deliver.
connected(c) ==
    /\ up
    /\ near[c] = "connecting" /\ far[c] # "none"
    /\ near' = [near EXCEPT ![c] = "open"]
    /\ insert(c)
    /\ deliver(c, first[c])
    /\ UNCHANGED <<up, sent, first, callee>>

\* ... with an error, which is logged: the message is lost.
connect_failed(c) ==
    /\ up
    /\ near[c] = "connecting" /\ far[c] = "none"
    /\ near' = [near EXCEPT ![c] = "closed"]
    /\ UNCHANGED <<up, sent, first, held, failed, wire, callee>>

\* Slip: the error is logged and nothing else.
caller_read_body_logs(c) ==
    /\ up
    /\ near[c] = "open" /\ far[c] = "closed"
    /\ near' = [near EXCEPT ![c] = "closed"]
    /\ UNCHANGED <<up, sent, first, held, failed, wire, callee>>

\* The caller's read_body: the other end is closed.
caller_read_body(c) ==
    /\ up
    /\ near[c] = "open" /\ far[c] = "closed"
    /\ near' = [near EXCEPT ![c] = "closed"]
    /\ remove
    /\ UNCHANGED <<up, sent, first, failed, wire, callee>>

\* The process ends, and all it held with it.
end_caller ==
    /\ up' = FALSE
    /\ near' = [c \in Conn |-> "closed"]
    /\ first' = [c \in Conn |-> 0]
    /\ held' = 0
    /\ failed' = {}

\* The handler of a failed write.  It uses the connection it belongs to, of
\* which nothing may be left by then: the key it removes is then anything, or
\* the process ends.
deliver_failed(c) ==
    /\ up
    /\ c \in failed
    /\ \/ remove /\ failed' = failed \ {c} /\ UNCHANGED <<up, near, first>>
       \/ /\ near[c] = "closed" /\ held # c
          /\ \/ failed' = failed \ {c} /\ UNCHANGED <<up, near, first, held>>
             \/ end_caller
    /\ UNCHANGED <<sent, wire, callee>>

\* The process is killed.  What it wrote may still arrive, or be lost.
kill_caller ==
    /\ up
    /\ end_caller
    /\ UNCHANGED <<sent, wire, callee>>

-----------------------------------------------------------------------------
(* TCP. *)

\* The callee listens: its kernel completes the connection.
establish(c) ==
    /\ ~thrown
    /\ near[c] = "connecting" /\ far[c] = "none"
    /\ far' = [far EXCEPT ![c] = "backlog"]
    /\ UNCHANGED <<caller, wire, thrown, restarts, accepted, inbox, header,
                   data, ops, done, received>>

\* Some of what was written arrives, in order.
arrive(c) ==
    /\ far[c] \in {"backlog", "open"}
    /\ \E n \in 1 .. Len(wire[c]) :
          /\ Split \/ wire[c][n][2] \in {0, Width}
          /\ inbox' = [inbox EXCEPT ![c] = @ \o SubSeq(wire[c], 1, n)]
          /\ wire' = [wire EXCEPT ![c] = SubSeq(@, n + 1, Len(@))]
    /\ UNCHANGED <<caller, thrown, restarts, far, accepted, header, data, ops,
                   done, received>>

\* What is left of a dead caller's writes never arrives: its host went down
\* too, or reset the connection.
lost(c) ==
    /\ near[c] = "closed"
    /\ wire[c] # << >>
    /\ wire' = [wire EXCEPT ![c] = << >>]
    /\ UNCHANGED <<caller, callee>>

-----------------------------------------------------------------------------
(* The callee. *)

\* startAccept's handler and connection::start.
start(c) ==
    /\ ~thrown
    /\ far[c] = "backlog"
    /\ far' = [far EXCEPT ![c] = "open"]
    /\ accepted' = accepted \cup {c}
    /\ ops' = [ops EXCEPT ![c] = <<ReadHeader>>]
    /\ UNCHANGED <<caller, wire, thrown, restarts, inbox, header, data, done,
                   received>>

Complete(c, op, error) ==
    done' = Append(done, [conn |-> c, op |-> op, error |-> error])

\* asio serves the oldest read of a socket with what there is.  A read that
\* got only part is continued by a handler of its own.
perform(c) ==
    /\ ~thrown
    /\ ops[c] # << >> /\ inbox[c] # << >>
    /\ LET op == Head(ops[c])
           n == IF Len(inbox[c]) < op.need - op.have THEN Len(inbox[c])
                                                     ELSE op.need - op.have
       IN  /\ IF op.buf = "header"
              THEN /\ header' = [header EXCEPT ![c] = inbox[c][1]]
                   /\ UNCHANGED data
              ELSE /\ data' = [data EXCEPT ![c] = [i \in 1 .. Width |->
                        IF i \in op.have + 1 .. op.have + n
                        THEN inbox[c][i - op.have] ELSE @[i]]]
                   /\ UNCHANGED header
           /\ inbox' = [inbox EXCEPT ![c] = SubSeq(@, n + 1, Len(@))]
           /\ Complete(c, [op EXCEPT !.have = @ + n], FALSE)
    /\ ops' = [ops EXCEPT ![c] = Tail(@)]
    /\ UNCHANGED <<caller, wire, thrown, restarts, far, accepted, received>>

\* The other end is closed and nothing is left to read.
perform_eof(c) ==
    /\ ~thrown
    /\ ops[c] # << >> /\ inbox[c] = << >> /\ wire[c] = << >>
    /\ near[c] = "closed"
    /\ Complete(c, Head(ops[c]), TRUE)
    /\ ops' = [ops EXCEPT ![c] = Tail(@)]
    /\ UNCHANGED <<caller, wire, thrown, restarts, far, accepted, inbox, header,
                   data, received>>

\* Slip: the next header is asked for before the body.
body_reads_swapped(c, n) ==
    <<ReadHeader, [buf |-> "data", have |-> 0, need |-> n]>>

\* The reads read_body starts: the body, and at once the next header.
body_reads(c, n) ==
    <<[buf |-> "data", have |-> 0, need |-> n], ReadHeader>>

\* Slip: the length counts the header as well.
msg_len_of_frame(c) == {Width + 1}

\* atoi(header_), where four bytes of something else give any number.
msg_len(c) ==
    IF header[c][1] # 0 /\ header[c][2] = 0 THEN {Width} ELSE 0 .. Width

\* Slip: the callee throws, as it once did.
read_body_failed_throws(c) == thrown' = TRUE /\ UNCHANGED accepted

\* read_body with an error.
read_body_failed(c) == accepted' = accepted \ {c} /\ UNCHANGED thrown

\* connection::read_body.  A read of nothing completes at once.
read_body(c, error) ==
    \/ /\ error
       /\ read_body_failed(c)
       /\ done' = Tail(done)
       /\ UNCHANGED ops
    \/ /\ ~error
       /\ \E n \in msg_len(c) :
             IF n > 0
             THEN /\ ops' = [ops EXCEPT ![c] = @ \o body_reads(c, n)]
                  /\ done' = Tail(done)
             ELSE /\ ops' = [ops EXCEPT ![c] = Append(@, ReadHeader)]
                  /\ done' = Append(Tail(done), [conn |-> c, error |-> FALSE,
                        op |-> [buf |-> "data", have |-> 0, need |-> 0]])
       /\ UNCHANGED <<accepted, thrown>>

\* RPC::process_msg: the message is what is in data_ by now, and 0 stands for
\* anything but a message that was encoded.
process_msg(c, len) ==
    LET m == data[c][1][1]
    IN  IF len = Width /\ data[c] = Body(m) THEN m ELSE 0

\* connection::body_callback.  A message without even a type throws too, from
\* the string of length -1.
body_callback(c, op, error) ==
    /\ IF error \/ op.need = 0
       THEN thrown' = TRUE /\ UNCHANGED received
       ELSE /\ received' = Append(received, process_msg(c, op.need))
            /\ UNCHANGED thrown
    /\ done' = Tail(done)
    /\ UNCHANGED <<accepted, ops>>

\* async_read asks for the rest, behind the reads that were started since.
read_on(c, op) ==
    /\ ops' = [ops EXCEPT ![c] = Append(@, op)]
    /\ done' = Tail(done)
    /\ UNCHANGED <<accepted, thrown, received>>

\* The handler that was queued first runs.
handle ==
    /\ ~thrown
    /\ done # << >>
    /\ LET d == Head(done)
       IN  IF ~d.error /\ d.op.have < d.op.need
           THEN read_on(d.conn, d.op)
           ELSE IF d.op.buf = "header"
           THEN read_body(d.conn, d.error) /\ UNCHANGED received
           ELSE body_callback(d.conn, d.op, d.error)
    /\ UNCHANGED <<caller, wire, restarts, far, inbox, header, data>>

\* The callee is killed, if it still runs, and started again.
restart_callee ==
    /\ restarts < MaxRestarts
    /\ restarts' = restarts + 1
    /\ thrown' = FALSE
    /\ far' = [c \in Conn |-> IF far[c] = "none" THEN "none" ELSE "closed"]
    /\ accepted' = {}
    /\ wire' = [c \in Conn |-> << >>]
    /\ inbox' = [c \in Conn |-> << >>]
    /\ header' = [c \in Conn |-> Blank]
    /\ data' = [c \in Conn |-> [i \in 1 .. Width |-> Blank]]
    /\ ops' = [c \in Conn |-> << >>]
    /\ done' = << >>
    /\ UNCHANGED <<caller, received>>

-----------------------------------------------------------------------------

Io(c) ==
    \/ connected(c) \/ caller_read_body(c) \/ deliver_failed(c)
    \/ establish(c) \/ arrive(c)
    \/ start(c) \/ perform(c) \/ perform_eof(c)

Next ==
    \/ \E c \in Conn : Io(c) \/ connect_failed(c) \/ lost(c)
    \/ handle
    \/ make_rpc_call
    \/ kill_caller
    \/ restart_callee

\* The kernels deliver what is written and report what is closed, and asio
\* serves every socket and runs every queued handler.  Nothing has to be sent,
\* killed or started again.
Spec ==
    /\ Init
    /\ [][Next]_vars
    /\ \A c \in Conn : WF_vars(Io(c))
    /\ WF_vars(handle)

-----------------------------------------------------------------------------
(* Properties. *)

\* Every variable holds a value of its declared type.
TypeOK ==
    /\ up \in BOOLEAN
    /\ sent \in 0 .. MaxMsg
    /\ near \in [Conn -> {"none", "connecting", "open", "closed"}]
    /\ first \in [Conn -> 0 .. MaxMsg]
    /\ held \in Conn \cup {0}
    /\ failed \in SUBSET Conn
    /\ wire \in [Conn -> Seq(Cell)]
    /\ thrown \in BOOLEAN
    /\ restarts \in 0 .. MaxRestarts
    /\ far \in [Conn -> {"none", "backlog", "open", "closed"}]
    /\ accepted \in SUBSET Conn
    /\ inbox \in [Conn -> Seq(Cell)]
    /\ header \in [Conn -> Cell]
    /\ data \in [Conn -> [1 .. Width -> Cell]]
    /\ ops \in [Conn -> Seq(Op)]
    /\ done \in Seq(Done)
    /\ received \in Seq(0 .. MaxMsg)

\* What is received was sent, is what was sent, and is received once:
\* although header_ and data_ are filled by reads that are in flight
\* together, connections are opened side by side and either process dies.
\* RaftServer's net rests on this.
Net == INSTANCE Network WITH sent <- 1 .. sent

DeliversMessages == Net!Spec

\* A process that ends because one that sent it messages ended (the throw of
\* body_callback, whose comment says that this has to be handled yet) was
\* reading a message of which only the header ever came.  A caller that ends
\* between two messages, or after the whole of one, does not take it along.
EndsOnlyWithinMessage ==
    thrown =>
        /\ ~up
        /\ \E c \in Conn : /\ header[c][1] # 0
                            /\ header[c][1] \notin Range(received)

\* A connection the other end has closed does not stay in a map, where it
\* would swallow every message: neither at the caller nor at the callee.
ClosedIsRemoved ==
    \A c \in Conn :
        /\ held = c /\ far[c] = "closed" ~> held # c \/ ~up
        /\ c \in accepted /\ near[c] = "closed" ~> c \notin accepted \/ thrown

=============================================================================
