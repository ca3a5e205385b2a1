-------------------------- MODULE ConnectionsProofs --------------------------
(***************************************************************************)
(* What Connections promises, proved for any number of connections,        *)
(* messages and restarts and for bodies of any length: every variable      *)
(* keeps its type however the cells arrive, and where the body of a frame  *)
(* arrives whole or not at all, the messages are delivered as Network says *)
(* and a caller that ends takes the callee along only within a message.    *)
(***************************************************************************)
EXTENDS Connections, SequenceTheorems, TLAPS

-----------------------------------------------------------------------------
(* Types. *)

LEMMA FrameType ==
    ASSUME NEW m \in 0 .. MaxMsg
    PROVE  /\ Frame(m) \in Seq(Cell)
           /\ Len(Frame(m)) = Width + 1
           /\ \A i \in 1 .. Width + 1 : Frame(m)[i] = <<m, i - 1>>
<1>1. Width \in Nat /\ Width + 1 \in Nat
  BY ConnectionsAssumption
<1>2. \A i \in 1 .. Width + 1 : <<m, i - 1>> \in Cell
  BY <1>1 DEF Cell
<1>3. Frame(m) \in [1 .. Width + 1 -> Cell]
  BY <1>2 DEF Frame
<1>4. QED
  BY <1>1, <1>3, SeqDef, LenProperties DEF Frame

LEMMA DeliverType ==
    ASSUME TypeOK, NEW c \in Conn, NEW m \in 0 .. MaxMsg, deliver(c, m)
    PROVE  wire' \in [Conn -> Seq(Cell)] /\ failed' \in SUBSET Conn
<1>1. CASE far[c] # "closed"
  <2>1. wire[c] \o Frame(m) \in Seq(Cell)
    BY FrameType, ConcatProperties DEF TypeOK
  <2>2. QED
    BY <1>1, <2>1 DEF deliver, TypeOK
<1>2. CASE far[c] = "closed"
  BY <1>2 DEF deliver, TypeOK
<1>3. QED
  BY <1>1, <1>2

LEMMA EndCallerType ==
    ASSUME end_caller
    PROVE  /\ up' \in BOOLEAN
           /\ held' \in Conn \cup {0} /\ failed' \in SUBSET Conn
           /\ near' \in [Conn -> {"none", "connecting", "open", "closed"}]
           /\ first' \in [Conn -> 0 .. MaxMsg]
<1>1. 0 \in 0 .. MaxMsg
  BY ConnectionsAssumption
<1>2. first' \in [Conn -> 0 .. MaxMsg]
  BY <1>1 DEF end_caller
<1>3. near' \in [Conn -> {"none", "connecting", "open", "closed"}]
  BY DEF end_caller
<1>4. up' \in BOOLEAN /\ held' \in Conn \cup {0} /\ failed' \in SUBSET Conn
  BY DEF end_caller
<1>5. QED
  BY <1>2, <1>3, <1>4

LEMMA ReadHeaderType == ReadHeader \in Op
BY ConnectionsAssumption DEF ReadHeader, Op

LEMMA PerformType ==
    ASSUME TypeOK, NEW c \in Conn, perform(c)
    PROVE  TypeOK'
<1> DEFINE op == Head(ops[c])
           n == IF Len(inbox[c]) < op.need - op.have THEN Len(inbox[c])
                                                     ELSE op.need - op.have
           d == [i \in 1 .. Width |->
                   IF i \in op.have + 1 .. op.have + n
                   THEN inbox[c][i - op.have] ELSE data[c][i]]
<1>1. /\ ops[c] \in Seq(Op) /\ ops[c] # << >>
      /\ inbox[c] \in Seq(Cell) /\ inbox[c] # << >>
      /\ data[c] \in [1 .. Width -> Cell]
  BY DEF perform, TypeOK
<1>2. op \in Op /\ Tail(ops[c]) \in Seq(Op)
  BY <1>1
<1>3. /\ op.buf \in {"header", "data"} /\ op.have \in Nat /\ op.need \in Nat
      /\ op.have <= op.need /\ op.need <= Width
      /\ op = [buf |-> op.buf, have |-> op.have, need |-> op.need]
  BY <1>2, ConnectionsAssumption DEF Op
<1>4. Len(inbox[c]) \in Nat /\ Len(inbox[c]) > 0
  BY <1>1
<1>5. /\ n \in Nat /\ n <= Len(inbox[c]) /\ op.have + n <= op.need
  BY <1>3, <1>4
<1> HIDE DEF op, n
<1>6. inbox[c][1] \in Cell
  BY <1>1, <1>4
<1>7. \A i \in 1 .. Width : d[i] \in Cell
  <2> SUFFICES ASSUME NEW i \in 1 .. Width
               PROVE  (IF i \in op.have + 1 .. op.have + n
                       THEN inbox[c][i - op.have] ELSE data[c][i]) \in Cell
    OBVIOUS
  <2>1. CASE i \in op.have + 1 .. op.have + n
    <3>1. i - op.have \in 1 .. Len(inbox[c])
      BY <1>3, <1>4, <1>5, <2>1, ConnectionsAssumption
    <3>2. QED
      BY <3>1, <2>1, <1>1
  <2>2. CASE i \notin op.have + 1 .. op.have + n
    BY <2>2, <1>1
  <2>3. QED
    BY <2>1, <2>2
<1>8. d \in [1 .. Width -> Cell]
  BY <1>7
<1> HIDE DEF d
<1>9. SubSeq(inbox[c], n + 1, Len(inbox[c])) \in Seq(Cell)
  BY <1>1, <1>4, <1>5, SubSeqProperties
<1>10. [op EXCEPT !.have = @ + n] \in Op
  BY <1>3, <1>5, ConnectionsAssumption DEF Op
<1>11. [conn |-> c, op |-> [op EXCEPT !.have = @ + n], error |-> FALSE] \in Done
  BY <1>10 DEF Done
<1>12. /\ header' \in [Conn -> Cell]
       /\ data' \in [Conn -> [1 .. Width -> Cell]]
  <2>1. CASE op.buf = "header"
    <3>1. header' = [header EXCEPT ![c] = inbox[c][1]] /\ data' = data
      BY <2>1 DEF perform, op
    <3>2. QED
      BY <3>1, <1>6 DEF TypeOK
  <2>2. CASE op.buf # "header"
    <3>1. data' = [data EXCEPT ![c] = d] /\ header' = header
      BY <2>2 DEF perform, op, n, d
    <3>2. QED
      BY <3>1, <1>8 DEF TypeOK
  <2>3. QED
    BY <2>1, <2>2
<1>13. /\ inbox' = [inbox EXCEPT ![c] = SubSeq(inbox[c], n + 1, Len(inbox[c]))]
       /\ done' = Append(done, [conn |-> c, op |-> [op EXCEPT !.have = @ + n],
                                error |-> FALSE])
       /\ ops' = [ops EXCEPT ![c] = Tail(@)]
       /\ UNCHANGED <<caller, wire, thrown, restarts, far, accepted, received>>
  BY DEF perform, op, n, Complete
<1>14. inbox' \in [Conn -> Seq(Cell)] /\ done' \in Seq(Done) /\ ops' \in [Conn -> Seq(Op)]
  BY <1>13, <1>9, <1>11, <1>2, AppendProperties DEF TypeOK
<1>15. QED
  BY <1>12, <1>13, <1>14 DEF TypeOK, caller

\* What read_body queues for a body of n cells.
LEMMA BodyReadsType ==
    ASSUME NEW c, NEW n \in 0 .. Width
    PROVE  body_reads(c, n) \in Seq(Op)
<1>1. [buf |-> "data", have |-> 0, need |-> n] \in Op
  BY ConnectionsAssumption DEF Op
<1>2. QED
  BY <1>1, ReadHeaderType DEF body_reads

LEMMA HandleType ==
    ASSUME TypeOK, handle
    PROVE  TypeOK'
<1> DEFINE d == Head(done)
<1>1. done \in Seq(Done) /\ done # << >>
  BY DEF handle, TypeOK
<1>2. d \in Done /\ Tail(done) \in Seq(Done)
  BY <1>1
<1>3. d.conn \in Conn /\ d.op \in Op /\ d.error \in BOOLEAN
  BY <1>2 DEF Done
<1>4. UNCHANGED <<caller, wire, restarts, far, inbox, header, data>>
  BY DEF handle
<1>5. ops[d.conn] \in Seq(Op)
  BY <1>3 DEF TypeOK
<1>6. CASE ~d.error /\ d.op.have < d.op.need
  <2>1. read_on(d.conn, d.op)
    BY <1>6 DEF handle
  <2>2. Append(ops[d.conn], d.op) \in Seq(Op)
    BY <1>3, <1>5, AppendProperties
  <2> HIDE DEF d
  <2>3. ops' \in [Conn -> Seq(Op)]
    BY <2>1, <2>2 DEF read_on, TypeOK
  <2>4. QED
    BY <1>2, <1>4, <2>1, <2>3 DEF read_on, TypeOK, caller
<1>7. CASE ~(~d.error /\ d.op.have < d.op.need) /\ d.op.buf = "header"
  <2>1. read_body(d.conn, d.error) /\ UNCHANGED received
    BY <1>7 DEF handle
  <2> HIDE DEF d
  <2>2. CASE d.error
    BY <1>2, <1>4, <2>1, <2>2 DEF read_body, read_body_failed, TypeOK, caller
  <2>3. CASE ~d.error
    <3>1. PICK n \in msg_len(d.conn) :
             IF n > 0
             THEN /\ ops' = [ops EXCEPT ![d.conn] = @ \o body_reads(d.conn, n)]
                  /\ done' = Tail(done)
             ELSE /\ ops' = [ops EXCEPT ![d.conn] = Append(@, ReadHeader)]
                  /\ done' = Append(Tail(done), [conn |-> d.conn, error |-> FALSE,
                        op |-> [buf |-> "data", have |-> 0, need |-> 0]])
      BY <2>1, <2>3 DEF read_body
    <3>2. n \in 0 .. Width
      BY <3>1, ConnectionsAssumption DEF msg_len
    <3>3. ops[d.conn] \o body_reads(d.conn, n) \in Seq(Op)
      BY <1>5, <3>2, BodyReadsType, ConcatProperties
    <3>4. Append(ops[d.conn], ReadHeader) \in Seq(Op)
      BY <1>5, ReadHeaderType, AppendProperties
    <3>5. [conn |-> d.conn, error |-> FALSE,
           op |-> [buf |-> "data", have |-> 0, need |-> 0]] \in Done
      BY <1>3, ConnectionsAssumption DEF Done, Op
    <3>6. ops' \in [Conn -> Seq(Op)]
      BY <3>1, <3>3, <3>4 DEF TypeOK
    <3>7. done' \in Seq(Done)
      <4>1. Append(Tail(done), [conn |-> d.conn, error |-> FALSE,
               op |-> [buf |-> "data", have |-> 0, need |-> 0]]) \in Seq(Done)
        BY <1>2, <3>5, AppendProperties
      <4>2. QED
        BY <1>2, <3>1, <4>1
    <3>8. UNCHANGED <<accepted, thrown>>
      BY <2>1, <2>3 DEF read_body
    <3>9. QED
      BY <1>4, <2>1, <3>6, <3>7, <3>8 DEF TypeOK, caller
  <2>4. QED
    BY <2>2, <2>3
<1>8. CASE ~(~d.error /\ d.op.have < d.op.need) /\ d.op.buf # "header"
  <2>1. body_callback(d.conn, d.op, d.error)
    BY <1>8 DEF handle
  <2> HIDE DEF d
  <2>2. data[d.conn] \in [1 .. Width -> Cell] /\ 1 \in 1 .. Width
    <3>1. 1 \in 1 .. Width
      BY ConnectionsAssumption
    <3>2. QED
      BY <1>3, <3>1 DEF TypeOK
  <2>3. process_msg(d.conn, d.op.need) \in 0 .. MaxMsg
    <3>1. data[d.conn][1] \in (0 .. MaxMsg) \X (0 .. Width)
      BY <2>2 DEF Cell
    <3>2. data[d.conn][1][1] \in 0 .. MaxMsg /\ 0 \in 0 .. MaxMsg
      BY <3>1, ConnectionsAssumption
    <3>3. QED
      BY <3>2 DEF process_msg
  <2>4. received' \in Seq(0 .. MaxMsg) /\ thrown' \in BOOLEAN
    <3>1. Append(received, process_msg(d.conn, d.op.need)) \in Seq(0 .. MaxMsg)
      BY <2>3, AppendProperties DEF TypeOK
    <3>2. QED
      BY <2>1, <3>1 DEF body_callback, TypeOK
  <2>5. QED
    BY <1>2, <1>4, <2>1, <2>4 DEF body_callback, TypeOK, caller
<1>9. QED
  BY <1>6, <1>7, <1>8

LEMMA TypeStep ==
    ASSUME TypeOK, [Next]_vars
    PROVE  TypeOK'
<1>1. ASSUME NEW c \in Conn, connected(c)
      PROVE  TypeOK'
  <2>1. first[c] \in 0 .. MaxMsg
    BY DEF TypeOK
  <2>2. wire' \in [Conn -> Seq(Cell)] /\ failed' \in SUBSET Conn
    BY <1>1, <2>1, DeliverType DEF connected
  <2>3. QED
    BY <1>1, <2>2 DEF connected, insert, TypeOK, callee
<1>2. ASSUME NEW c \in Conn, caller_read_body(c)
      PROVE  TypeOK'
  BY <1>2 DEF caller_read_body, remove, TypeOK, callee
<1>3. ASSUME NEW c \in Conn, deliver_failed(c)
      PROVE  TypeOK'
  <2>1. CASE end_caller
    BY <1>3, <2>1, EndCallerType DEF deliver_failed, TypeOK, callee
  <2>2. CASE ~end_caller
    BY <1>3, <2>2 DEF deliver_failed, remove, TypeOK, callee
  <2>3. QED
    BY <2>1, <2>2
<1>4. ASSUME NEW c \in Conn, establish(c)
      PROVE  TypeOK'
  BY <1>4 DEF establish, TypeOK, caller
<1>5. ASSUME NEW c \in Conn, arrive(c)
      PROVE  TypeOK'
  <2>1. PICK n \in 1 .. Len(wire[c]) :
           /\ inbox' = [inbox EXCEPT ![c] = @ \o SubSeq(wire[c], 1, n)]
           /\ wire' = [wire EXCEPT ![c] = SubSeq(@, n + 1, Len(@))]
    BY <1>5 DEF arrive
  <2>2. wire[c] \in Seq(Cell) /\ inbox[c] \in Seq(Cell) /\ Len(wire[c]) \in Nat
    BY DEF TypeOK
  <2>3. SubSeq(wire[c], 1, n) \in Seq(Cell)
    BY <2>2, SubSeqProperties
  <2>4. SubSeq(wire[c], n + 1, Len(wire[c])) \in Seq(Cell)
    BY <2>2, SubSeqProperties
  <2>5. inbox[c] \o SubSeq(wire[c], 1, n) \in Seq(Cell)
    BY <2>2, <2>3, ConcatProperties
  <2>6. inbox' \in [Conn -> Seq(Cell)] /\ wire' \in [Conn -> Seq(Cell)]
    BY <2>1, <2>4, <2>5 DEF TypeOK
  <2>7. QED
    BY <1>5, <2>6 DEF arrive, TypeOK, caller
<1>6. ASSUME NEW c \in Conn, start(c)
      PROVE  TypeOK'
  <2>1. <<ReadHeader>> \in Seq(Op)
    BY ReadHeaderType
  <2>2. QED
    BY <1>6, <2>1 DEF start, TypeOK, caller
<1>7. ASSUME NEW c \in Conn, perform_eof(c)
      PROVE  TypeOK'
  <2>1. ops[c] \in Seq(Op) /\ ops[c] # << >>
    BY <1>7 DEF perform_eof, TypeOK
  <2>2. Head(ops[c]) \in Op /\ Tail(ops[c]) \in Seq(Op)
    BY <2>1
  <2>3. [conn |-> c, op |-> Head(ops[c]), error |-> TRUE] \in Done
    BY <2>2 DEF Done
  <2>4. done' \in Seq(Done) /\ ops' \in [Conn -> Seq(Op)]
    BY <1>7, <2>2, <2>3, AppendProperties DEF perform_eof, Complete, TypeOK
  <2>5. QED
    BY <1>7, <2>4 DEF perform_eof, TypeOK, caller
<1>8. ASSUME NEW c \in Conn, connect_failed(c)
      PROVE  TypeOK'
  BY <1>8 DEF connect_failed, TypeOK, callee
<1>9. CASE make_rpc_call
  <2>1. sent + 1 \in 0 .. MaxMsg /\ sent' = sent + 1
    BY <1>9, ConnectionsAssumption DEF make_rpc_call, TypeOK
  <2>2. CASE get # 0
    <3>1. deliver(held, sent + 1) /\ UNCHANGED <<near, first>>
      BY <1>9, <2>2 DEF make_rpc_call, get
    <3>2. held \in Conn
      BY <2>2 DEF TypeOK, get
    <3>3. wire' \in [Conn -> Seq(Cell)] /\ failed' \in SUBSET Conn
      BY <2>1, <3>1, <3>2, DeliverType
    <3>4. QED
      BY <1>9, <2>1, <3>1, <3>3 DEF make_rpc_call, TypeOK, callee
  <2>3. CASE get = 0
    <3>1. PICK c \in Conn : /\ near' = [near EXCEPT ![c] = "connecting"]
                            /\ first' = [first EXCEPT ![c] = sent + 1]
      BY <1>9, <2>3 DEF make_rpc_call
    <3>2. /\ near' \in [Conn -> {"none", "connecting", "open", "closed"}]
          /\ first' \in [Conn -> 0 .. MaxMsg]
      BY <2>1, <3>1 DEF TypeOK
    <3>3. UNCHANGED <<failed, wire, up, held, callee>>
      BY <1>9, <2>3 DEF make_rpc_call
    <3>4. QED
      BY <2>1, <3>2, <3>3 DEF TypeOK, callee
  <2>4. QED
    BY <2>2, <2>3
<1>10. CASE kill_caller
  BY <1>10, EndCallerType DEF kill_caller, TypeOK, callee
<1>11. CASE restart_callee
  <2>1. Blank \in Cell /\ << >> \in Seq(Cell) /\ << >> \in Seq(Op) /\ << >> \in Seq(Done)
    BY ConnectionsAssumption DEF Blank, Cell
  <2>2. restarts' \in 0 .. MaxRestarts
    BY <1>11, ConnectionsAssumption DEF restart_callee, TypeOK
  <2>3. /\ far' \in [Conn -> {"none", "backlog", "open", "closed"}]
        /\ header' \in [Conn -> Cell]
        /\ data' \in [Conn -> [1 .. Width -> Cell]]
    BY <1>11, <2>1 DEF restart_callee, TypeOK
  <2>4. QED
    BY <1>11, <2>1, <2>2, <2>3 DEF restart_callee, TypeOK, caller
<1>12. CASE UNCHANGED vars
  BY <1>12 DEF vars, caller, callee, TypeOK
<1>13. ASSUME NEW c \in Conn, lost(c)
       PROVE  TypeOK'
  <2>1. << >> \in Seq(Cell)
    OBVIOUS
  <2>2. QED
    BY <1>13, <2>1 DEF lost, TypeOK, caller, callee
<1>14. QED
  BY <1>1, <1>2, <1>3, <1>4, <1>5, <1>6, <1>7, <1>8, <1>9, <1>10, <1>11, <1>12,
     <1>13, PerformType, HandleType DEF Next, Io

LEMMA TypeInit == Init => TypeOK
<1>1. Blank \in Cell /\ << >> \in Seq(Cell) /\ << >> \in Seq(Op)
      /\ << >> \in Seq(Done) /\ << >> \in Seq(0 .. MaxMsg)
  BY ConnectionsAssumption DEF Blank, Cell
<1>2. 0 \in 0 .. MaxMsg /\ 0 \in 0 .. MaxRestarts
  BY ConnectionsAssumption
<1>3. ASSUME Init
      PROVE  /\ wire \in [Conn -> Seq(Cell)] /\ inbox \in [Conn -> Seq(Cell)]
             /\ header \in [Conn -> Cell]
             /\ data \in [Conn -> [1 .. Width -> Cell]]
             /\ ops \in [Conn -> Seq(Op)]
  BY <1>1, <1>3 DEF Init
<1>4. ASSUME Init
      PROVE  /\ near \in [Conn -> {"none", "connecting", "open", "closed"}]
             /\ far \in [Conn -> {"none", "backlog", "open", "closed"}]
             /\ first \in [Conn -> 0 .. MaxMsg]
  BY <1>2, <1>4 DEF Init
<1>5. QED
  BY <1>1, <1>2, <1>3, <1>4 DEF Init, TypeOK

\* Every variable keeps its type, however the cells of a frame arrive: an
\* operation never has more cells than it needs and never needs more than
\* data_ holds (connection::read_body, boost::asio::async_read).
THEOREM ConnectionsTypes == Spec => []TypeOK
<1>1. TypeOK /\ [Next]_vars => TypeOK'
  BY TypeStep
<1>2. QED
  BY <1>1, TypeInit, PTL DEF Spec

-----------------------------------------------------------------------------
(* The invariant, where bodies arrive whole. *)

\* The reads of a connection that waits for a header, or for a body.
ReadBody == [buf |-> "data", have |-> 0, need |-> Width]
ForHeader == <<ReadHeader>>
ForBody == <<ReadBody, ReadHeader>>

\* The handlers that are queued for the callee.
BodyDone(c) ==
    [conn |-> c, op |-> [buf |-> "data", have |-> Width, need |-> Width],
     error |-> FALSE]
HeaderDone(c) ==
    [conn |-> c, op |-> [buf |-> "header", have |-> 1, need |-> 1],
     error |-> FALSE]
BodyError(c) == [conn |-> c, op |-> ReadBody, error |-> TRUE]
HeaderError(c) == [conn |-> c, op |-> ReadHeader, error |-> TRUE]

\* Every cell of s is followed by the rest of its frame, and then by another.
Whole(s) ==
    \A i \in 1 .. Len(s) :
        /\ \A q \in s[i][2] .. Width :
              /\ i + (q - s[i][2]) <= Len(s)
              /\ s[i + (q - s[i][2])] = <<s[i][1], q>>
        /\ s[i][2] = Width /\ i < Len(s) => s[i + 1][2] = 0

\* All cells of s with one message are of one frame.
OneFrame(s) ==
    \A i, j \in 1 .. Len(s) : s[i][1] = s[j][1] => j + s[i][2] = i + s[j][2]

AtHeader(s) == s # << >> => s[1][2] = 0
AtBody(s) == s # << >> /\ s[1][2] = 1

\* The stream goes on with the body after the header hd.
Within(s, hd) == AtBody(s) /\ hd[1] = s[1][1]

\* What arrived ends with a header or with a body.
Cut(s) == s # << >> => s[Len(s)][2] \in {0, Width}

HasMessage(s, m) == \E i \in 1 .. Len(s) : s[i][1] = m

-----------------------------------------------------------------------------
(* Streams of frames. *)

LEMMA CellParts ==
    ASSUME NEW s \in Seq(Cell), NEW i \in 1 .. Len(s)
    PROVE  /\ s[i] \in Cell
           /\ s[i][1] \in 0 .. MaxMsg /\ s[i][2] \in 0 .. Width
           /\ s[i] = <<s[i][1], s[i][2]>>
<1>1. s[i] \in Cell
  OBVIOUS
<1>2. QED
  BY <1>1 DEF Cell

\* A frame behind a stream that does not have its message yet.
LEMMA Pushed ==
    ASSUME NEW s \in Seq(Cell), Whole(s), OneFrame(s),
           NEW m \in 0 .. MaxMsg, ~HasMessage(s, m)
    PROVE  /\ s \o Frame(m) \in Seq(Cell)
           /\ Whole(s \o Frame(m)) /\ OneFrame(s \o Frame(m))
           /\ AtHeader(s) => AtHeader(s \o Frame(m))
           /\ \A hd : Within(s, hd) => Within(s \o Frame(m), hd)
           /\ \A l : HasMessage(s \o Frame(m), l) => HasMessage(s, l) \/ l = m
<1> DEFINE t == s \o Frame(m)
<1>1. /\ t \in Seq(Cell) /\ Len(t) = Len(s) + (Width + 1) /\ Len(s) \in Nat
      /\ \A i \in 1 .. Len(s) : t[i] = s[i]
      /\ \A i \in 1 .. Width + 1 : t[Len(s) + i] = <<m, i - 1>>
  <2>1. Width + 1 \in Nat /\ Len(s) \in Nat
    BY ConnectionsAssumption
  <2>2. /\ t \in Seq(Cell) /\ Len(t) = Len(s) + (Width + 1)
        /\ \A i \in 1 .. Len(s) + (Width + 1) :
              t[i] = IF i <= Len(s) THEN s[i] ELSE Frame(m)[i - Len(s)]
    <3>1. Frame(m) \in Seq(Cell) /\ Len(Frame(m)) = Width + 1
      BY FrameType
    <3>2. /\ t \in Seq(Cell) /\ Len(t) = Len(s) + Len(Frame(m))
          /\ \A i \in 1 .. Len(s) + Len(Frame(m)) :
                t[i] = IF i <= Len(s) THEN s[i] ELSE Frame(m)[i - Len(s)]
      BY <3>1, ConcatProperties, Zenon
    <3>3. QED
      BY <3>1, <3>2, Zenon
  <2> HIDE DEF t
  <2>3. \A i \in 1 .. Len(s) : t[i] = s[i]
    BY <2>1, <2>2
  <2>4. ASSUME NEW i \in 1 .. Width + 1
        PROVE  t[Len(s) + i] = <<m, i - 1>>
    <3>1. Len(s) + i \in 1 .. Len(s) + (Width + 1) /\ ~(Len(s) + i <= Len(s))
          /\ (Len(s) + i) - Len(s) = i
      BY <2>1
    <3>2. t[Len(s) + i] = Frame(m)[i]
      BY <2>2, <3>1
    <3>3. QED
      BY <3>2, FrameType
  <2>5. QED
    BY <2>1, <2>2, <2>3, <2>4
<1> HIDE DEF t
<1>w. Width \in Nat /\ Width > 0
  BY ConnectionsAssumption
<1>2. Whole(t)
  <2> SUFFICES ASSUME NEW i \in 1 .. Len(t)
               PROVE  /\ \A q \in t[i][2] .. Width :
                            /\ i + (q - t[i][2]) <= Len(t)
                            /\ t[i + (q - t[i][2])] = <<t[i][1], q>>
                      /\ t[i][2] = Width /\ i < Len(t) => t[i + 1][2] = 0
    BY DEF Whole
  <2>1. CASE i \in 1 .. Len(s)
    <3>1. t[i] = s[i] /\ s[i][2] \in 0 .. Width
      BY <1>1, <2>1, CellParts
    <3>2. ASSUME NEW q \in s[i][2] .. Width
          PROVE  /\ i + (q - s[i][2]) <= Len(t)
                 /\ t[i + (q - s[i][2])] = <<s[i][1], q>>
      <4>1. /\ i + (q - s[i][2]) <= Len(s)
            /\ s[i + (q - s[i][2])] = <<s[i][1], q>>
        BY <2>1 DEF Whole
      <4>2. i + (q - s[i][2]) \in 1 .. Len(s)
        BY <4>1, <3>1, <2>1, <1>1, <1>w
      <4>3. QED
        BY <4>1, <4>2, <1>1, <1>w
    <3>3. ASSUME s[i][2] = Width, i < Len(t)
          PROVE  t[i + 1][2] = 0
      <4>1. CASE i < Len(s)
        <5>1. s[i + 1][2] = 0 /\ i + 1 \in 1 .. Len(s)
          BY <4>1, <3>3, <2>1, <1>1 DEF Whole
        <5>2. QED
          BY <5>1, <1>1
      <4>2. CASE i = Len(s)
        <5>1. 1 \in 1 .. Width + 1
          BY <1>w
        <5>2. t[Len(s) + 1] = <<m, 1 - 1>>
          BY <1>1, <5>1
        <5>3. QED
          BY <4>2, <5>2
      <4>3. QED
        BY <4>1, <4>2, <2>1, <1>1
    <3>4. QED
      BY <3>1, <3>2, <3>3
  <2>2. CASE i \notin 1 .. Len(s)
    <3>1. PICK k \in 1 .. Width + 1 : i = Len(s) + k
      <4>1. i - Len(s) \in 1 .. Width + 1 /\ i = Len(s) + (i - Len(s))
        BY <2>2, <1>1, <1>w
      <4>2. QED
        BY <4>1
    <3>2. t[i] = <<m, k - 1>>
      BY <3>1, <1>1
    <3>3. ASSUME NEW q \in k - 1 .. Width
          PROVE  /\ i + (q - (k - 1)) <= Len(t)
                 /\ t[i + (q - (k - 1))] = <<m, q>>
      <4>1. q + 1 \in 1 .. Width + 1 /\ i + (q - (k - 1)) = Len(s) + (q + 1)
            /\ (q + 1) - 1 = q
        BY <3>1, <1>1, <1>w
      <4>2. t[Len(s) + (q + 1)] = <<m, (q + 1) - 1>>
        BY <4>1, <1>1
      <4>3. Len(s) + (q + 1) <= Len(t)
        BY <4>1, <1>1, <1>w
      <4>4. QED
        BY <4>1, <4>2, <4>3, Zenon
    <3>4. ~(k - 1 = Width /\ i < Len(t))
      BY <3>1, <1>1, <1>w
    <3>5. QED
      BY <3>2, <3>3, <3>4
  <2>3. QED
    BY <2>1, <2>2
<1>3. OneFrame(t)
  <2> SUFFICES ASSUME NEW i \in 1 .. Len(t), NEW j \in 1 .. Len(t),
                      t[i][1] = t[j][1]
               PROVE  j + t[i][2] = i + t[j][2]
    BY DEF OneFrame
  <2>1. ASSUME NEW k \in 1 .. Len(t), k \notin 1 .. Len(s)
        PROVE  t[k][1] = m /\ t[k][2] = k - Len(s) - 1
    <3>1. k - Len(s) \in 1 .. Width + 1 /\ k = Len(s) + (k - Len(s))
      BY <2>1, <1>1, <1>w
    <3>2. QED
      BY <3>1, <1>1
  <2>2. ASSUME NEW k \in 1 .. Len(s)
        PROVE  t[k] = s[k] /\ t[k][1] # m
    BY <1>1 DEF HasMessage
  <2>3. CASE i \in 1 .. Len(s) /\ j \in 1 .. Len(s)
    BY <2>3, <2>2 DEF OneFrame
  <2>4. CASE i \notin 1 .. Len(s) /\ j \notin 1 .. Len(s)
    <3>1. t[i][2] = i - Len(s) - 1 /\ t[j][2] = j - Len(s) - 1
      BY <2>4, <2>1
    <3>2. QED
      BY <3>1, <1>1
  <2>5. QED
    BY <2>1, <2>2, <2>3, <2>4
<1>4. s = << >> \/ (s # << >> /\ t # << >> /\ t[1] = s[1])
  <2>1. CASE s # << >>
    <3>1. 1 \in 1 .. Len(s)
      BY <2>1, <1>1
    <3>2. Len(t) > 0 /\ t[1] = s[1]
      BY <3>1, <1>1, <1>w
    <3>3. QED
      BY <3>2, <1>1, <2>1
  <2>2. QED
    BY <2>1
<1>5. ASSUME s = << >>
      PROVE  t[1][2] = 0
  <2>1. Len(s) = 0 /\ 1 \in 1 .. Width + 1
    BY <1>5, <1>w
  <2>2. t[Len(s) + 1] = <<m, 1 - 1>>
    BY <2>1, <1>1
  <2>3. QED
    BY <2>1, <2>2
<1>6. ASSUME NEW l, HasMessage(t, l)
      PROVE  HasMessage(s, l) \/ l = m
  <2>1. PICK i \in 1 .. Len(t) : t[i][1] = l
    BY <1>6 DEF HasMessage
  <2>2. CASE i \in 1 .. Len(s)
    BY <2>1, <2>2, <1>1 DEF HasMessage
  <2>3. CASE i \notin 1 .. Len(s)
    <3>1. i - Len(s) \in 1 .. Width + 1 /\ i = Len(s) + (i - Len(s))
      BY <2>3, <1>1, <1>w
    <3>2. t[i] = <<m, i - Len(s) - 1>>
      BY <3>1, <1>1
    <3>3. QED
      BY <3>2, <2>1
  <2>4. QED
    BY <2>2, <2>3
<1>7. QED
  BY <1>1, <1>2, <1>3, <1>4, <1>5, <1>6 DEF t, AtHeader, AtBody, Within

\* The stream t without its first n cells.
IsRest(t, s, n) ==
    /\ Len(t) + n = Len(s)
    /\ \A i \in 1 .. Len(t) : t[i] = s[i + n]

LEMMA Dropped ==
    ASSUME NEW s \in Seq(Cell), NEW t \in Seq(Cell), NEW n \in Nat,
           IsRest(t, s, n), Whole(s), OneFrame(s)
    PROVE  /\ Whole(t) /\ OneFrame(t)
           /\ \A l : HasMessage(t, l) => HasMessage(s, l)
<1>1. Len(s) \in Nat /\ Len(t) \in Nat /\ Width \in Nat
  BY ConnectionsAssumption
<1>2. ASSUME NEW i \in 1 .. Len(t)
      PROVE  /\ i + n \in 1 .. Len(s) /\ t[i] = s[i + n]
             /\ s[i + n][2] \in 0 .. Width
  <2>1. i + n \in 1 .. Len(s) /\ t[i] = s[i + n]
    BY <1>1 DEF IsRest
  <2>2. QED
    BY <2>1, CellParts
<1>3. Whole(t)
  <2> SUFFICES ASSUME NEW i \in 1 .. Len(t)
               PROVE  /\ \A q \in t[i][2] .. Width :
                            /\ i + (q - t[i][2]) <= Len(t)
                            /\ t[i + (q - t[i][2])] = <<t[i][1], q>>
                      /\ t[i][2] = Width /\ i < Len(t) => t[i + 1][2] = 0
    BY DEF Whole
  <2>1. /\ i + n \in 1 .. Len(s) /\ t[i] = s[i + n]
        /\ s[i + n][2] \in 0 .. Width
    BY <1>2
  <2>2. ASSUME NEW q \in t[i][2] .. Width
        PROVE  /\ i + (q - t[i][2]) <= Len(t)
               /\ t[i + (q - t[i][2])] = <<t[i][1], q>>
    <3>1. /\ (i + n) + (q - t[i][2]) <= Len(s)
          /\ s[(i + n) + (q - t[i][2])] = <<t[i][1], q>>
      BY <2>1 DEF Whole
    <3>2. /\ i + (q - t[i][2]) \in 1 .. Len(t)
          /\ (i + (q - t[i][2])) + n = (i + n) + (q - t[i][2])
      <4>1. t[i][2] \in Nat /\ q \in Int /\ q >= t[i][2] /\ i \in Nat /\ i >= 1
            /\ Len(t) + n = Len(s)
        BY <2>1, <1>1 DEF IsRest
      <4>2. \A p, l, z \in Nat :
               /\ q >= p /\ l + n = z /\ (i + n) + (q - p) <= z
               => /\ i + (q - p) \in 1 .. l
                  /\ (i + (q - p)) + n = (i + n) + (q - p)
        BY <4>1
      <4>3. QED
        BY <4>1, <4>2, <3>1, <1>1
    <3>3. PICK j \in 1 .. Len(t) : /\ j = i + (q - t[i][2])
                                   /\ j + n = (i + n) + (q - t[i][2])
      BY <3>2
    <3>4. t[j] = s[j + n] /\ j <= Len(t)
      BY <1>2
    <3>5. QED
      BY <3>1, <3>3, <3>4, Zenon
  <2>3. ASSUME t[i][2] = Width, i < Len(t)
        PROVE  t[i + 1][2] = 0
    <3>1. i + n < Len(s) /\ i + 1 \in 1 .. Len(t) /\ (i + 1) + n = (i + n) + 1
      BY <2>3, <1>1 DEF IsRest
    <3>2. s[(i + n) + 1][2] = 0
      BY <3>1, <2>1, <2>3 DEF Whole
    <3>3. QED
      BY <3>1, <3>2, <1>2
  <2>4. QED
    BY <2>2, <2>3
<1>4. OneFrame(t)
  <2> SUFFICES ASSUME NEW i \in 1 .. Len(t), NEW j \in 1 .. Len(t),
                      t[i][1] = t[j][1]
               PROVE  j + t[i][2] = i + t[j][2]
    BY DEF OneFrame
  <2>1. /\ i + n \in 1 .. Len(s) /\ t[i] = s[i + n] /\ s[i + n][2] \in 0 .. Width
        /\ j + n \in 1 .. Len(s) /\ t[j] = s[j + n] /\ s[j + n][2] \in 0 .. Width
    BY <1>2
  <2>2. s[i + n][1] = s[j + n][1]
    BY <2>1
  <2>3. (j + n) + s[i + n][2] = (i + n) + s[j + n][2]
    BY <2>1, <2>2 DEF OneFrame
  <2>4. \A p, q \in 0 .. Width : (j + n) + p = (i + n) + q => j + p = i + q
    BY <1>1
  <2>5. QED
    BY <2>1, <2>3, <2>4
<1>5. QED
  BY <1>2, <1>3, <1>4 DEF HasMessage

\* The bodies that are cut off are whole.
LEMMA BodyFirst ==
    ASSUME NEW s \in Seq(Cell), NEW n \in 1 .. Len(s), Whole(s), AtBody(s),
           s[n][2] \in {0, Width}
    PROVE  /\ Width <= n
           /\ \A i \in 1 .. Width : s[i] = <<s[1][1], i>>
           /\ Len(s) > Width => s[Width + 1][2] = 0
<1>1. Len(s) \in Nat /\ Width \in Nat /\ Width > 0 /\ 1 \in 1 .. Len(s)
  BY ConnectionsAssumption
<1>2. ASSUME NEW q \in 1 .. Width
      PROVE  q <= Len(s) /\ s[q] = <<s[1][1], q>>
  <2>1. s[1][2] = 1 /\ 1 + (q - 1) = q
    BY <1>1 DEF AtBody
  <2>2. q \in s[1][2] .. Width
    BY <2>1
  <2>3. 1 + (q - s[1][2]) <= Len(s) /\ s[1 + (q - s[1][2])] = <<s[1][1], q>>
    BY <1>1, <2>2 DEF Whole
  <2>4. QED
    BY <2>1, <2>3
<1>3. Width <= n
  <2>1. SUFFICES ASSUME n < Width
                 PROVE  FALSE
    BY <1>1
  <2>2. s[n][2] = n
    BY <2>1, <1>1, <1>2
  <2>3. QED
    BY <2>1, <2>2, <1>1
<1>4. ASSUME Len(s) > Width
      PROVE  s[Width + 1][2] = 0
  <2>1. Width \in 1 .. Width /\ Width \in 1 .. Len(s) /\ Width < Len(s)
    BY <1>1, <1>4
  <2>2. s[Width][2] = Width
    BY <2>1, <1>2
  <2>3. QED
    BY <2>1, <2>2 DEF Whole
<1>5. QED
  BY <1>2, <1>3, <1>4

LEMMA ConcatParts ==
    ASSUME NEW a \in Seq(Cell), NEW b \in Seq(Cell)
    PROVE  /\ a \o b \in Seq(Cell)
           /\ Len(a) \in Nat /\ Len(b) \in Nat /\ Len(a \o b) = Len(a) + Len(b)
           /\ \A i \in 1 .. Len(a) : (a \o b)[i] = a[i]
           /\ \A i \in 1 .. Len(b) : (a \o b)[Len(a) + i] = b[i]
<1>1. /\ a \o b \in Seq(Cell) /\ Len(a \o b) = Len(a) + Len(b)
      /\ \A i \in 1 .. Len(a) + Len(b) :
            (a \o b)[i] = IF i <= Len(a) THEN a[i] ELSE b[i - Len(a)]
  BY ConcatProperties, Zenon
<1>2. Len(a) \in Nat /\ Len(b) \in Nat
  OBVIOUS
<1>3. \A i \in 1 .. Len(a) : (a \o b)[i] = a[i]
  BY <1>1, <1>2
<1>4. ASSUME NEW i \in 1 .. Len(b)
      PROVE  (a \o b)[Len(a) + i] = b[i]
  <2>1. /\ Len(a) + i \in 1 .. Len(a) + Len(b) /\ ~(Len(a) + i <= Len(a))
        /\ (Len(a) + i) - Len(a) = i
    BY <1>2
  <2>2. QED
    BY <1>1, <2>1
<1>5. QED
  BY <1>1, <1>2, <1>3, <1>4

LEMMA ConcatTwice ==
    ASSUME NEW a \in Seq(Cell), NEW b \in Seq(Cell), NEW d \in Seq(Cell)
    PROVE  (a \o b) \o d = a \o (b \o d)
BY ConcatAssociative

\* What arrives leaves the wire for the inbox, and the stream as it was.
LEMMA Arrived ==
    ASSUME NEW b \in Seq(Cell), NEW w \in Seq(Cell), NEW n \in 1 .. Len(w)
    PROVE  /\ b \o SubSeq(w, 1, n) \in Seq(Cell)
           /\ SubSeq(w, n + 1, Len(w)) \in Seq(Cell)
           /\ (b \o SubSeq(w, 1, n)) \o SubSeq(w, n + 1, Len(w)) = b \o w
           /\ w[n][2] \in {0, Width} => Cut(b \o SubSeq(w, 1, n))
<1> DEFINE x == SubSeq(w, 1, n)
           y == SubSeq(w, n + 1, Len(w))
<1>1. Len(w) \in Nat /\ n \in Nat /\ n >= 1 /\ n <= Len(w)
  OBVIOUS
<1>2. x \in Seq(Cell) /\ Len(x) = n /\ \A i \in 1 .. n : x[i] = w[i]
  BY <1>1, SubSeqProperties
<1>3. y \in Seq(Cell)
  BY <1>1, SubSeqProperties
<1>4. x \o y = w
  <2>1. 1 \in 1 .. Len(w) + 1 /\ n \in 1 - 1 .. Len(w) /\ Len(w) \in n .. Len(w)
    BY <1>1
  <2>2. x \o y = SubSeq(w, 1, Len(w))
    BY <2>1, ConcatAdjacentSubSeq, Zenon
  <2>3. QED
    BY <2>2, SubSeqFull, Zenon
<1> HIDE DEF x, y
<1>5. (b \o x) \o y = b \o w
  <2>1. x \in Seq(Cell) /\ y \in Seq(Cell)
    BY <1>2, <1>3
  <2>2. (b \o x) \o y = b \o (x \o y)
    BY <2>1, ConcatTwice, Zenon
  <2>3. QED
    BY <2>2, <1>4, Zenon
<1>6. b \o x \in Seq(Cell) /\ Len(b \o x) = Len(b) + n /\ (b \o x)[Len(b) + n] = w[n]
  <2>1. /\ b \o x \in Seq(Cell) /\ Len(b \o x) = Len(b) + Len(x)
        /\ \A i \in 1 .. Len(x) : (b \o x)[Len(b) + i] = x[i]
    BY <1>2, ConcatParts, Zenon
  <2>2. n \in 1 .. n
    BY <1>1
  <2>3. QED
    BY <1>2, <2>1, <2>2, Zenon
<1>7. QED
  BY <1>3, <1>5, <1>6 DEF x, y, Cut

\* What is read leaves the inbox, and the stream at its front.
LEMMA TakenOff ==
    ASSUME NEW b \in Seq(Cell), NEW w \in Seq(Cell), NEW n \in 0 .. Len(b)
    PROVE  /\ SubSeq(b, n + 1, Len(b)) \in Seq(Cell)
           /\ IsRest(SubSeq(b, n + 1, Len(b)) \o w, b \o w, n)
           /\ Cut(b) => Cut(SubSeq(b, n + 1, Len(b)))
<1> DEFINE y == SubSeq(b, n + 1, Len(b))
<1>1. Len(b) \in Nat /\ n \in Nat /\ n <= Len(b) /\ Len(w) \in Nat
  OBVIOUS
<1>2. y \in Seq(Cell) /\ Len(y) = Len(b) - n
  BY <1>1, SubSeqProperties
<1>3. ASSUME NEW i \in 1 .. Len(b) - n
      PROVE  y[i] = b[i + n]
  BY <1>1, SubSeqProperties
<1> HIDE DEF y
<1>4. /\ Len(y \o w) = Len(y) + Len(w) /\ Len(b \o w) = Len(b) + Len(w)
      /\ \A i \in 1 .. Len(y) : (y \o w)[i] = y[i]
      /\ \A i \in 1 .. Len(b) : (b \o w)[i] = b[i]
      /\ \A i \in 1 .. Len(w) : (y \o w)[Len(y) + i] = w[i]
      /\ \A i \in 1 .. Len(w) : (b \o w)[Len(b) + i] = w[i]
  BY <1>2, ConcatParts
<1>5. ASSUME NEW i \in 1 .. Len(y \o w)
      PROVE  (y \o w)[i] = (b \o w)[i + n]
  <2>1. CASE i <= Len(y)
    <3>1. i \in 1 .. Len(b) - n /\ i + n \in 1 .. Len(b) /\ i \in 1 .. Len(y)
      BY <1>1, <1>2, <2>1
    <3>2. QED
      BY <3>1, <1>3, <1>4
  <2>2. CASE ~(i <= Len(y))
    <3>1. /\ i - Len(y) \in 1 .. Len(w) /\ i = Len(y) + (i - Len(y))
          /\ i + n = Len(b) + (i - Len(y))
      BY <1>1, <1>2, <1>4, <2>2
    <3>2. QED
      BY <3>1, <1>4
  <2>3. QED
    BY <2>1, <2>2
<1>6. IsRest(y \o w, b \o w, n)
  BY <1>1, <1>2, <1>4, <1>5 DEF IsRest
<1>7. ASSUME Cut(b)
      PROVE  Cut(y)
  <2>1. SUFFICES ASSUME y # << >>
                 PROVE  y[Len(y)][2] \in {0, Width}
    BY DEF Cut
  <2>2. Len(y) > 0
    BY <2>1, <1>2
  <2>3. Len(y) \in 1 .. Len(b) - n /\ Len(y) + n = Len(b) /\ b # << >>
    BY <1>1, <1>2, <2>2
  <2>4. y[Len(y)] = b[Len(b)]
    BY <2>3, <1>3
  <2>5. QED
    BY <2>3, <2>4, <1>7 DEF Cut
<1>8. QED
  BY <1>2, <1>6, <1>7 DEF y

-----------------------------------------------------------------------------
(* The parts of the invariant. *)

\* A connection, its ends being nr and fr: b arrived, w was written and did not
\* arrive yet, of which wr is on its way and the rest was lost, rs are the reads
\* started, hd is the header, and inMap says whether the caller has it in its
\* map.  Only where a body was lost is the next header asked for too early.
ConnOK(nr, fr, b, wr, w, rs, hd, inMap) ==
    /\ wr = w \/ (nr = "closed" /\ wr = << >>)
    /\ Whole(b \o w) /\ OneFrame(b \o w) /\ Cut(b)
    /\ rs \in {<< >>, ForHeader, ForBody}
    /\ rs # << >> => fr = "open"
    /\ fr \in {"none", "backlog"} => AtHeader(b \o w)
    /\ rs = ForHeader =>
          AtHeader(b \o w) \/ (nr = "closed" /\ b = << >> /\ wr = << >>)
    /\ rs = ForBody => Within(b \o w, hd)
    /\ nr \in {"none", "connecting"} => b = << >> /\ w = << >>
    /\ inMap => nr = "open"

\* full is wire as it were had nothing been lost.
ConnsOK(full) ==
    \A c \in Conn :
        ConnOK(near[c], far[c], inbox[c], wire[c], full[c], ops[c], header[c],
               held = c)

\* The end of a stream within a message: the body after hd was lost.
Struck(nr, fr, s, hd) == nr = "closed" /\ fr = "open" /\ Within(s, hd)

\* A queued handler h of the connection c, with the stream s to be read, the
\* header hd and the body dt.
HandlerOK(h, c, nr, fr, s, rs, hd, dt) ==
    /\ h \in {BodyDone(c), BodyError(c), HeaderDone(c), HeaderError(c)}
    /\ fr = "open" /\ nr \in {"open", "closed"}
    /\ rs # ForBody
    /\ rs = ForHeader => h \in {BodyDone(c), BodyError(c)}
    /\ h = HeaderDone(c) => hd[1] # 0 /\ hd[2] = 0 /\ Within(s, hd)
    /\ h = BodyError(c) => Struck(nr, fr, s, hd)
    /\ h = BodyDone(c) => dt = Body(dt[1][1])

HandlersOK(full) ==
    \A k \in 1 .. Len(done) : \A c \in Conn :
        done[k].conn = c =>
            HandlerOK(done[k], c, near[c], far[c], inbox[c] \o full[c], ops[c],
                      header[c], data[c])

\* What ended the callee.
ThrownOK(full) ==
    thrown => \E c \in Conn :
                 Struck(near[c], far[c], inbox[c] \o full[c], header[c])

\* Of two handlers of a connection the first is for a body, the second for the
\* header after it.
InOrder(q) ==
    \A k, l \in 1 .. Len(q) :
        k < l /\ q[k].conn = q[l].conn =>
            q[k].op.buf = "data" /\ q[l].op.buf = "header"

\* Where the messages are that may still be received: with a connection that
\* is being made, in the stream of one, or in data_ with the handler queued.
Carriage == Conn \X {"first", "stream", "data"} \X (0 .. MaxMsg)

Carries(t, nr, fs, b, w, q, dt) ==
    \/ t[2] = "first" /\ nr[t[1]] = "connecting" /\ fs[t[1]] = t[3]
    \/ t[2] = "stream" /\ HasMessage(b[t[1]] \o w[t[1]], t[3])
    \/ /\ t[2] = "data" /\ dt[t[1]][1][1] = t[3]
       /\ \E k \in 1 .. Len(q) : q[k] = BodyDone(t[1])

Carriages(nr, fs, b, w, q, dt) ==
    {t \in Carriage : Carries(t, nr, fs, b, w, q, dt)}

\* Every message is in one place, was sent and was not received.
Once(T, n, rc) ==
    /\ \A t \in T : t[3] \in 1 .. n /\ \A i \in 1 .. Len(rc) : rc[i] # t[3]
    /\ \A t, u \in T : t[3] = u[3] => t = u

MessagesOK(full) ==
    Once(Carriages(near, first, inbox, full, done, data), sent, received)

CInv(full) ==
    /\ TypeOK
    /\ full \in [Conn -> Seq(Cell)]
    /\ ThrownOK(full)
    /\ ConnsOK(full)
    /\ HandlersOK(full)
    /\ InOrder(done)
    /\ MessagesOK(full)
    /\ \A i \in 1 .. Len(received) : received[i] <= sent

-----------------------------------------------------------------------------
(* What may happen to a message. *)

LEMMA OnceLost ==
    ASSUME NEW T, NEW U, U \subseteq T, NEW n, NEW rc, Once(T, n, rc)
    PROVE  Once(U, n, rc)
BY Zenon DEF Once

LEMMA OnceSent ==
    ASSUME NEW T, NEW U, NEW n \in Nat, NEW rc \in Seq(0 .. MaxMsg),
           Once(T, n, rc), \A i \in 1 .. Len(rc) : rc[i] <= n,
           NEW c, NEW k, U \subseteq T \cup {<<c, k, n + 1>>}
    PROVE  Once(U, n + 1, rc)
<1>1. ASSUME NEW t \in U
      PROVE  t[3] \in 1 .. n + 1 /\ \A i \in 1 .. Len(rc) : rc[i] # t[3]
  <2>1. CASE t \in T
    BY <2>1 DEF Once
  <2>2. CASE t = <<c, k, n + 1>>
    <3>1. \A i \in 1 .. Len(rc) : rc[i] \in Nat
      BY ConnectionsAssumption
    <3>2. QED
      BY <2>2, <3>1
  <2>3. QED
    BY <2>1, <2>2
<1>2. ASSUME NEW t \in U, NEW u \in U, t[3] = u[3]
      PROVE  t = u
  <2>1. \A v \in T : v[3] \in 1 .. n
    BY DEF Once
  <2>2. \A v \in T : v[3] # n + 1
    BY <2>1
  <2>3. <<c, k, n + 1>>[3] = n + 1
    OBVIOUS
  <2>4. QED
    BY <1>2, <2>2, <2>3, Zenon DEF Once
<1>3. QED
  BY <1>1, <1>2 DEF Once

LEMMA OnceMoved ==
    ASSUME NEW T, NEW U, NEW n, NEW rc, Once(T, n, rc),
           NEW t \in T, NEW u, u[3] = t[3], U \subseteq (T \ {t}) \cup {u}
    PROVE  Once(U, n, rc)
BY Zenon DEF Once

LEMMA OnceReceived ==
    ASSUME NEW T, NEW U, NEW n \in 0 .. MaxMsg, NEW rc \in Seq(0 .. MaxMsg),
           Once(T, n, rc), NEW t \in T, U \subseteq T \ {t}
    PROVE  Once(U, n, Append(rc, t[3]))
<1>1. t[3] \in 0 .. MaxMsg
  BY ConnectionsAssumption DEF Once
<1>2. ASSUME NEW u \in U
      PROVE  /\ u[3] \in 1 .. n
             /\ \A i \in 1 .. Len(Append(rc, t[3])) : Append(rc, t[3])[i] # u[3]
  <2>1. u \in T /\ u # t
    OBVIOUS
  <2>2. u[3] # t[3] /\ u[3] \in 1 .. n /\ \A i \in 1 .. Len(rc) : rc[i] # u[3]
    BY <2>1, Zenon DEF Once
  <2>3. QED
    BY <1>1, <2>2, AppendProperties
<1>3. \A v, u \in U : v[3] = u[3] => v = u
  BY Zenon DEF Once
<1>4. QED
  BY <1>2, <1>3 DEF Once

-----------------------------------------------------------------------------
(* The steps. *)

LEMMA ReadsDiffer == << >> # ForHeader /\ << >> # ForBody /\ ForHeader # ForBody
<1>1. Len(ForHeader) = 1 /\ Len(ForBody) = 2
  BY DEF ForHeader, ForBody
<1>2. Len(<< >>) = 0
  OBVIOUS
<1>3. QED
  BY <1>1, <1>2

\* Connections are closed, or leave the caller's map, or what is on its way
\* over a closed one is lost.
LEMMA Closes ==
    ASSUME NEW full, CInv(full), TypeOK',
           \A c \in Conn : near'[c] \in {near[c], "closed"},
           \A c \in Conn : held' = c => held = c /\ near'[c] = near[c],
           \A c \in Conn :
              wire'[c] = wire[c] \/ (near'[c] = "closed" /\ wire'[c] = << >>),
           \A c \in Conn : near'[c] = "connecting" => first'[c] = first[c],
           UNCHANGED <<sent, callee>>
    PROVE  CInv(full)'
<1>1. ConnsOK(full)'
  <2> SUFFICES ASSUME NEW c \in Conn
               PROVE  ConnOK(near'[c], far[c], inbox[c], wire'[c], full[c], ops[c],
                             header[c], held' = c)
    BY DEF ConnsOK, callee
  <2>1. ConnOK(near[c], far[c], inbox[c], wire[c], full[c], ops[c], header[c],
               held = c)
    BY DEF CInv, ConnsOK
  <2>2. /\ near'[c] \in {near[c], "closed"}
        /\ held' = c => held = c /\ near'[c] = near[c]
        /\ wire'[c] = wire[c] \/ (near'[c] = "closed" /\ wire'[c] = << >>)
    OBVIOUS
  <2>3. QED
    BY <2>1, <2>2 DEF ConnOK
<1>2. HandlersOK(full)'
  <2> SUFFICES ASSUME NEW k \in 1 .. Len(done), NEW c \in Conn, done[k].conn = c
               PROVE  HandlerOK(done[k], c, near'[c], far[c],
                                inbox[c] \o full[c], ops[c], header[c], data[c])
    BY DEF HandlersOK, callee
  <2>1. HandlerOK(done[k], c, near[c], far[c], inbox[c] \o full[c], ops[c],
                  header[c], data[c])
    BY DEF CInv, HandlersOK
  <2>2. QED
    BY <2>1 DEF HandlerOK, Struck
<1>3. MessagesOK(full)'
  <2>1. Carriages(near', first', inbox, full, done, data)
          \subseteq Carriages(near, first, inbox, full, done, data)
    <3> SUFFICES ASSUME NEW t \in Carriage,
                        Carries(t, near', first', inbox, full, done, data)
                 PROVE  Carries(t, near, first, inbox, full, done, data)
      BY DEF Carriages
    <3>1. t[1] \in Conn
      BY DEF Carriage
    <3>2. near'[t[1]] = "connecting" =>
             near[t[1]] = "connecting" /\ first'[t[1]] = first[t[1]]
      BY <3>1
    <3>3. QED
      BY <3>2 DEF Carries
  <2>2. Once(Carriages(near', first', inbox, full, done, data), sent, received)
    BY <2>1, OnceLost DEF CInv, MessagesOK
  <2>3. QED
    BY <2>2 DEF MessagesOK, callee
<1>4. ThrownOK(full)'
  BY DEF CInv, ThrownOK, Struck, callee
<1>5. QED
  BY <1>1, <1>2, <1>3, <1>4 DEF CInv, callee

LEMMA KeptByCaller ==
    ASSUME NEW full, CInv(full), TypeOK',
           \/ kill_caller
           \/ \E c \in Conn : \/ connect_failed(c) \/ caller_read_body(c)
                              \/ deliver_failed(c) \/ lost(c)
    PROVE  CInv(full)'
<1>1. /\ near \in [Conn -> {"none", "connecting", "open", "closed"}]
      /\ wire \in [Conn -> Seq(Cell)]
      /\ \A d \in Conn : held = d => near[d] = "open"
      /\ \A d \in Conn : d # 0
  BY ConnectionsAssumption DEF CInv, TypeOK, ConnsOK, ConnOK
<1>2. ASSUME end_caller, UNCHANGED <<sent, wire, callee>>
      PROVE  CInv(full)'
  <2>1. /\ \A d \in Conn : near'[d] = "closed"
        /\ held' = 0 /\ UNCHANGED <<sent, wire, callee>>
    BY <1>2 DEF end_caller
  <2>2. QED
    BY <1>1, <2>1, Closes
<1>3. ASSUME NEW c \in Conn, connect_failed(c)
      PROVE  CInv(full)'
  <2>1. /\ \A d \in Conn : near'[d] = near[d] \/ (d = c /\ near'[d] = "closed")
        /\ near[c] = "connecting"
        /\ UNCHANGED <<sent, first, held, wire, callee>>
    BY <1>1, <1>3 DEF connect_failed
  <2>2. QED
    BY <1>1, <2>1, Closes
<1>4. ASSUME NEW c \in Conn, caller_read_body(c)
      PROVE  CInv(full)'
  <2>1. /\ \A d \in Conn : near'[d] \in {near[d], "closed"}
        /\ held' = 0 /\ UNCHANGED <<sent, first, wire, callee>>
    BY <1>1, <1>4 DEF caller_read_body, remove
  <2>2. QED
    BY <1>1, <2>1, Closes
<1>5. ASSUME NEW c \in Conn, deliver_failed(c)
      PROVE  CInv(full)'
  <2>1. CASE end_caller
    BY <1>2, <1>5, <2>1 DEF deliver_failed
  <2>2. CASE ~end_caller
    <3>1. held' \in {held, 0} /\ UNCHANGED <<sent, near, first, wire, callee>>
      BY <1>5, <2>2 DEF deliver_failed, remove
    <3>2. QED
      BY <1>1, <3>1, Closes
  <2>3. QED
    BY <2>1, <2>2
<1>6. ASSUME NEW c \in Conn, lost(c)
      PROVE  CInv(full)'
  <2>1. /\ \A d \in Conn :
              wire'[d] = wire[d] \/ (near[d] = "closed" /\ wire'[d] = << >>)
        /\ UNCHANGED <<sent, near, first, held, callee>>
    BY <1>1, <1>6 DEF lost, caller
  <2>2. QED
    BY <1>1, <2>1, Closes
<1>7. QED
  BY <1>2, <1>3, <1>4, <1>5, <1>6 DEF kill_caller

\* The callee's end of a connection is made, and the callee starts to read.
LEMMA KeptByAccept ==
    ASSUME NEW full, CInv(full), TypeOK', NEW c \in Conn, establish(c) \/ start(c)
    PROVE  CInv(full)'
<1>1. /\ UNCHANGED <<caller, wire, thrown, inbox, header, data, done, received>>
      /\ far[c] \in {"none", "backlog"}
      /\ far' = [far EXCEPT ![c] = IF establish(c) THEN "backlog" ELSE "open"]
      /\ ops' = IF establish(c) THEN ops ELSE [ops EXCEPT ![c] = ForHeader]
  <2>1. CASE establish(c)
    BY <2>1 DEF establish
  <2>2. CASE ~establish(c)
    BY <2>2 DEF start, ForHeader
  <2>3. QED
    BY <2>1, <2>2
<1>2. near' = near /\ held' = held /\ first' = first /\ sent' = sent
  BY <1>1 DEF caller
<1>3. far \in [Conn -> {"none", "backlog", "open", "closed"}] /\ ops \in [Conn -> Seq(Op)]
  BY DEF CInv, TypeOK
<1>4. ASSUME NEW d \in Conn
      PROVE  ConnOK(near[d], far'[d], inbox[d], wire[d], full[d], ops'[d],
                    header[d], held = d)
  <2>1. ConnOK(near[d], far[d], inbox[d], wire[d], full[d], ops[d],
               header[d], held = d)
    BY DEF CInv, ConnsOK
  <2>2. CASE d # c
    <3>1. far'[d] = far[d] /\ ops'[d] = ops[d]
      BY <1>1, <1>3, <2>2
    <3>2. QED
      BY <2>1, <3>1
  <2>3. CASE d = c /\ establish(c)
    <3>1. far'[d] = "backlog" /\ ops'[d] = ops[d] /\ far[d] \in {"none", "backlog"}
      BY <1>1, <1>3, <2>3
    <3>2. QED
      BY <2>1, <3>1 DEF ConnOK
  <2>4. CASE d = c /\ ~establish(c)
    <3>1. far'[d] = "open" /\ ops'[d] = ForHeader /\ far[d] \in {"none", "backlog"}
      BY <1>1, <1>3, <2>4
    <3>2. QED
      BY <2>1, <3>1, ReadsDiffer DEF ConnOK
  <2>5. QED
    BY <2>2, <2>3, <2>4
<1>5. ASSUME NEW k \in 1 .. Len(done), NEW d \in Conn, done[k].conn = d
      PROVE  HandlerOK(done[k], d, near[d], far'[d], inbox[d] \o full[d],
                       ops'[d], header[d], data[d])
  <2>1. HandlerOK(done[k], d, near[d], far[d], inbox[d] \o full[d], ops[d],
                  header[d], data[d])
    BY <1>5 DEF CInv, HandlersOK
  <2>2. d # c
    BY <1>1, <2>1 DEF HandlerOK
  <2>3. far'[d] = far[d] /\ ops'[d] = ops[d]
    BY <1>1, <1>3, <2>2
  <2>4. QED
    BY <2>1, <2>3
<1>6. ConnsOK(full)' /\ HandlersOK(full)'
  BY <1>1, <1>2, <1>4, <1>5 DEF ConnsOK, HandlersOK
<1>7. MessagesOK(full)'
  BY <1>1, <1>2 DEF CInv, MessagesOK
<1>9. ThrownOK(full)'
  BY <1>1 DEF ThrownOK, establish, start
<1>8. QED
  BY <1>1, <1>2, <1>6, <1>7, <1>9 DEF CInv

\* connection::deliver over a connection of which nothing was lost.
Delivers(full, next, c, m) ==
    /\ next \in [Conn -> Seq(Cell)]
    /\ wire'[c] = next[c]
    /\ next[c] = full[c] \/ next[c] = full[c] \o Frame(m)
    /\ \A d \in Conn \ {c} : wire'[d] = wire[d] /\ next[d] = full[d]

LEMMA DeliverLoses ==
    ASSUME NEW full, CInv(full), NEW c \in Conn, NEW m \in 0 .. MaxMsg,
           deliver(c, m), near[c] # "closed"
    PROVE  \E next : Delivers(full, next, c, m)
<1>1. wire \in [Conn -> Seq(Cell)] /\ full \in [Conn -> Seq(Cell)]
  BY DEF CInv, TypeOK
<1>2. wire[c] = full[c]
  BY DEF CInv, ConnsOK, ConnOK
<1>3. CASE UNCHANGED wire
  BY <1>1, <1>2, <1>3 DEF Delivers
<1>4. CASE wire' = [wire EXCEPT ![c] = @ \o Frame(m)]
  <2> DEFINE x == full[c] \o Frame(m)
             next == [full EXCEPT ![c] = x]
  <2>1. x \in Seq(Cell)
    BY <1>1, FrameType, ConcatProperties
  <2>2. wire' = [wire EXCEPT ![c] = x]
    BY <1>2, <1>4
  <2>3. wire'[c] = x /\ \A d \in Conn \ {c} : wire'[d] = wire[d]
    BY <1>1, <2>2
  <2> HIDE DEF x
  <2>4. /\ next \in [Conn -> Seq(Cell)] /\ next[c] = x
        /\ \A d \in Conn \ {c} : next[d] = full[d]
    BY <1>1, <2>1
  <2> HIDE DEF next
  <2>5. Delivers(full, next, c, m)
    BY <2>3, <2>4 DEF Delivers, x
  <2>6. QED
    BY <2>5
<1>5. QED
  BY <1>3, <1>4 DEF deliver

\* connection::deliver, of a message m that is nowhere else once it has left
\* the place it was in.
LEMMA KeptByDeliver ==
    ASSUME NEW full, CInv(full), TypeOK', NEW c \in Conn, NEW m \in 1 .. sent',
           NEW next, Delivers(full, next, c, m),
           near[c] # "closed", near'[c] = "open",
           \A d \in Conn \ {c} : near'[d] = near[d] /\ (held' = d => held = d),
           sent' \in {sent, sent + 1},
           \A t \in Carriages(near, first, inbox, full, done, data) :
              t[2] = "stream" => t[3] # m,
           Once(Carriages(near', first', inbox, next, done, data), sent', received),
           UNCHANGED callee
    PROVE  CInv(next)'
<1>1. /\ UNCHANGED <<inbox, done, data, header, ops, far, received, thrown>>
      /\ full \in [Conn -> Seq(Cell)] /\ inbox \in [Conn -> Seq(Cell)]
      /\ received \in Seq(0 .. MaxMsg) /\ sent \in 0 .. MaxMsg /\ m \in 0 .. MaxMsg
  <2>1. sent' \in 0 .. MaxMsg
    BY DEF TypeOK
  <2>2. m \in 0 .. MaxMsg
    BY <2>1, ConnectionsAssumption
  <2>3. QED
    BY <2>2 DEF CInv, TypeOK, callee
<1>2. ASSUME NEW d \in Conn, d # c
      PROVE  /\ wire'[d] = wire[d] /\ next[d] = full[d]
             /\ near'[d] = near[d] /\ (held' = d => held = d)
  BY <1>1, <1>2 DEF Delivers
<1>3. /\ next[c] = full[c] \/ next[c] = full[c] \o Frame(m)
      /\ wire'[c] = next[c] /\ next \in [Conn -> Seq(Cell)]
  BY <1>1 DEF Delivers
<1> DEFINE s == inbox[c] \o full[c]
           u == inbox[c] \o next[c]
<1>4. ConnOK(near[c], far[c], inbox[c], wire[c], full[c], ops[c],
             header[c], held = c)
  BY DEF CInv, ConnsOK
<1>5. s \in Seq(Cell)
  BY <1>1, ConcatParts
<1>6. ~HasMessage(s, m)
  <2>1. SUFFICES ASSUME HasMessage(s, m)
                 PROVE  FALSE
    OBVIOUS
  <2> DEFINE t == <<c, "stream", m>>
  <2>2. t \in Carriage /\ t[1] = c /\ t[2] = "stream" /\ t[3] = m
    BY <1>1 DEF Carriage
  <2> HIDE DEF t
  <2>3. Carries(t, near, first, inbox, full, done, data)
    BY <2>1, <2>2 DEF Carries
  <2>4. QED
    BY <2>2, <2>3 DEF Carriages
<1>7. u = s \/ u = s \o Frame(m)
  <2>1. CASE next[c] = full[c] \o Frame(m)
    <3>1. Frame(m) \in Seq(Cell)
      BY <1>1, FrameType
    <3>2. inbox[c] \in Seq(Cell) /\ full[c] \in Seq(Cell)
      BY <1>1
    <3>3. (inbox[c] \o full[c]) \o Frame(m) = inbox[c] \o (full[c] \o Frame(m))
      BY <3>1, <3>2, ConcatTwice, Zenon
    <3>4. QED
      BY <2>1, <3>3
  <2>2. QED
    BY <1>3, <2>1
<1> HIDE DEF s, u
<1>8. Whole(s) /\ OneFrame(s)
  BY <1>4 DEF ConnOK, s
<1>9. /\ Whole(u) /\ OneFrame(u)
      /\ AtHeader(s) => AtHeader(u)
      /\ \A hd : Within(s, hd) => Within(u, hd)
  BY <1>1, <1>5, <1>6, <1>7, <1>8, Pushed
<1>10. ConnOK(near'[c], far[c], inbox[c], wire'[c], next[c], ops[c],
              header[c], held' = c)
  <2>1. near'[c] # "none" /\ near'[c] # "connecting"
    OBVIOUS
  <2>2. /\ Cut(inbox[c]) /\ ops[c] \in {<< >>, ForHeader, ForBody}
        /\ ops[c] # << >> => far[c] = "open"
        /\ ops[c] = ForHeader \/ far[c] \in {"none", "backlog"} => AtHeader(s)
        /\ ops[c] = ForBody => Within(s, header[c])
    BY <1>4 DEF ConnOK, s
  <2>3. QED
    BY <1>3, <1>9, <2>1, <2>2 DEF ConnOK, u
<1>11. ConnsOK(next)'
  <2>1. ASSUME NEW d \in Conn
        PROVE  ConnOK(near'[d], far[d], inbox[d], wire'[d], next[d], ops[d],
                      header[d], held' = d)
    <3>1. CASE d = c
      BY <3>1, <1>10
    <3>2. CASE d # c
      <4>1. ConnOK(near[d], far[d], inbox[d], wire[d], full[d], ops[d],
                   header[d], held = d)
        BY DEF CInv, ConnsOK
      <4>2. QED
        BY <3>2, <4>1, <1>2 DEF ConnOK
    <3>3. QED
      BY <3>1, <3>2
  <2>2. QED
    BY <1>1, <2>1 DEF ConnsOK
<1>12. HandlersOK(next)'
  <2>1. ASSUME NEW k \in 1 .. Len(done), NEW d \in Conn, done[k].conn = d
        PROVE  HandlerOK(done[k], d, near'[d], far[d], inbox[d] \o next[d],
                         ops[d], header[d], data[d])
    <3>1. HandlerOK(done[k], d, near[d], far[d], inbox[d] \o full[d], ops[d],
                    header[d], data[d])
      BY <2>1 DEF CInv, HandlersOK
    <3>2. CASE d # c
      BY <3>1, <3>2, <1>2
    <3>3. CASE d = c
      <4>1. HandlerOK(done[k], c, near[c], far[c], s, ops[c], header[c], data[c])
        BY <3>1, <3>3 DEF s
      <4>2. HandlerOK(done[k], c, near'[c], far[c], u, ops[c], header[c], data[c])
        BY <4>1, <1>9 DEF HandlerOK, Struck
      <4>3. QED
        BY <4>2, <3>3 DEF u
    <3>4. QED
      BY <3>2, <3>3
  <2>2. QED
    BY <1>1, <2>1 DEF HandlersOK
<1>13. \A i \in 1 .. Len(received) : received[i] <= sent'
  <2>1. ASSUME NEW i \in 1 .. Len(received)
        PROVE  received[i] <= sent'
    <3>1. received[i] \in Nat /\ received[i] <= sent
      BY <1>1, ConnectionsAssumption DEF CInv
    <3>2. QED
      BY <3>1, <1>1
  <2>2. QED
    BY <2>1
<1>14. MessagesOK(next)'
  BY <1>1 DEF MessagesOK
<1>15. ThrownOK(next)'
  <2> SUFFICES ASSUME thrown
               PROVE  \E d \in Conn :
                         Struck(near'[d], far[d], inbox[d] \o next[d], header[d])
    BY <1>1 DEF ThrownOK
  <2>1. PICK d \in Conn : Struck(near[d], far[d], inbox[d] \o full[d], header[d])
    BY DEF CInv, ThrownOK
  <2>2. d # c
    BY <2>1 DEF Struck
  <2>3. QED
    BY <2>1, <2>2, <1>2
<1>16. QED
  BY <1>1, <1>3, <1>11, <1>12, <1>13, <1>14, <1>15 DEF CInv

\* Nothing but the message delivered is new in a stream.
LEMMA DeliverCarries ==
    ASSUME NEW full, CInv(full), NEW c \in Conn, NEW m \in 0 .. MaxMsg,
           NEW next, Delivers(full, next, c, m),
           ~HasMessage(inbox[c] \o full[c], m),
           NEW nr, NEW fs, NEW t \in Carriage,
           Carries(t, nr, fs, inbox, next, done, data)
    PROVE  Carries(t, nr, fs, inbox, full, done, data) \/ t = <<c, "stream", m>>
<1>1. full \in [Conn -> Seq(Cell)] /\ inbox \in [Conn -> Seq(Cell)] /\ t[1] \in Conn
      /\ t = <<t[1], t[2], t[3]>>
  <2>1. t[1] \in Conn /\ t = <<t[1], t[2], t[3]>>
    BY DEF Carriage
  <2>2. QED
    BY <2>1 DEF CInv, TypeOK
<1>2. CASE t[2] = "stream" /\ t[1] = c /\ next[c] = full[c] \o Frame(m)
  <2>1. HasMessage(inbox[c] \o next[c], t[3])
    BY <1>2 DEF Carries
  <2> DEFINE s == inbox[c] \o full[c]
  <2>2. s \o Frame(m) = inbox[c] \o next[c]
    <3>1. Frame(m) \in Seq(Cell) /\ inbox[c] \in Seq(Cell) /\ full[c] \in Seq(Cell)
      BY <1>1, FrameType
    <3>2. (inbox[c] \o full[c]) \o Frame(m) = inbox[c] \o (full[c] \o Frame(m))
      BY <3>1, ConcatTwice, Zenon
    <3>3. QED
      BY <3>2, <1>2, Zenon
  <2>3. Whole(s) /\ OneFrame(s) /\ s \in Seq(Cell)
    BY <1>1, ConcatParts DEF CInv, ConnsOK, ConnOK
  <2> HIDE DEF s
  <2>4. HasMessage(s \o Frame(m), t[3])
    BY <2>1, <2>2
  <2>5. HasMessage(s, t[3]) \/ t[3] = m
    BY <2>3, <2>4, Pushed DEF s
  <2>6. QED
    BY <2>5, <1>2, <1>1 DEF Carries, s
<1>3. CASE t[2] # "stream"
  BY <1>3 DEF Carries
<1>4. CASE t[2] = "stream" /\ next[t[1]] = full[t[1]]
  BY <1>4 DEF Carries
<1>5. next[t[1]] = full[t[1]] \/ (t[1] = c /\ next[c] = full[c] \o Frame(m))
  BY <1>1 DEF Delivers
<1>6. QED
  BY <1>2, <1>3, <1>4, <1>5

LEMMA KeptByConnected ==
    ASSUME NEW full, CInv(full), TypeOK', NEW c \in Conn, connected(c)
    PROVE  \E next : CInv(next)'
<1>0. PICK next : Delivers(full, next, c, first[c])
  <2>1. first[c] \in 0 .. MaxMsg /\ deliver(c, first[c]) /\ near[c] # "closed"
    BY DEF connected, CInv, TypeOK
  <2>2. QED
    BY <2>1, DeliverLoses
<1> DEFINE T == Carriages(near, first, inbox, full, done, data)
           U == Carriages(near', first', inbox, next, done, data)
           m == first[c]
           t0 == <<c, "first", m>>
<1>1. /\ near \in [Conn -> {"none", "connecting", "open", "closed"}]
      /\ near[c] = "connecting" /\ near' = [near EXCEPT ![c] = "open"]
      /\ held' = c /\ Delivers(full, next, c, m)
      /\ UNCHANGED <<up, sent, first, callee>> /\ m \in 0 .. MaxMsg
  BY <1>0 DEF connected, insert, CInv, TypeOK
<1>2. t0 \in Carriage /\ t0[1] = c /\ t0[2] = "first" /\ t0[3] = m
  BY <1>1 DEF Carriage
<1> HIDE DEF t0, m
<1>3. t0 \in T
  BY <1>1, <1>2 DEF Carriages, Carries, m
<1> HIDE DEF T
<1>4. Once(T, sent, received)
  BY DEF CInv, MessagesOK, T
<1>5. m \in 1 .. sent
  BY <1>2, <1>3, <1>4 DEF Once
<1>6. \A t \in T : t[3] = m => t = t0
  BY <1>2, <1>3, <1>4, Zenon DEF Once
<1>7. \A t \in T : t[2] = "stream" => t[3] # m
  BY <1>2, <1>6
<1>8. ~HasMessage(inbox[c] \o full[c], m)
  <2>1. SUFFICES ASSUME HasMessage(inbox[c] \o full[c], m)
                 PROVE  FALSE
    OBVIOUS
  <2> DEFINE t == <<c, "stream", m>>
  <2>2. t \in Carriage /\ t[1] = c /\ t[2] = "stream" /\ t[3] = m
    BY <1>1 DEF Carriage
  <2> HIDE DEF t
  <2>3. t \in T
    BY <2>1, <2>2 DEF Carries, Carriages, T
  <2>4. QED
    BY <2>2, <2>3, <1>7
<1> DEFINE u0 == <<c, "stream", m>>
<1>9. u0[3] = t0[3]
  BY <1>2
<1>10. U \subseteq (T \ {t0}) \cup {u0}
  <2> SUFFICES ASSUME NEW t \in Carriage,
                      Carries(t, near', first, inbox, next, done, data)
               PROVE  t \in (T \ {t0}) \cup {u0}
    BY <1>1 DEF Carriages
  <2>1. Carries(t, near', first, inbox, full, done, data) \/ t = u0
    BY <1>1, <1>8, DeliverCarries
  <2>2. CASE Carries(t, near', first, inbox, full, done, data)
    <3>1. t[1] \in Conn
      BY DEF Carriage
    <3>2. near'[t[1]] = "connecting" => near[t[1]] = "connecting" /\ t[1] # c
      BY <1>1, <3>1
    <3>3. Carries(t, near, first, inbox, full, done, data) /\ t # t0
      BY <1>2, <2>2, <3>2 DEF Carries
    <3>4. QED
      BY <3>3 DEF Carriages, T
  <2>3. QED
    BY <2>1, <2>2
<1> HIDE DEF u0, U
<1>11. Once(U, sent, received)
  BY <1>3, <1>4, <1>9, <1>10, OnceMoved
<1>12. /\ near[c] # "closed" /\ near'[c] = "open"
       /\ \A d \in Conn \ {c} : near'[d] = near[d] /\ (held' = d => held = d)
  BY <1>1
<1>13. QED
  <2>1. m \in 1 .. sent' /\ sent' \in {sent, sent + 1} /\ Once(U, sent', received)
    BY <1>1, <1>5, <1>11
  <2>2. CInv(next)'
    BY <2>1, <1>1, <1>7, <1>12, KeptByDeliver DEF T, U
  <2>3. QED
    BY <2>2

LEMMA KeptByCall ==
    ASSUME NEW full, CInv(full), TypeOK', make_rpc_call
    PROVE  \E next : CInv(next)'
<1> DEFINE T == Carriages(near, first, inbox, full, done, data)
           m == sent + 1
<1>1. /\ near \in [Conn -> {"none", "connecting", "open", "closed"}]
      /\ first \in [Conn -> 0 .. MaxMsg]
      /\ sent' = m /\ sent \in Nat /\ m \in 0 .. MaxMsg /\ m \in 1 .. sent'
      /\ UNCHANGED <<up, held, callee>> /\ received \in Seq(0 .. MaxMsg)
      /\ held \in Conn \cup {0}
  <2>1. sent \in 0 .. MaxMsg /\ sent < MaxMsg /\ sent' = m
    BY DEF make_rpc_call, CInv, TypeOK
  <2>2. sent \in Nat /\ m \in 0 .. MaxMsg /\ m \in 1 .. m
    BY <2>1, ConnectionsAssumption
  <2>3. QED
    BY <2>1, <2>2 DEF make_rpc_call, CInv, TypeOK
<1>2. Once(T, sent, received) /\ \A i \in 1 .. Len(received) : received[i] <= sent
  BY DEF CInv, MessagesOK
<1> HIDE DEF T
<1>3. \A t \in T : t[3] # m
  <2>1. \A t \in T : t[3] \in 1 .. sent
    BY <1>2 DEF Once
  <2>2. QED
    BY <2>1, <1>1
<1>4. CASE get # 0
  <2>1. held \in Conn /\ deliver(held, m) /\ UNCHANGED <<near, first>>
    BY <1>1, <1>4 DEF make_rpc_call, get
  <2>2. PICK c \in Conn : c = held
    BY <2>1
  <2>3. near[c] = "open"
    BY <2>2 DEF CInv, ConnsOK, ConnOK
  <2>4. near[c] # "closed" /\ near'[c] = "open"
    BY <2>1, <2>3
  <2>0. PICK next : Delivers(full, next, c, m)
    BY <1>1, <2>1, <2>2, <2>4, DeliverLoses
  <2> DEFINE U == Carriages(near', first', inbox, next, done, data)
  <2>5. ~HasMessage(inbox[c] \o full[c], m)
    <3>1. SUFFICES ASSUME HasMessage(inbox[c] \o full[c], m)
                   PROVE  FALSE
      OBVIOUS
    <3> HIDE DEF m
    <3> DEFINE t == <<c, "stream", m>>
    <3>2. t \in Carriage /\ t[1] = c /\ t[2] = "stream" /\ t[3] = m
      BY <1>1 DEF Carriage
    <3> HIDE DEF t
    <3>3. t \in T
      BY <3>1, <3>2 DEF Carries, Carriages, T
    <3>4. QED
      BY <3>2, <3>3, <1>3
  <2>6. U \subseteq T \cup {<<c, "stream", m>>}
    <3> SUFFICES ASSUME NEW t \in Carriage,
                        Carries(t, near, first, inbox, next, done, data)
                 PROVE  t \in T \cup {<<c, "stream", m>>}
      BY <2>1 DEF Carriages
    <3> HIDE DEF m
    <3>1. Carries(t, near, first, inbox, full, done, data) \/ t = <<c, "stream", m>>
      BY <1>1, <2>0, <2>5, DeliverCarries
    <3>2. QED
      BY <3>1 DEF Carriages, T
  <2> HIDE DEF U
  <2>7. Once(U, sent + 1, received)
    BY <1>1, <1>2, <2>6, OnceSent
  <2>8. \A d \in Conn \ {c} : near'[d] = near[d] /\ (held' = d => held = d)
    BY <1>1, <2>1
  <2>9. /\ Delivers(full, next, c, m) /\ sent' \in {sent, sent + 1} /\ UNCHANGED callee
        /\ Once(U, sent', received)
        /\ \A t \in T : t[2] = "stream" => t[3] # m
    BY <1>1, <1>3, <2>0, <2>1, <2>7
  <2> HIDE DEF m
  <2>10. CInv(next)'
    BY <1>1, <2>4, <2>8, <2>9, KeptByDeliver DEF T, U
  <2>11. QED
    BY <2>10
<1>5. CASE get = 0
  <2>1. UNCHANGED <<failed, wire>>
    BY <1>5 DEF make_rpc_call
  <2>2. PICK c \in Conn : /\ near[c] = "none"
                          /\ near' = [near EXCEPT ![c] = "connecting"]
                          /\ first' = [first EXCEPT ![c] = m]
    BY <1>5 DEF make_rpc_call
  <2>3. held = 0 /\ UNCHANGED <<inbox, done, data, header, ops, far, received, thrown>>
    BY <1>1, <1>5 DEF get, callee
  <2>4. ASSUME NEW d \in Conn
        PROVE  ConnOK(near'[d], far[d], inbox[d], wire[d], full[d], ops[d],
                      header[d], held = d)
    <3>1. ConnOK(near[d], far[d], inbox[d], wire[d], full[d], ops[d],
                 header[d], held = d)
      BY DEF CInv, ConnsOK
    <3>2. near'[d] = near[d] \/ (near[d] = "none" /\ near'[d] = "connecting")
      BY <1>1, <2>2
    <3>3. QED
      BY <3>1, <3>2 DEF ConnOK
  <2>5. ASSUME NEW k \in 1 .. Len(done), NEW d \in Conn, done[k].conn = d
        PROVE  HandlerOK(done[k], d, near'[d], far[d], inbox[d] \o full[d],
                         ops[d], header[d], data[d])
    <3>1. HandlerOK(done[k], d, near[d], far[d], inbox[d] \o full[d], ops[d],
                    header[d], data[d])
      BY <2>5 DEF CInv, HandlersOK
    <3>2. d # c
      BY <2>2, <3>1 DEF HandlerOK
    <3>3. near'[d] = near[d]
      BY <1>1, <2>2, <3>2
    <3>4. QED
      BY <3>1, <3>3
  <2> DEFINE U == Carriages(near', first', inbox, full, done, data)
  <2>6. U \subseteq T \cup {<<c, "first", m>>}
    <3> SUFFICES ASSUME NEW t \in Carriage,
                        Carries(t, near', first', inbox, full, done, data)
                 PROVE  t \in T \cup {<<c, "first", m>>}
      BY <2>1 DEF Carriages
    <3> HIDE DEF m
    <3>1. t[1] \in Conn /\ t = <<t[1], t[2], t[3]>>
      BY DEF Carriage
    <3>2. CASE t[1] # c
      <4>1. near'[t[1]] = near[t[1]] /\ first'[t[1]] = first[t[1]]
        BY <1>1, <2>2, <3>1, <3>2
      <4>2. Carries(t, near, first, inbox, full, done, data)
        BY <4>1 DEF Carries
      <4>3. QED
        BY <4>2 DEF Carriages, T
    <3>3. CASE t[1] = c
      <4>1. first'[c] = m
        BY <1>1, <2>2
      <4>2. Carries(t, near, first, inbox, full, done, data) \/ t = <<c, "first", m>>
        BY <4>1, <3>1, <3>3 DEF Carries
      <4>3. QED
        BY <4>2 DEF Carriages, T
    <3>4. QED
      BY <3>2, <3>3
  <2> HIDE DEF U
  <2>7. Once(U, sent + 1, received)
    BY <1>1, <1>2, <2>6, OnceSent
  <2>8. ConnsOK(full)' /\ HandlersOK(full)'
    BY <1>1, <2>1, <2>3, <2>4, <2>5 DEF ConnsOK, HandlersOK
  <2>9. MessagesOK(full)'
    BY <1>1, <2>1, <2>3, <2>7 DEF MessagesOK, U
  <2>10. \A i \in 1 .. Len(received) : received[i] <= sent'
    <3>1. \A i \in 1 .. Len(received) : received[i] \in Nat
      BY <1>1, ConnectionsAssumption
    <3>2. QED
      BY <1>1, <1>2, <3>1
  <2>11. ThrownOK(full)'
    <3> SUFFICES ASSUME thrown
                 PROVE  \E d \in Conn :
                           Struck(near'[d], far[d], inbox[d] \o full[d], header[d])
      BY <2>3 DEF ThrownOK
    <3>1. PICK d \in Conn : Struck(near[d], far[d], inbox[d] \o full[d], header[d])
      BY DEF CInv, ThrownOK
    <3>2. near'[d] = near[d]
      BY <1>1, <2>2, <3>1 DEF Struck
    <3>3. QED
      BY <3>1, <3>2
  <2>12. CInv(full)'
    BY <2>3, <2>8, <2>9, <2>10, <2>11 DEF CInv
  <2>13. QED
    BY <2>12
<1>6. QED
  BY <1>4, <1>5

\* Cells arrive, up to the end of a header or of a body.
LEMMA KeptByArrive ==
    ASSUME NEW full, CInv(full), TypeOK', Split = FALSE, NEW c \in Conn, arrive(c)
    PROVE  \E next : CInv(next)'
<1>1. /\ wire \in [Conn -> Seq(Cell)] /\ inbox \in [Conn -> Seq(Cell)]
      /\ full \in [Conn -> Seq(Cell)]
  BY DEF CInv, TypeOK
<1>2. PICK n \in 1 .. Len(wire[c]) :
         /\ wire[c][n][2] \in {0, Width}
         /\ inbox' = [inbox EXCEPT ![c] = @ \o SubSeq(wire[c], 1, n)]
         /\ wire' = [wire EXCEPT ![c] = SubSeq(@, n + 1, Len(@))]
  BY DEF arrive
<1>3. /\ near' = near /\ first' = first /\ held' = held /\ sent' = sent
      /\ UNCHANGED <<thrown, far, header, data, ops, done, received>>
  BY DEF arrive, caller
<1>4. /\ inbox'[c] = inbox[c] \o SubSeq(wire[c], 1, n)
      /\ wire'[c] = SubSeq(wire[c], n + 1, Len(wire[c]))
  BY <1>1, <1>2
<1>0. wire[c] # << >> /\ wire[c] = full[c]
  <2>1. wire[c] # << >>
    BY <1>1, <1>2
  <2>2. QED
    BY <2>1 DEF CInv, ConnsOK, ConnOK
<1> DEFINE x == SubSeq(wire[c], n + 1, Len(wire[c]))
<1>a. x \in Seq(Cell)
  BY <1>1, <1>2, Arrived
<1> HIDE DEF x
<1>b. PICK next : /\ next \in [Conn -> Seq(Cell)] /\ next[c] = x
                  /\ \A d \in Conn \ {c} : next[d] = full[d]
  <2> DEFINE z == [full EXCEPT ![c] = x]
  <2>1. /\ z \in [Conn -> Seq(Cell)] /\ z[c] = x
        /\ \A d \in Conn \ {c} : z[d] = full[d]
    BY <1>1, <1>a
  <2> HIDE DEF z
  <2>2. QED
    BY <2>1
<1>c. next[c] = wire'[c]
  BY <1>4, <1>b DEF x
<1>5. inbox'[c] \o next[c] = inbox[c] \o full[c] /\ Cut(inbox'[c])
  <2>1. inbox[c] \in Seq(Cell) /\ wire[c] \in Seq(Cell)
    BY <1>1
  <2>2. /\ (inbox[c] \o SubSeq(wire[c], 1, n)) \o SubSeq(wire[c], n + 1, Len(wire[c]))
              = inbox[c] \o wire[c]
        /\ wire[c][n][2] \in {0, Width} => Cut(inbox[c] \o SubSeq(wire[c], 1, n))
    BY <2>1, Arrived, Zenon
  <2>3. QED
    BY <1>0, <1>2, <1>4, <1>c, <2>2, Zenon
<1>6. \A d \in Conn \ {c} : inbox'[d] = inbox[d] /\ wire'[d] = wire[d]
                                /\ next[d] = full[d]
  BY <1>1, <1>2, <1>b
<1>7. \A d \in Conn : inbox'[d] \o next[d] = inbox[d] \o full[d]
  BY <1>5, <1>6
<1>8. ASSUME NEW d \in Conn
      PROVE  ConnOK(near[d], far[d], inbox'[d], wire'[d], next[d], ops[d],
                    header[d], held = d)
  <2>1. ConnOK(near[d], far[d], inbox[d], wire[d], full[d], ops[d],
               header[d], held = d)
    BY DEF CInv, ConnsOK
  <2>2. CASE d # c
    BY <2>1, <2>2, <1>6
  <2>3. CASE d = c
    <3>1. near[c] \notin {"none", "connecting"}
      BY <2>1, <2>3, <1>0 DEF ConnOK
    <3>2. QED
      BY <2>1, <2>3, <3>1, <1>0, <1>5, <1>c DEF ConnOK
  <2>4. QED
    BY <2>2, <2>3
<1>9. ConnsOK(next)'
  BY <1>3, <1>8 DEF ConnsOK
<1>10. HandlersOK(next)'
  <2>1. ASSUME NEW k \in 1 .. Len(done), NEW d \in Conn, done[k].conn = d
        PROVE  HandlerOK(done[k], d, near[d], far[d], inbox'[d] \o next[d],
                         ops[d], header[d], data[d])
    <3>1. HandlerOK(done[k], d, near[d], far[d], inbox[d] \o full[d], ops[d],
                    header[d], data[d])
      BY <2>1 DEF CInv, HandlersOK
    <3>2. QED
      BY <3>1, <1>7
  <2>2. QED
    BY <1>3, <2>1 DEF HandlersOK
<1>11. MessagesOK(next)'
  <2>1. Carriages(near, first, inbox', next, done, data)
          \subseteq Carriages(near, first, inbox, full, done, data)
    <3> SUFFICES ASSUME NEW t \in Carriage,
                        Carries(t, near, first, inbox', next, done, data)
                 PROVE  Carries(t, near, first, inbox, full, done, data)
      BY DEF Carriages
    <3>1. t[1] \in Conn
      BY DEF Carriage
    <3>2. inbox'[t[1]] \o next[t[1]] = inbox[t[1]] \o full[t[1]]
      BY <3>1, <1>7
    <3>3. QED
      BY <3>2 DEF Carries
  <2>2. Once(Carriages(near, first, inbox', next, done, data), sent, received)
    BY <2>1, OnceLost DEF CInv, MessagesOK
  <2>3. QED
    BY <2>2, <1>3 DEF MessagesOK
<1>12. ThrownOK(next)'
  BY <1>3, <1>7 DEF CInv, ThrownOK
<1>13. CInv(next)'
  BY <1>3, <1>9, <1>10, <1>11, <1>12, <1>b DEF CInv
<1>14. QED
  BY <1>13

LEMMA HandlerParts ==
    ASSUME NEW c
    PROVE  /\ BodyDone(c).conn = c /\ BodyDone(c).error = FALSE
           /\ BodyDone(c).op = [buf |-> "data", have |-> Width, need |-> Width]
           /\ BodyDone(c).op.buf = "data"
           /\ HeaderDone(c).conn = c /\ HeaderDone(c).error = FALSE
           /\ HeaderDone(c).op = [buf |-> "header", have |-> 1, need |-> 1]
           /\ HeaderDone(c).op.buf = "header"
           /\ BodyError(c).conn = c /\ BodyError(c).error = TRUE
           /\ BodyError(c).op = ReadBody
           /\ BodyError(c).op.buf = "data"
           /\ HeaderError(c).conn = c /\ HeaderError(c).error = TRUE
           /\ HeaderError(c).op = ReadHeader
           /\ HeaderError(c).op.buf = "header"
           /\ BodyDone(c) # HeaderDone(c) /\ BodyDone(c) # HeaderError(c)
           /\ HeaderDone(c) # HeaderError(c) /\ BodyDone(c) # BodyError(c)
           /\ HeaderDone(c) # BodyError(c) /\ HeaderError(c) # BodyError(c)
<1>1. /\ BodyDone(c).conn = c /\ BodyDone(c).error = FALSE
      /\ BodyDone(c).op = [buf |-> "data", have |-> Width, need |-> Width]
      /\ BodyDone(c).op.buf = "data"
  BY DEF BodyDone
<1>2. /\ HeaderDone(c).conn = c /\ HeaderDone(c).error = FALSE
      /\ HeaderDone(c).op = [buf |-> "header", have |-> 1, need |-> 1]
      /\ HeaderDone(c).op.buf = "header"
  BY DEF HeaderDone
<1>3. /\ HeaderError(c).conn = c /\ HeaderError(c).error = TRUE
      /\ HeaderError(c).op = ReadHeader
      /\ HeaderError(c).op.buf = "header"
  BY DEF HeaderError, ReadHeader
<1>4. /\ BodyError(c).conn = c /\ BodyError(c).error = TRUE
      /\ BodyError(c).op = ReadBody
      /\ BodyError(c).op.buf = "data"
  BY DEF BodyError, ReadBody
<1>5. QED
  BY <1>1, <1>2, <1>3, <1>4

\* The handler of a body depends on nothing but data_.
LEMMA BodyHandler ==
    ASSUME NEW c, NEW nr, NEW fr, NEW s, NEW rs, NEW hd, NEW dt, NEW z,
           NEW x \in {<< >>, ForHeader}, NEW h,
           HandlerOK(BodyDone(c), c, nr, fr, s, rs, hd, dt)
    PROVE  HandlerOK(BodyDone(c), c, nr, fr, z, x, h, dt)
<1>1. BodyDone(c) # HeaderDone(c) /\ BodyDone(c) # BodyError(c)
  BY HandlerParts, Zenon
<1>2. x # ForBody
  BY ReadsDiffer
<1>3. QED
  BY <1>1, <1>2 DEF HandlerOK

\* A handler h is queued behind those of its connection.
LEMMA Queued ==
    ASSUME NEW S, NEW q \in Seq(S), NEW h \in S, InOrder(q),
           \A k \in 1 .. Len(q) : q[k].conn = h.conn =>
              q[k].op.buf = "data" /\ h.op.buf = "header"
    PROVE  /\ InOrder(Append(q, h))
           /\ \A k \in 1 .. Len(Append(q, h)) :
                 \/ k \in 1 .. Len(q) /\ Append(q, h)[k] = q[k]
                 \/ k = Len(q) + 1 /\ Append(q, h)[k] = h
<1> DEFINE p == Append(q, h)
<1>1. /\ Len(q) \in Nat /\ Len(p) = Len(q) + 1
      /\ \A k \in 1 .. Len(q) : p[k] = q[k]
      /\ p[Len(q) + 1] = h
  BY AppendProperties
<1> HIDE DEF p
<1>2. ASSUME NEW k \in 1 .. Len(p)
      PROVE  \/ k \in 1 .. Len(q) /\ p[k] = q[k]
             \/ k = Len(q) + 1 /\ p[k] = h
  BY <1>1
<1>3. ASSUME NEW k \in 1 .. Len(p), NEW l \in 1 .. Len(p), k < l,
             p[k].conn = p[l].conn
      PROVE  p[k].op.buf = "data" /\ p[l].op.buf = "header"
  <2>1. k \in 1 .. Len(q) /\ p[k] = q[k]
    BY <1>1, <1>3
  <2>2. CASE l \in 1 .. Len(q) /\ p[l] = q[l]
    BY <1>3, <2>1, <2>2 DEF InOrder
  <2>3. CASE p[l] = h
    BY <1>3, <2>1, <2>3
  <2>4. QED
    BY <1>2, <2>2, <2>3
<1>4. QED
  BY <1>2, <1>3 DEF InOrder, p

\* The other end is closed and nothing more will arrive: a body may be missing.
LEMMA KeptByEof ==
    ASSUME NEW full, CInv(full), TypeOK', NEW c \in Conn, perform_eof(c)
    PROVE  CInv(full)'
<1>1. /\ ops[c] # << >> /\ inbox[c] = << >> /\ wire[c] = << >>
      /\ near[c] = "closed"
      /\ done' = Append(done, [conn |-> c, op |-> Head(ops[c]), error |-> TRUE])
      /\ ops' = [ops EXCEPT ![c] = Tail(@)]
      /\ UNCHANGED <<caller, wire, thrown, far, inbox, header, data, received>>
  BY DEF perform_eof, Complete
<1>2. /\ ops \in [Conn -> Seq(Op)] /\ done \in Seq(Done)
      /\ near' = near /\ first' = first /\ held' = held /\ sent' = sent
  BY <1>1 DEF CInv, TypeOK, caller
<1>3. ConnOK(near[c], far[c], inbox[c], wire[c], full[c], ops[c],
             header[c], held = c)
  BY DEF CInv, ConnsOK
<1>4. ops[c] \in {ForHeader, ForBody}
  BY <1>1, <1>3 DEF ConnOK
<1> DEFINE h == IF ops[c] = ForHeader THEN HeaderError(c) ELSE BodyError(c)
<1>5. /\ h.conn = c /\ h.error = TRUE
      /\ h \in {HeaderError(c), BodyError(c)}
      /\ ops[c] = ForHeader => h = HeaderError(c) /\ h.op.buf = "header"
      /\ ops[c] = ForBody => h = BodyError(c)
  <2>1. /\ HeaderError(c).conn = c /\ HeaderError(c).error = TRUE
        /\ HeaderError(c).op.buf = "header"
        /\ BodyError(c).conn = c /\ BodyError(c).error = TRUE
    BY HandlerParts, Zenon
  <2>2. QED
    BY <2>1, ReadsDiffer
<1>6. /\ ops[c] = ForHeader => Head(ops[c]) = ReadHeader /\ Tail(ops[c]) = << >>
      /\ ops[c] = ForBody => Head(ops[c]) = ReadBody /\ Tail(ops[c]) = ForHeader
  <2>1. Head(ForHeader) = ReadHeader /\ Tail(ForHeader) = << >>
    BY DEF ForHeader
  <2>2. Head(ForBody) = ReadBody /\ Tail(ForBody) = ForHeader
    BY DEF ForHeader, ForBody
  <2>3. QED
    BY <2>1, <2>2
<1>7. done' = Append(done, h) /\ h \in Done
  <2>1. CASE ops[c] = ForHeader
    BY <1>1, <1>5, <1>6, <2>1, ReadHeaderType DEF HeaderError, Done
  <2>2. CASE ops[c] = ForBody
    <3>1. ReadBody \in Op
      BY ConnectionsAssumption DEF ReadBody, Op
    <3>2. QED
      BY <1>1, <1>5, <1>6, <2>2, <3>1 DEF BodyError, Done
  <2>3. QED
    BY <1>4, <2>1, <2>2
<1> HIDE DEF h
<1>8. ASSUME NEW k \in 1 .. Len(done), NEW d \in Conn, done[k].conn = d
      PROVE  HandlerOK(done[k], d, near[d], far[d], inbox[d] \o full[d], ops[d],
                       header[d], data[d])
  BY <1>8 DEF CInv, HandlersOK
<1>9. ASSUME NEW k \in 1 .. Len(done), done[k].conn = c
      PROVE  ops[c] = ForHeader /\ done[k] \in {BodyDone(c), BodyError(c)}
  BY <1>4, <1>8, <1>9 DEF HandlerOK
<1>10. \A k \in 1 .. Len(done) : done[k].conn = h.conn =>
          done[k].op.buf = "data" /\ h.op.buf = "header"
  <2>1. BodyDone(c).op.buf = "data" /\ BodyError(c).op.buf = "data"
    BY HandlerParts, Zenon
  <2>2. ASSUME NEW k \in 1 .. Len(done), done[k].conn = h.conn
        PROVE  done[k].op.buf = "data" /\ h.op.buf = "header"
    <3>1. ops[c] = ForHeader /\ done[k] \in {BodyDone(c), BodyError(c)}
      BY <1>5, <1>9, <2>2
    <3>2. QED
      BY <1>5, <2>1, <3>1
  <2>3. QED
    BY <2>2
<1>11. /\ InOrder(done')
       /\ \A k \in 1 .. Len(done') :
             \/ k \in 1 .. Len(done) /\ done'[k] = done[k]
             \/ k = Len(done) + 1 /\ done'[k] = h
  <2>1. InOrder(done)
    BY DEF CInv
  <2>2. QED
    BY <2>1, <1>2, <1>7, <1>10, Queued
<1>12. /\ ops[c] = ForHeader => ops'[c] = << >>
       /\ ops[c] = ForBody => ops'[c] = ForHeader
       /\ \A d \in Conn \ {c} : ops'[d] = ops[d]
  BY <1>1, <1>2, <1>6
<1>13. far[c] = "open"
  BY <1>1, <1>3 DEF ConnOK
<1>14. ASSUME NEW d \in Conn
       PROVE  ConnOK(near[d], far[d], inbox[d], wire[d], full[d], ops'[d],
                     header[d], held = d)
  <2>1. ConnOK(near[d], far[d], inbox[d], wire[d], full[d], ops[d],
               header[d], held = d)
    BY DEF CInv, ConnsOK
  <2>2. CASE d # c
    BY <2>1, <2>2, <1>12
  <2>3. CASE d = c
    BY <1>1, <1>4, <2>1, <2>3, <1>12, <1>13, ReadsDiffer DEF ConnOK
  <2>4. QED
    BY <2>2, <2>3
<1>15. ASSUME NEW k \in 1 .. Len(done'), NEW d \in Conn, done'[k].conn = d
       PROVE  HandlerOK(done'[k], d, near[d], far[d], inbox[d] \o full[d],
                        ops'[d], header[d], data[d])
  <2>1. CASE k \in 1 .. Len(done) /\ done'[k] = done[k]
    <3>1. HandlerOK(done[k], d, near[d], far[d], inbox[d] \o full[d], ops[d],
                    header[d], data[d])
      BY <1>8, <1>15, <2>1
    <3>2. CASE d # c
      BY <3>1, <3>2, <2>1, <1>12
    <3>3. CASE d = c
      BY <3>1, <3>3, <2>1, <1>9, <1>12, <1>15, ReadsDiffer DEF HandlerOK
    <3>4. QED
      BY <3>2, <3>3
  <2>2. CASE done'[k] = h
    <3>1. d = c
      BY <1>5, <1>15, <2>2
    <3>2. CASE ops[c] = ForHeader
      <4>1. HeaderError(c) \notin {BodyDone(c), BodyError(c), HeaderDone(c)}
        BY HandlerParts, Zenon
      <4>2. HandlerOK(HeaderError(c), c, near[c], far[c], inbox[c] \o full[c],
                      << >>, header[c], data[c])
        BY <1>1, <1>13, <4>1, ReadsDiffer DEF HandlerOK
      <4>3. QED
        BY <2>2, <3>1, <3>2, <4>2, <1>5, <1>12
    <3>3. CASE ops[c] = ForBody
      <4>1. BodyError(c) \notin {BodyDone(c), HeaderDone(c), HeaderError(c)}
        BY HandlerParts, Zenon
      <4>2. Struck(near[c], far[c], inbox[c] \o full[c], header[c])
        BY <1>1, <1>3, <1>13, <3>3 DEF ConnOK, Struck
      <4>3. HandlerOK(BodyError(c), c, near[c], far[c], inbox[c] \o full[c],
                      ForHeader, header[c], data[c])
        BY <1>1, <1>13, <4>1, <4>2, ReadsDiffer DEF HandlerOK
      <4>4. QED
        BY <2>2, <3>1, <3>3, <4>3, <1>5, <1>12
    <3>4. QED
      BY <1>4, <3>2, <3>3
  <2>3. QED
    BY <1>11, <2>1, <2>2
<1>16. ConnsOK(full)' /\ HandlersOK(full)'
  BY <1>1, <1>2, <1>14, <1>15 DEF ConnsOK, HandlersOK
<1>17. MessagesOK(full)'
  <2>1. Carriages(near, first, inbox, full, done', data)
          \subseteq Carriages(near, first, inbox, full, done, data)
    <3> SUFFICES ASSUME NEW t \in Carriage,
                        Carries(t, near, first, inbox, full, done', data)
                 PROVE  Carries(t, near, first, inbox, full, done, data)
      BY DEF Carriages
    <3>1. ASSUME NEW k \in 1 .. Len(done'), done'[k] = BodyDone(t[1])
          PROVE  \E l \in 1 .. Len(done) : done[l] = BodyDone(t[1])
      <4>1. BodyDone(t[1]).error = FALSE
        BY HandlerParts
      <4>2. QED
        BY <1>5, <1>11, <3>1, <4>1
    <3>2. QED
      BY <3>1 DEF Carries
  <2>2. Once(Carriages(near, first, inbox, full, done', data), sent, received)
    BY <2>1, OnceLost DEF CInv, MessagesOK
  <2>3. QED
    BY <2>2, <1>1, <1>2 DEF MessagesOK
<1>18. ThrownOK(full)'
  BY <1>1 DEF ThrownOK, perform_eof
<1>19. QED
  BY <1>1, <1>2, <1>11, <1>16, <1>17, <1>18 DEF CInv

LEMMA KeptByRestart ==
    ASSUME NEW full, CInv(full), TypeOK', restart_callee
    PROVE  \E next : CInv(next)'
<1>1. /\ near' = near /\ first' = first /\ held' = held /\ sent' = sent
      /\ received' = received /\ thrown' = FALSE /\ done' = << >>
      /\ \A c \in Conn : /\ inbox'[c] = << >> /\ wire'[c] = << >> /\ ops'[c] = << >>
                         /\ far'[c] = IF far[c] = "none" THEN "none" ELSE "closed"
  BY DEF restart_callee, caller
<1> DEFINE next == [c \in Conn |-> << >>]
<1>0. next \in [Conn -> Seq(Cell)] /\ \A c \in Conn : next[c] = << >>
  OBVIOUS
<1> HIDE DEF next
<1>2. ASSUME NEW c \in Conn
      PROVE  ConnOK(near[c], far'[c], << >>, << >>, << >>, << >>, header'[c],
                    held = c)
  <2>1. ConnOK(near[c], far[c], inbox[c], wire[c], full[c], ops[c],
               header[c], held = c)
    BY DEF CInv, ConnsOK
  <2>2. << >> \o << >> = << >> /\ Len(<< >>) = 0
    OBVIOUS
  <2>3. Whole(<< >>) /\ OneFrame(<< >>) /\ Cut(<< >>) /\ AtHeader(<< >>)
    BY <2>2 DEF Whole, OneFrame, Cut, AtHeader
  <2>4. held = c => near[c] = "open"
    BY <2>1 DEF ConnOK
  <2>5. QED
    BY <2>2, <2>3, <2>4, ReadsDiffer DEF ConnOK
<1>3. ConnsOK(next)'
  BY <1>0, <1>1, <1>2 DEF ConnsOK
<1>4. Len(done') = 0
  BY <1>1
<1>5. HandlersOK(next)' /\ InOrder(done')
  BY <1>4 DEF HandlersOK, InOrder
<1>6. MessagesOK(next)'
  <2>1. Carriages(near, first, inbox', next, done', data')
          \subseteq Carriages(near, first, inbox, full, done, data)
    <3> SUFFICES ASSUME NEW t \in Carriage,
                        Carries(t, near, first, inbox', next, done', data')
                 PROVE  Carries(t, near, first, inbox, full, done, data)
      BY DEF Carriages
    <3>1. t[1] \in Conn
      BY DEF Carriage
    <3>2. inbox'[t[1]] \o next[t[1]] = << >>
      BY <3>1, <1>0, <1>1
    <3>3. Len(inbox'[t[1]] \o next[t[1]]) = 0
      BY <3>2
    <3>4. ~HasMessage(inbox'[t[1]] \o next[t[1]], t[3])
      BY <3>3 DEF HasMessage
    <3>5. QED
      BY <3>4, <1>4 DEF Carries
  <2>2. Once(Carriages(near, first, inbox', next, done', data'), sent, received)
    BY <2>1, OnceLost DEF CInv, MessagesOK
  <2>3. QED
    BY <2>2, <1>1 DEF MessagesOK
<1>7. ThrownOK(next)'
  BY <1>1 DEF ThrownOK
<1>8. CInv(next)'
  BY <1>0, <1>1, <1>3, <1>5, <1>6, <1>7 DEF CInv
<1>9. QED
  BY <1>8

\* A header is read: the stream goes on with its body.
LEMMA KeptByHeader ==
    ASSUME NEW full, CInv(full), TypeOK', NEW c \in Conn, perform(c), ops[c] = ForHeader
    PROVE  CInv(full)'
<1> DEFINE b == inbox[c]
           w == full[c]
           y == SubSeq(b, 1 + 1, Len(b))
<1>1. /\ ops \in [Conn -> Seq(Op)] /\ done \in Seq(Done)
      /\ inbox \in [Conn -> Seq(Cell)] /\ full \in [Conn -> Seq(Cell)]
      /\ header \in [Conn -> Cell]
  BY DEF CInv, TypeOK
<1>2. b \in Seq(Cell) /\ w \in Seq(Cell) /\ b # << >> /\ Len(b) \in Nat /\ Len(b) > 0
  BY <1>1 DEF perform
<1>3. Head(ops[c]) = ReadHeader /\ Tail(ops[c]) = << >>
  BY DEF ForHeader
<1>4. ReadHeader.buf = "header" /\ ReadHeader.have = 0 /\ ReadHeader.need = 1
      /\ [ReadHeader EXCEPT !.have = 0 + 1] = [buf |-> "header", have |-> 1, need |-> 1]
  BY DEF ReadHeader
<1>5. (IF Len(b) < 1 - 0 THEN Len(b) ELSE 1 - 0) = 1
  BY <1>2
<1>6. /\ header' = [header EXCEPT ![c] = b[1]] /\ data' = data
      /\ inbox' = [inbox EXCEPT ![c] = y]
      /\ done' = Append(done, HeaderDone(c))
  <2>1. /\ header' = [header EXCEPT ![c] = b[1]] /\ data' = data
        /\ inbox' = [inbox EXCEPT ![c] = SubSeq(@,
              (IF Len(b) < 1 - 0 THEN Len(b) ELSE 1 - 0) + 1, Len(@))]
        /\ done' = Append(done, [conn |-> c, op |-> [ReadHeader EXCEPT !.have =
              0 + (IF Len(b) < 1 - 0 THEN Len(b) ELSE 1 - 0)], error |-> FALSE])
    BY <1>3, <1>4 DEF perform, Complete
  <2>2. QED
    BY <2>1, <1>4, <1>5 DEF HeaderDone
<1>7. /\ ops' = [ops EXCEPT ![c] = Tail(@)]
      /\ UNCHANGED <<wire, thrown, far, received>>
      /\ near' = near /\ first' = first /\ held' = held /\ sent' = sent
  BY DEF perform, caller
<1> DEFINE s == b \o w
           r == y \o w
<1>8. /\ y \in Seq(Cell) /\ IsRest(r, s, 1) /\ (Cut(b) => Cut(y))
      /\ s \in Seq(Cell) /\ r \in Seq(Cell)
  <2>1. 1 \in 0 .. Len(b)
    BY <1>2
  <2>2. y \in Seq(Cell) /\ IsRest(r, s, 1) /\ (Cut(b) => Cut(y))
    BY <1>2, <2>1, TakenOff
  <2>3. QED
    BY <1>2, <2>2, ConcatParts
<1>9. s[1] = b[1] /\ 1 \in 1 .. Len(s)
  <2>1. 1 \in 1 .. Len(b)
    BY <1>2
  <2>2. /\ Len(b) \in Nat /\ Len(w) \in Nat /\ Len(s) = Len(b) + Len(w)
        /\ \A i \in 1 .. Len(b) : s[i] = b[i]
    BY <1>2, ConcatParts, Zenon
  <2> HIDE DEF b, w, y, s, r
  <2>3. s[1] = b[1]
    BY <2>1, <2>2, Zenon
  <2>4. 1 \in 1 .. Len(s)
    BY <2>1, <2>2
  <2>5. QED
    BY <2>3, <2>4
<1> HIDE DEF y, s, r
<1>10. ConnOK(near[c], far[c], b, wire[c], w, ops[c], header[c], held = c)
  BY DEF CInv, ConnsOK
<1>11. Whole(s) /\ OneFrame(s) /\ AtHeader(s) /\ Cut(b) /\ far[c] = "open"
       /\ near[c] \notin {"none", "connecting"}
  BY <1>2, <1>10, ReadsDiffer DEF ConnOK, s
<1>12. s[1][2] = 0
  <2>1. s # << >>
    BY <1>8, <1>9
  <2>2. QED
    BY <2>1, <1>11 DEF AtHeader
<1>13. Whole(r) /\ OneFrame(r) /\ \A l : HasMessage(r, l) => HasMessage(s, l)
  BY <1>8, <1>11, Dropped
<1>14. Within(r, b[1])
  <2>1. 1 \in s[1][2] .. Width /\ 1 + (1 - s[1][2]) = 2
    BY <1>12, ConnectionsAssumption
  <2>2. 1 + (1 - s[1][2]) <= Len(s) /\ s[1 + (1 - s[1][2])] = <<s[1][1], 1>>
    BY <2>1, <1>9, <1>11 DEF Whole
  <2>3. 2 <= Len(s) /\ s[2] = <<s[1][1], 1>>
    BY <2>1, <2>2
  <2>4. Len(r) \in Nat /\ Len(r) + 1 = Len(s) /\ 1 \in 1 .. Len(r)
    BY <1>8, <2>3 DEF IsRest
  <2>5. r[1] = s[1 + 1] /\ r # << >>
    BY <1>8, <2>4 DEF IsRest
  <2>6. QED
    BY <2>3, <2>5, <1>9 DEF AtBody, Within
<1>15. b[1] \in Cell /\ b[1][1] # 0 /\ b[1][2] = 0
  <2>1. b[1] \in Cell /\ s[1][1] \in 0 .. MaxMsg
    BY <1>2, <1>8, <1>9, CellParts
  <2> DEFINE t == <<c, "stream", s[1][1]>>
  <2>2. t \in Carriage /\ t[1] = c /\ t[2] = "stream" /\ t[3] = s[1][1]
    BY <2>1 DEF Carriage
  <2> HIDE DEF t
  <2>3. HasMessage(s, t[3])
    BY <2>2, <1>9 DEF HasMessage
  <2>4. t \in Carriages(near, first, inbox, full, done, data)
    BY <2>2, <2>3 DEF Carriages, Carries, s
  <2>5. t[3] \in 1 .. sent
    BY <2>4 DEF CInv, MessagesOK, Once
  <2>6. t[3] # 0
    BY <2>5
  <2>7. QED
    BY <2>1, <2>2, <2>6, <1>9, <1>12
<1>16. /\ inbox'[c] = y /\ ops'[c] = << >> /\ header'[c] = b[1]
       /\ \A d \in Conn \ {c} :
             inbox'[d] = inbox[d] /\ ops'[d] = ops[d] /\ header'[d] = header[d]
  BY <1>1, <1>3, <1>6, <1>7
<1>17. ASSUME NEW d \in Conn
       PROVE  ConnOK(near[d], far[d], inbox'[d], wire[d], full[d], ops'[d], header'[d],
                     held = d)
  <2>1. CASE d # c
    BY <2>1, <1>16 DEF CInv, ConnsOK
  <2>2. CASE d = c
    <3>1. ConnOK(near[c], far[c], y, wire[c], w, << >>, b[1], held = c)
      BY <1>8, <1>10, <1>11, <1>13, ReadsDiffer DEF ConnOK, r
    <3>2. QED
      BY <2>2, <3>1, <1>16
  <2>3. QED
    BY <2>1, <2>2
<1>18. ASSUME NEW k \in 1 .. Len(done), NEW d \in Conn, done[k].conn = d
       PROVE  HandlerOK(done[k], d, near[d], far[d], inbox[d] \o full[d], ops[d],
                        header[d], data[d])
  BY <1>18 DEF CInv, HandlersOK
<1>19. ASSUME NEW k \in 1 .. Len(done), done[k].conn = c
       PROVE  done[k] = BodyDone(c)
  <2>1. HandlerOK(done[k], c, near[c], far[c], s, ops[c], header[c], data[c])
    BY <1>18, <1>19 DEF s
  <2>2. done[k] # BodyError(c)
    BY <2>1, <1>12 DEF HandlerOK, Struck, Within, AtBody
  <2>3. QED
    BY <2>1, <2>2 DEF HandlerOK
<1>20. /\ InOrder(done')
       /\ \A k \in 1 .. Len(done') :
             \/ k \in 1 .. Len(done) /\ done'[k] = done[k]
             \/ k = Len(done) + 1 /\ done'[k] = HeaderDone(c)
  <2>1. \A k \in 1 .. Len(done) : done[k].conn = HeaderDone(c).conn =>
           done[k].op.buf = "data" /\ HeaderDone(c).op.buf = "header"
    <3>1. /\ BodyDone(c).op.buf = "data"
          /\ HeaderDone(c).conn = c /\ HeaderDone(c).op.buf = "header"
      BY HandlerParts, Zenon
    <3>2. QED
      BY <1>19, <3>1, Zenon
  <2>2. InOrder(done)
    BY DEF CInv
  <2>3. HeaderDone(c) \in Done
    BY ConnectionsAssumption DEF HeaderDone, Done, Op
  <2>4. QED
    BY <2>1, <2>2, <2>3, <1>1, <1>6, Queued
<1>21. ASSUME NEW k \in 1 .. Len(done'), NEW d \in Conn, done'[k].conn = d
       PROVE  HandlerOK(done'[k], d, near[d], far[d], inbox'[d] \o full[d],
                        ops'[d], header'[d], data[d])
  <2>1. CASE k \in 1 .. Len(done) /\ done'[k] = done[k]
    <3>1. HandlerOK(done[k], d, near[d], far[d], inbox[d] \o full[d], ops[d],
                    header[d], data[d])
      BY <1>18, <1>21, <2>1
    <3>2. CASE d # c
      BY <3>1, <3>2, <2>1, <1>16
    <3>3. CASE d = c
      <4>1. done[k] = BodyDone(c)
        BY <1>19, <1>21, <2>1, <3>3
      <4>2. QED
        <5>1. HandlerOK(BodyDone(c), c, near[c], far[c], inbox[c] \o full[c],
                        ops[c], header[c], data[c])
          BY <3>1, <3>3, <4>1
        <5>2. HandlerOK(BodyDone(c), c, near[c], far[c], inbox'[c] \o full[c],
                        << >>, header'[c], data[c])
          BY <5>1, BodyHandler
        <5>3. QED
          BY <5>2, <3>3, <2>1, <4>1, <1>16
    <3>4. QED
      BY <3>2, <3>3
  <2>2. CASE done'[k] = HeaderDone(c)
    <3>1. d = c
      BY <1>21, <2>2, HandlerParts
    <3>0. HeaderDone(c) \notin {BodyDone(c), BodyError(c), HeaderError(c)}
      BY HandlerParts, Zenon
    <3>2. near[c] \in {"open", "closed"}
      BY <1>11 DEF CInv, TypeOK
    <3>3. HandlerOK(HeaderDone(c), c, near[c], far[c], r, << >>, b[1], data[c])
      BY <1>11, <1>14, <1>15, <3>2, <3>0, ReadsDiffer DEF HandlerOK
    <3>4. QED
      BY <2>2, <3>1, <3>3, <1>16 DEF r
  <2>3. QED
    BY <1>20, <2>1, <2>2
<1>22. ConnsOK(full)' /\ HandlersOK(full)'
  BY <1>6, <1>7, <1>17, <1>21 DEF ConnsOK, HandlersOK
<1>23. MessagesOK(full)'
  <2>1. Carriages(near, first, inbox', full, done', data)
          \subseteq Carriages(near, first, inbox, full, done, data)
    <3> SUFFICES ASSUME NEW t \in Carriage,
                        Carries(t, near, first, inbox', full, done', data)
                 PROVE  Carries(t, near, first, inbox, full, done, data)
      BY DEF Carriages
    <3>1. ASSUME NEW k \in 1 .. Len(done'), done'[k] = BodyDone(t[1])
          PROVE  \E l \in 1 .. Len(done) : done[l] = BodyDone(t[1])
      <4>1. BodyDone(t[1]).op.buf = "data" /\ HeaderDone(c).op.buf = "header"
        BY HandlerParts
      <4>2. QED
        BY <1>20, <3>1, <4>1
    <3>2. HasMessage(inbox'[t[1]] \o full[t[1]], t[3])
             => HasMessage(inbox[t[1]] \o full[t[1]], t[3])
      <4>1. t[1] \in Conn
        BY DEF Carriage
      <4>2. CASE t[1] = c
        BY <4>2, <1>13, <1>16 DEF r, s
      <4>3. CASE t[1] # c
        BY <4>1, <4>3, <1>16
      <4>4. QED
        BY <4>2, <4>3
    <3>3. QED
      BY <3>1, <3>2 DEF Carries
  <2>2. Once(Carriages(near, first, inbox', full, done', data), sent, received)
    BY <2>1, OnceLost DEF CInv, MessagesOK
  <2>3. QED
    BY <2>2, <1>6, <1>7 DEF MessagesOK
<1>24. ThrownOK(full)'
  BY <1>7 DEF ThrownOK, perform
<1>25. QED
  BY <1>7, <1>20, <1>22, <1>23, <1>24 DEF CInv

LEMMA BodyParts ==
    ASSUME NEW m
    PROVE  /\ Body(m) = [i \in 1 .. Width |-> <<m, i>>]
           /\ Body(m)[1][1] = m
<1>1. 1 \in 1 .. Width
  BY ConnectionsAssumption
<1>2. QED
  BY <1>1 DEF Body

\* A body is read, all of it: the stream goes on with a header.
LEMMA KeptByBody ==
    ASSUME NEW full, CInv(full), TypeOK', NEW c \in Conn, perform(c), ops[c] = ForBody
    PROVE  CInv(full)'
<1> DEFINE b == inbox[c]
           w == full[c]
           y == SubSeq(b, Width + 1, Len(b))
           s == b \o w
           r == y \o w
           m == s[1][1]
<1>1. /\ ops \in [Conn -> Seq(Op)] /\ done \in Seq(Done)
      /\ inbox \in [Conn -> Seq(Cell)] /\ full \in [Conn -> Seq(Cell)]
      /\ data \in [Conn -> [1 .. Width -> Cell]]
      /\ Width \in Nat /\ Width > 0
  <2>1. Width \in Nat /\ Width > 0
    BY ConnectionsAssumption
  <2>2. QED
    BY <2>1 DEF CInv, TypeOK
<1>2. b \in Seq(Cell) /\ w \in Seq(Cell) /\ b # << >> /\ Len(b) \in Nat /\ Len(b) > 0
  BY <1>1 DEF perform
<1>3. /\ s \in Seq(Cell) /\ Len(b) \in Nat /\ Len(w) \in Nat
      /\ Len(s) = Len(b) + Len(w)
      /\ \A i \in 1 .. Len(b) : s[i] = b[i]
  BY <1>2, ConcatParts, Zenon
<1>4. ConnOK(near[c], far[c], b, wire[c], w, ForBody, header[c], held = c)
  BY DEF CInv, ConnsOK
<1>5. Whole(s) /\ OneFrame(s) /\ AtBody(s) /\ Cut(b) /\ far[c] = "open"
      /\ near[c] \notin {"none", "connecting"}
  BY <1>2, <1>4, ReadsDiffer DEF ConnOK, Within
<1> HIDE DEF b, w, y, s, r, m
<1>6. /\ Width <= Len(b)
      /\ \A i \in 1 .. Width : s[i] = <<m, i>>
      /\ Len(s) > Width => s[Width + 1][2] = 0
  <2>1. Len(b) \in 1 .. Len(b) /\ Len(b) \in 1 .. Len(s)
    BY <1>2, <1>3
  <2>2. s[Len(b)][2] \in {0, Width}
    BY <1>2, <1>3, <1>5, <2>1 DEF Cut
  <2>3. QED
    BY <1>3, <1>5, <2>1, <2>2, BodyFirst DEF m
<1>7. \A i \in 1 .. Width : b[i] = <<m, i>>
  <2>1. ASSUME NEW i \in 1 .. Width
        PROVE  b[i] = <<m, i>>
    <3>1. i \in 1 .. Len(b)
      BY <1>1, <1>2, <1>6
    <3>2. QED
      BY <3>1, <1>3, <1>6
  <2>2. QED
    BY <2>1
<1>8. Head(ops[c]) = ReadBody /\ Tail(ops[c]) = ForHeader
  BY DEF ForBody, ForHeader
<1>9. ReadBody.buf = "data" /\ ReadBody.have = 0 /\ ReadBody.need = Width
      /\ [ReadBody EXCEPT !.have = Width]
            = [buf |-> "data", have |-> Width, need |-> Width]
  BY DEF ReadBody
<1>10. (IF Len(b) < Width - 0 THEN Len(b) ELSE Width - 0) = Width
  BY <1>1, <1>2, <1>6
<1>11. /\ data' = [data EXCEPT ![c] = Body(m)] /\ header' = header
       /\ inbox' = [inbox EXCEPT ![c] = y]
       /\ done' = Append(done, BodyDone(c))
  <2> DEFINE op == Head(ops[c])
             n == IF Len(inbox[c]) < op.need - op.have THEN Len(inbox[c])
                                                       ELSE op.need - op.have
             v == [i \in 1 .. Width |->
                     IF i \in op.have + 1 .. op.have + n
                     THEN inbox[c][i - op.have] ELSE data[c][i]]
  <2>1. op.buf # "header"
    BY <1>8, <1>9
  <2>2. /\ data' = [data EXCEPT ![c] = v] /\ header' = header
        /\ inbox' = [inbox EXCEPT ![c] = SubSeq(inbox[c], n + 1, Len(inbox[c]))]
        /\ done' = Append(done, [conn |-> c, error |-> FALSE,
                                 op |-> [op EXCEPT !.have = @ + n]])
    BY <2>1 DEF perform, Complete
  <2>3. n = Width
    BY <1>8, <1>9, <1>10 DEF b
  <2> HIDE DEF n
  <2>4. v = Body(m)
    <3>1. ASSUME NEW i \in 1 .. Width
          PROVE  (IF i \in op.have + 1 .. op.have + n
                  THEN inbox[c][i - op.have] ELSE data[c][i]) = <<m, i>>
      <4>1. op.have = 0
        BY <1>8, <1>9
      <4> HIDE DEF op
      <4>2. i \in op.have + 1 .. op.have + n /\ i - op.have = i
        BY <2>3, <4>1, <1>1
      <4>3. QED
        BY <4>2, <1>7 DEF b
    <3>2. QED
      BY <3>1 DEF Body
  <2> HIDE DEF v
  <2>5. op.have + n = Width
    <3>1. op.have = 0
      BY <1>8, <1>9
    <3> HIDE DEF op
    <3>2. QED
      BY <2>3, <3>1, <1>1
  <2>6. [op EXCEPT !.have = @ + n] = [buf |-> "data", have |-> Width, need |-> Width]
    BY <2>5, <1>8, <1>9
  <2> HIDE DEF op
  <2>7. QED
    BY <2>2, <2>3, <2>4, <2>6 DEF BodyDone, y, b
<1>12. /\ ops' = [ops EXCEPT ![c] = ForHeader]
       /\ UNCHANGED <<wire, thrown, far, received>>
       /\ near' = near /\ first' = first /\ held' = held /\ sent' = sent
  BY <1>8 DEF perform, caller
<1>13. /\ y \in Seq(Cell) /\ IsRest(r, s, Width) /\ (Cut(b) => Cut(y))
       /\ r \in Seq(Cell)
  <2>1. Width \in 0 .. Len(b)
    BY <1>1, <1>2, <1>6
  <2>2. y \in Seq(Cell) /\ IsRest(r, s, Width) /\ (Cut(b) => Cut(y))
    BY <1>2, <2>1, TakenOff DEF y, r, s
  <2>3. QED
    BY <1>2, <2>2, ConcatParts DEF r
<1>14. Whole(r) /\ OneFrame(r) /\ \A l : HasMessage(r, l) => HasMessage(s, l)
  BY <1>1, <1>3, <1>5, <1>13, Dropped
<1>15. /\ Len(r) \in Nat /\ Len(r) + Width = Len(s)
       /\ \A i \in 1 .. Len(r) : r[i] = s[i + Width]
  BY <1>13 DEF IsRest
<1>16. AtHeader(r)
  <2>1. SUFFICES ASSUME r # << >>
                 PROVE  r[1][2] = 0
    BY DEF AtHeader
  <2>2. Len(r) > 0
    BY <2>1, <1>13
  <2>3. 1 \in 1 .. Len(r) /\ Len(s) > Width /\ 1 + Width = Width + 1
    BY <2>2, <1>1, <1>3, <1>15
  <2>4. QED
    BY <2>3, <1>6, <1>15
<1>17. ~HasMessage(r, m)
  <2>1. SUFFICES ASSUME NEW i \in 1 .. Len(r), r[i][1] = m
                 PROVE  FALSE
    BY DEF HasMessage
  <2>2. /\ i + Width \in 1 .. Len(s) /\ r[i] = s[i + Width] /\ 1 \in 1 .. Len(s)
        /\ 1 \in 1 .. Width
    BY <1>1, <1>3, <1>15
  <2>3. s[i + Width][1] = s[1][1] /\ s[1][2] = 1 /\ s[i + Width][2] \in 0 .. Width
    BY <2>1, <2>2, <1>3, <1>6, CellParts DEF m
  <2>4. (i + Width) + s[1][2] = 1 + s[i + Width][2]
    BY <2>2, <2>3, <1>5 DEF OneFrame
  <2>5. \A p \in 0 .. Width : (i + Width) + 1 # 1 + p
    BY <1>1, <1>15
  <2>6. QED
    BY <2>3, <2>4, <2>5
<1>18. m \in 0 .. MaxMsg /\ HasMessage(s, m)
  <2>1. 1 \in 1 .. Len(s)
    BY <1>2, <1>3
  <2>2. QED
    BY <2>1, <1>3, CellParts DEF m, HasMessage
<1>19. /\ inbox'[c] = y /\ ops'[c] = ForHeader /\ data'[c] = Body(m)
       /\ \A d \in Conn \ {c} :
             inbox'[d] = inbox[d] /\ ops'[d] = ops[d] /\ data'[d] = data[d]
  BY <1>1, <1>11, <1>12
<1>20. ASSUME NEW d \in Conn
       PROVE  ConnOK(near[d], far[d], inbox'[d], wire[d], full[d], ops'[d],
                     header[d], held = d)
  <2>1. CASE d # c
    BY <2>1, <1>19 DEF CInv, ConnsOK
  <2>2. CASE d = c
    <3>1. ConnOK(near[c], far[c], y, wire[c], w, ForHeader, header[c], held = c)
      BY <1>4, <1>5, <1>13, <1>14, <1>16, ReadsDiffer DEF ConnOK, r
    <3>2. QED
      BY <2>2, <3>1, <1>19 DEF w
  <2>3. QED
    BY <2>1, <2>2
<1>21. ASSUME NEW k \in 1 .. Len(done), NEW d \in Conn, done[k].conn = d
       PROVE  /\ d # c
              /\ HandlerOK(done[k], d, near[d], far[d], inbox[d] \o full[d], ops[d],
                           header[d], data[d])
  <2>1. HandlerOK(done[k], d, near[d], far[d], inbox[d] \o full[d], ops[d],
                  header[d], data[d])
    BY <1>21 DEF CInv, HandlersOK
  <2>2. QED
    BY <2>1 DEF HandlerOK
<1>22. /\ InOrder(done')
       /\ \A k \in 1 .. Len(done') :
             \/ k \in 1 .. Len(done) /\ done'[k] = done[k]
             \/ k = Len(done) + 1 /\ done'[k] = BodyDone(c)
  <2>1. \A k \in 1 .. Len(done) : done[k].conn # BodyDone(c).conn
    <3>1. BodyDone(c).conn = c
      BY HandlerParts, Zenon
    <3>2. QED
      BY <3>1, <1>21
  <2>2. InOrder(done)
    BY DEF CInv
  <2>3. BodyDone(c) \in Done
    BY ConnectionsAssumption DEF BodyDone, Done, Op
  <2>4. QED
    BY <2>1, <2>2, <2>3, <1>1, <1>11, Queued
<1>23. ASSUME NEW k \in 1 .. Len(done'), NEW d \in Conn, done'[k].conn = d
       PROVE  HandlerOK(done'[k], d, near[d], far[d], inbox'[d] \o full[d],
                        ops'[d], header[d], data'[d])
  <2>1. CASE k \in 1 .. Len(done) /\ done'[k] = done[k]
    <3>1. /\ d # c
          /\ HandlerOK(done[k], d, near[d], far[d], inbox[d] \o full[d], ops[d],
                       header[d], data[d])
      BY <1>21, <1>23, <2>1
    <3>2. QED
      BY <3>1, <2>1, <1>19
  <2>2. CASE done'[k] = BodyDone(c)
    <3>1. d = c
      BY <1>23, <2>2, HandlerParts
    <3>2. near[c] \in {"open", "closed"}
      BY <1>5 DEF CInv, TypeOK
    <3>3. /\ Body(m) = Body(Body(m)[1][1]) /\ BodyDone(c) # HeaderDone(c)
          /\ BodyDone(c) # BodyError(c) /\ ForHeader # ForBody
      BY BodyParts, HandlerParts, ReadsDiffer
    <3>4. HandlerOK(BodyDone(c), c, near[c], far[c], r, ForHeader, header[c], Body(m))
      BY <1>5, <3>2, <3>3 DEF HandlerOK
    <3>5. QED
      BY <2>2, <3>1, <3>4, <1>19 DEF r, w
  <2>3. QED
    BY <1>22, <2>1, <2>2
<1>24. ConnsOK(full)' /\ HandlersOK(full)'
  BY <1>11, <1>12, <1>20, <1>23 DEF ConnsOK, HandlersOK
<1>25. MessagesOK(full)'
  <2> DEFINE T == Carriages(near, first, inbox, full, done, data)
             U == Carriages(near, first, inbox', full, done', data')
             t0 == <<c, "stream", m>>
             u0 == <<c, "data", m>>
  <2>1. t0 \in Carriage /\ t0[1] = c /\ t0[2] = "stream" /\ t0[3] = m /\ u0[3] = m
    BY <1>18 DEF Carriage
  <2> HIDE DEF t0
  <2>2. t0 \in T
    BY <2>1, <1>18 DEF Carriages, Carries, s, b, w
  <2> HIDE DEF T
  <2>3. U \subseteq (T \ {t0}) \cup {u0}
    <3> SUFFICES ASSUME NEW t \in Carriage,
                        Carries(t, near, first, inbox', full, done', data')
                 PROVE  t \in (T \ {t0}) \cup {u0}
      BY DEF Carriages
    <3>1. t[1] \in Conn /\ t = <<t[1], t[2], t[3]>>
      BY DEF Carriage
    <3>2. CASE t[2] = "first"
      <4>1. Carries(t, near, first, inbox, full, done, data)
        BY <3>2 DEF Carries
      <4>2. QED
        BY <4>1, <3>2, <2>1 DEF Carriages, T
    <3>3. CASE t[2] = "stream"
      <4>1. HasMessage(inbox'[t[1]] \o full[t[1]], t[3])
        BY <3>3 DEF Carries
      <4>2. CASE t[1] = c
        <5>1. HasMessage(r, t[3]) /\ t[3] # m
          BY <4>1, <4>2, <1>17, <1>19 DEF r, w
        <5>2. HasMessage(s, t[3])
          BY <5>1, <1>14
        <5>3. Carries(t, near, first, inbox, full, done, data)
          BY <5>2, <4>2, <3>3 DEF Carries, s, b, w
        <5>4. QED
          BY <5>1, <5>3, <2>1 DEF Carriages, T
      <4>3. CASE t[1] # c
        <5>1. Carries(t, near, first, inbox, full, done, data)
          BY <4>1, <4>3, <3>1, <3>3, <1>19 DEF Carries
        <5>2. QED
          BY <5>1, <4>3, <2>1 DEF Carriages, T
      <4>4. QED
        BY <4>2, <4>3
    <3>4. CASE t[2] = "data"
      <4>1. /\ data'[t[1]][1][1] = t[3]
            /\ \E k \in 1 .. Len(done') : done'[k] = BodyDone(t[1])
        BY <3>4 DEF Carries
      <4>2. CASE t[1] = c
        <5>1. t[3] = m
          BY <4>1, <4>2, <1>19, BodyParts
        <5>2. QED
          BY <5>1, <4>2, <3>1, <3>4
      <4>3. CASE t[1] # c
        <5>1. PICK k \in 1 .. Len(done') : done'[k] = BodyDone(t[1])
          BY <4>1
        <5>2. BodyDone(t[1]).conn = t[1] /\ BodyDone(c).conn = c
          BY HandlerParts, Zenon
        <5>3. k \in 1 .. Len(done) /\ done[k] = BodyDone(t[1])
          BY <5>1, <5>2, <4>3, <1>22
        <5>4. Carries(t, near, first, inbox, full, done, data)
          BY <5>3, <4>1, <4>3, <3>1, <3>4, <1>19 DEF Carries
        <5>5. QED
          BY <5>4, <3>4, <2>1 DEF Carriages, T
      <4>4. QED
        BY <4>2, <4>3
    <3>5. QED
      BY <3>2, <3>3, <3>4 DEF Carries
  <2> HIDE DEF U, u0
  <2>4. Once(T, sent, received)
    BY DEF CInv, MessagesOK, T
  <2>5. u0[3] = t0[3]
    BY <2>1
  <2>6. Once(U, sent, received)
    BY <2>2, <2>3, <2>4, <2>5, OnceMoved
  <2>7. QED
    BY <2>6, <1>12 DEF MessagesOK, U
<1>26. ThrownOK(full)'
  BY <1>12 DEF ThrownOK, perform
<1>27. QED
  BY <1>12, <1>22, <1>24, <1>25, <1>26 DEF CInv

\* The handler queued first is taken off the queue.
LEMMA TakenUp ==
    ASSUME NEW S, NEW q \in Seq(S), q # << >>, InOrder(q)
    PROVE  /\ 1 \in 1 .. Len(q) /\ Head(q) = q[1] /\ InOrder(Tail(q))
           /\ \A k \in 1 .. Len(Tail(q)) :
                 /\ k + 1 \in 1 .. Len(q) /\ Tail(q)[k] = q[k + 1]
                 /\ Tail(q)[k].conn = q[1].conn =>
                       q[1].op.buf = "data" /\ Tail(q)[k].op.buf = "header"
<1> DEFINE p == Tail(q)
<1>1. /\ Len(q) \in Nat /\ Len(q) > 0 /\ Len(p) = Len(q) - 1
      /\ \A k \in 1 .. Len(p) : p[k] = q[k + 1]
      /\ Head(q) = q[1]
  BY HeadTailProperties
<1> HIDE DEF p
<1>2. ASSUME NEW k \in 1 .. Len(p)
      PROVE  k + 1 \in 1 .. Len(q) /\ p[k] = q[k + 1] /\ 1 < k + 1
  BY <1>1
<1>3. 1 \in 1 .. Len(q)
  BY <1>1
<1>4. ASSUME NEW k \in 1 .. Len(p), p[k].conn = q[1].conn
      PROVE  q[1].op.buf = "data" /\ p[k].op.buf = "header"
  BY <1>2, <1>3, <1>4 DEF InOrder
<1>5. ASSUME NEW k \in 1 .. Len(p), NEW l \in 1 .. Len(p), k < l,
             p[k].conn = p[l].conn
      PROVE  p[k].op.buf = "data" /\ p[l].op.buf = "header"
  <2>1. k + 1 < l + 1
    BY <1>5
  <2>2. QED
    BY <2>1, <1>2, <1>5 DEF InOrder
<1>6. QED
  BY <1>1, <1>2, <1>3, <1>4, <1>5 DEF InOrder, p

\* Which handler runs, and what it does.
LEMMA HandlerCases ==
    ASSUME NEW full, CInv(full), handle
    PROVE  \E c \in Conn :
             /\ HandlerOK(done[1], c, near[c], far[c], inbox[c] \o full[c], ops[c],
                          header[c], data[c])
             /\ done[1].conn = c
             /\ \/ /\ done[1] = HeaderError(c)
                   /\ UNCHANGED <<ops, received, thrown>>
                \/ /\ done[1] = HeaderDone(c)
                   /\ ops' = [ops EXCEPT ![c] = ForBody]
                   /\ UNCHANGED <<received, thrown>>
                \/ /\ done[1] = BodyDone(c)
                   /\ received' = Append(received, data[c][1][1])
                   /\ UNCHANGED <<ops, thrown>>
                \/ /\ done[1] = BodyError(c)
                   /\ thrown' = TRUE /\ UNCHANGED <<ops, received>>
             /\ done' = Tail(done)
             /\ UNCHANGED <<caller, wire, far, inbox, header, data>>
<1> DEFINE d == Head(done)
           c == d.conn
<1>1. done \in Seq(Done) /\ done # << >> /\ ops \in [Conn -> Seq(Op)]
      /\ data \in [Conn -> [1 .. Width -> Cell]] /\ ~thrown
      /\ InOrder(done)
  BY DEF CInv, TypeOK, handle
<1>2. d = done[1] /\ 1 \in 1 .. Len(done) /\ d \in Done
  BY <1>1, TakenUp
<1>3. c \in Conn
  BY <1>2 DEF Done
<1>4. HandlerOK(done[1], c, near[c], far[c], inbox[c] \o full[c], ops[c],
                header[c], data[c])
  BY <1>2, <1>3 DEF CInv, HandlersOK
<1>5. /\ IF ~d.error /\ d.op.have < d.op.need
         THEN read_on(c, d.op)
         ELSE IF d.op.buf = "header"
         THEN read_body(c, d.error) /\ UNCHANGED received
         ELSE body_callback(c, d.op, d.error)
      /\ UNCHANGED <<caller, wire, restarts, far, inbox, header, data>>
  BY DEF handle
<1> HIDE DEF d, c
<1>6. done[1].conn = c
  BY <1>2 DEF c
<1>7. CASE done[1] = HeaderError(c)
  <2>1. d.error = TRUE /\ d.op.buf = "header"
    <3>1. HeaderError(c).error = TRUE /\ HeaderError(c).op.buf = "header"
      BY HandlerParts, Zenon
    <3>2. QED
      BY <1>2, <1>7, <3>1, Zenon
  <2>2. read_body(c, TRUE) /\ UNCHANGED received
    BY <1>5, <2>1
  <2>3. /\ UNCHANGED <<ops, thrown>> /\ done' = Tail(done)
    BY <2>2 DEF read_body, read_body_failed
  <2>4. QED
    BY <1>3, <1>4, <1>5, <1>6, <1>7, <2>2, <2>3
<1>8. CASE done[1] = HeaderDone(c)
  <2>1. d.error = FALSE /\ d.op = [buf |-> "header", have |-> 1, need |-> 1]
    <3>1. /\ HeaderDone(c).error = FALSE
          /\ HeaderDone(c).op = [buf |-> "header", have |-> 1, need |-> 1]
      BY HandlerParts, Zenon
    <3>2. QED
      BY <1>2, <1>8, <3>1, Zenon
  <2>2. read_body(c, FALSE) /\ UNCHANGED received
    <3>1. ~(d.op.have < d.op.need) /\ d.op.buf = "header"
      BY <2>1
    <3>2. QED
      BY <1>5, <2>1, <3>1, Zenon
  <2>3. header[c][1] # 0 /\ header[c][2] = 0 /\ ops[c] # ForBody /\ ops[c] # ForHeader
    <3>1. HeaderDone(c) # BodyDone(c) /\ HeaderDone(c) # BodyError(c)
      BY HandlerParts, Zenon
    <3>2. QED
      BY <1>4, <1>8, <3>1 DEF HandlerOK
  <2>4. ops[c] = << >>
    BY <1>3, <2>3 DEF CInv, ConnsOK, ConnOK
  <2>5. msg_len(c) = {Width} /\ Width > 0
    BY <2>3, ConnectionsAssumption DEF msg_len
  <2>6. /\ ops' = [ops EXCEPT ![c] = @ \o body_reads(c, Width)]
        /\ done' = Tail(done) /\ UNCHANGED thrown
    BY <2>2, <2>5 DEF read_body
  <2>7. << >> \o body_reads(c, Width) = ForBody
    BY ConcatEmptySeq, BodyReadsType, ConnectionsAssumption
       DEF body_reads, ForBody, ReadBody
  <2>8. ops' = [ops EXCEPT ![c] = ForBody]
    BY <2>4, <2>6, <2>7
  <2>9. QED
    BY <1>3, <1>4, <1>5, <1>6, <1>8, <2>2, <2>6, <2>8
<1>9. CASE done[1] = BodyDone(c)
  <2>1. d.error = FALSE /\ d.op = [buf |-> "data", have |-> Width, need |-> Width]
    <3>1. /\ BodyDone(c).error = FALSE
          /\ BodyDone(c).op = [buf |-> "data", have |-> Width, need |-> Width]
      BY HandlerParts, Zenon
    <3>2. QED
      BY <1>2, <1>9, <3>1, Zenon
  <2>2. ~(d.op.have < d.op.need) /\ d.op.buf # "header" /\ d.op.need = Width /\ Width # 0
    BY <2>1, ConnectionsAssumption
  <2>3. body_callback(c, d.op, FALSE)
    BY <1>5, <2>1, <2>2
  <2>4. /\ received' = Append(received, process_msg(c, Width))
        /\ UNCHANGED <<thrown, ops>> /\ done' = Tail(done)
    BY <2>2, <2>3 DEF body_callback
  <2>5. data[c] = Body(data[c][1][1])
    BY <1>4, <1>9 DEF HandlerOK
  <2>6. process_msg(c, Width) = data[c][1][1]
    BY <2>5 DEF process_msg
  <2>7. QED
    BY <1>3, <1>4, <1>5, <1>6, <1>9, <2>4, <2>6
<1>10. CASE done[1] = BodyError(c)
  <2>1. d.error = TRUE /\ d.op.buf = "data"
    <3>1. BodyError(c).error = TRUE /\ BodyError(c).op.buf = "data"
      BY HandlerParts, Zenon
    <3>2. QED
      BY <1>2, <1>10, <3>1, Zenon
  <2>2. body_callback(c, d.op, TRUE)
    BY <1>5, <2>1
  <2>3. thrown' = TRUE /\ UNCHANGED <<ops, received>> /\ done' = Tail(done)
    BY <2>2 DEF body_callback
  <2>4. QED
    BY <1>3, <1>4, <1>5, <1>6, <1>10, <2>3
<1>11. QED
  BY <1>4, <1>7, <1>8, <1>9, <1>10 DEF HandlerOK

\* What is given to process_msg is a message that was sent and that was not
\* given to it before.
LEMMA ReceivedIsNew ==
    ASSUME NEW full, CInv(full), NEW c \in Conn, NEW k \in 1 .. Len(done), done[k] = BodyDone(c)
    PROVE  /\ <<c, "data", data[c][1][1]>>
                \in Carriages(near, first, inbox, full, done, data)
           /\ data[c][1][1] \in 1 .. sent
           /\ \A i \in 1 .. Len(received) : received[i] # data[c][1][1]
<1> DEFINE m == data[c][1][1]
           t == <<c, "data", m>>
<1>1. m \in 0 .. MaxMsg
  <2>1. data[c] \in [1 .. Width -> Cell] /\ 1 \in 1 .. Width
    <3>1. 1 \in 1 .. Width
      BY ConnectionsAssumption
    <3>2. QED
      BY <3>1 DEF CInv, TypeOK
  <2>2. data[c][1] \in (0 .. MaxMsg) \X (0 .. Width)
    BY <2>1 DEF Cell
  <2>3. QED
    BY <2>2
<1>2. t \in Carriage /\ t[1] = c /\ t[2] = "data" /\ t[3] = m
  BY <1>1 DEF Carriage
<1> HIDE DEF t
<1>3. t \in Carriages(near, first, inbox, full, done, data)
  BY <1>2 DEF Carriages, Carries
<1>4. t[3] \in 1 .. sent /\ \A i \in 1 .. Len(received) : received[i] # t[3]
  BY <1>3 DEF CInv, MessagesOK, Once
<1>5. QED
  BY <1>2, <1>3, <1>4 DEF t

LEMMA KeptByHandle ==
    ASSUME NEW full, CInv(full), TypeOK', handle
    PROVE  CInv(full)'
<1>1. PICK c \in Conn :
         /\ HandlerOK(done[1], c, near[c], far[c], inbox[c] \o full[c], ops[c],
                      header[c], data[c])
         /\ done[1].conn = c
         /\ \/ /\ done[1] = HeaderError(c)
               /\ UNCHANGED <<ops, received, thrown>>
            \/ /\ done[1] = HeaderDone(c)
               /\ ops' = [ops EXCEPT ![c] = ForBody]
               /\ UNCHANGED <<received, thrown>>
            \/ /\ done[1] = BodyDone(c)
               /\ received' = Append(received, data[c][1][1])
               /\ UNCHANGED <<ops, thrown>>
            \/ /\ done[1] = BodyError(c)
               /\ thrown' = TRUE /\ UNCHANGED <<ops, received>>
         /\ done' = Tail(done)
         /\ UNCHANGED <<caller, wire, far, inbox, header, data>>
  BY HandlerCases
<1>2. /\ near' = near /\ first' = first /\ held' = held /\ sent' = sent
      /\ ops \in [Conn -> Seq(Op)] /\ done \in Seq(Done) /\ done # << >>
      /\ received \in Seq(0 .. MaxMsg) /\ sent \in 0 .. MaxMsg
  BY <1>1 DEF CInv, TypeOK, caller, handle
<1>3. /\ 1 \in 1 .. Len(done) /\ InOrder(done')
      /\ \A k \in 1 .. Len(done') :
            /\ k + 1 \in 1 .. Len(done) /\ done'[k] = done[k + 1]
            /\ done'[k].conn = c =>
                  done[1].op.buf = "data" /\ done'[k].op.buf = "header"
  <2>1. InOrder(done)
    BY DEF CInv
  <2>2. /\ 1 \in 1 .. Len(done) /\ InOrder(Tail(done))
        /\ \A k \in 1 .. Len(Tail(done)) :
              /\ k + 1 \in 1 .. Len(done) /\ Tail(done)[k] = done[k + 1]
              /\ Tail(done)[k].conn = done[1].conn =>
                    done[1].op.buf = "data" /\ Tail(done)[k].op.buf = "header"
    BY <1>2, <2>1, TakenUp, Zenon
  <2>3. done' = Tail(done) /\ done[1].conn = c
    BY <1>1
  <2>4. QED
    BY <2>2, <2>3, Zenon
<1>4. ops' = ops \/ (done[1] = HeaderDone(c) /\ ops' = [ops EXCEPT ![c] = ForBody])
  BY <1>1
<1>5. ASSUME NEW d \in Conn
      PROVE  ConnOK(near[d], far[d], inbox[d], wire[d], full[d], ops'[d],
                    header[d], held = d)
  <2>1. ConnOK(near[d], far[d], inbox[d], wire[d], full[d], ops[d],
               header[d], held = d)
    BY DEF CInv, ConnsOK
  <2>2. CASE ops'[d] = ops[d]
    BY <2>1, <2>2
  <2>3. CASE ops'[d] # ops[d]
    <3>1. d = c /\ done[1] = HeaderDone(c) /\ ops'[d] = ForBody
      BY <1>2, <1>4, <2>3
    <3>2. far[d] = "open" /\ Within(inbox[d] \o full[d], header[d])
      BY <1>1, <3>1 DEF HandlerOK
    <3>3. QED
      BY <2>1, <3>1, <3>2, ReadsDiffer DEF ConnOK
  <2>4. QED
    BY <2>2, <2>3
<1>6. ASSUME NEW k \in 1 .. Len(done'), NEW d \in Conn, done'[k].conn = d
      PROVE  HandlerOK(done'[k], d, near[d], far[d], inbox[d] \o full[d],
                       ops'[d], header[d], data[d])
  <2>1. k + 1 \in 1 .. Len(done) /\ done'[k] = done[k + 1]
    BY <1>3
  <2>2. HandlerOK(done[k + 1], d, near[d], far[d], inbox[d] \o full[d], ops[d],
                  header[d], data[d])
    BY <1>6, <2>1 DEF CInv, HandlersOK
  <2>3. ops'[d] = ops[d]
    <3>1. CASE done[1] = HeaderDone(c)
      <4>1. done[1].op.buf = "header"
        <5>1. HeaderDone(c).op.buf = "header"
          BY HandlerParts, Zenon
        <5>2. QED
          BY <3>1, <5>1, Zenon
      <4>2. d # c
        BY <4>1, <1>3, <1>6
      <4>3. QED
        BY <4>2, <1>2, <1>4
    <3>2. QED
      BY <3>1, <1>4
  <2>4. QED
    BY <2>1, <2>2, <2>3
<1>7. ConnsOK(full)' /\ HandlersOK(full)'
  BY <1>1, <1>2, <1>5, <1>6 DEF ConnsOK, HandlersOK
<1>0. ThrownOK(full)'
  <2> SUFFICES ASSUME thrown'
               PROVE  \E d \in Conn :
                         Struck(near[d], far[d], inbox[d] \o full[d], header[d])
    BY <1>1, <1>2 DEF ThrownOK
  <2>1. done[1] = BodyError(c)
    BY <1>1 DEF handle
  <2>2. QED
    BY <1>1, <2>1 DEF HandlerOK
<1> DEFINE T == Carriages(near, first, inbox, full, done, data)
           U == Carriages(near, first, inbox, full, done', data)
           t0 == <<c, "data", data[c][1][1]>>
<1>8. U \subseteq T
  <2> SUFFICES ASSUME NEW t \in Carriage,
                      Carries(t, near, first, inbox, full, done', data)
               PROVE  Carries(t, near, first, inbox, full, done, data)
    BY DEF Carriages
  <2>1. ASSUME NEW k \in 1 .. Len(done'), done'[k] = BodyDone(t[1])
        PROVE  \E l \in 1 .. Len(done) : done[l] = BodyDone(t[1])
    BY <1>3, <2>1
  <2>2. QED
    BY <2>1 DEF Carries
<1>9. Once(T, sent, received) /\ \A i \in 1 .. Len(received) : received[i] <= sent
  BY DEF CInv, MessagesOK
<1>10. CASE UNCHANGED received
  <2>1. Once(U, sent, received)
    BY <1>8, <1>9, OnceLost
  <2>2. MessagesOK(full)'
    BY <1>1, <1>2, <1>10, <2>1 DEF MessagesOK
  <2>3. QED
    BY <1>0, <1>1, <1>2, <1>3, <1>7, <1>10, <2>2 DEF CInv
<1>11. CASE done[1] = BodyDone(c) /\ received' = Append(received, data[c][1][1])
  <2>1. /\ t0 \in T /\ data[c][1][1] \in 1 .. sent
    BY <1>3, <1>11, ReceivedIsNew
  <2>2. t0 \notin U
    <3>1. SUFFICES ASSUME t0 \in U
                   PROVE  FALSE
      OBVIOUS
    <3>2. t0[1] = c /\ t0[2] = "data"
      OBVIOUS
    <3> HIDE DEF t0
    <3>3. PICK k \in 1 .. Len(done') : done'[k] = BodyDone(c)
      BY <3>1, <3>2 DEF Carriages, Carries
    <3>4. BodyDone(c).conn = c /\ BodyDone(c).op.buf = "data"
      BY HandlerParts, Zenon
    <3>5. QED
      BY <3>3, <3>4, <1>3
  <2>3. U \subseteq T \ {t0} /\ t0[3] = data[c][1][1]
    BY <1>8, <2>2
  <2> HIDE DEF T, U, t0
  <2>4. Once(U, sent, Append(received, t0[3]))
    BY <1>2, <1>9, <2>1, <2>3, OnceReceived
  <2>5. MessagesOK(full)'
    BY <1>1, <1>2, <1>11, <2>3, <2>4 DEF MessagesOK, U
  <2>6. \A i \in 1 .. Len(received') : received'[i] <= sent
    <3>1. data[c][1][1] \in 0 .. MaxMsg /\ data[c][1][1] <= sent
      BY <1>2, <2>1, ConnectionsAssumption
    <3>2. QED
      BY <1>2, <1>9, <1>11, <3>1, AppendProperties
  <2>7. QED
    BY <1>0, <1>1, <1>2, <1>3, <1>7, <2>5, <2>6 DEF CInv
<1>12. QED
  BY <1>1, <1>10, <1>11

LEMMA KeptByAll ==
    ASSUME NEW full, CInv(full), [Next]_vars, Split = FALSE
    PROVE  \E next : CInv(next)'
<1>1. TypeOK /\ TypeOK'
  BY TypeStep DEF CInv
<1>2. ASSUME NEW c \in Conn, perform(c)
      PROVE  \E next : CInv(next)'
  <2>1. ops[c] \in {ForHeader, ForBody}
    BY <1>2 DEF perform, CInv, ConnsOK, ConnOK
  <2>2. CInv(full)'
    BY <1>1, <1>2, <2>1, KeptByHeader, KeptByBody
  <2>3. QED
    BY <2>2
<1>3. CASE UNCHANGED vars
  <2>1. CInv(full)'
    BY <1>3 DEF vars, caller, callee, CInv, TypeOK, ConnsOK, HandlersOK, InOrder,
       MessagesOK, ThrownOK
  <2>2. QED
    BY <2>1
<1>4. ASSUME NEW c \in Conn, connected(c) \/ arrive(c)
      PROVE  \E next : CInv(next)'
  BY <1>1, <1>4, KeptByConnected, KeptByArrive
<1>5. ASSUME NEW c \in Conn,
             \/ caller_read_body(c) \/ deliver_failed(c) \/ connect_failed(c)
             \/ lost(c) \/ establish(c) \/ start(c) \/ perform_eof(c)
      PROVE  \E next : CInv(next)'
  <2>1. CInv(full)'
    BY <1>1, <1>5, KeptByCaller, KeptByAccept, KeptByEof
  <2>2. QED
    BY <2>1
<1>6. CASE kill_caller \/ handle
  <2>1. CInv(full)'
    BY <1>1, <1>6, KeptByCaller, KeptByHandle
  <2>2. QED
    BY <2>1
<1>7. CASE make_rpc_call \/ restart_callee
  BY <1>1, <1>7, KeptByCall, KeptByRestart
<1>8. QED
  BY <1>2, <1>3, <1>4, <1>5, <1>6, <1>7 DEF Next, Io

LEMMA HoldsAtFirst ==
    ASSUME Init
    PROVE  \E full : CInv(full)
<1> DEFINE full == [c \in Conn |-> << >>]
<1>0. full \in [Conn -> Seq(Cell)] /\ \A c \in Conn : full[c] = << >>
  OBVIOUS
<1> HIDE DEF full
<1>1. /\ Len(done) = 0 /\ Len(received) = 0 /\ thrown = FALSE /\ held = 0
      /\ \A c \in Conn : /\ near[c] = "none" /\ far[c] = "none" /\ ops[c] = << >>
                         /\ inbox[c] = << >> /\ wire[c] = << >>
  BY DEF Init
<1>2. ASSUME NEW c \in Conn
      PROVE  ConnOK(near[c], far[c], inbox[c], wire[c], full[c], ops[c],
                    header[c], held = c)
  <2>1. << >> \o << >> = << >> /\ Len(<< >>) = 0
    OBVIOUS
  <2>2. Whole(<< >>) /\ OneFrame(<< >>) /\ Cut(<< >>) /\ AtHeader(<< >>)
    BY <2>1 DEF Whole, OneFrame, Cut, AtHeader
  <2>3. held # c
    BY <1>1, ConnectionsAssumption
  <2>4. QED
    BY <1>0, <1>1, <2>1, <2>2, <2>3, ReadsDiffer DEF ConnOK
<1>3. MessagesOK(full)
  <2>1. Carriages(near, first, inbox, full, done, data) = {}
    <3> SUFFICES ASSUME NEW t \in Carriage,
                        Carries(t, near, first, inbox, full, done, data)
                 PROVE  FALSE
      BY DEF Carriages
    <3>1. t[1] \in Conn
      BY DEF Carriage
    <3>2. Len(inbox[t[1]] \o full[t[1]]) = 0
      <4>1. inbox[t[1]] = << >> /\ full[t[1]] = << >>
        BY <3>1, <1>0, <1>1
      <4>2. QED
        BY <4>1
    <3>3. ~HasMessage(inbox[t[1]] \o full[t[1]], t[3])
      BY <3>2 DEF HasMessage
    <3>4. near[t[1]] # "connecting"
      BY <3>1, <1>1
    <3>5. QED
      BY <3>3, <3>4, <1>1 DEF Carries
  <2>2. QED
    BY <2>1 DEF MessagesOK, Once
<1>4. CInv(full)
  BY <1>0, <1>1, <1>2, <1>3, TypeInit
     DEF CInv, ConnsOK, HandlersOK, InOrder, ThrownOK
<1>5. QED
  BY <1>4

Inv == \E full : CInv(full)

LEMMA ConnectionsInvariance ==
    ASSUME Split = FALSE
    PROVE  Spec => []Inv
<1>1. Inv /\ [Next]_vars => Inv'
  <2> SUFFICES ASSUME Inv, [Next]_vars
               PROVE  Inv'
    OBVIOUS
  <2>1. PICK full : CInv(full)
    BY DEF Inv
  <2>2. PICK next : CInv(next)'
    BY <2>1, KeptByAll
  <2>3. QED
    BY <2>2 DEF Inv
<1>2. Init => Inv
  BY HoldsAtFirst DEF Inv
<1>3. QED
  BY <1>1, <1>2, PTL DEF Spec

\* While the caller runs, a connection it has closed is not open at the other
\* end: it closes one only when the other end is closed or was never made.
ClosedAfter ==
    up => \A c \in Conn : near[c] = "closed" => far[c] \in {"none", "closed"}

LEMMA ClosedAfterStep ==
    ASSUME TypeOK, ClosedAfter, [Next]_vars
    PROVE  ClosedAfter'
<1>1. /\ near \in [Conn -> {"none", "connecting", "open", "closed"}]
      /\ far \in [Conn -> {"none", "backlog", "open", "closed"}]
  BY DEF TypeOK
<1>2. ASSUME NEW c \in Conn, connected(c) \/ connect_failed(c) \/ caller_read_body(c)
      PROVE  ClosedAfter'
  BY <1>1, <1>2 DEF connected, connect_failed, caller_read_body, callee, ClosedAfter
<1>3. ASSUME NEW c \in Conn, deliver_failed(c)
      PROVE  ClosedAfter'
  BY <1>3 DEF deliver_failed, end_caller, callee, ClosedAfter
<1>4. ASSUME NEW c \in Conn, establish(c) \/ start(c)
      PROVE  ClosedAfter'
  BY <1>1, <1>4 DEF establish, start, caller, ClosedAfter
<1>5. ASSUME NEW c \in Conn, arrive(c) \/ perform(c) \/ perform_eof(c) \/ lost(c)
      PROVE  ClosedAfter'
  BY <1>5 DEF arrive, perform, perform_eof, lost, caller, callee, ClosedAfter
<1>6. CASE handle
  BY <1>6 DEF handle, caller, ClosedAfter
<1>7. CASE make_rpc_call
  <2>1. UNCHANGED <<far, up>>
    BY <1>7 DEF make_rpc_call, callee
  <2>2. \A c \in Conn : near'[c] = "closed" => near[c] = "closed"
    BY <1>1, <1>7 DEF make_rpc_call
  <2>3. QED
    BY <2>1, <2>2 DEF ClosedAfter
<1>8. CASE kill_caller
  BY <1>8 DEF kill_caller, end_caller, ClosedAfter
<1>9. CASE restart_callee
  BY <1>1, <1>9 DEF restart_callee, caller, ClosedAfter
<1>10. CASE UNCHANGED vars
  BY <1>10 DEF vars, caller, callee, ClosedAfter
<1>11. QED
  BY <1>2, <1>3, <1>4, <1>5, <1>6, <1>7, <1>8, <1>9, <1>10 DEF Next, Io

-----------------------------------------------------------------------------
(* Theorems, for bodies that arrive whole or not at all. *)

\* A caller that ends makes the callee end with it (connection::body_callback)
\* only within a message, of which the header came and the body was lost:
\* connection::read_body survives every other end of a stream, whatever was
\* written, arrived or was lost before.
THEOREM CalleeEndsWithinMessage ==
    ASSUME Split = FALSE
    PROVE  Spec => []EndsOnlyWithinMessage
<1>1. ClosedAfter /\ Inv => EndsOnlyWithinMessage
  <2> SUFFICES ASSUME ClosedAfter, Inv, thrown
               PROVE  /\ ~up
                      /\ \E c \in Conn : /\ header[c][1] # 0
                                          /\ header[c][1] \notin Range(received)
    BY DEF EndsOnlyWithinMessage
  <2>1. PICK full : CInv(full)
    BY DEF Inv
  <2>2. PICK c \in Conn : Struck(near[c], far[c], inbox[c] \o full[c], header[c])
    BY <2>1 DEF CInv, ThrownOK
  <2>3. ~up
    BY <2>2 DEF ClosedAfter, Struck
  <2> DEFINE s == inbox[c] \o full[c]
             m == header[c][1]
             t == <<c, "stream", m>>
  <2>4. s \in Seq(Cell)
    BY <2>1, ConcatParts DEF CInv, TypeOK
  <2>5. s # << >> /\ m = s[1][1]
    BY <2>2 DEF Struck, Within, AtBody
  <2> HIDE DEF s, m
  <2>6. 1 \in 1 .. Len(s)
    BY <2>4, <2>5
  <2>7. m \in 0 .. MaxMsg /\ HasMessage(s, m)
    BY <2>4, <2>5, <2>6, CellParts DEF HasMessage
  <2>8. t \in Carriage /\ t[1] = c /\ t[2] = "stream" /\ t[3] = m
    BY <2>7 DEF Carriage
  <2> HIDE DEF t
  <2>9. t \in Carriages(near, first, inbox, full, done, data)
    BY <2>7, <2>8 DEF Carriages, Carries, s
  <2>10. m \in 1 .. sent /\ \A i \in 1 .. Len(received) : received[i] # m
    BY <2>1, <2>8, <2>9 DEF CInv, MessagesOK, Once
  <2>11. received \in Seq(0 .. MaxMsg)
    BY <2>1 DEF CInv, TypeOK
  <2>12. m # 0 /\ m \notin Range(received)
    BY <2>10, <2>11 DEF Range
  <2>13. QED
    BY <2>3, <2>12 DEF m
<1>2. Init => ClosedAfter
  BY DEF Init, ClosedAfter
<1>3. TypeOK /\ ClosedAfter /\ [Next]_vars => ClosedAfter'
  BY ClosedAfterStep
<1>4. QED
  BY <1>1, <1>2, <1>3, ConnectionsTypes, ConnectionsInvariance, PTL DEF Spec

\* What is received was sent, is what was sent, and is received once
\* (RPC::make_rpc_call, connection::deliver, connection::read_body,
\* RPC::process_msg): the connections implement Network, whatever the number
\* of connections open side by side, of messages and of restarts.
THEOREM ConnectionsImplementNetwork ==
    ASSUME Split = FALSE
    PROVE  Spec => DeliversMessages
<1>1. Init => Net!Init
  <2>1. 1 .. 0 = {}
    OBVIOUS
  <2>2. QED
    BY <2>1 DEF Init, Net!Init
<1>2. Inv /\ [Next]_vars => [Net!Send \/ Net!Receive]_<<1 .. sent, received>>
  <2> SUFFICES ASSUME Inv, [Next]_vars
               PROVE  [Net!Send \/ Net!Receive]_<<1 .. sent, received>>
    OBVIOUS
  <2>0. PICK full : CInv(full)
    BY DEF Inv
  <2>1. CASE make_rpc_call
    <3>1. sent \in Nat /\ sent' = sent + 1 /\ received' = received
      BY <2>0, <2>1, ConnectionsAssumption DEF make_rpc_call, callee, CInv, TypeOK
    <3>2. /\ sent + 1 \in 1 .. sent' /\ sent + 1 \notin 1 .. sent
          /\ 1 .. sent' = (1 .. sent) \cup {sent + 1}
      BY <3>1
    <3>3. Net!Send
      BY <3>1, <3>2 DEF Net!Send
    <3>4. QED
      BY <3>3
  <2>2. CASE handle
    <3>1. sent' = sent
      BY <2>2 DEF handle, caller
    <3>2. CASE UNCHANGED received
      BY <3>1, <3>2
    <3>3. CASE ~UNCHANGED received
      <4>1. PICK c \in Conn : /\ done[1] = BodyDone(c)
                              /\ received' = Append(received, data[c][1][1])
        BY <2>0, <2>2, <3>3, HandlerCases
      <4>2. 1 \in 1 .. Len(done) /\ received \in Seq(0 .. MaxMsg)
        <5>1. done \in Seq(Done) /\ done # << >> /\ InOrder(done)
          BY <2>0, <2>2 DEF handle, CInv, TypeOK
        <5>2. QED
          BY <2>0, <5>1, TakenUp DEF CInv, TypeOK
      <4>3. /\ data[c][1][1] \in 1 .. sent
            /\ \A i \in 1 .. Len(received) : received[i] # data[c][1][1]
        BY <2>0, <4>1, <4>2, ReceivedIsNew
      <4>4. data[c][1][1] \notin Range(received)
        BY <4>2, <4>3 DEF Range
      <4>5. Net!Receive
        BY <3>1, <4>1, <4>3, <4>4 DEF Net!Receive, Net!Range, Range
      <4>6. QED
        BY <4>5
    <3>4. QED
      BY <3>2, <3>3
  <2>3. CASE ~make_rpc_call /\ ~handle
    <3>1. sent' = sent /\ received' = received
      BY <2>3 DEF Next, Io, connected, caller_read_body, deliver_failed, establish,
         arrive, start, perform, perform_eof, connect_failed, lost, kill_caller,
         restart_callee, caller, callee, vars
    <3>2. QED
      BY <3>1
  <2>4. QED
    BY <2>1, <2>2, <2>3
<1>3. QED
  BY <1>1, <1>2, ConnectionsInvariance, PTL DEF Spec, DeliversMessages, Net!Spec

=============================================================================
