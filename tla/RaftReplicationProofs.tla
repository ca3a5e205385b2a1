----------------------- MODULE RaftReplicationProofs -----------------------
(***************************************************************************)
(* Log replication of RaftServer, proved for clusters of any size in which *)
(* one server c stands for election and serves the clients and nobody      *)
(* restarts.  The argument is per follower: an AE is fresh if its receiver *)
(* would still look at it; among the fresh AEs the later one never carries *)
(* less, so taking them in any order that the lsn check lets through never *)
(* shortens the follower's log or commit index, and the answer to the last *)
(* AE tells the primary what it believes it tells.                         *)
(***************************************************************************)
EXTENDS RaftElectionProofs

-----------------------------------------------------------------------------
(* The inductive invariant. *)

IsPrefixOf(log1, log2) ==
    /\ Len(log1) <= Len(log2)
    /\ \A i \in 1 .. Len(log1) : log1[i] = log2[i]

\* The state machine has been given the committed entries.
AppliedOK(u) ==
    /\ Len(u.applied) = u.commit_index + 1
    /\ \A i \in 1 .. u.commit_index + 1 : u.applied[i] = u.entries[i]

\* What the primary v knows of the follower u at q.
BooksOK(v, u, q) ==
    /\ -1 <= v.Follower_saved_index[q]
    /\ v.Follower_saved_index[q] < v.nextIndex[q]
    /\ v.Follower_saved_index[q] < Len(u.entries)
    /\ Len(u.entries) <= v.nextIndex[q] + 1

\* The follower u at q never gets ahead of v.
PeerOK(v, u, q) ==
    /\ u.thrown = "none" /\ u.state = "follower"
    /\ \A p \in Server : u.retry_timers[p] = "none"
    /\ u.term <= v.term
    /\ IsPrefixOf(u.entries, v.entries)
    /\ u.commit_index <= v.commit_index
    /\ AppliedOK(u)
    /\ v.state # "primary" => Len(u.entries) = 0
    /\ v.state = "primary" => BooksOK(v, u, q)

\* u has not yet looked at the AE m, nor at anything sent after it.
Fresh(m, u, c) == u.term < m.term \/ u.follower_rpc_lsn[c] < m.lsn

\* The AE m is a copy of a part of v's log.
Copied(m, v) ==
    /\ m.prelog_index + 1 <= Len(v.entries)
    /\ m.prelog_index + 1 > 0 =>
            m.prelog_term = v.entries[m.prelog_index + 1].term
    /\ m.entry # << >> =>
            /\ m.prelog_index + 1 < Len(v.entries)
            /\ m.entry[1] = v.entries[m.prelog_index + 2]
    /\ m.commit_index <= v.commit_index

\* A fresh AE takes nothing from the follower.
NoLoss(m, v, u, q) ==
    /\ m.prelog_index < v.nextIndex[q]
    /\ Len(u.entries) <= m.prelog_index + 2
    /\ u.commit_index <= m.commit_index

\* An AE in flight from v to the follower u at q.
AeSound(m, v, u, q, c) ==
    /\ v.state = "primary" /\ m.term = v.term
    /\ m.lsn < v.current_rpc_lsn[q]
    /\ Copied(m, v)
    /\ m.lsn + 1 = v.current_rpc_lsn[q] => m.prelog_index + 1 = v.nextIndex[q]
    /\ Fresh(m, u, c) => NoLoss(m, v, u, q)

\* What the answer to the last AE says about the follower's log.
Tells(m, v, u, q) ==
    /\ ~m.ok => Len(u.entries) < v.nextIndex[q]
    /\ m.ok => v.nextIndex[q] <= Len(u.entries)
    /\ m.ok /\ ~m.is_empty_ae => v.nextIndex[q] < Len(u.entries)

\* The answer of u at q to an AE of v.
AckOK(m, v, u, q, c) ==
    /\ v.state = "primary" /\ m.term = v.term /\ u.term = v.term
    /\ m.lsn <= u.follower_rpc_lsn[c]
    /\ m.lsn < v.current_rpc_lsn[q]
    /\ m.lsn + 1 = v.current_rpc_lsn[q] => Tells(m, v, u, q)

\* The later of two AEs carries no less.
Ordered(m, k) ==
    m.lsn < k.lsn => /\ m.prelog_index <= k.prelog_index
                     /\ m.commit_index <= k.commit_index

IsAe(m, q) == m.type = "APPEND_ENTRY" /\ m.dst = q
IsAck(m, q) == m.type = "RESP_APPEND" /\ m.src = q

\* The follower u at q, v and the messages ms between them.
LinkOK(v, u, q, c, ms) ==
    /\ PeerOK(v, u, q)
    /\ \A m \in ms : IsAe(m, q) => AeSound(m, v, u, q, c)
    /\ \A m \in ms : IsAck(m, q) => AckOK(m, v, u, q, c)
    /\ \A m, k \in ms :
            IsAe(m, q) /\ IsAe(k, q) /\ Fresh(m, u, c) => Ordered(m, k)

\* A majority has saved what v has committed.
MajorityHolds(saved, i) ==
    Cardinality({p \in Server : saved[p] >= i}) >= majority

LeaderOK(v) ==
    /\ v.thrown = "none"
    /\ -1 <= v.commit_index
    /\ AppliedOK(v)
    /\ v.state # "primary" => v.commit_index = -1
    /\ v.state = "primary" =>
            /\ v.candidate_timer = FALSE
            /\ MajorityHolds(v.Follower_saved_index, v.commit_index)

\* c alone sends RPCs, and no term is ahead of its own.
SourceOK(m, t, c) ==
    /\ m.term <= t
    /\ m.type \in {"REQUEST_VOTE", "APPEND_ENTRY"} => m.src = c
    /\ m.type \in {"RESP_VOTE", "RESP_APPEND"} => m.dst = c

SourcesOK(t, c, ms) == \A m \in ms : SourceOK(m, t, c)

LinksOK(c) == \A q \in Peers(c) : LinkOK(server[c], server[q], q, c, net)

\* The inductive invariant, on top of IInv.
RInv(c) ==
    /\ LeaderOK(server[c])
    /\ SourcesOK(server[c].term, c, net)
    /\ LinksOK(c)

-----------------------------------------------------------------------------
(* Facts about the types. *)

LEMMA ServerTypes ==
    ASSUME NEW v \in ServerState
    PROVE  /\ v.entries \in Seq(Entry) /\ Len(v.entries) \in Nat
           /\ v.applied \in Seq(Entry) /\ Len(v.applied) \in Nat
           /\ v.term \in Nat /\ v.commit_index \in Int
           /\ \A p \in Server : /\ v.nextIndex[p] \in Int
                                /\ v.Follower_saved_index[p] \in Int
                                /\ v.current_rpc_lsn[p] \in Nat
                                /\ v.follower_rpc_lsn[p] \in Int
BY DEF ServerState

LEMMA AeTypes ==
    ASSUME NEW m, MsgOK(m), m.type = "APPEND_ENTRY"
    PROVE  /\ m.lsn \in Nat /\ m.term \in Nat
           /\ m.prelog_index \in Int /\ m.prelog_index >= -1
           /\ m.commit_index \in Int
BY MsgTypes DEF MsgOK, AeMsg, AeFits

LEMMA MailTypes ==
    ASSUME NEW m, MsgOK(m)
    PROVE  m.lsn \in Nat /\ m.term \in Nat /\ m.src \in Server /\ m.dst \in Server
BY MsgTypes DEF MsgOK

LEMMA PrefixTrans ==
    ASSUME NEW a \in Seq(Entry), NEW b \in Seq(Entry), NEW d \in Seq(Entry),
           IsPrefixOf(a, b), IsPrefixOf(b, d)
    PROVE  IsPrefixOf(a, d)
BY DEF IsPrefixOf

-----------------------------------------------------------------------------
(* One link, when something changes at one of its ends. *)

\* Only the messages of the link matter.
LEMMA LinkMonotone ==
    ASSUME NEW v, NEW u, NEW q, NEW c, NEW ms, NEW ns, LinkOK(v, u, q, c, ms),
           \A m \in ns : IsAe(m, q) \/ IsAck(m, q) => m \in ms
    PROVE  LinkOK(v, u, q, c, ns)
BY DEF LinkOK

\* Before c is elected nothing is on the link.
LEMMA LinkIdle ==
    ASSUME NEW v \in ServerState, NEW w \in ServerState, NEW u \in ServerState,
           NEW q, NEW c, NEW ms, LinkOK(v, u, q, c, ms),
           v.state # "primary", w.state # "primary", v.term <= w.term,
           IsPrefixOf(v.entries, w.entries), w.commit_index = v.commit_index
    PROVE  LinkOK(w, u, q, c, ms)
<1>1. \A m \in ms : ~IsAe(m, q) /\ ~IsAck(m, q)
  BY DEF LinkOK, AeSound, AckOK
<1>2. PeerOK(v, u, q)
  BY DEF LinkOK
<1>3. IsPrefixOf(u.entries, w.entries)
  BY <1>2, ServerTypes, PrefixTrans DEF PeerOK
<1>4. PeerOK(w, u, q)
  BY <1>2, <1>3, ServerTypes DEF PeerOK
<1>5. QED
  BY <1>1, <1>4 DEF LinkOK

\* v is w after its log, commit index or lsns went on.
Grows(w, v) ==
    /\ v.state = "primary" /\ w.state = "primary" /\ w.term = v.term
    /\ IsPrefixOf(v.entries, w.entries)
    /\ v.commit_index <= w.commit_index

LEMMA CopiedGrows ==
    ASSUME NEW v \in ServerState, NEW w \in ServerState, Grows(w, v),
           NEW m, MsgOK(m), m.type = "APPEND_ENTRY", Copied(m, v)
    PROVE  Copied(m, w)
<1>1. m.prelog_index \in Int /\ m.commit_index \in Int
  BY AeTypes
<1>2. /\ Len(v.entries) \in Nat /\ Len(w.entries) \in Nat
      /\ v.commit_index \in Int /\ w.commit_index \in Int
  BY ServerTypes
<1>3. \A i \in 1 .. Len(v.entries) : v.entries[i] = w.entries[i]
  BY DEF Grows, IsPrefixOf
<1>4. Len(v.entries) <= Len(w.entries) /\ v.commit_index <= w.commit_index
  BY DEF Grows, IsPrefixOf
<1>5. m.prelog_index + 1 <= Len(w.entries) /\ m.commit_index <= w.commit_index
  BY <1>1, <1>2, <1>4 DEF Copied
<1>6. m.prelog_index + 1 > 0 =>
            m.prelog_term = w.entries[m.prelog_index + 1].term
  <2> DEFINE i == m.prelog_index + 1
  <2>1. i > 0 => i \in 1 .. Len(v.entries)
    BY <1>1, <1>2 DEF Copied
  <2>2. i > 0 => v.entries[i] = w.entries[i]
    BY <1>3, <2>1
  <2>3. QED
    BY <2>2 DEF Copied
<1>7. ASSUME m.entry # << >>
      PROVE  /\ m.prelog_index + 1 < Len(w.entries)
             /\ m.entry[1] = w.entries[m.prelog_index + 2]
  <2> DEFINE i == m.prelog_index + 2
  <2>1. m.prelog_index + 1 < Len(v.entries) /\ m.entry[1] = v.entries[i]
    BY <1>7 DEF Copied
  <2>2. i \in 1 .. Len(v.entries)
    BY <1>1, <1>2, <2>1, AeTypes
  <2>3. v.entries[i] = w.entries[i]
    BY <1>3, <2>2
  <2>4. QED
    BY <1>1, <1>2, <1>4, <2>1, <2>3
<1>8. QED
  BY <1>5, <1>6, <1>7 DEF Copied

\* The primary goes on without sending anything to q.
LEMMA LinkAdvances ==
    ASSUME NEW v \in ServerState, NEW w \in ServerState, NEW u \in ServerState,
           NEW q \in Server, NEW c \in Server, NEW ms, \A m \in ms : MsgOK(m),
           LinkOK(v, u, q, c, ms), Grows(w, v),
           w.nextIndex[q] = v.nextIndex[q],
           BooksOK(w, u, q),
           v.current_rpc_lsn[q] <= w.current_rpc_lsn[q]
    PROVE  LinkOK(w, u, q, c, ms)
<1>1. /\ v.current_rpc_lsn[q] \in Nat /\ w.current_rpc_lsn[q] \in Nat
      /\ v.commit_index \in Int /\ w.commit_index \in Int
      /\ u.commit_index \in Int
  BY ServerTypes
<1>2. PeerOK(w, u, q)
  <2>1. PeerOK(v, u, q)
    BY DEF LinkOK
  <2>2. IsPrefixOf(u.entries, w.entries)
    BY <2>1, ServerTypes, PrefixTrans DEF PeerOK, Grows
  <2>3. u.commit_index <= w.commit_index
    BY <1>1, <2>1 DEF PeerOK, Grows
  <2>4. QED
    BY <2>1, <2>2, <2>3 DEF PeerOK, Grows
<1>3. ASSUME NEW m \in ms, IsAe(m, q) PROVE AeSound(m, w, u, q, c)
  <2>1. AeSound(m, v, u, q, c) /\ MsgOK(m) /\ m.type = "APPEND_ENTRY"
    BY <1>3 DEF LinkOK, IsAe
  <2>2. Copied(m, w)
    BY <2>1, CopiedGrows DEF AeSound
  <2>3. m.lsn \in Nat
    BY <2>1, MailTypes
  <2>4. QED
    BY <1>1, <2>1, <2>2, <2>3 DEF AeSound, Grows, NoLoss
<1>4. ASSUME NEW m \in ms, IsAck(m, q) PROVE AckOK(m, w, u, q, c)
  <2>1. AckOK(m, v, u, q, c) /\ m.lsn \in Nat
    BY <1>4, MailTypes DEF LinkOK
  <2>2. QED
    BY <1>1, <2>1 DEF AckOK, Grows, Tells
<1>5. QED
  BY <1>2, <1>3, <1>4 DEF LinkOK

LEMMA LinkGrows ==
    ASSUME NEW v \in ServerState, NEW w \in ServerState, NEW u \in ServerState,
           NEW q \in Server, NEW c \in Server, NEW ms, \A m \in ms : MsgOK(m),
           LinkOK(v, u, q, c, ms), Grows(w, v),
           w.nextIndex[q] = v.nextIndex[q],
           w.Follower_saved_index[q] = v.Follower_saved_index[q],
           v.current_rpc_lsn[q] <= w.current_rpc_lsn[q]
    PROVE  LinkOK(w, u, q, c, ms)
<1>1. BooksOK(w, u, q)
  BY DEF LinkOK, PeerOK, Grows, BooksOK
<1>2. QED
  BY <1>1, LinkAdvances

\* k is the AE that w has just sent to q.
JustSent(k, w, q, c) ==
    /\ MsgOK(k) /\ k.type = "APPEND_ENTRY" /\ k.src = c /\ k.dst = q
    /\ k.term = w.term
    /\ k.lsn + 1 = w.current_rpc_lsn[q]
    /\ k.prelog_index + 1 = w.nextIndex[q]
    /\ k.commit_index = w.commit_index
    /\ Copied(k, w)

\* build_rpc_ae_string copies the log of the primary.
LEMMA BuiltIs ==
    ASSUME NEW c \in Server, NEW q \in Server,
           NEW x \in ServerState, x.nextIndex[q] \in 0 .. Len(x.entries),
           NEW w \in ServerState, w.term = x.term, w.entries = x.entries,
           w.commit_index = x.commit_index, w.nextIndex[q] = x.nextIndex[q],
           w.current_rpc_lsn[q] = x.current_rpc_lsn[q] + 1,
           NEW k, k = build_rpc_ae_string(x, c, q), MsgOK(k)
    PROVE  JustSent(k, w, q, c)
<1>1. /\ k.type = "APPEND_ENTRY" /\ k.src = c /\ k.dst = q
      /\ k.term = x.term /\ k.lsn = x.current_rpc_lsn[q]
      /\ k.prelog_index = x.nextIndex[q] - 1
      /\ k.prelog_term = IF x.nextIndex[q] > 0
                         THEN x.entries[x.nextIndex[q]].term ELSE -1
      /\ k.commit_index = x.commit_index
      /\ k.entry = IF x.nextIndex[q] = Len(x.entries) THEN << >>
                   ELSE <<x.entries[x.nextIndex[q] + 1]>>
  BY DEF build_rpc_ae_string
<1>2. /\ x.nextIndex[q] \in 0 .. Len(x.entries) /\ Len(x.entries) \in Nat
      /\ x.commit_index \in Int /\ x.current_rpc_lsn[q] \in Nat
  BY ServerTypes
<1>3. k.prelog_index + 1 = x.nextIndex[q] /\ k.prelog_index + 2 = x.nextIndex[q] + 1
  BY <1>1, <1>2
<1>4. k.prelog_index + 1 > 0 => k.prelog_term = w.entries[k.prelog_index + 1].term
  BY <1>1, <1>3
<1>5. k.entry # << >> => /\ k.prelog_index + 1 < Len(w.entries)
                         /\ k.entry[1] = w.entries[k.prelog_index + 2]
  <2>1. ASSUME k.entry # << >>
        PROVE  x.nextIndex[q] # Len(x.entries) /\ k.entry[1] = x.entries[x.nextIndex[q] + 1]
    BY <1>1, <2>1
  <2>2. QED
    BY <1>2, <1>3, <2>1
<1>6. Copied(k, w)
  BY <1>1, <1>2, <1>3, <1>4, <1>5 DEF Copied
<1>7. QED
  BY <1>1, <1>2, <1>3, <1>6 DEF JustSent

\* The primary sends the AE k to q.  Its nextIndex goes back only if no fresh
\* AE is left.
LEMMA LinkSends ==
    ASSUME NEW v \in ServerState, NEW w \in ServerState, NEW u \in ServerState,
           NEW q \in Server, NEW c \in Server, NEW ms, \A m \in ms : MsgOK(m),
           LinkOK(v, u, q, c, ms), NEW k, JustSent(k, w, q, c),
           w.state = "primary", PeerOK(w, u, q),
           v.state = "primary" =>
                /\ Grows(w, v)
                /\ w.current_rpc_lsn[q] = v.current_rpc_lsn[q] + 1
                /\ \/ v.nextIndex[q] <= w.nextIndex[q]
                   \/ \A m \in ms : IsAe(m, q) => ~Fresh(m, u, c),
           NEW ns,
           \A m \in ns : IsAe(m, q) \/ IsAck(m, q) => m \in ms \/ m = k
    PROVE  LinkOK(w, u, q, c, ns)
<1>1. /\ v.current_rpc_lsn[q] \in Nat /\ w.current_rpc_lsn[q] \in Nat
      /\ v.commit_index \in Int /\ w.commit_index \in Int
      /\ u.commit_index \in Int
      /\ v.nextIndex[q] \in Int /\ w.nextIndex[q] \in Int
      /\ Len(u.entries) \in Nat
  BY ServerTypes
<1>2. /\ k.lsn \in Nat /\ k.prelog_index \in Int /\ k.commit_index \in Int
      /\ ~IsAck(k, q)
  BY AeTypes DEF JustSent, IsAck
<1>3. AeSound(k, w, u, q, c)
  <2>1. k.prelog_index + 1 = w.nextIndex[q] /\ k.commit_index = w.commit_index
    BY DEF JustSent
  <2>2. Len(u.entries) <= w.nextIndex[q] + 1 /\ u.commit_index <= w.commit_index
    BY DEF PeerOK, BooksOK
  <2>3. NoLoss(k, w, u, q)
    BY <1>1, <1>2, <2>1, <2>2 DEF NoLoss
  <2>4. k.lsn + 1 = w.current_rpc_lsn[q]
    BY DEF JustSent
  <2>5. k.lsn < w.current_rpc_lsn[q]
    BY <1>1, <1>2, <2>4
  <2>6. QED
    BY <2>1, <2>3, <2>5 DEF JustSent, AeSound
<1>4. ASSUME NEW m \in ms, IsAe(m, q)
      PROVE  AeSound(m, w, u, q, c) /\ (Fresh(m, u, c) => Ordered(m, k))
  <2>1. AeSound(m, v, u, q, c) /\ MsgOK(m) /\ m.type = "APPEND_ENTRY"
    BY <1>4 DEF LinkOK, IsAe
  <2>2. v.state = "primary"
    BY <2>1 DEF AeSound
  <2>3. Copied(m, w)
    BY <2>1, <2>2, CopiedGrows DEF AeSound
  <2>4. m.lsn \in Nat /\ m.prelog_index \in Int /\ m.commit_index \in Int
    BY <2>1, AeTypes
  <2>5. m.lsn < v.current_rpc_lsn[q] /\ m.lsn + 1 # w.current_rpc_lsn[q]
        /\ m.lsn < w.current_rpc_lsn[q] /\ m.lsn < k.lsn
    <3>1. m.lsn < v.current_rpc_lsn[q]
      BY <2>1 DEF AeSound
    <3>2. k.lsn + 1 = w.current_rpc_lsn[q]
      BY DEF JustSent
    <3>3. w.current_rpc_lsn[q] = v.current_rpc_lsn[q] + 1
      BY <2>2
    <3>4. QED
      BY <1>1, <1>2, <2>4, <3>1, <3>2, <3>3, SMTT(30)
  <2>6. Fresh(m, u, c) => v.nextIndex[q] <= w.nextIndex[q] /\ NoLoss(m, v, u, q)
    BY <1>4, <2>1, <2>2 DEF AeSound
  <2>7. Fresh(m, u, c) => NoLoss(m, w, u, q)
    BY <1>1, <2>4, <2>6 DEF NoLoss
  <2>8. Fresh(m, u, c) => Ordered(m, k)
    <3>1. Fresh(m, u, c) => m.prelog_index < w.nextIndex[q]
      BY <2>7 DEF NoLoss
    <3>2. k.prelog_index + 1 = w.nextIndex[q] /\ k.commit_index = w.commit_index
      BY DEF JustSent
    <3>3. m.commit_index <= w.commit_index
      BY <2>3 DEF Copied
    <3>4. QED
      BY <1>1, <1>2, <2>4, <3>1, <3>2, <3>3 DEF Ordered
  <2>9. QED
    BY <2>1, <2>2, <2>3, <2>5, <2>7, <2>8 DEF AeSound, Grows
<1>5. ASSUME NEW m \in ms, IsAck(m, q) PROVE AckOK(m, w, u, q, c)
  <2>1. AckOK(m, v, u, q, c) /\ m.lsn \in Nat
    BY <1>5, MailTypes DEF LinkOK
  <2>2. v.state = "primary"
    BY <2>1 DEF AckOK
  <2>3. QED
    BY <1>1, <2>1, <2>2 DEF AckOK, Grows
<1>6. Ordered(k, k)
  BY <1>2 DEF Ordered
<1>7. ASSUME NEW m \in ns, NEW n \in ns, IsAe(m, q), IsAe(n, q), Fresh(m, u, c)
      PROVE  Ordered(m, n)
  <2>1. CASE m \in ms /\ n \in ms
    BY <1>7, <2>1 DEF LinkOK
  <2>2. CASE m \in ms /\ n = k
    BY <1>4, <1>7, <2>2
  <2>3. CASE m = k /\ n \in ms
    <3>1. AeSound(n, v, u, q, c) /\ n.lsn \in Nat
      BY <1>7, <2>3, MailTypes DEF LinkOK
    <3>2. n.lsn < k.lsn
      BY <1>1, <1>2, <3>1, SMTT(30) DEF AeSound, JustSent
    <3>3. QED
      BY <1>2, <2>3, <3>1, <3>2 DEF Ordered
  <2>4. QED
    BY <1>6, <1>7, <2>1, <2>2, <2>3
<1>8. QED
  BY <1>2, <1>3, <1>4, <1>5, <1>7 DEF LinkOK

\* u2 is u1 after it has looked at more RPCs of c.
Later(u2, u1, c) ==
    /\ u1.term <= u2.term
    /\ u1.term = u2.term => u1.follower_rpc_lsn[c] <= u2.follower_rpc_lsn[c]

LEMMA FreshBefore ==
    ASSUME NEW u1 \in ServerState, NEW u2 \in ServerState, NEW c \in Server,
           Later(u2, u1, c), NEW m, MsgOK(m), u2.term <= m.term,
           Fresh(m, u2, c)
    PROVE  Fresh(m, u1, c)
<1>1. m.lsn \in Nat /\ m.term \in Nat
  BY MailTypes
<1>2. QED
  BY <1>1, ServerTypes DEF Fresh, Later

\* A follower looks at an RPC that leaves its log alone.
LEMMA LinkWaits ==
    ASSUME NEW v \in ServerState, NEW u1 \in ServerState, NEW u2 \in ServerState,
           NEW q \in Server, NEW c \in Server, NEW ms, \A m \in ms : MsgOK(m),
           LinkOK(v, u1, q, c, ms), Later(u2, u1, c), SameLog(u2, u1),
           u2.thrown = "none", u2.state = "follower", u2.term <= v.term,
           \A p \in Server : u2.retry_timers[p] = "none"
    PROVE  LinkOK(v, u2, q, c, ms)
<1>1. PeerOK(v, u2, q)
  BY DEF LinkOK, PeerOK, SameLog, AppliedOK, BooksOK
<1>2. ASSUME NEW m \in ms, IsAe(m, q)
      PROVE  AeSound(m, v, u2, q, c) /\ (Fresh(m, u2, c) => Fresh(m, u1, c))
  <2>1. AeSound(m, v, u1, q, c) /\ MsgOK(m)
    BY <1>2 DEF LinkOK
  <2>2. m.term = v.term
    BY <2>1 DEF AeSound
  <2>3. Fresh(m, u2, c) => Fresh(m, u1, c)
    BY <2>1, <2>2, FreshBefore
  <2>4. QED
    BY <2>1, <2>3 DEF AeSound, NoLoss, SameLog
<1>3. ASSUME NEW m \in ms, IsAck(m, q) PROVE AckOK(m, v, u2, q, c)
  <2>1. AckOK(m, v, u1, q, c) /\ m.lsn \in Nat
    BY <1>3, MailTypes DEF LinkOK
  <2>2. u2.term = u1.term
    BY <2>1, ServerTypes DEF AckOK, Later
  <2>3. QED
    BY <2>1, <2>2, ServerTypes DEF AckOK, Later, Tells, SameLog
<1>4. QED
  BY <1>1, <1>2, <1>3 DEF LinkOK

-----------------------------------------------------------------------------
(* A follower takes or denies an AE. *)

\* The elements of a concatenation.
LEMMA ConcatElements ==
    ASSUME NEW a \in Seq(Entry), NEW b \in Seq(Entry), NEW d, d = a \o b
    PROVE  /\ Len(d) = Len(a) + Len(b)
           /\ \A i \in 1 .. Len(a) : d[i] = a[i]
           /\ \A i \in 1 .. Len(b) : d[Len(a) + i] = b[i]
OBVIOUS

\* What a state machine that has got done is given next.
HandedOver(done, log, i) == done \o SubSeq(log, Len(done) + 1, i + 1)

\* The entries handed over are those up to the commit index.
LEMMA AppliesTo ==
    ASSUME NEW g \in ServerState, AppliedOK(g), NEW log \in Seq(Entry),
           \A i \in 1 .. g.commit_index + 1 : log[i] = g.entries[i],
           NEW a \in ServerState, a.entries = log,
           g.commit_index <= a.commit_index, a.commit_index < Len(log),
           a.applied = HandedOver(g.applied, log, a.commit_index)
    PROVE  AppliedOK(a)
<1> DEFINE n == g.commit_index + 1
           k == a.commit_index + 1
           more == SubSeq(log, n + 1, k)
<1>1. /\ Len(g.applied) = n /\ n \in Nat /\ k \in Nat /\ n <= k /\ k <= Len(log)
      /\ g.applied \in Seq(Entry) /\ Len(log) \in Nat
  BY ServerTypes DEF AppliedOK
<1>2. \A i \in 1 .. n : g.applied[i] = log[i]
  BY DEF AppliedOK
<1>3. a.applied = g.applied \o more
  BY <1>1 DEF HandedOver
<1>4. more \in Seq(Entry) /\ Len(more) = k - n
      /\ \A i \in 1 .. k - n : more[i] = log[n + i]
  <2>1. n + 1 \in 1 .. Len(log) + 1 /\ k \in (n + 1) - 1 .. Len(log)
    BY <1>1
  <2> HIDE DEF n, k
  <2>2. \A i \in n + 1 .. k : log[i] \in Entry
    BY <1>1, ElementOfSeq
  <2>3. more \in Seq(Entry)
    BY <1>1, <2>2
  <2>4. Len(more) = k - n
    BY <1>1, <2>1
  <2>5. ASSUME NEW i \in 1 .. k - n PROVE more[i] = log[n + i]
    BY <1>1, <2>1, <2>5
  <2>6. QED
    BY <2>3, <2>4, <2>5
<1> HIDE DEF n, k, more
<1>5. /\ Len(a.applied) = n + (k - n)
      /\ \A i \in 1 .. n : a.applied[i] = g.applied[i]
      /\ \A i \in 1 .. k - n : a.applied[n + i] = more[i]
  <2>1. g.applied \in Seq(Entry) /\ more \in Seq(Entry)
    BY <1>1, <1>4
  <2>2. /\ Len(a.applied) = Len(g.applied) + Len(more)
        /\ \A i \in 1 .. Len(g.applied) : a.applied[i] = g.applied[i]
        /\ \A i \in 1 .. Len(more) : a.applied[Len(g.applied) + i] = more[i]
    BY ONLY <1>3, <2>1, ConcatElements
  <2>3. Len(g.applied) = n /\ Len(more) = k - n
    BY <1>1, <1>4
  <2>4. QED
    BY <2>2, <2>3
<1>6. \A i \in 1 .. k : a.applied[i] = log[i]
  <2>1. \A i \in 1 .. k - n : a.applied[n + i] = log[n + i]
    BY <1>4, <1>5
  <2>2. \A i \in 1 .. n : a.applied[i] = log[i]
    BY <1>2, <1>5
  <2>3. ASSUME NEW i \in 1 .. k, ~(i \in 1 .. n)
        PROVE  i - n \in 1 .. k - n /\ n + (i - n) = i
    BY <1>1, <2>3
  <2>4. QED
    BY <2>1, <2>2, <2>3
<1>7. Len(a.applied) = k
  BY <1>1, <1>5
<1>8. QED
  BY <1>6, <1>7 DEF AppliedOK, k

\* A log check that fails tells that the log is too short.
LEMMA DeniedLog ==
    ASSUME NEW g \in ServerState, NEW v \in ServerState,
           IsPrefixOf(g.entries, v.entries),
           NEW m, MsgOK(m), m.type = "APPEND_ENTRY", Copied(m, v),
           ~log_check(g, m)
    PROVE  Len(g.entries) < m.prelog_index + 1
<1> DEFINE n == m.prelog_index + 1
<1>1. m.prelog_index \in Int /\ m.prelog_index >= -1 /\ m.prelog_index # -1
  BY AeTypes DEF log_check
<1>2. n \in Nat /\ n > 0 /\ Len(g.entries) \in Nat
      /\ (m.prelog_index < Len(g.entries) => n \in 1 .. Len(g.entries))
  BY <1>1, ServerTypes
<1>3. n \in 1 .. Len(g.entries) => g.entries[n].term = m.prelog_term
  BY <1>2 DEF IsPrefixOf, Copied
<1>4. QED
  BY <1>1, <1>2, <1>3 DEF log_check

\* A log check that succeeds lets the log grow along that of the primary.
LEMMA AcceptedLog ==
    ASSUME NEW g \in ServerState, NEW v \in ServerState,
           IsPrefixOf(g.entries, v.entries),
           NEW m, MsgOK(m), m.type = "APPEND_ENTRY", Copied(m, v),
           log_check(g, m), Len(g.entries) <= m.prelog_index + 2,
           NEW log, log = LogAfter(g, m)
    PROVE  /\ log \in Seq(Entry)
           /\ IsPrefixOf(log, v.entries) /\ IsPrefixOf(g.entries, log)
           /\ m.prelog_index + 1 <= Len(log)
           /\ Len(log) <= m.prelog_index + 2
           /\ m.entry # << >> => Len(log) = m.prelog_index + 2
<1> DEFINE n == m.prelog_index + 1
           e == m.entry[1]
<1>1. /\ m.prelog_index \in Int /\ n \in Nat
      /\ g.entries \in Seq(Entry) /\ v.entries \in Seq(Entry)
      /\ Len(g.entries) \in Nat /\ Len(v.entries) \in Nat
  BY AeTypes, ServerTypes
<1>2. n <= Len(g.entries)
  BY <1>1 DEF log_check
<1>3. CASE m.entry = << >>
  <2>1. log = g.entries
    BY <1>3 DEF LogAfter
  <2>2. QED
    BY <1>1, <1>2, <1>3, <2>1 DEF IsPrefixOf
<1>4. CASE m.entry # << >>
  <2>1. log = Append(SubSeq(g.entries, 1, n), e)
    BY <1>4 DEF LogAfter
  <2>2. n + 1 <= Len(v.entries) /\ e = v.entries[n + 1]
    BY <1>1, <1>4 DEF Copied
  <2>3. e \in Entry
    BY <1>1, <2>2, ElementOfSeq
  <2> HIDE DEF e
  <2>4. SubSeq(g.entries, 1, n) \in Seq(Entry) /\ Len(SubSeq(g.entries, 1, n)) = n
        /\ \A i \in 1 .. n : SubSeq(g.entries, 1, n)[i] = g.entries[i]
    BY <1>1, <1>2, LogFacts
  <2> DEFINE old == SubSeq(g.entries, 1, n)
  <2> HIDE DEF old
  <2>5. /\ old \in Seq(Entry) /\ Len(old) = n /\ log = Append(old, e)
        /\ \A i \in 1 .. n : old[i] = g.entries[i]
    BY <2>1, <2>4 DEF old
  <2> HIDE DEF n
  <2>6. log \in Seq(Entry) /\ Len(log) = n + 1 /\ log[n + 1] = e
        /\ \A i \in 1 .. n : log[i] = old[i]
    BY <1>1, <2>3, <2>5
  <2>7. ASSUME NEW i \in 1 .. n + 1 PROVE log[i] = v.entries[i]
    <3>1. CASE i = n + 1
      BY <2>2, <2>6, <3>1
    <3>2. CASE i # n + 1
      <4>1. i \in 1 .. n /\ i \in 1 .. Len(g.entries)
        BY <1>1, <1>2, <2>7, <3>2
      <4>2. g.entries[i] = v.entries[i]
        BY <4>1 DEF IsPrefixOf
      <4>3. QED
        BY <2>5, <2>6, <4>1, <4>2
    <3>3. QED
      BY <3>1, <3>2
  <2>8. IsPrefixOf(log, v.entries)
    BY <2>2, <2>6, <2>7 DEF IsPrefixOf
  <2>9. Len(g.entries) <= n + 1
    BY <1>1 DEF n
  <2>10. IsPrefixOf(g.entries, log)
    <3>1. ASSUME NEW i \in 1 .. Len(g.entries) PROVE g.entries[i] = log[i]
      BY <1>1, <2>7, <2>9 DEF IsPrefixOf
    <3>2. QED
      BY <2>6, <2>9, <3>1 DEF IsPrefixOf
  <2>11. QED
    BY <1>1, <2>6, <2>8, <2>10 DEF n
<1>5. QED
  BY <1>3, <1>4

\* What react2ae has done to u before it checks the log.
LEMMA HeardIs ==
    ASSUME NEW u \in ServerState, NEW g, NEW m, MsgOK(m), Heard(g, u, m)
    PROVE  /\ g \in ServerState
           /\ g.thrown = "none" /\ g.state = "follower" /\ g.term = m.term
           /\ \A p \in Server : g.retry_timers[p] = "none"
           /\ SameLog(g, u)
           /\ g.follower_rpc_lsn[m.src] = m.lsn
           /\ Fresh(m, u, m.src)
<1>1. PICK f : /\ u.term <= m.term
               /\ Down(f, u, m.term)
               /\ f.follower_rpc_lsn[m.src] < m.lsn
               /\ Noted(g, f, m)
  BY DEF Heard
<1>2. f \in ServerState /\ m.src \in Server /\ u.term \in Nat /\ m.term \in Nat
  BY <1>1, MailTypes, ServerTypes DEF Down
<1>3. /\ g.thrown = "none" /\ g.state = "follower" /\ g.term = m.term
      /\ g \in ServerState
  BY <1>1 DEF Down, Noted, SameRole
<1>4. \A p \in Server : g.retry_timers[p] = "none"
  BY <1>1 DEF Down, Noted, SameTimers
<1>5. SameLog(g, u)
  BY <1>1 DEF Down, Noted, SameLog
<1>6. g.follower_rpc_lsn[m.src] = m.lsn
  <2>1. f.follower_rpc_lsn \in [Server -> Int]
    BY <1>2 DEF ServerState
  <2>2. QED
    BY <1>1, <1>2, <2>1 DEF Noted
<1>7. Fresh(m, u, m.src)
  <2>1. CASE u.term = m.term
    BY <1>1, <2>1 DEF Down, SameLsns, Fresh
  <2>2. CASE u.term < m.term
    BY <2>2 DEF Fresh
  <2>3. QED
    BY <1>1, <1>2, <2>1, <2>2
<1>8. QED
  BY <1>3, <1>4, <1>5, <1>6, <1>7

\* k answers the AE m after it has made a of the follower.
Answers(k, m, a, q) ==
    /\ IsAck(k, q) /\ ~IsAe(k, q)
    /\ k.term = a.term /\ k.lsn = m.lsn
    /\ ~k.ok => Len(a.entries) < m.prelog_index + 1
    /\ k.ok => m.prelog_index + 1 <= Len(a.entries)
    /\ k.ok /\ ~k.is_empty_ae => m.prelog_index + 1 < Len(a.entries)

LEMMA LinkAnswers ==
    ASSUME NEW v \in ServerState, NEW u \in ServerState, NEW a \in ServerState,
           NEW q \in Server, NEW c \in Server, NEW ms, \A m \in ms : MsgOK(m),
           LinkOK(v, u, q, c, ms),
           NEW m \in ms, IsAe(m, q), Fresh(m, u, c),
           PeerOK(v, a, q), a.term = m.term, a.follower_rpc_lsn[c] = m.lsn,
           Len(a.entries) <= m.prelog_index + 2,
           a.commit_index <= m.commit_index,
           NEW k, Answers(k, m, a, q), NEW ns,
           \A n \in ns : IsAe(n, q) \/ IsAck(n, q) => n \in ms \/ n = k
    PROVE  LinkOK(v, a, q, c, ns)
<1>1. /\ v.current_rpc_lsn[q] \in Nat /\ v.nextIndex[q] \in Int
      /\ u.follower_rpc_lsn[c] \in Int /\ u.term \in Nat /\ v.term \in Nat
      /\ Len(a.entries) \in Nat /\ a.commit_index \in Int
  BY ServerTypes
<1>2. /\ m.lsn \in Nat /\ m.prelog_index \in Int /\ m.commit_index \in Int
  BY AeTypes DEF IsAe
<1>3. AeSound(m, v, u, q, c)
  BY DEF LinkOK
<1>4. /\ v.state = "primary" /\ m.term = v.term
      /\ m.lsn < v.current_rpc_lsn[q]
      /\ m.lsn + 1 = v.current_rpc_lsn[q] => m.prelog_index + 1 = v.nextIndex[q]
  BY <1>3 DEF AeSound
<1>5. u.term = v.term => u.follower_rpc_lsn[c] < m.lsn
  BY <1>1, <1>4 DEF Fresh
<1>6. ASSUME NEW n \in ms, IsAe(n, q)
      PROVE  AeSound(n, v, a, q, c) /\ (Fresh(n, a, c) => Fresh(n, u, c))
  <2>1. AeSound(n, v, u, q, c) /\ MsgOK(n) /\ n.type = "APPEND_ENTRY"
    BY <1>6 DEF LinkOK, IsAe
  <2>2. n.lsn \in Nat /\ n.prelog_index \in Int /\ n.commit_index \in Int
    BY <2>1, AeTypes
  <2>3. n.term = v.term
    BY <2>1 DEF AeSound
  <2>4. Fresh(n, a, c) => m.lsn < n.lsn
    BY <1>1, <1>4, <2>3 DEF Fresh
  <2>5. Fresh(n, a, c) => Fresh(n, u, c)
    <3>1. CASE u.term < m.term
      BY <1>4, <2>3, <3>1 DEF Fresh
    <3>2. CASE u.follower_rpc_lsn[c] < m.lsn
      <4>1. m.lsn < n.lsn => u.follower_rpc_lsn[c] < n.lsn
        BY <1>1, <1>2, <2>2, <3>2, SMTT(30)
      <4>2. QED
        BY <2>4, <4>1 DEF Fresh
    <3>3. QED
      BY <3>1, <3>2 DEF Fresh
  <2>6. Ordered(m, n)
    BY <1>6 DEF LinkOK
  <2>7. Fresh(n, a, c) => NoLoss(n, v, u, q)
    BY <2>1, <2>5 DEF AeSound
  <2>8. Fresh(n, a, c) => NoLoss(n, v, a, q)
    <3>1. m.lsn < n.lsn => /\ m.prelog_index <= n.prelog_index
                           /\ m.commit_index <= n.commit_index
      BY <2>6 DEF Ordered
    <3>2. m.lsn < n.lsn => Len(a.entries) <= n.prelog_index + 2
      BY <1>1, <1>2, <2>2, <3>1
    <3>3. m.lsn < n.lsn => a.commit_index <= n.commit_index
      BY <1>1, <1>2, <2>2, <3>1, SMTT(30)
    <3>4. QED
      BY <2>4, <2>7, <3>2, <3>3 DEF NoLoss
  <2>9. QED
    BY <2>1, <2>5, <2>8 DEF AeSound
<1>7. ASSUME NEW n \in ms, IsAck(n, q) PROVE AckOK(n, v, a, q, c)
  <2>1. AckOK(n, v, u, q, c) /\ n.lsn \in Nat
    BY <1>7, MailTypes DEF LinkOK
  <2>2. /\ n.term = v.term /\ u.term = v.term /\ n.lsn <= u.follower_rpc_lsn[c]
        /\ n.lsn < v.current_rpc_lsn[q]
    BY <2>1 DEF AckOK
  <2>3. n.lsn < m.lsn /\ n.lsn + 1 # v.current_rpc_lsn[q]
    BY <1>1, <1>2, <1>4, <1>5, <2>1, <2>2
  <2>4. QED
    BY <1>2, <1>4, <2>1, <2>2, <2>3 DEF AckOK
<1>8. AckOK(k, v, a, q, c)
  <2>1. m.lsn + 1 = v.current_rpc_lsn[q] => Tells(k, v, a, q)
    BY <1>4 DEF Tells, Answers
  <2>2. QED
    BY <1>2, <1>4, <2>1 DEF AckOK, Answers
<1>9. \A n \in ns : IsAe(n, q) => n \in ms
  BY DEF Answers
<1>10. QED
  BY <1>6, <1>7, <1>8, <1>9 DEF LinkOK

\* k answers the AE m for the follower a.
Said(k, a, m) ==
    /\ k.type = "RESP_APPEND" /\ k.src = m.dst /\ k.dst = m.src
    /\ k.term = a.term /\ k.lsn = m.lsn
    /\ k.is_empty_ae <=> m.entry = << >>

LEMMA SaidIs ==
    ASSUME NEW a, NEW m
    PROVE  /\ Said(make_resp_ae(a, m, TRUE), a, m) /\ make_resp_ae(a, m, TRUE).ok
           /\ Said(make_resp_ae(a, m, FALSE), a, m) /\ ~make_resp_ae(a, m, FALSE).ok
BY DEF make_resp_ae, Said

\* A denied AE.
LEMMA LinkDenies ==
    ASSUME NEW v \in ServerState, NEW u \in ServerState,
           NEW q \in Server, NEW c \in Server, NEW ms, \A m \in ms : MsgOK(m),
           LinkOK(v, u, q, c, ms), NEW m \in ms, IsAe(m, q), m.src = c,
           NEW g, Heard(g, u, m), ~log_check(g, m),
           NEW k, Said(k, g, m), ~k.ok, NEW ns,
           \A n \in ns : IsAe(n, q) \/ IsAck(n, q) => n \in ms \/ n = k
    PROVE  LinkOK(v, g, q, c, ns)
<1>1. /\ g \in ServerState
      /\ g.thrown = "none" /\ g.state = "follower" /\ g.term = m.term
      /\ \A p \in Server : g.retry_timers[p] = "none"
      /\ SameLog(g, u) /\ g.follower_rpc_lsn[c] = m.lsn /\ Fresh(m, u, c)
  BY HeardIs
<1>2. PeerOK(v, u, q) /\ AeSound(m, v, u, q, c)
  BY DEF LinkOK
<1>3. PeerOK(v, g, q)
  BY <1>1, <1>2, ServerTypes DEF PeerOK, AeSound, SameLog, AppliedOK, BooksOK
<1>4. Len(g.entries) < m.prelog_index + 1
  BY <1>1, <1>2, <1>3, DeniedLog DEF PeerOK, AeSound, IsAe
<1>5. Answers(k, m, g, q)
  <2>1. /\ k.type = "RESP_APPEND" /\ k.src = q /\ k.term = g.term
        /\ k.lsn = m.lsn /\ ~k.ok
    BY DEF Said, IsAe
  <2>2. QED
    BY <1>4, <2>1 DEF Answers, IsAck, IsAe
<1>6. Len(g.entries) <= m.prelog_index + 2 /\ g.commit_index <= m.commit_index
  BY <1>1, <1>2 DEF AeSound, NoLoss, SameLog
<1>7. QED
  BY <1>1, <1>3, <1>5, <1>6, LinkAnswers

\* An accepted AE neither shortens the log nor takes the commit index back.
LEMMA TakenIs ==
    ASSUME NEW v \in ServerState, NEW g \in ServerState, NEW q \in Server,
           PeerOK(v, g, q), v.state = "primary",
           g.commit_index < Len(g.entries),
           NEW m, MsgOK(m), m.type = "APPEND_ENTRY", Copied(m, v),
           NoLoss(m, v, g, q), log_check(g, m),
           NEW log, log = LogAfter(g, m)
    PROVE  /\ CommitAfter(log, m) >= g.commit_index
           /\ CommitAfter(log, m) <= m.commit_index
           /\ CommitAfter(log, m) < Len(log)
           /\ CommitAfter(log, m) \in Int
           /\ log \in Seq(Entry) /\ Len(log) \in Nat
           /\ IsPrefixOf(log, v.entries) /\ IsPrefixOf(g.entries, log)
           /\ m.prelog_index + 1 <= Len(log)
           /\ Len(log) <= m.prelog_index + 2
           /\ m.entry # << >> => Len(log) = m.prelog_index + 2
<1>1. /\ log \in Seq(Entry)
      /\ IsPrefixOf(log, v.entries) /\ IsPrefixOf(g.entries, log)
      /\ m.prelog_index + 1 <= Len(log)
      /\ Len(log) <= m.prelog_index + 2
      /\ m.entry # << >> => Len(log) = m.prelog_index + 2
  BY AcceptedLog DEF PeerOK, NoLoss
<1>2. /\ m.commit_index \in Int /\ Len(log) \in Nat
      /\ Len(g.entries) \in Nat /\ g.commit_index \in Int
  BY <1>1, AeTypes, ServerTypes
<1>3. Len(g.entries) <= Len(log) /\ g.commit_index <= m.commit_index
  BY <1>1 DEF IsPrefixOf, NoLoss
<1>4. /\ CommitAfter(log, m) >= g.commit_index
      /\ CommitAfter(log, m) <= m.commit_index
      /\ CommitAfter(log, m) < Len(log)
      /\ CommitAfter(log, m) \in Int
  BY <1>2, <1>3 DEF CommitAfter
<1>5. QED
  BY <1>1, <1>2, <1>4

\* An accepted AE.
LEMMA LinkTakes ==
    ASSUME NEW v \in ServerState, NEW u \in ServerState,
           u.commit_index < Len(u.entries),
           NEW q \in Server, NEW c \in Server, NEW ms, \A m \in ms : MsgOK(m),
           LinkOK(v, u, q, c, ms), NEW m \in ms, IsAe(m, q), m.src = c,
           NEW g, Heard(g, u, m), log_check(g, m), NEW a, Took(a, g, m),
           NEW k, Said(k, a, m), k.ok, NEW ns,
           \A n \in ns : IsAe(n, q) \/ IsAck(n, q) => n \in ms \/ n = k
    PROVE  LinkOK(v, a, q, c, ns)
<1> DEFINE log == LogAfter(g, m)
           i == CommitAfter(log, m)
<1>1. /\ g \in ServerState
      /\ g.thrown = "none" /\ g.state = "follower" /\ g.term = m.term
      /\ \A p \in Server : g.retry_timers[p] = "none"
      /\ SameLog(g, u) /\ g.follower_rpc_lsn[c] = m.lsn /\ Fresh(m, u, c)
  BY HeardIs
<1>2. PeerOK(v, u, q) /\ AeSound(m, v, u, q, c)
  BY DEF LinkOK
<1>3. PeerOK(v, g, q)
  BY <1>1, <1>2, ServerTypes DEF PeerOK, AeSound, SameLog, AppliedOK, BooksOK
<1>4. /\ v.state = "primary" /\ Copied(m, v) /\ NoLoss(m, v, g, q)
      /\ g.commit_index < Len(g.entries) /\ m.term = v.term
  BY <1>1, <1>2 DEF AeSound, NoLoss, SameLog
<1>5. /\ i >= g.commit_index /\ i <= m.commit_index /\ i < Len(log) /\ i \in Int
      /\ log \in Seq(Entry) /\ Len(log) \in Nat
      /\ IsPrefixOf(log, v.entries) /\ IsPrefixOf(g.entries, log)
      /\ m.prelog_index + 1 <= Len(log)
      /\ Len(log) <= m.prelog_index + 2
      /\ m.entry # << >> => Len(log) = m.prelog_index + 2
  BY <1>1, <1>3, <1>4, TakenIs DEF IsAe
<1>6. /\ OnlyLog(a, g) /\ a.entries = log /\ a.commit_index = i
      /\ a.applied = IF i = g.commit_index THEN g.applied
                     ELSE HandedOver(g.applied, log, i)
  BY DEF Took, HandedOver
<1> HIDE DEF log, i
<1>7. /\ a \in ServerState
      /\ a.thrown = "none" /\ a.state = "follower" /\ a.term = m.term
      /\ \A p \in Server : a.retry_timers[p] = "none"
      /\ a.follower_rpc_lsn[c] = m.lsn
  BY <1>1, <1>6 DEF OnlyLog, SameRole, SameTimers, SameLsns
<1>8. \A j \in 1 .. g.commit_index + 1 : log[j] = g.entries[j]
  <2>1. Len(g.entries) \in Nat /\ g.commit_index \in Int
    BY <1>1, ServerTypes
  <2>2. QED
    BY <1>4, <1>5, <2>1 DEF IsPrefixOf
<1>9. AppliedOK(a)
  <2>1. AppliedOK(g)
    BY <1>3 DEF PeerOK
  <2>2. CASE i = g.commit_index
    BY <1>6, <1>8, <2>1, <2>2 DEF AppliedOK
  <2>3. CASE i # g.commit_index
    BY <1>1, <1>5, <1>6, <1>7, <1>8, <2>1, <2>3, AppliesTo
  <2>4. QED
    BY <2>2, <2>3
<1>10. a.commit_index <= v.commit_index /\ a.commit_index <= m.commit_index
  <2>1. m.commit_index \in Int /\ v.commit_index \in Int
    BY AeTypes, ServerTypes DEF IsAe
  <2>2. QED
    BY <1>4, <1>5, <1>6, <2>1 DEF Copied
<1>11. BooksOK(v, a, q)
  <2>1. /\ m.prelog_index \in Int /\ v.nextIndex[q] \in Int
        /\ v.Follower_saved_index[q] \in Int /\ Len(g.entries) \in Nat
    BY <1>1, AeTypes, ServerTypes DEF IsAe
  <2>2. BooksOK(v, g, q) /\ Len(g.entries) <= Len(log)
    BY <1>3, <1>4, <1>5 DEF PeerOK, IsPrefixOf
  <2>3. m.prelog_index < v.nextIndex[q]
    BY <1>4 DEF NoLoss
  <2>4. /\ -1 <= v.Follower_saved_index[q]
        /\ v.Follower_saved_index[q] < v.nextIndex[q]
        /\ v.Follower_saved_index[q] < Len(g.entries)
        /\ Len(g.entries) <= v.nextIndex[q] + 1
    BY <2>2 DEF BooksOK
  <2>5. v.Follower_saved_index[q] < Len(log)
    BY <1>5, <2>1, <2>2, <2>4
  <2>6. Len(log) <= v.nextIndex[q] + 1
    BY <1>5, <2>1, <2>3, <2>4
  <2>7. QED
    BY <1>6, <2>4, <2>5, <2>6 DEF BooksOK
<1>12. PeerOK(v, a, q)
  <2>1. a.term <= v.term
    BY <1>4, <1>7, ServerTypes
  <2>2. QED
    BY <1>4, <1>5, <1>6, <1>7, <1>9, <1>10, <1>11, <2>1 DEF PeerOK
<1>13. Answers(k, m, a, q)
  <2>1. /\ k.type = "RESP_APPEND" /\ k.src = q /\ k.term = a.term
        /\ k.lsn = m.lsn /\ (~k.is_empty_ae => m.entry # << >>)
    BY DEF Said, IsAe
  <2>2. ~k.is_empty_ae => m.prelog_index + 1 < Len(log)
    <3>1. m.prelog_index \in Int
      BY AeTypes DEF IsAe
    <3>2. ~k.is_empty_ae => m.entry # << >>
      BY <2>1
    <3>3. QED
      BY <1>5, <3>1, <3>2
  <2>3. QED
    BY <1>5, <1>6, <2>1, <2>2 DEF Answers, IsAck, IsAe
<1>14. QED
  BY <1>1, <1>5, <1>6, <1>7, <1>10, <1>12, <1>13, LinkAnswers

-----------------------------------------------------------------------------
(* The cluster, when one server takes a step. *)

\* What the invariants say of c and of a follower.
LEMMA LinkFacts ==
    ASSUME IInv, NEW c \in Server, RInv(c)
    PROVE  /\ server[c] \in ServerState /\ StateOK(server[c], c)
           /\ LeaderOK(server[c])
           /\ \A m \in net : MsgOK(m) /\ SourceOK(m, server[c].term, c)
           /\ \A q \in Peers(c) :
                /\ q \in Server /\ q # c /\ server[q] \in ServerState
                /\ StateOK(server[q], q)
                /\ LinkOK(server[c], server[q], q, c, net)
                /\ PeerOK(server[c], server[q], q)
BY StateFacts, MsgFacts DEF RInv, LinksOK, SourcesOK, LinkOK, Peers

\* A follower takes a step.
LEMMA PeerStep ==
    ASSUME IInv, NEW c \in Server, RInv(c), NEW q \in Peers(c),
           NEW handled, NEW a, NEW sent, Step(q, handled, a, sent),
           \A m \in sent : /\ m.type \in {"RESP_VOTE", "RESP_APPEND"}
                           /\ m.src = q /\ m.dst = c
                           /\ m.term <= server[c].term,
           LinkOK(server[c], a, q, c, net')
    PROVE  RInv(c)'
<1>1. /\ server' = [server EXCEPT ![q] = a]
      /\ net' \subseteq net \cup sent
  BY DEF Step
<1>2. /\ server'[c] = server[c] /\ server'[q] = a
      /\ \A p \in Peers(c) \ {q} : server'[p] = server[p]
  BY <1>1, LinkFacts DEF IInv, ServersOK, Peers
<1>3. SourcesOK(server[c].term, c, net')
  <2>1. \A m \in sent : SourceOK(m, server[c].term, c)
    BY DEF SourceOK
  <2>2. QED
    BY <1>1, <2>1, LinkFacts DEF SourcesOK
<1>4. ASSUME NEW p \in Peers(c) \ {q}
      PROVE  LinkOK(server[c], server[p], p, c, net')
  <2>1. \A m \in net' : IsAe(m, p) \/ IsAck(m, p) => m \in net
    BY <1>1 DEF IsAe, IsAck
  <2>2. QED
    BY <2>1, LinkFacts, LinkMonotone
<1>5. ASSUME NEW p \in Peers(c)
      PROVE  LinkOK(server'[c], server'[p], p, c, net')
  BY <1>2, <1>4
<1>6. QED
  BY <1>2, <1>3, <1>5, LinkFacts DEF RInv, LinksOK

\* The one that serves the clients takes a step.
LEMMA LeaderStep ==
    ASSUME IInv, NEW c \in Server, RInv(c),
           NEW handled, NEW w \in ServerState, NEW sent,
           Step(c, handled, w, sent),
           LeaderOK(w), server[c].term <= w.term,
           \A m \in sent : /\ m.type \in {"REQUEST_VOTE", "APPEND_ENTRY"}
                           /\ m.src = c /\ m.term = w.term,
           \A p \in Peers(c) : LinkOK(w, server[p], p, c, net')
    PROVE  RInv(c)'
<1>1. /\ server' = [server EXCEPT ![c] = w]
      /\ net' \subseteq net \cup sent
  BY DEF Step
<1>2. server'[c] = w /\ \A p \in Peers(c) : server'[p] = server[p]
  BY <1>1 DEF IInv, ServersOK, Peers
<1>3. w.term \in Nat /\ server[c].term \in Nat
  BY ServerTypes, LinkFacts
<1>4. ASSUME NEW m \in net' PROVE SourceOK(m, w.term, c)
  <2>1. CASE m \in net
    <3>1. SourceOK(m, server[c].term, c) /\ m.term \in Nat
      BY <2>1, LinkFacts, MailTypes
    <3>2. QED
      BY <1>3, <3>1 DEF SourceOK
  <2>2. CASE m \in sent
    BY <1>3, <2>2 DEF SourceOK
  <2>3. QED
    BY <1>1, <1>4, <2>1, <2>2
<1>5. ASSUME NEW p \in Peers(c) PROVE LinkOK(server'[c], server'[p], p, c, net')
  BY <1>2
<1>6. QED
  BY <1>2, <1>4, <1>5 DEF RInv, LinksOK, SourcesOK

\* A step of c that leaves every follower's books alone: either c is not yet
\* primary, or it stays primary and its log goes on.
Quiet(w, v, c) ==
    \/ /\ v.state # "primary" /\ w.state # "primary" /\ v.term <= w.term
       /\ IsPrefixOf(v.entries, w.entries) /\ w.commit_index = v.commit_index
    \/ /\ Grows(w, v)
       /\ \A q \in Peers(c) :
            /\ w.nextIndex[q] = v.nextIndex[q]
            /\ w.Follower_saved_index[q] = v.Follower_saved_index[q]
            /\ v.current_rpc_lsn[q] <= w.current_rpc_lsn[q]

LEMMA QuietLeader ==
    ASSUME IInv, NEW c \in Server, RInv(c),
           NEW handled, NEW w \in ServerState, NEW sent,
           Step(c, handled, w, sent), Quiet(w, server[c], c), LeaderOK(w),
           \A m \in sent : /\ m.type = "REQUEST_VOTE"
                           /\ m.src = c /\ m.term = w.term
    PROVE  RInv(c)'
<1>1. net' \subseteq net \cup sent
  BY DEF Step
<1>2. ASSUME NEW p \in Peers(c) PROVE LinkOK(w, server[p], p, c, net')
  <2>1. LinkOK(w, server[p], p, c, net)
    <3>1. /\ server[c] \in ServerState /\ server[p] \in ServerState
          /\ p \in Server /\ LinkOK(server[c], server[p], p, c, net)
          /\ \A m \in net : MsgOK(m)
      BY LinkFacts
    <3>2. CASE /\ server[c].state # "primary" /\ w.state # "primary"
               /\ server[c].term <= w.term
               /\ IsPrefixOf(server[c].entries, w.entries)
               /\ w.commit_index = server[c].commit_index
      BY <3>1, <3>2, LinkIdle
    <3>3. CASE /\ Grows(w, server[c])
               /\ \A q \in Peers(c) :
                    /\ w.nextIndex[q] = server[c].nextIndex[q]
                    /\ w.Follower_saved_index[q] = server[c].Follower_saved_index[q]
                    /\ server[c].current_rpc_lsn[q] <= w.current_rpc_lsn[q]
      BY <3>1, <3>3, LinkGrows
    <3>4. QED
      BY <3>2, <3>3 DEF Quiet
  <2>2. \A m \in net' : IsAe(m, p) \/ IsAck(m, p) => m \in net
    BY <1>1 DEF IsAe, IsAck
  <2>3. QED
    BY <2>1, <2>2, LinkMonotone
<1>3. server[c].term <= w.term
  BY LinkFacts, ServerTypes DEF Quiet, Grows
<1>4. QED
  BY <1>2, <1>3, LeaderStep

\* The lsns after an RPC to q.
LEMMA NextLsnOf ==
    ASSUME NEW v \in ServerState, NEW P, NEW p \in Server
    PROVE  /\ p \in P => next_lsn(v, P)[p] = v.current_rpc_lsn[p] + 1
           /\ p \notin P => next_lsn(v, P)[p] = v.current_rpc_lsn[p]
BY DEF next_lsn

\* A primary sends an AE to q, built from x.
LEMMA SendingLeader ==
    ASSUME IInv, IInv', NEW c \in Server, RInv(c), NEW q \in Peers(c),
           NEW v, v = server[c],
           NEW handled, NEW w \in ServerState, NEW x \in ServerState,
           Step(c, handled, w, {build_rpc_ae_string(x, c, q)}),
           LeaderOK(w), Grows(w, v),
           x.term = w.term, x.entries = w.entries,
           x.commit_index = w.commit_index, x.nextIndex = w.nextIndex,
           Resent(w, x, v, q),
           \A p \in Peers(c) \ {q} :
                /\ w.nextIndex[p] = v.nextIndex[p]
                /\ w.Follower_saved_index[p] = v.Follower_saved_index[p],
           PeerOK(w, server[q], q),
           \/ v.nextIndex[q] <= w.nextIndex[q]
           \/ \A m \in net : IsAe(m, q) => ~Fresh(m, server[q], c)
    PROVE  RInv(c)'
<1> DEFINE k == build_rpc_ae_string(x, c, q)
<1>1. /\ v \in ServerState /\ q \in Server /\ q # c /\ server[q] \in ServerState
      /\ LinkOK(v, server[q], q, c, net) /\ \A m \in net : MsgOK(m)
  BY LinkFacts
<1>2. w.state = "primary" /\ v.state = "primary" /\ w.term = v.term
  BY DEF Grows
<1>3. net' \subseteq net \cup {k} /\ k \in net' /\ server'[c] = w
  BY DEF Step, LeaderOK, Alive, IInv, ServersOK
<1>4. MsgOK(k) /\ StateOK(w, c)
  BY <1>3 DEF IInv, NetOK, ServersOK
<1>5. /\ k.type = "APPEND_ENTRY" /\ k.src = c /\ k.dst = q /\ k.term = x.term
  BY DEF build_rpc_ae_string
<1>6. x.nextIndex[q] \in 0 .. Len(x.entries)
  BY <1>1, <1>2, <1>4 DEF StateOK, PrimaryOK
<1>7. /\ x.current_rpc_lsn = v.current_rpc_lsn
      /\ w.current_rpc_lsn[q] = v.current_rpc_lsn[q] + 1
      /\ \A p \in Server \ {q} : w.current_rpc_lsn[p] = v.current_rpc_lsn[p]
  BY <1>1, NextLsnOf DEF Resent
<1>8. JustSent(k, w, q, c)
  BY <1>1, <1>4, <1>6, <1>7, BuiltIs
<1> HIDE DEF k
<1>9. ASSUME NEW p \in Peers(c) PROVE LinkOK(w, server[p], p, c, net')
  <2>1. CASE p = q
    <3>1. \A m \in net' : IsAe(m, q) \/ IsAck(m, q) => m \in net \/ m = k
      BY <1>3
    <3>2. QED
      BY <1>1, <1>2, <1>7, <1>8, <2>1, <3>1, LinkSends
  <2>2. CASE p # q
    <3>1. /\ p \in Server /\ server[p] \in ServerState
          /\ LinkOK(v, server[p], p, c, net)
      BY LinkFacts
    <3>2. v.current_rpc_lsn[p] <= w.current_rpc_lsn[p]
      BY <1>1, <1>7, <2>2, <3>1, ServerTypes
    <3>3. LinkOK(w, server[p], p, c, net)
      BY <1>1, <2>2, <3>1, <3>2, LinkGrows
    <3>4. \A m \in net' : IsAe(m, p) \/ IsAck(m, p) => m \in net
      BY <1>3, <1>5, <2>2 DEF IsAe, IsAck
    <3>5. QED
      BY <3>3, <3>4, LinkMonotone
  <2>3. QED
    BY <2>1, <2>2
<1>10. v.term <= w.term
  BY <1>1, <1>2, ServerTypes
<1>11. Step(c, handled, w, {k})
  BY DEF k
<1>12. QED
  BY <1>5, <1>9, <1>10, <1>11, LeaderStep

-----------------------------------------------------------------------------
(* The actions. *)

LEMMA SameApplied ==
    ASSUME NEW v, NEW w, SameLog(w, v), AppliedOK(v)
    PROVE  AppliedOK(w)
BY DEF SameLog, AppliedOK

\* A server whose timers and lsns only change is a leader as before.
LEMMA SameLeader ==
    ASSUME NEW v, NEW w, LeaderOK(v), SameRole(w, v), SameLog(w, v),
           w.Follower_saved_index = v.Follower_saved_index,
           w.candidate_timer = v.candidate_timer
    PROVE  LeaderOK(w)
BY SameApplied DEF LeaderOK, SameRole, SameLog

LEMMA PrefixRefl ==
    ASSUME NEW v \in ServerState, NEW log, log = v.entries
    PROVE  IsPrefixOf(v.entries, log)
BY ServerTypes DEF IsPrefixOf

\* candidate_timeout: c is not primary, and nothing is replicated yet.
LEMMA CandidateTimeoutR ==
    ASSUME IInv, NEW c \in Server, RInv(c), candidate_timeout(c)
    PROVE  RInv(c)'
<1> DEFINE v == server[c]
<1>1. v \in ServerState /\ LeaderOK(v)
  BY LinkFacts
<1>2. PICK x, w :
        /\ Stands(x, v)
        /\ Sends(w, x, next_lsn(x, Peers(c)), Hooked(x, Peers(c), "RV"))
        /\ Step(c, {}, w, {build_rpc_rv_string(x, c, p) : p \in Peers(c)})
  BY CandidateTimeoutIs
<1>3. v.state # "primary"
  BY <1>1, CandidateTimeoutIs DEF LeaderOK
<1> DEFINE sent == {build_rpc_rv_string(x, c, p) : p \in Peers(c)}
<1>4. \A m \in sent : m.type = "REQUEST_VOTE" /\ m.src = c /\ m.term = x.term
  BY DEF build_rpc_rv_string
<1>5. /\ w \in ServerState /\ w.thrown = "none" /\ w.state = "candidate"
      /\ w.term = v.term + 1 /\ w.term = x.term /\ SameLog(w, v)
  BY <1>2 DEF Stands, Sends, SameRole, SameLog
<1>6. Step(c, {}, w, sent)
  BY <1>2
<1> HIDE DEF v, sent
<1>7. v.term <= w.term
  BY <1>1, <1>5, ServerTypes
<1>8. IsPrefixOf(v.entries, w.entries)
  BY <1>1, <1>5, PrefixRefl DEF SameLog
<1>9. Quiet(w, v, c)
  BY <1>3, <1>5, <1>7, <1>8 DEF Quiet, SameLog
<1>10. AppliedOK(w)
  BY <1>1, <1>5, SameApplied DEF LeaderOK
<1>11. LeaderOK(w)
  BY <1>1, <1>3, <1>5, <1>10 DEF LeaderOK, SameLog
<1>12. QED
  BY <1>4, <1>5, <1>6, <1>9, <1>11, QuietLeader DEF v

\* retry_timeout: only c has something to repeat.
LEMMA RetryTimeoutR ==
    ASSUME IInv, IInv', NEW c \in Server, RInv(c),
           NEW s \in Server, NEW p \in Peers(s), retry_timeout(s, p)
    PROVE  RInv(c)'
<1> DEFINE v == server[c]
<1>1. RetryRv(s, server[s], p) \/ RetryAe(s, server[s], p)
  BY RetryTimeoutIs
<1>2. s = c
  <2>1. p \in Server
    BY DEF Peers
  <2>2. s # c => server[s].retry_timers[p] = "none"
    BY <2>1, LinkFacts DEF PeerOK, Peers
  <2>3. QED
    BY <1>1, <2>2 DEF RetryRv, RetryAe
<1>3. v \in ServerState /\ LeaderOK(v) /\ StateOK(v, c) /\ p \in Server
  BY LinkFacts DEF Peers
<1>4. CASE RetryRv(c, v, p)
  <2>1. PICK x, w :
          /\ AsBefore(x, v) /\ x.current_rpc_lsn = v.current_rpc_lsn
          /\ AsBefore(w, v) /\ w.current_rpc_lsn = next_lsn(v, {p})
          /\ Step(c, {}, w, {build_rpc_rv_string(x, c, p)})
    BY <1>4 DEF RetryRv
  <2> DEFINE sent == {build_rpc_rv_string(x, c, p)}
  <2>2. \A m \in sent : m.type = "REQUEST_VOTE" /\ m.src = c /\ m.term = x.term
    BY DEF build_rpc_rv_string
  <2>3. w \in ServerState /\ w.term = x.term /\ Step(c, {}, w, sent)
    BY <2>1 DEF AsBefore, SameRole
  <2>4. LeaderOK(w)
    BY <1>3, <2>1, SameLeader DEF AsBefore, SameBooks
  <2> HIDE DEF v, sent
  <2>5. IsPrefixOf(v.entries, w.entries) /\ w.commit_index = v.commit_index
        /\ w.term = v.term /\ w.state = v.state
    BY <1>3, <2>1, PrefixRefl DEF AsBefore, SameLog, SameRole
  <2>6. v.term <= w.term /\ v.commit_index <= w.commit_index
    BY <1>3, <2>5, ServerTypes
  <2>7. \A q \in Peers(c) : v.current_rpc_lsn[q] <= w.current_rpc_lsn[q]
    <3>1. ASSUME NEW q \in Server PROVE v.current_rpc_lsn[q] <= w.current_rpc_lsn[q]
      <4>1. v.current_rpc_lsn[q] \in Nat
        BY <1>3, ServerTypes
      <4>2. QED
        BY <1>3, <2>1, <4>1, NextLsnOf
    <3>2. QED
      BY <3>1 DEF Peers
  <2>8. Quiet(w, v, c)
    BY <2>1, <2>5, <2>6, <2>7 DEF Quiet, Grows, AsBefore, SameBooks
  <2>9. QED
    BY <2>2, <2>3, <2>4, <2>8, QuietLeader DEF v
<1>5. CASE RetryAe(c, v, p)
  <2>1. PICK x, w :
          /\ v.retry_timers[p] = "AE"
          /\ AsBefore(x, v) /\ AsBefore(w, v) /\ Resent(w, x, v, p)
          /\ Step(c, {}, w, {build_rpc_ae_string(x, c, p)})
    BY <1>5 DEF RetryAe
  <2>2. v.state = "primary"
    BY <1>3, <2>1 DEF StateOK, TimersOK
  <2>3. LeaderOK(w)
    BY <1>3, <2>1, SameLeader DEF AsBefore, SameBooks
  <2> HIDE DEF v
  <2>4. /\ w \in ServerState /\ x \in ServerState
        /\ x.term = w.term /\ x.entries = w.entries
        /\ x.commit_index = w.commit_index /\ x.nextIndex = w.nextIndex
        /\ w.nextIndex = v.nextIndex
        /\ w.Follower_saved_index = v.Follower_saved_index
        /\ w.entries = v.entries /\ w.commit_index = v.commit_index
        /\ w.term = v.term /\ w.state = v.state
    BY <2>1 DEF AsBefore, SameBooks, SameLog, SameRole
  <2>5. Grows(w, v)
    <3>1. v.commit_index <= w.commit_index
      BY <1>3, <2>4, ServerTypes
    <3>2. QED
      BY <1>3, <2>2, <2>4, <3>1, PrefixRefl DEF Grows
  <2>6. v.nextIndex[p] <= w.nextIndex[p]
    BY <1>3, <2>4, ServerTypes
  <2>7. PeerOK(w, server[p], p)
    <3>1. PeerOK(v, server[p], p)
      BY <1>2, LinkFacts DEF v
    <3>2. QED
      BY <2>4, <3>1 DEF PeerOK, BooksOK
  <2>8. v = server[c] /\ p \in Peers(c)
    BY <1>2 DEF v
  <2>9. Step(c, {}, w, {build_rpc_ae_string(x, c, p)}) /\ Resent(w, x, v, p)
    BY <2>1
  <2>10. QED
    BY <2>3, <2>4, <2>5, <2>6, <2>7, <2>8, <2>9, SendingLeader
<1>6. QED
  BY <1>1, <1>2, <1>4, <1>5

\* Higher saved indexes hold at least as much.
LEMMA MajorityMonotone ==
    ASSUME NEW saved \in [Server -> Int], NEW more \in [Server -> Int],
           \A p \in Server : saved[p] <= more[p],
           NEW i \in Int, MajorityHolds(saved, i)
    PROVE  MajorityHolds(more, i)
<1> DEFINE S == {p \in Server : saved[p] >= i}
           T == {p \in Server : more[p] >= i}
<1>1. S \in SUBSET T /\ T \in SUBSET Server
  OBVIOUS
<1>2. Cardinality(S) <= Cardinality(T) /\ Cardinality(S) \in Nat
      /\ Cardinality(T) \in Nat
  BY <1>1, CountMonotone, ServerSets
<1>3. majority \in Nat
  BY ServerSets DEF majority
<1>4. Cardinality(S) >= majority
  BY DEF MajorityHolds
<1> HIDE DEF S, T
<1>5. Cardinality(T) >= majority
  BY <1>2, <1>3, <1>4
<1>6. QED
  BY <1>5 DEF MajorityHolds, T

\* append_client_apply_to_entries: the log of c goes on.
LEMMA ClientApplyR ==
    ASSUME IInv, NEW c \in Server, RInv(c), NEW d \in Command,
           append_client_apply_to_entries(c, d)
    PROVE  RInv(c)'
<1> DEFINE v == server[c]
           e == [term |-> v.term, index |-> Len(v.entries), msg |-> d]
<1>1. v \in ServerState /\ LeaderOK(v) /\ StateOK(v, c)
  BY LinkFacts
<1>2. PICK w : Appended(w, v, c, e) /\ Step(c, {}, w, {})
  BY ClientApplyIs
<1>3. e \in Entry
  BY <1>1, ServerTypes DEF Entry
<1> HIDE DEF v, e
<1>4. /\ w \in ServerState /\ SameRole(w, v) /\ SameTimers(w, v) /\ SameLsns(w, v)
      /\ w.entries = Append(v.entries, e)
      /\ w.commit_index = v.commit_index /\ w.applied = v.applied
      /\ w.nextIndex = v.nextIndex
      /\ w.Follower_saved_index =
                [v.Follower_saved_index EXCEPT ![c] = Len(v.entries)]
  BY <1>2 DEF Appended
<1>5. v.entries \in Seq(Entry) /\ Len(v.entries) \in Nat
  BY <1>1, ServerTypes
<1>6. /\ Len(w.entries) = Len(v.entries) + 1
      /\ \A i \in 1 .. Len(v.entries) : w.entries[i] = v.entries[i]
  BY <1>3, <1>4, <1>5
<1>7. IsPrefixOf(v.entries, w.entries)
  BY <1>5, <1>6 DEF IsPrefixOf
<1>8. AppliedOK(w)
  <2>1. AppliedOK(v) /\ v.commit_index < Len(v.entries) /\ v.commit_index \in Int
    BY <1>1, ServerTypes DEF LeaderOK, StateOK
  <2>2. \A i \in 1 .. v.commit_index + 1 : w.entries[i] = v.entries[i]
    BY <1>5, <1>6, <2>1
  <2>3. QED
    BY <1>4, <2>1, <2>2 DEF AppliedOK
<1>9. v.state = "primary" => MajorityHolds(w.Follower_saved_index, w.commit_index)
  <2> DEFINE old == v.Follower_saved_index
             new == w.Follower_saved_index
  <2>1. old \in [Server -> Int] /\ new \in [Server -> Int] /\ v.commit_index \in Int
    BY <1>1, <1>4 DEF ServerState
  <2>2. v.state = "primary" => old[c] = Len(v.entries) - 1
    BY <1>1 DEF StateOK, PrimaryOK
  <2>3. v.state = "primary" => \A p \in Server : old[p] <= new[p]
    <3>1. ASSUME NEW p \in Server, p # c PROVE old[p] <= new[p]
      BY <1>4, <2>1, <3>1
    <3>2. v.state = "primary" => old[c] <= new[c]
      BY <1>4, <1>5, <2>1, <2>2
    <3>3. QED
      BY <3>1, <3>2
  <2>4. v.state = "primary" => MajorityHolds(old, v.commit_index)
    BY <1>1 DEF LeaderOK
  <2> HIDE DEF old, new
  <2>5. v.state = "primary" => MajorityHolds(new, v.commit_index)
    BY <2>1, <2>3, <2>4, MajorityMonotone
  <2>6. QED
    BY <1>4, <2>5 DEF new
<1>10. LeaderOK(w)
  BY <1>1, <1>4, <1>8, <1>9 DEF LeaderOK, SameRole, SameTimers
<1>11. Quiet(w, v, c)
  <2>1. /\ w.term = v.term /\ w.state = v.state
        /\ v.term <= w.term /\ v.commit_index <= w.commit_index
    BY <1>1, <1>4, ServerTypes DEF SameRole
  <2>2. ASSUME NEW q \in Peers(c)
        PROVE  /\ w.nextIndex[q] = v.nextIndex[q]
               /\ w.Follower_saved_index[q] = v.Follower_saved_index[q]
               /\ v.current_rpc_lsn[q] <= w.current_rpc_lsn[q]
    <3>1. q \in Server /\ q # c
      BY DEF Peers
    <3>2. w.Follower_saved_index[q] = v.Follower_saved_index[q]
      BY <1>1, <1>4, <3>1 DEF ServerState
    <3>3. QED
      BY <1>1, <1>4, <3>1, <3>2, ServerTypes DEF SameLsns
  <2>3. QED
    BY <1>4, <1>7, <2>1, <2>2 DEF Quiet, Grows
<1>12. QED
  BY <1>2, <1>4, <1>10, <1>11, QuietLeader DEF v

\* A follower that only looks at an RPC.
LEMMA QuietPeer ==
    ASSUME IInv, NEW c \in Server, RInv(c), NEW q \in Peers(c),
           NEW u, u = server[q], NEW a \in ServerState,
           Later(a, u, c), SameLog(a, u),
           a.thrown = "none", a.state = "follower",
           a.term <= server[c].term,
           \A p \in Server : a.retry_timers[p] = "none",
           NEW handled, NEW sent, Step(q, handled, a, sent),
           \A m \in sent : /\ m.type = "RESP_VOTE" /\ m.src = q /\ m.dst = c
                           /\ m.term = a.term
    PROVE  RInv(c)'
<1>1. /\ server[c] \in ServerState /\ q \in Server /\ u \in ServerState
      /\ LinkOK(server[c], u, q, c, net) /\ \A m \in net : MsgOK(m)
  BY LinkFacts
<1>2. LinkOK(server[c], a, q, c, net)
  BY <1>1, LinkWaits
<1>3. \A m \in net' : IsAe(m, q) \/ IsAck(m, q) => m \in net
  BY DEF Step, IsAe, IsAck
<1>4. LinkOK(server[c], a, q, c, net')
  BY <1>2, <1>3, LinkMonotone
<1>5. QED
  BY <1>4, PeerStep

\* What react2rv makes of a follower before it looks at the lsn.
LEMMA CaughtIs ==
    ASSUME NEW u \in ServerState, NEW m, MsgOK(m), NEW f \in ServerState,
           Caught(f, u, m), u.thrown = "none", u.state = "follower",
           \A p \in Server : u.retry_timers[p] = "none"
    PROVE  /\ f.thrown = "none" /\ f.state = "follower" /\ f.term = m.term
           /\ \A p \in Server : f.retry_timers[p] = "none"
           /\ SameLog(f, u) /\ Later(f, u, m.src)
<1>1. /\ m.term \in Nat /\ u.term \in Nat /\ m.src \in Server
      /\ u.follower_rpc_lsn[m.src] \in Int
  BY MailTypes, ServerTypes
<1>2. CASE u.term = m.term /\ f = u
  BY <1>1, <1>2 DEF SameLog, Later
<1>3. CASE u.term < m.term /\ Down(f, u, m.term)
  <2>1. f.term = m.term /\ u.term < f.term
    BY <1>3 DEF Down
  <2>2. Later(f, u, m.src)
    BY <1>1, <2>1 DEF Later
  <2>3. QED
    BY <1>3, <2>1, <2>2 DEF Down
<1>4. QED
  BY <1>2, <1>3 DEF Caught

\* The lsn of an RPC that is not ignored is a new one.
LEMMA NotedIs ==
    ASSUME NEW f \in ServerState, NEW g, NEW m, MsgOK(m), Noted(g, f, m),
           ~should_ignore_remote_rpc(f, m)
    PROVE  Later(g, f, m.src)
<1>1. /\ m.lsn \in Nat /\ m.src \in Server /\ f.term \in Nat
      /\ f.follower_rpc_lsn \in [Server -> Int]
  BY MailTypes DEF ServerState
<1>2. g.follower_rpc_lsn[m.src] = m.lsn /\ g.term = f.term
  BY <1>1 DEF Noted, SameRole
<1>3. f.follower_rpc_lsn[m.src] < m.lsn
  BY <1>1 DEF should_ignore_remote_rpc
<1>4. f.follower_rpc_lsn[m.src] <= g.follower_rpc_lsn[m.src]
  BY <1>1, <1>2, <1>3
<1>5. QED
  BY <1>1, <1>2, <1>4 DEF Later

LEMMA LaterTrans ==
    ASSUME NEW u1 \in ServerState, NEW u2 \in ServerState, NEW u3 \in ServerState,
           NEW c \in Server, Later(u2, u1, c), Later(u3, u2, c)
    PROVE  Later(u3, u1, c)
<1>1. /\ u1.term \in Nat /\ u2.term \in Nat /\ u3.term \in Nat
      /\ u1.follower_rpc_lsn[c] \in Int /\ u2.follower_rpc_lsn[c] \in Int
      /\ u3.follower_rpc_lsn[c] \in Int
  BY ServerTypes
<1>2. u1.term <= u2.term /\ u2.term <= u3.term
  BY DEF Later
<1>3. u1.term = u3.term => u1.term = u2.term /\ u2.term = u3.term
  BY <1>1, <1>2
<1>4. u1.term <= u3.term
  BY <1>1, <1>2
<1>5. u1.term = u3.term => u1.follower_rpc_lsn[c] <= u3.follower_rpc_lsn[c]
  BY <1>1, <1>3 DEF Later
<1>6. QED
  BY <1>4, <1>5 DEF Later

\* n answers the RV m for v.
AnswersRv(n, v, m) ==
    n.type = "RESP_VOTE" /\ n.src = m.dst /\ n.dst = m.src /\ n.term = v.term

LEMMA RespRvIs ==
    ASSUME NEW v, NEW m
    PROVE  /\ AnswersRv(make_resp_rv(v, m, TRUE), v, m)
           /\ AnswersRv(make_resp_rv(v, m, FALSE), v, m)
BY DEF make_resp_rv, AnswersRv

\* react2rv leaves the log alone.
LEMMA ReactRvR ==
    ASSUME IInv, NEW c \in Server, RInv(c), NEW m \in net, react2rv(m)
    PROVE  RInv(c)'
<1> DEFINE q == m.dst
           u == server[q]
<1>1. /\ m.type = "REQUEST_VOTE"
      /\ \/ RvOutdated(q, u, m) \/ RvIgnored(q, u, m)
         \/ RvDenied(q, u, m) \/ RvGranted(q, u, m)
  BY ReactRvIs
<1>2. MsgOK(m) /\ SourceOK(m, server[c].term, c)
  BY LinkFacts
<1>3. m.src = c /\ m.term <= server[c].term
  BY <1>1, <1>2 DEF SourceOK
<1>4. q \in Peers(c)
  BY <1>2, <1>3, MailTypes DEF MsgOK, Peers
<1>5. u \in ServerState /\ PeerOK(server[c], u, q)
  BY <1>4, LinkFacts
<1>6. /\ u.thrown = "none" /\ u.state = "follower" /\ u.term <= server[c].term
      /\ \A p \in Server : u.retry_timers[p] = "none"
  BY <1>5 DEF PeerOK
<1>7. CASE RvOutdated(q, u, m)
  <2> DEFINE sent == {make_resp_rv(u, m, FALSE)}
  <2>1. Step(q, {m}, u, sent)
    BY <1>7 DEF RvOutdated
  <2>2. \A n \in sent : /\ n.type = "RESP_VOTE" /\ n.src = q /\ n.dst = c
                        /\ n.term = u.term
    <3>1. \A n \in sent : AnswersRv(n, u, m)
      BY RespRvIs, Zenon
    <3> HIDE DEF sent
    <3>2. QED
      BY <1>3, <3>1 DEF AnswersRv
  <2>3. Later(u, u, c) /\ SameLog(u, u)
    BY <1>5, ServerTypes DEF Later, SameLog
  <2> HIDE DEF sent, u, q
  <2>4. u = server[q]
    BY DEF u
  <2>5. QED
    BY <1>4, <1>5, <1>6, <2>1, <2>2, <2>3, <2>4, QuietPeer
<1>8. CASE RvIgnored(q, u, m)
  <2>1. PICK f : Caught(f, u, m) /\ f \in ServerState /\ Step(q, {m}, f, {})
    BY <1>8 DEF RvIgnored
  <2>2. /\ f.thrown = "none" /\ f.state = "follower" /\ f.term = m.term
        /\ \A p \in Server : f.retry_timers[p] = "none"
        /\ SameLog(f, u) /\ Later(f, u, c)
    BY <1>2, <1>3, <1>5, <1>6, <2>1, CaughtIs
  <2> HIDE DEF u, q
  <2>3. u = server[q]
    BY DEF u
  <2>4. QED
    BY <1>3, <1>4, <2>1, <2>2, <2>3, QuietPeer
<1>9. ASSUME NEW f, NEW g, Caught(f, u, m), f \in ServerState, Noted(g, f, m),
             ~should_ignore_remote_rpc(f, m)
      PROVE  /\ g \in ServerState
             /\ g.thrown = "none" /\ g.state = "follower" /\ g.term = m.term
             /\ \A p \in Server : g.retry_timers[p] = "none"
             /\ SameLog(g, u) /\ Later(g, u, c)
  <2>1. /\ f.thrown = "none" /\ f.state = "follower" /\ f.term = m.term
        /\ \A p \in Server : f.retry_timers[p] = "none"
        /\ SameLog(f, u) /\ Later(f, u, c)
    BY <1>2, <1>3, <1>5, <1>6, <1>9, CaughtIs
  <2>2. g \in ServerState /\ Later(g, f, c)
    BY <1>2, <1>3, <1>9, NotedIs DEF Noted
  <2>3. Later(g, u, c)
    BY <1>5, <1>9, <2>1, <2>2, LaterTrans
  <2>4. QED
    BY <1>9, <2>1, <2>2, <2>3 DEF Noted, SameRole, SameLog, SameTimers
<1>10. CASE RvDenied(q, u, m)
  <2>1. PICK f, g : /\ Caught(f, u, m) /\ f \in ServerState /\ Noted(g, f, m)
                    /\ ~should_ignore_remote_rpc(f, m)
                    /\ Step(q, {m}, g, {make_resp_rv(g, m, FALSE)})
    BY <1>10 DEF RvDenied
  <2> DEFINE sent == {make_resp_rv(g, m, FALSE)}
  <2>2. Step(q, {m}, g, sent)
    BY <2>1
  <2>3. \A n \in sent : /\ n.type = "RESP_VOTE" /\ n.src = q /\ n.dst = c
                        /\ n.term = g.term
    <3>1. \A n \in sent : AnswersRv(n, g, m)
      BY RespRvIs, Zenon
    <3> HIDE DEF sent
    <3>2. QED
      BY <1>3, <3>1 DEF AnswersRv
  <2> HIDE DEF sent, u, q
  <2>4. u = server[q]
    BY DEF u
  <2>5. QED
    BY <1>3, <1>4, <1>9, <2>1, <2>2, <2>3, <2>4, QuietPeer
<1>11. CASE RvGranted(q, u, m)
  <2>1. PICK f, g, a : /\ Caught(f, u, m) /\ f \in ServerState /\ Noted(g, f, m)
                       /\ ~should_ignore_remote_rpc(f, m)
                       /\ Voted(a, g)
                       /\ Step(q, {m}, a, {make_resp_rv(g, m, TRUE)})
    BY <1>11 DEF RvGranted
  <2> DEFINE sent == {make_resp_rv(g, m, TRUE)}
  <2>2. Step(q, {m}, a, sent)
    BY <2>1
  <2>3. /\ a \in ServerState
        /\ SameRole(a, g) /\ SameLsns(a, g) /\ SameTimers(a, g) /\ SameLog(a, g)
    BY <2>1 DEF Voted
  <2>4. \A n \in sent : /\ n.type = "RESP_VOTE" /\ n.src = q /\ n.dst = c
                        /\ n.term = a.term
    <3>1. \A n \in sent : AnswersRv(n, g, m)
      BY RespRvIs, Zenon
    <3> HIDE DEF sent
    <3>2. QED
      BY <1>3, <2>3, <3>1 DEF AnswersRv, SameRole
  <2> HIDE DEF sent, u, q
  <2>5. u = server[q]
    BY DEF u
  <2>6. /\ g \in ServerState
        /\ g.thrown = "none" /\ g.state = "follower" /\ g.term = m.term
        /\ \A p \in Server : g.retry_timers[p] = "none"
        /\ SameLog(g, u) /\ Later(g, u, c)
    BY <1>9, <2>1
  <2>7. /\ a.thrown = "none" /\ a.state = "follower" /\ a.term = m.term
        /\ \A p \in Server : a.retry_timers[p] = "none"
        /\ SameLog(a, u) /\ Later(a, u, c)
    BY <2>3, <2>6 DEF SameRole, SameLsns, SameTimers, SameLog, Later
  <2>8. QED
    BY <1>3, <1>4, <2>2, <2>3, <2>4, <2>5, <2>7, QuietPeer
<1>12. QED
  BY <1>1, <1>7, <1>8, <1>10, <1>11

\* c with nothing to do.
LEMMA IdleLeader ==
    ASSUME IInv, NEW c \in Server, RInv(c), NEW handled,
           NEW v, v = server[c], Step(c, handled, v, {})
    PROVE  RInv(c)'
<1>1. v \in ServerState /\ LeaderOK(v)
  BY LinkFacts
<1>2. /\ v.term <= v.term /\ v.commit_index <= v.commit_index
      /\ \A q \in Peers(c) : v.current_rpc_lsn[q] <= v.current_rpc_lsn[q]
  BY <1>1, ServerTypes DEF Peers
<1>3. Quiet(v, v, c)
  BY <1>1, <1>2, PrefixRefl DEF Quiet, Grows
<1>4. QED
  BY <1>1, <1>3, QuietLeader

\* Everyone has saved nothing, at least.
LEMMA NothingHeld ==
    ASSUME NEW c \in Server, NEW saved \in [Server -> Int],
           \A p \in Server : saved[p] >= -1
    PROVE  MajorityHolds(saved, -1)
<1>1. {p \in Server : saved[p] >= -1} = Server
  OBVIOUS
<1>2. Cardinality(Server) \in Nat /\ Cardinality({c}) <= Cardinality(Server)
  BY ServerSets, CountMonotone
<1>3. Cardinality({c}) = 1
  BY FS_Singleton
<1>4. Cardinality(Server) >= majority
  BY <1>2, <1>3 DEF majority
<1>5. QED
  BY <1>1, <1>4 DEF MajorityHolds

\* react2resp_rv: c may become primary, and then sends its first AEs.
LEMMA ReactRespRvR ==
    ASSUME IInv, IInv', NEW c \in Server, RInv(c), NEW m \in net, react2resp_rv(m)
    PROVE  RInv(c)'
<1> DEFINE s == m.dst
           v == server[c]
<1>1. /\ m.type = "RESP_VOTE"
      /\ \/ VoteLater(s, server[s], m) \/ VoteIgnored(s, server[s], m)
         \/ VoteWins(s, server[s], m) \/ VoteCounts(s, server[s], m)
  BY ReactRespRvIs
<1>2. MsgOK(m) /\ SourceOK(m, v.term, c)
  BY LinkFacts
<1>3. s = c /\ m.term <= v.term /\ m.term \in Nat
  BY <1>1, <1>2, MailTypes DEF SourceOK
<1>4. v \in ServerState /\ LeaderOK(v) /\ v.term \in Nat
  BY LinkFacts, ServerTypes
<1> HIDE DEF s
<1>5. ~VoteLater(c, v, m)
  BY <1>3, <1>4 DEF VoteLater
<1>6. CASE VoteIgnored(c, v, m)
  BY <1>6, IdleLeader DEF VoteIgnored
<1>7. CASE VoteWins(c, v, m)
  <2>1. PICK x, w :
          /\ vote_counts(v, m) /\ Rises(x, v, c)
          /\ Sends(w, x, next_lsn(x, Peers(c)), Hooked(x, Peers(c), "AE"))
          /\ Step(c, {m}, w, {build_rpc_ae_string(x, c, q) : q \in Peers(c)})
    BY <1>7 DEF VoteWins
  <2> DEFINE sent == {build_rpc_ae_string(x, c, q) : q \in Peers(c)}
  <2>2. v.state = "candidate"
    BY <2>1 DEF vote_counts
  <2>3. /\ x \in ServerState /\ w \in ServerState
        /\ w.thrown = v.thrown /\ w.state = "primary" /\ w.term = v.term
        /\ w.candidate_timer = FALSE /\ SameLog(w, v)
        /\ x.term = w.term /\ x.entries = w.entries
        /\ x.commit_index = w.commit_index /\ x.nextIndex = w.nextIndex
        /\ w.current_rpc_lsn = next_lsn(x, Peers(c))
    BY <2>1 DEF Rises, Sends, SameRole, SameLog, SameBooks
  <2>4. /\ w.nextIndex = [p \in Server |-> Len(v.entries)]
        /\ w.Follower_saved_index =
                [p \in Server |-> IF p = c THEN Len(v.entries) - 1 ELSE -1]
    BY <2>1 DEF Rises, Sends, SameBooks
  <2>5. Len(v.entries) \in Nat /\ v.commit_index = -1
    BY <1>4, <2>2, ServerTypes DEF LeaderOK
  <2>6. LeaderOK(w)
    <3>1. w.Follower_saved_index \in [Server -> Int]
      BY <2>3 DEF ServerState
    <3>2. \A p \in Server : w.Follower_saved_index[p] >= -1
      BY <2>4, <2>5
    <3>3. MajorityHolds(w.Follower_saved_index, -1)
      BY <3>1, <3>2, NothingHeld
    <3>4. AppliedOK(w)
      BY <1>4, <2>3, SameApplied DEF LeaderOK
    <3>5. QED
      BY <1>4, <2>3, <2>5, <3>3, <3>4 DEF LeaderOK, SameLog
  <2>7. net' \subseteq net \cup sent /\ sent \subseteq net' /\ server'[c] = w
    BY <2>1, <2>6 DEF Step, LeaderOK, Alive, IInv, ServersOK
  <2>8. ASSUME NEW p \in Peers(c) PROVE LinkOK(w, server[p], p, c, net')
    <3> DEFINE k == build_rpc_ae_string(x, c, p)
               u == server[p]
    <3>1. /\ p \in Server /\ u \in ServerState /\ LinkOK(v, u, p, c, net)
          /\ PeerOK(v, u, p) /\ \A n \in net : MsgOK(n)
      BY LinkFacts
    <3>2. k \in net' /\ MsgOK(k)
      BY <2>7 DEF IInv, NetOK
    <3>3. x.nextIndex[p] = Len(v.entries) /\ x.entries = v.entries
      BY <2>3, <2>4, <3>1 DEF SameLog
    <3>4. x.nextIndex[p] \in 0 .. Len(x.entries)
      BY <2>5, <3>3
    <3>5. w.current_rpc_lsn[p] = x.current_rpc_lsn[p] + 1
      BY <2>3, <3>1, NextLsnOf
    <3>6. JustSent(k, w, p, c)
      BY <2>3, <3>1, <3>2, <3>4, <3>5, BuiltIs
    <3>7. \A n \in net' : IsAe(n, p) \/ IsAck(n, p) => n \in net \/ n = k
      <4>1. ASSUME NEW q \in Peers(c), NEW n, n = build_rpc_ae_string(x, c, q)
            PROVE  n.type = "APPEND_ENTRY" /\ n.dst = q
        BY <4>1 DEF build_rpc_ae_string
      <4>2. QED
        BY <2>7, <4>1 DEF IsAe, IsAck
    <3> HIDE DEF k, u
    <3>8. BooksOK(w, u, p)
      <4>1. p # c /\ Len(u.entries) = 0
        BY <2>2, <3>1 DEF PeerOK, Peers
      <4>2. w.nextIndex[p] = Len(v.entries) /\ w.Follower_saved_index[p] = -1
        BY <2>4, <3>1, <4>1
      <4>3. QED
        BY <2>5, <4>1, <4>2 DEF BooksOK
    <3>9. PeerOK(w, u, p)
      BY <2>3, <3>1, <3>8 DEF PeerOK, SameLog
    <3>10. LinkOK(w, u, p, c, net')
      BY <1>4, <2>2, <2>3, <3>1, <3>6, <3>7, <3>9, LinkSends
    <3>11. QED
      BY <3>10 DEF u
  <2>9. \A n \in sent : n.type = "APPEND_ENTRY" /\ n.src = c /\ n.term = w.term
    BY <2>3 DEF build_rpc_ae_string
  <2>10. v.term <= w.term
    BY <1>4, <2>3
  <2>11. Step(c, {m}, w, sent)
    BY <2>1
  <2> HIDE DEF sent
  <2>12. QED
    BY <2>3, <2>6, <2>8, <2>9, <2>10, <2>11, LeaderStep
<1>8. CASE VoteCounts(c, v, m)
  <2>1. PICK w : vote_counts(v, m) /\ Gains(w, v, m.src) /\ Step(c, {m}, w, {})
    BY <1>8 DEF VoteCounts
  <2>2. v.state = "candidate"
    BY <2>1 DEF vote_counts
  <2>3. /\ w \in ServerState /\ SameRole(w, v) /\ SameLog(w, v) /\ SameBooks(w, v)
        /\ w.candidate_timer = v.candidate_timer
    BY <2>1 DEF Gains
  <2>4. LeaderOK(w)
    BY <1>4, <2>3, SameLeader DEF SameBooks
  <2>5. v.term <= w.term
    BY <1>4, <2>3 DEF SameRole
  <2>6. Quiet(w, v, c)
    BY <1>4, <2>2, <2>3, <2>5, PrefixRefl DEF Quiet, SameRole, SameLog
  <2>7. QED
    BY <2>1, <2>3, <2>4, <2>6, QuietLeader
<1>9. QED
  BY <1>1, <1>3, <1>5, <1>6, <1>7, <1>8

\* react2ae: followers deny or take the AEs of c, and never throw.
LEMMA ReactAeR ==
    ASSUME IInv, NEW c \in Server, RInv(c), NEW m \in net, react2ae(m)
    PROVE  RInv(c)'
<1> DEFINE q == m.dst
           u == server[q]
           v == server[c]
<1>1. /\ m.type = "APPEND_ENTRY"
      /\ \/ AeOutdated(q, u, m) \/ AeTwoPrimaries(q, u, m)
         \/ AeIgnored(q, u, m) \/ AeDenied(q, u, m)
         \/ AeDecreases(q, u, m) \/ AeAccepted(q, u, m)
  BY ReactAeIs
<1>2. MsgOK(m) /\ SourceOK(m, v.term, c)
  BY LinkFacts
<1>3. m.src = c /\ m.term <= v.term
  BY <1>1, <1>2 DEF SourceOK
<1>4. q \in Peers(c) /\ q \in Server
  BY <1>2, <1>3, MailTypes DEF MsgOK, Peers
<1>5. /\ u \in ServerState /\ PeerOK(v, u, q) /\ v \in ServerState
      /\ LinkOK(v, u, q, c, net) /\ StateOK(u, q) /\ \A n \in net : MsgOK(n)
  BY <1>4, LinkFacts
<1>6. IsAe(m, q) /\ AeSound(m, v, u, q, c)
  BY <1>1, <1>5 DEF IsAe, LinkOK
<1>7. u.state = "follower" /\ u.term <= v.term /\ m.term = v.term
      /\ u.commit_index < Len(u.entries) /\ v.state = "primary" /\ Copied(m, v)
  BY <1>5, <1>6 DEF PeerOK, AeSound, StateOK
<1>8. u.term \in Nat /\ v.term \in Nat
  BY <1>5, ServerTypes
<1> HIDE DEF q, u, v
<1>9. u = server[q] /\ v = server[c]
  BY DEF u, v
<1>10. ~AeOutdated(q, u, m) /\ ~AeTwoPrimaries(q, u, m)
  BY <1>7, <1>8 DEF AeOutdated, AeTwoPrimaries
<1>11. CASE AeIgnored(q, u, m)
  <2>1. PICK f : Down(f, u, m.term) /\ Step(q, {m}, f, {})
    BY <1>11 DEF AeIgnored
  <2>2. /\ f \in ServerState /\ f.thrown = "none" /\ f.state = "follower"
        /\ f.term = m.term /\ SameLog(f, u)
        /\ \A p \in Server : f.retry_timers[p] = "none"
    BY <2>1 DEF Down
  <2>3. Later(f, u, c)
    <3>1. CASE u.term = m.term
      <4>1. f.follower_rpc_lsn = u.follower_rpc_lsn
        BY <2>1, <3>1 DEF Down, SameLsns
      <4>2. QED
        BY <1>5, <1>8, <2>2, <3>1, <4>1, ServerTypes DEF Later
    <3>2. CASE u.term # m.term
      BY <1>7, <1>8, <2>2, <3>2 DEF Later
    <3>3. QED
      BY <3>1, <3>2
  <2>4. f.term <= server[c].term
    BY <1>3, <1>9, <2>2
  <2>5. QED
    BY <1>4, <1>9, <2>1, <2>2, <2>3, <2>4, QuietPeer
<1>12. CASE AeDenied(q, u, m)
  <2>1. PICK g : /\ Heard(g, u, m) /\ ~log_check(g, m)
                 /\ Step(q, {m}, g, {make_resp_ae(g, m, FALSE)})
    BY <1>12 DEF AeDenied
  <2> DEFINE k == make_resp_ae(g, m, FALSE)
  <2>2. Said(k, g, m) /\ ~k.ok
    BY SaidIs, Zenon
  <2>3. Step(q, {m}, g, {k})
    BY <2>1
  <2>4. g.term = m.term
    BY <1>2, <1>5, <2>1, HeardIs
  <2> HIDE DEF k
  <2>5. \A n \in net' : IsAe(n, q) \/ IsAck(n, q) => n \in net \/ n = k
    BY <2>3 DEF Step
  <2>6. LinkOK(v, g, q, c, net')
    BY <1>3, <1>4, <1>5, <1>6, <2>1, <2>2, <2>5, LinkDenies
  <2>7. /\ k.type = "RESP_APPEND" /\ k.src = q /\ k.dst = c /\ k.term <= server[c].term
    BY <1>3, <1>9, <2>2, <2>4 DEF Said, q
  <2>8. QED
    BY <1>4, <1>9, <2>3, <2>6, <2>7, PeerStep
<1>13. ASSUME NEW g, Heard(g, u, m), log_check(g, m)
       PROVE  CommitAfter(LogAfter(g, m), m) >= g.commit_index
              /\ CommitAfter(LogAfter(g, m), m) \in Int /\ g.commit_index \in Int
              /\ g.term = m.term
  <2>1. /\ g \in ServerState
        /\ g.thrown = "none" /\ g.state = "follower" /\ g.term = m.term
        /\ \A p \in Server : g.retry_timers[p] = "none"
        /\ SameLog(g, u) /\ Fresh(m, u, c)
    BY <1>2, <1>3, <1>5, <1>13, HeardIs
  <2>2. PeerOK(v, g, q)
    BY <1>5, <1>7, <1>8, <2>1 DEF PeerOK, SameLog, AppliedOK, BooksOK
  <2>3. g.commit_index < Len(g.entries) /\ NoLoss(m, v, g, q)
    BY <1>6, <1>7, <2>1 DEF AeSound, NoLoss, SameLog
  <2>4. QED
    BY <1>1, <1>2, <1>4, <1>5, <1>7, <1>13, <2>1, <2>2, <2>3, TakenIs, ServerTypes
<1>14. CASE AeDecreases(q, u, m)
  <2>1. PICK g : /\ Heard(g, u, m) /\ log_check(g, m)
                 /\ CommitAfter(LogAfter(g, m), m) < g.commit_index
    BY <1>14 DEF AeDecreases
  <2>2. QED
    BY <1>13, <2>1
<1>15. CASE AeAccepted(q, u, m)
  <2>1. PICK g, a : /\ Heard(g, u, m) /\ log_check(g, m) /\ Took(a, g, m)
                    /\ Step(q, {m}, a, {make_resp_ae(a, m, TRUE)})
    BY <1>15 DEF AeAccepted
  <2> DEFINE k == make_resp_ae(a, m, TRUE)
  <2>2. Said(k, a, m) /\ k.ok
    BY SaidIs, Zenon
  <2>3. Step(q, {m}, a, {k})
    BY <2>1
  <2>4. a.term = m.term
    BY <1>13, <2>1 DEF Took, OnlyLog, SameRole
  <2> HIDE DEF k
  <2>5. \A n \in net' : IsAe(n, q) \/ IsAck(n, q) => n \in net \/ n = k
    BY <2>3 DEF Step
  <2>6. Heard(g, u, m) /\ log_check(g, m) /\ Took(a, g, m)
    BY <2>1
  <2>7. LinkOK(v, a, q, c, net')
    BY <1>3, <1>4, <1>5, <1>6, <1>7, <2>2, <2>5, <2>6, LinkTakes
  <2>8. /\ k.type = "RESP_APPEND" /\ k.src = q /\ k.dst = c /\ k.term <= server[c].term
    BY <1>3, <1>9, <2>2, <2>4 DEF Said, q
  <2>9. QED
    BY <1>4, <1>9, <2>3, <2>7, <2>8, PeerStep
<1>16. QED
  BY <1>1, <1>10, <1>11, <1>12, <1>14, <1>15 DEF q, u

\* The commit index is what a majority has saved, and so it never goes back.
LEMMA CommitAdvances ==
    ASSUME NEW old \in [Server -> Int], NEW new \in [Server -> Int],
           \A p \in Server : old[p] <= new[p],
           NEW j \in Int, MajorityHolds(old, j),
           NEW i \in Int, is_majority_index(new, i)
    PROVE  j <= i /\ MajorityHolds(new, i)
<1> DEFINE S == {p \in Server : new[p] >= j}
           T == {p \in Server : new[p] > i}
<1>1. MajorityHolds(new, j)
  BY MajorityMonotone
<1>2. Cardinality(S) >= majority /\ Cardinality(T) < majority
  BY <1>1 DEF MajorityHolds, is_majority_index
<1>3. S \in SUBSET Server /\ T \in SUBSET Server
  OBVIOUS
<1>4. majority \in Nat /\ Cardinality(S) \in Nat /\ Cardinality(T) \in Nat
  BY <1>3, ServerSets DEF majority
<1>5. i < j => S \in SUBSET T
  OBVIOUS
<1> HIDE DEF S, T
<1>6. i < j => Cardinality(S) <= Cardinality(T)
  BY <1>3, <1>5, CountMonotone
<1>7. j <= i
  BY <1>2, <1>4, <1>6
<1>8. QED
  BY <1>7 DEF MajorityHolds, is_majority_index

\* The books of a primary after the answer m of q has been taken.
LEMMA AckedBooks ==
    ASSUME NEW v \in ServerState, v.state = "primary", NEW u \in ServerState,
           NEW q \in Server, BooksOK(v, u, q), NEW m, m.ok, Tells(m, v, u, q),
           NEW w \in ServerState, w.nextIndex = AckNext(v, q, m),
           w.Follower_saved_index = AckSaved(v, q, m)
    PROVE  /\ BooksOK(w, u, q)
           /\ v.nextIndex[q] <= w.nextIndex[q]
           /\ v.nextIndex[q] = Len(v.entries) => w.nextIndex[q] = v.nextIndex[q]
           /\ \A p \in Server \ {q} :
                /\ w.nextIndex[p] = v.nextIndex[p]
                /\ w.Follower_saved_index[p] = v.Follower_saved_index[p]
           /\ \A p \in Server :
                v.Follower_saved_index[p] <= w.Follower_saved_index[p]
<1> DEFINE next == v.nextIndex[q]
           saved == v.Follower_saved_index[q]
<1>1. /\ next \in Int /\ saved \in Int /\ Len(u.entries) \in Nat
      /\ Len(v.entries) \in Nat
      /\ v.nextIndex \in [Server -> Int]
      /\ v.Follower_saved_index \in [Server -> Int]
  BY ServerTypes DEF ServerState
<1>2. /\ -1 <= saved /\ saved < next /\ saved < Len(u.entries)
      /\ Len(u.entries) <= next + 1
      /\ next <= Len(u.entries) /\ (~m.is_empty_ae => next < Len(u.entries))
  BY DEF BooksOK, Tells
<1>3. \A p \in Server \ {q} :
            /\ w.nextIndex[p] = v.nextIndex[p]
            /\ w.Follower_saved_index[p] = v.Follower_saved_index[p]
  BY <1>1 DEF AckNext, AckSaved
<1>4. CASE took_entry(v, q, m)
  <2>1. w.nextIndex[q] = next + 1 /\ w.Follower_saved_index[q] = next
    BY <1>1, <1>4 DEF AckNext, AckSaved, AckIndex
  <2>2. next < Len(u.entries) /\ next < Len(v.entries)
    BY <1>2, <1>4 DEF took_entry
  <2> HIDE DEF next, saved
  <2>3. BooksOK(w, u, q) /\ next <= w.nextIndex[q] /\ next # Len(v.entries)
    BY <1>1, <1>2, <2>1, <2>2 DEF BooksOK
  <2>4. saved <= w.Follower_saved_index[q]
    BY <1>1, <1>2, <2>1
  <2>5. ASSUME NEW p \in Server
        PROVE  v.Follower_saved_index[p] <= w.Follower_saved_index[p]
    BY <1>1, <1>3, <2>4 DEF saved
  <2>6. QED
    BY <1>3, <2>3, <2>5 DEF next
<1>5. CASE ~took_entry(v, q, m)
  <2>1. w.nextIndex[q] = next /\ w.Follower_saved_index[q] = next - 1
    BY <1>1, <1>5 DEF AckNext, AckSaved, AckIndex
  <2> HIDE DEF next, saved
  <2>2. BooksOK(w, u, q) /\ next <= w.nextIndex[q]
    BY <1>1, <1>2, <2>1 DEF BooksOK
  <2>3. saved <= w.Follower_saved_index[q]
    BY <1>1, <1>2, <2>1
  <2>4. ASSUME NEW p \in Server
        PROVE  v.Follower_saved_index[p] <= w.Follower_saved_index[p]
    BY <1>1, <1>3, <2>3 DEF saved
  <2>5. QED
    BY <1>3, <2>1, <2>2, <2>4 DEF next
<1>6. QED
  BY <1>4, <1>5

\* What the primary is after it has taken the answer.
LEMMA AckedLeader ==
    ASSUME NEW c \in Server, NEW v, StateOK(v, c), LeaderOK(v),
           v.state = "primary",
           NEW u \in ServerState, NEW q \in Server, PeerOK(v, u, q),
           NEW m, m.ok, Tells(m, v, u, q),
           NEW i \in Int, is_majority_index(AckSaved(v, q, m), i),
           NEW w, Acked(w, v, q, m, i), i < Len(v.entries)
    PROVE  LeaderOK(w) /\ Grows(w, v) /\ PeerOK(w, u, q)
<1>1. /\ v \in ServerState /\ w \in ServerState /\ SameRole(w, v)
      /\ w.candidate_timer = v.candidate_timer
      /\ w.entries = v.entries /\ w.commit_index = i
      /\ w.applied = AppliedUpTo(v, i)
      /\ w.nextIndex = AckNext(v, q, m)
      /\ w.Follower_saved_index = AckSaved(v, q, m)
  BY DEF Acked, StateOK
<1>2. BooksOK(v, u, q)
  BY DEF PeerOK
<1>3. /\ BooksOK(w, u, q)
      /\ \A p \in Server : v.Follower_saved_index[p] <= w.Follower_saved_index[p]
  BY <1>1, <1>2, AckedBooks
<1>4. v.commit_index <= i /\ MajorityHolds(w.Follower_saved_index, i)
  <2>1. /\ v.Follower_saved_index \in [Server -> Int]
        /\ w.Follower_saved_index \in [Server -> Int] /\ v.commit_index \in Int
    BY <1>1 DEF ServerState
  <2>2. MajorityHolds(v.Follower_saved_index, v.commit_index)
    BY DEF LeaderOK
  <2>3. is_majority_index(w.Follower_saved_index, i)
    BY <1>1
  <2>4. QED
    BY <1>3, <2>1, <2>2, <2>3, CommitAdvances
<1>5. AppliedOK(w)
  <2>1. AppliedOK(v) /\ v.entries \in Seq(Entry)
    BY <1>1, ServerTypes DEF LeaderOK
  <2>2. w.applied = HandedOver(v.applied, v.entries, i)
    BY <1>1 DEF AppliedUpTo, HandedOver
  <2>3. QED
    BY <1>1, <1>4, <2>1, <2>2, AppliesTo
<1>6. -1 <= i
  <2>1. -1 <= v.commit_index /\ v.commit_index \in Int
    BY <1>1, ServerTypes DEF LeaderOK
  <2>2. QED
    BY <1>4, <2>1
<1>7. LeaderOK(w)
  BY <1>1, <1>4, <1>5, <1>6 DEF LeaderOK, SameRole
<1>8. Grows(w, v)
  BY <1>1, <1>4, PrefixRefl DEF Grows, SameRole
<1>9. PeerOK(w, u, q)
  <2>1. u.commit_index <= v.commit_index /\ u.commit_index \in Int
        /\ v.commit_index \in Int
    BY <1>1, ServerTypes DEF PeerOK
  <2>2. u.commit_index <= w.commit_index
    BY <1>1, <1>4, <2>1
  <2>3. QED
    BY <1>1, <1>3, <2>2 DEF PeerOK, SameRole
<1>10. QED
  BY <1>7, <1>8, <1>9

\* react2resp_ae: the primary learns what a follower has.
LEMMA ReactRespAeR ==
    ASSUME IInv, IInv', NEW c \in Server, RInv(c), NEW m \in net, react2resp_ae(m)
    PROVE  RInv(c)'
<1> DEFINE v == server[c]
           q == m.src
           u == server[q]
<1>1. m.type = "RESP_APPEND"
  BY ReactRespAeIs
<1>2. MsgOK(m) /\ SourceOK(m, v.term, c)
  BY LinkFacts
<1>3. m.dst = c
  BY <1>1, <1>2 DEF SourceOK
<1>4. q \in Peers(c) /\ q \in Server /\ q # c
  BY <1>2, <1>3, MailTypes DEF MsgOK, Peers
<1>5. /\ u \in ServerState /\ PeerOK(v, u, q) /\ v \in ServerState
      /\ LinkOK(v, u, q, c, net) /\ StateOK(v, c) /\ LeaderOK(v)
      /\ \A n \in net : MsgOK(n)
  BY <1>4, LinkFacts
<1>6. AckOK(m, v, u, q, c)
  BY <1>1, <1>5 DEF IsAck, LinkOK
<1>7. v.state = "primary" /\ m.term = v.term /\ v.term \in Nat
  BY <1>5, <1>6, ServerTypes DEF AckOK
<1>8. \/ AckLater(c, v, m) \/ AckIgnored(c, v, m) \/ AckStray(c, v, m)
      \/ AckTaken(c, v, m) \/ AckDenied(c, v, m)
  BY <1>3, ReactRespAeIs
<1> HIDE DEF q, u, v
<1>9. u = server[q] /\ v = server[c]
  BY DEF u, v
<1>10. ~AckLater(c, v, m) /\ ~AckStray(c, v, m)
  BY <1>7 DEF AckLater, AckStray
<1>11. CASE AckIgnored(c, v, m)
  BY <1>9, <1>11, IdleLeader DEF AckIgnored
<1>12. AckCurrent(v, m) => Tells(m, v, u, q)
  BY <1>6 DEF AckCurrent, AckOK, q
<1>13. CASE AckTaken(c, v, m)
  <2>1. PICK i \in Int :
          /\ AckCurrent(v, m) /\ m.ok /\ is_majority_index(AckSaved(v, q, m), i)
          /\ AckIdle(c, v, q, m, i) \/ AckSends(c, v, q, m, i)
    BY <1>13 DEF AckTaken, q
  <2>2. Tells(m, v, u, q)
    BY <1>12, <2>1
  <2>3. ASSUME NEW w, NEW sent, Acked(w, v, q, m, i), Step(c, {m}, w, sent)
        PROVE  /\ w \in ServerState
               /\ LeaderOK(w) /\ Grows(w, v) /\ PeerOK(w, u, q) /\ BooksOK(w, u, q)
               /\ v.nextIndex[q] <= w.nextIndex[q]
               /\ v.nextIndex[q] = Len(v.entries) =>
                        w.nextIndex[q] = v.nextIndex[q]
               /\ \A p \in Server \ {q} :
                    /\ w.nextIndex[p] = v.nextIndex[p]
                    /\ w.Follower_saved_index[p] = v.Follower_saved_index[p]
    <3>1. server'[c] = w
      BY <2>3 DEF Step, IInv, ServersOK
    <3>2. w.commit_index < Len(w.entries)
      BY <3>1 DEF IInv, ServersOK, StateOK
    <3>3. /\ w \in ServerState /\ w.entries = v.entries /\ w.commit_index = i
          /\ w.nextIndex = AckNext(v, q, m)
          /\ w.Follower_saved_index = AckSaved(v, q, m)
      BY <2>3 DEF Acked
    <3>4. i < Len(v.entries)
      BY <3>2, <3>3
    <3>5. LeaderOK(w) /\ Grows(w, v) /\ PeerOK(w, u, q)
      BY <1>4, <1>5, <1>7, <2>1, <2>2, <2>3, <3>4, AckedLeader
    <3>6. BooksOK(v, u, q)
      BY <1>5, <1>7 DEF PeerOK
    <3>7. QED
      BY <1>4, <1>5, <1>7, <2>1, <2>2, <3>3, <3>5, <3>6, AckedBooks
  <2>4. CASE AckIdle(c, v, q, m, i)
    <3>1. PICK w : /\ v.nextIndex[q] = Len(v.entries)
                   /\ Acked(w, v, q, m, i)
                   /\ w.current_rpc_lsn = v.current_rpc_lsn
                   /\ Step(c, {m}, w, {})
      BY <2>4 DEF AckIdle
    <3>2. /\ w \in ServerState
          /\ LeaderOK(w) /\ Grows(w, v) /\ BooksOK(w, u, q)
          /\ w.nextIndex[q] = v.nextIndex[q]
          /\ \A p \in Server \ {q} :
                /\ w.nextIndex[p] = v.nextIndex[p]
                /\ w.Follower_saved_index[p] = v.Follower_saved_index[p]
      BY <2>3, <3>1
    <3>3. net' \subseteq net /\ v.term <= w.term
      BY <1>7, <3>1, <3>2 DEF Step, Grows
    <3>4. ASSUME NEW p \in Peers(c) PROVE LinkOK(w, server[p], p, c, net')
      <4>1. p \in Server /\ server[p] \in ServerState /\ LinkOK(v, server[p], p, c, net)
        BY <1>9, LinkFacts
      <4>2. v.current_rpc_lsn[p] <= w.current_rpc_lsn[p]
        BY <1>5, <3>1, <4>1, ServerTypes
      <4>3. LinkOK(w, server[p], p, c, net)
        <5>1. CASE p = q
          BY <1>5, <1>9, <3>2, <4>1, <4>2, <5>1, LinkAdvances
        <5>2. CASE p # q
          BY <1>5, <3>2, <4>1, <4>2, <5>2, LinkGrows
        <5>3. QED
          BY <5>1, <5>2
      <4>4. QED
        BY <3>3, <4>3, LinkMonotone
    <3>5. QED
      BY <1>9, <3>1, <3>2, <3>3, <3>4, LeaderStep
  <2>5. CASE AckSends(c, v, q, m, i)
    <3>1. PICK x, w : /\ Acked(x, v, q, m, i) /\ Acked(w, v, q, m, i)
                      /\ Resent(w, x, v, q)
                      /\ Step(c, {m}, w, {build_rpc_ae_string(x, c, q)})
      BY <2>5 DEF AckSends
    <3>2. /\ w \in ServerState
          /\ LeaderOK(w) /\ Grows(w, v) /\ PeerOK(w, u, q)
          /\ v.nextIndex[q] <= w.nextIndex[q]
          /\ \A p \in Server \ {q} :
                /\ w.nextIndex[p] = v.nextIndex[p]
                /\ w.Follower_saved_index[p] = v.Follower_saved_index[p]
      BY <2>3, <3>1
    <3>3. /\ x \in ServerState /\ x.term = w.term /\ x.entries = w.entries
          /\ x.commit_index = w.commit_index /\ x.nextIndex = w.nextIndex
      BY <3>1 DEF Acked, SameRole
    <3>4. \A p \in Peers(c) \ {q} :
                /\ w.nextIndex[p] = v.nextIndex[p]
                /\ w.Follower_saved_index[p] = v.Follower_saved_index[p]
      BY <3>2 DEF Peers
    <3>5. PeerOK(w, server[q], q)
      BY <1>9, <3>2
    <3>6. Resent(w, x, v, q) /\ Step(c, {m}, w, {build_rpc_ae_string(x, c, q)})
      BY <3>1
    <3>7. QED
      BY <1>4, <1>9, <3>2, <3>3, <3>4, <3>5, <3>6, SendingLeader
  <2>6. QED
    BY <2>1, <2>4, <2>5
<1>14. CASE AckDenied(c, v, m)
  <2>1. AckCurrent(v, m) /\ ~m.ok
        /\ (DeniedAtZero(c, v, q, m) \/ DeniedSends(c, v, q, m))
    BY <1>14 DEF AckDenied, q
  <2>2. /\ v.nextIndex[q] \in Int /\ v.Follower_saved_index[q] \in Int
        /\ Len(u.entries) \in Nat /\ v.current_rpc_lsn[q] \in Nat
        /\ u.follower_rpc_lsn[c] \in Int /\ u.term \in Nat
    BY <1>4, <1>5, ServerTypes
  <2>3. Len(u.entries) < v.nextIndex[q]
    BY <1>12, <2>1 DEF Tells
  <2>4. ~DeniedAtZero(c, v, q, m)
    BY <2>2, <2>3 DEF DeniedAtZero
  <2>5. PICK x, w : /\ Backed(x, v, q) /\ Backed(w, v, q)
                    /\ Resent(w, x, v, q)
                    /\ Step(c, {m}, w, {build_rpc_ae_string(x, c, q)})
    BY <2>1, <2>4 DEF DeniedSends
  <2>6. /\ w \in ServerState /\ x \in ServerState
        /\ SameRole(w, v) /\ SameLog(w, v)
        /\ w.candidate_timer = v.candidate_timer
        /\ w.nextIndex = [v.nextIndex EXCEPT ![q] = v.nextIndex[q] - 1]
        /\ w.Follower_saved_index = v.Follower_saved_index
        /\ x.term = w.term /\ x.entries = w.entries
        /\ x.commit_index = w.commit_index /\ x.nextIndex = w.nextIndex
    BY <2>5 DEF Backed, SameRole, SameLog
  <2>7. LeaderOK(w)
    BY <1>5, <2>6, SameLeader
  <2>8. Grows(w, v)
    <3>1. v.commit_index <= w.commit_index
      BY <1>5, <2>6, ServerTypes DEF SameLog
    <3>2. QED
      BY <1>5, <1>7, <2>6, <3>1, PrefixRefl DEF Grows, SameRole, SameLog
  <2>9. /\ w.nextIndex[q] = v.nextIndex[q] - 1
        /\ \A p \in Server \ {q} : w.nextIndex[p] = v.nextIndex[p]
    <3>1. v.nextIndex \in [Server -> Int]
      BY <1>5 DEF ServerState
    <3>2. QED
      BY <1>4, <2>6, <3>1
  <2>10. BooksOK(w, u, q)
    <3>1. /\ -1 <= v.Follower_saved_index[q]
          /\ v.Follower_saved_index[q] < Len(u.entries)
      BY <1>5, <1>7 DEF PeerOK, BooksOK
    <3>2. w.Follower_saved_index[q] = v.Follower_saved_index[q]
      BY <2>6
    <3>3. QED
      BY <2>2, <2>3, <2>9, <3>1, <3>2 DEF BooksOK
  <2>11. PeerOK(w, u, q)
    BY <1>5, <2>6, <2>10 DEF PeerOK, SameRole, SameLog
  <2>12. ASSUME NEW n \in net, IsAe(n, q) PROVE ~Fresh(n, u, c)
    <3>1. AeSound(n, v, u, q, c) /\ n.lsn \in Nat
      BY <1>5, <2>12, MailTypes DEF LinkOK
    <3>2. n.term = v.term /\ n.lsn < v.current_rpc_lsn[q]
      BY <3>1 DEF AeSound
    <3>3. u.term = v.term /\ m.lsn <= u.follower_rpc_lsn[c] /\ m.lsn \in Nat
      BY <1>2, <1>6, MailTypes DEF AckOK
    <3>4. v.current_rpc_lsn[q] = m.lsn + 1
      BY <2>1 DEF AckCurrent, q
    <3>5. ~(u.follower_rpc_lsn[c] < n.lsn) /\ ~(u.term < n.term)
      BY <1>7, <2>2, <3>1, <3>2, <3>3, <3>4
    <3>6. QED
      BY <3>5 DEF Fresh
  <2>13. \A n \in net : IsAe(n, q) => ~Fresh(n, server[q], c)
    BY <1>9, <2>12
  <2>14. \A p \in Peers(c) \ {q} :
                /\ w.nextIndex[p] = v.nextIndex[p]
                /\ w.Follower_saved_index[p] = v.Follower_saved_index[p]
    BY <2>6, <2>9 DEF Peers
  <2>15. PeerOK(w, server[q], q)
    BY <1>9, <2>11
  <2>16. Resent(w, x, v, q) /\ Step(c, {m}, w, {build_rpc_ae_string(x, c, q)})
    BY <2>5
  <2>17. QED
    BY <1>4, <1>9, <2>6, <2>7, <2>8, <2>13, <2>14, <2>15, <2>16, SendingLeader
<1>15. QED
  BY <1>8, <1>10, <1>11, <1>13, <1>14

\* A message that is lost changes nothing.
LEMMA LoseR ==
    ASSUME IInv, NEW c \in Server, RInv(c), NEW m \in net, Lose(m)
    PROVE  RInv(c)'
<1>1. net' \subseteq net /\ server' = server
  BY DEF Lose
<1>2. \A q \in Peers(c) : LinkOK(server[c], server[q], q, c, net')
  BY <1>1, LinkFacts, LinkMonotone
<1>3. SourcesOK(server[c].term, c, net')
  BY <1>1 DEF RInv, SourcesOK
<1>4. QED
  BY <1>1, <1>2, <1>3 DEF RInv, LinksOK

\* One server stands for election and serves the clients; nobody restarts.
SoleProposer(c) ==
    /\ c \in Server
    /\ Candidates \subseteq {c} /\ ClientServers \subseteq {c}
    /\ RestartServers = {}

LEMMA InitR ==
    ASSUME NEW c \in Server, Init PROVE RInv(c)
<1>1. \A s \in Server : server[s] = Boot(<< >>)
  BY DEF Init
<1> DEFINE b == Boot(<< >>)
<1>2. /\ b.thrown = "none" /\ b.state = "follower" /\ b.term = 0
      /\ b.entries = << >> /\ b.commit_index = -1 /\ b.applied = << >>
      /\ \A p \in Server : b.retry_timers[p] = "none"
  BY DEF Boot
<1> HIDE DEF b
<1>3. AppliedOK(b)
  BY <1>2 DEF AppliedOK
<1>4. LeaderOK(b)
  BY <1>2, <1>3 DEF LeaderOK
<1>5. \A q \in Server : PeerOK(b, b, q)
  BY <1>2, <1>3 DEF PeerOK, IsPrefixOf
<1>6. net = {}
  BY DEF Init
<1>7. \A q \in Server : LinkOK(b, b, q, c, net)
  BY <1>5, <1>6 DEF LinkOK
<1>8. QED
  BY <1>1, <1>4, <1>6, <1>7 DEF RInv, LinksOK, SourcesOK, Peers, b

LEMMA NextR ==
    ASSUME NEW c, SoleProposer(c), IInv, IInv', RInv(c), [Next]_vars
    PROVE  RInv(c)'
<1>0. c \in Server
  BY DEF SoleProposer
<1>1. ASSUME NEW s \in Candidates, candidate_timeout(s) PROVE RInv(c)'
  <2>1. s = c
    BY DEF SoleProposer
  <2>2. QED
    BY <1>0, <1>1, <2>1, CandidateTimeoutR
<1>2. ASSUME NEW s \in Server, NEW p \in Peers(s), retry_timeout(s, p)
      PROVE  RInv(c)'
  BY <1>0, <1>2, RetryTimeoutR
<1>3. ASSUME NEW s \in ClientServers, NEW d \in Command,
             append_client_apply_to_entries(s, d)
      PROVE  RInv(c)'
  <2>1. s = c
    BY DEF SoleProposer
  <2>2. QED
    BY <1>0, <1>3, <2>1, ClientApplyR
<1>4. ASSUME NEW m \in net, react2rv(m) PROVE RInv(c)'
  BY <1>0, <1>4, ReactRvR
<1>5. ASSUME NEW m \in net, react2resp_rv(m) PROVE RInv(c)'
  BY <1>0, <1>5, ReactRespRvR
<1>6. ASSUME NEW m \in net, react2ae(m) PROVE RInv(c)'
  BY <1>0, <1>6, ReactAeR
<1>7. ASSUME NEW m \in net, react2resp_ae(m) PROVE RInv(c)'
  BY <1>0, <1>7, ReactRespAeR
<1>8. ASSUME NEW m \in net, Lose(m) PROVE RInv(c)'
  BY <1>0, <1>8, LoseR
<1>9. CASE UNCHANGED vars
  <2>1. server' = server /\ net' = net
    BY <1>9 DEF vars
  <2>2. QED
    BY <2>1 DEF RInv, LinksOK
<1>10. QED
  BY <1>1, <1>2, <1>3, <1>4, <1>5, <1>6, <1>7, <1>8, <1>9 DEF Next, SoleProposer

-----------------------------------------------------------------------------
(* The results. *)

\* The invariant is kept as long as c alone proposes.
LEMMA ReplicationInvariance ==
    ASSUME NEW c, SoleProposer(c) PROVE Spec => [](IInv /\ RInv(c))
<1>1. Init => RInv(c)
  BY InitR DEF SoleProposer
<1>2. IInv /\ IInv' /\ RInv(c) /\ [Next]_vars => RInv(c)'
  BY NextR
<1>3. QED
  BY <1>1, <1>2, Invariance, PTL DEF Spec

\* What the invariant says of any server: its log is a prefix of c's, and it
\* has committed and applied no more than c.
LEMMA AnyServer ==
    ASSUME IInv, NEW c \in Server, RInv(c), NEW s \in Server
    PROVE  /\ server[s].thrown = "none"
           /\ server[s] \in ServerState
           /\ IsPrefixOf(server[s].entries, server[c].entries)
           /\ server[s].commit_index <= server[c].commit_index
           /\ server[s].commit_index < Len(server[s].entries)
           /\ AppliedOK(server[s])
           /\ s # c => server[s].state = "follower"
<1>1. server[s] \in ServerState /\ server[s].commit_index < Len(server[s].entries)
  BY StateFacts DEF StateOK
<1>2. CASE s = c
  <2>1. server[c].thrown = "none" /\ AppliedOK(server[c])
    BY LinkFacts DEF LeaderOK
  <2>2. server[c].entries \in Seq(Entry) /\ server[c].commit_index \in Int
    BY <1>1, <1>2, ServerTypes
  <2>3. IsPrefixOf(server[c].entries, server[c].entries)
    BY <1>1, <1>2, PrefixRefl
  <2>4. server[c].commit_index <= server[c].commit_index
    BY <2>2
  <2>5. QED
    BY <1>1, <1>2, <2>1, <2>3, <2>4
<1>3. CASE s # c
  BY <1>1, <1>3, LinkFacts DEF PeerOK, Peers
<1>4. QED
  BY <1>2, <1>3

\* In a cluster of any size no assertion of the implementation fires: not even
\* a late AE makes a follower's commit index decrease (Scene 111 in
\* todo_stack), no AE is denied at index 0 and no answer reaches the wrong role
\* (follower_update_commit_index, primary_deal_resp_ae_with_same_term).
THEOREM NoAssertionFires ==
    ASSUME NEW c, SoleProposer(c) PROVE Spec => []NothingThrown
<1>1. IInv /\ RInv(c) => NothingThrown
  BY AnyServer DEF NothingThrown, SoleProposer
<1>2. QED
  BY <1>1, ReplicationInvariance, PTL

\* Two logs of one length.
LEMMA PrefixesAgree ==
    ASSUME NEW a \in Seq(Entry), NEW b \in Seq(Entry), NEW d \in Seq(Entry),
           IsPrefixOf(a, d), IsPrefixOf(b, d),
           NEW i \in Int, i <= Len(a), i <= Len(b)
    PROVE  IsPrefixUpTo(i, a, b)
BY DEF IsPrefixOf, IsPrefixUpTo

\* In a cluster of any size equal terms at an index mean equal logs up to it,
\* which is what the log check of react2ae rests on.
THEOREM LogsMatch ==
    ASSUME NEW c, SoleProposer(c) PROVE Spec => []LogMatching
<1>1. IInv /\ RInv(c) => LogMatching
  <2> SUFFICES ASSUME IInv, RInv(c), NEW s \in Server, NEW p \in Server,
                      NEW i \in 1 .. Len(server[s].entries),
                      i <= Len(server[p].entries)
               PROVE  IsPrefixUpTo(i, server[s].entries, server[p].entries)
    BY DEF LogMatching
  <2>1. c \in Server
    BY DEF SoleProposer
  <2>2. /\ server[s].entries \in Seq(Entry) /\ server[p].entries \in Seq(Entry)
        /\ server[c].entries \in Seq(Entry) /\ Len(server[s].entries) \in Nat
    BY <2>1, AnyServer, ServerTypes
  <2>3. i \in Int /\ i <= Len(server[s].entries)
    BY <2>2
  <2>4. QED
    BY <2>1, <2>2, <2>3, AnyServer, PrefixesAgree
<1>2. QED
  BY <1>1, ReplicationInvariance, PTL

\* In a cluster of any size no two state machines are given different commands
\* at the same place (StateMachineControler::update_commit_index_and_apply).
THEOREM StateMachinesAgree ==
    ASSUME NEW c, SoleProposer(c) PROVE Spec => []StateMachineSafety
<1>1. IInv /\ RInv(c) => StateMachineSafety
  <2> SUFFICES ASSUME IInv, RInv(c), NEW s \in Server, NEW p \in Server,
                      NEW i \in 1 .. Len(server[s].applied),
                      i <= Len(server[p].applied)
               PROVE  server[s].applied[i] = server[p].applied[i]
    BY DEF StateMachineSafety
  <2>1. c \in Server
    BY DEF SoleProposer
  <2>2. ASSUME NEW r \in Server, i <= Len(server[r].applied)
        PROVE  server[r].applied[i] = server[c].entries[i]
    <3> DEFINE u == server[r]
    <3>1. /\ u \in ServerState /\ AppliedOK(u) /\ u.commit_index < Len(u.entries)
          /\ IsPrefixOf(u.entries, server[c].entries)
      BY <2>1, AnyServer
    <3>2. /\ Len(server[s].applied) \in Nat /\ u.commit_index \in Int
          /\ Len(u.entries) \in Nat
      BY <2>1, <3>1, AnyServer, ServerTypes
    <3>3. Len(u.applied) = u.commit_index + 1
      BY <3>1 DEF AppliedOK
    <3>4. i \in 1 .. u.commit_index + 1 /\ i \in 1 .. Len(u.entries)
      BY <2>2, <3>1, <3>2, <3>3
    <3>5. QED
      BY <3>1, <3>4 DEF AppliedOK, IsPrefixOf
  <2>3. Len(server[s].applied) \in Nat
    BY <2>1, AnyServer, ServerTypes
  <2>4. QED
    BY <2>2, <2>3
<1>2. QED
  BY <1>1, ReplicationInvariance, PTL

\* In a cluster of any size the primary is never wrong about what a follower
\* has saved, however entries, heartbeats and their answers are lost, repeated
\* and overtaken (Scenes 1 and 2 of primary_deal_resp_ae_with_same_term).
THEOREM SavedIsHeld ==
    ASSUME NEW c, SoleProposer(c) PROVE Spec => []FollowerHoldsSaved
<1>1. IInv /\ RInv(c) => FollowerHoldsSaved
  <2> SUFFICES ASSUME IInv, RInv(c), NEW s \in Server, NEW p \in Server, Primary(s)
               PROVE  IsPrefixUpTo(server[s].Follower_saved_index[p] + 1,
                                   server[s].entries, server[p].entries)
    BY DEF FollowerHoldsSaved
  <2>1. c \in Server
    BY DEF SoleProposer
  <2>2. s = c /\ server[c].state = "primary"
    BY <2>1, AnyServer DEF Primary
  <2> DEFINE v == server[c]
             u == server[p]
             n == v.Follower_saved_index[p]
  <2>3. /\ v \in ServerState /\ StateOK(v, c) /\ u \in ServerState
        /\ IsPrefixOf(u.entries, v.entries) /\ IsPrefixOf(v.entries, v.entries)
    BY <2>1, AnyServer, LinkFacts
  <2>4. /\ v.entries \in Seq(Entry) /\ u.entries \in Seq(Entry)
        /\ Len(v.entries) \in Nat /\ Len(u.entries) \in Nat /\ n \in Int
    BY <2>3, ServerTypes
  <2>5. n < Len(v.entries)
    BY <2>2, <2>3 DEF StateOK, PrimaryOK
  <2>6. n < Len(u.entries)
    <3>1. CASE p = c
      BY <2>5, <3>1
    <3>2. CASE p # c
      BY <2>1, <2>2, <3>2, LinkFacts DEF PeerOK, BooksOK, Peers
    <3>3. QED
      BY <3>1, <3>2
  <2>7. n + 1 \in Int /\ n + 1 <= Len(v.entries) /\ n + 1 <= Len(u.entries)
    BY <2>4, <2>5, <2>6
  <2> HIDE DEF v, u, n
  <2>8. IsPrefixUpTo(n + 1, v.entries, u.entries)
    BY <2>3, <2>4, <2>7, PrefixesAgree
  <2>9. QED
    BY <2>2, <2>8 DEF v, u, n
<1>2. QED
  BY <1>1, ReplicationInvariance, PTL

\* In a cluster of any size a committed entry is in the logs of a majority,
\* whoever regards it as committed (primary_update_commit_index,
\* follower_update_commit_index).
THEOREM CommittedIsHeld ==
    ASSUME NEW c, SoleProposer(c) PROVE Spec => []CommittedOnMajority
<1>1. IInv /\ RInv(c) => CommittedOnMajority
  <2> SUFFICES ASSUME IInv, RInv(c), NEW s \in Server
               PROVE  2 * Cardinality({p \in Server :
                          IsPrefixUpTo(server[s].commit_index + 1,
                                       server[s].entries, server[p].entries)})
                        > Cardinality(Server)
    BY DEF CommittedOnMajority
  <2> DEFINE v == server[c]
             i == server[s].commit_index
             H == {p \in Server :
                      IsPrefixUpTo(i + 1, server[s].entries, server[p].entries)}
             S == {p \in Server : v.Follower_saved_index[p] >= v.commit_index}
  <2>1. c \in Server /\ v \in ServerState /\ LeaderOK(v) /\ StateOK(v, c)
    BY LinkFacts DEF SoleProposer
  <2>2. /\ server[s].entries \in Seq(Entry) /\ i \in Int /\ i <= v.commit_index
        /\ i < Len(server[s].entries) /\ Len(server[s].entries) \in Nat
        /\ IsPrefixOf(server[s].entries, v.entries)
        /\ v.commit_index \in Int /\ v.entries \in Seq(Entry)
    BY <2>1, AnyServer, ServerTypes
  <2>3. ASSUME NEW p \in Server, i < Len(server[p].entries) PROVE p \in H
    <3>1. /\ server[p].entries \in Seq(Entry) /\ Len(server[p].entries) \in Nat
          /\ IsPrefixOf(server[p].entries, v.entries)
      BY <2>1, AnyServer, ServerTypes
    <3>2. /\ i + 1 \in Int /\ i + 1 <= Len(server[s].entries)
          /\ i + 1 <= Len(server[p].entries)
      BY <2>2, <2>3, <3>1
    <3>3. IsPrefixUpTo(i + 1, server[s].entries, server[p].entries)
      BY <2>2, <3>1, <3>2, PrefixesAgree
    <3>4. QED
      BY <3>3
  <2>4. H \in SUBSET Server /\ S \in SUBSET Server
    OBVIOUS
  <2>5. Cardinality(Server) \in Nat /\ Cardinality(H) \in Nat /\ Cardinality(S) \in Nat
    BY <2>4, ServerSets
  <2>6. CASE v.state = "primary"
    <3>1. ASSUME NEW p \in S PROVE p \in H
      <4>1. v.Follower_saved_index[p] < Len(server[p].entries)
            /\ v.Follower_saved_index[p] >= v.commit_index
            /\ v.Follower_saved_index[p] \in Int
        <5>1. CASE p = c
          BY <2>1, <2>6, <5>1, ServerTypes DEF StateOK, PrimaryOK
        <5>2. CASE p # c
          BY <2>1, <2>6, <5>2, LinkFacts, ServerTypes DEF PeerOK, BooksOK, Peers
        <5>3. QED
          BY <5>1, <5>2
      <4>2. Len(server[p].entries) \in Nat
        BY <2>1, AnyServer, ServerTypes
      <4>3. i < Len(server[p].entries)
        BY <2>2, <4>1, <4>2
      <4>4. QED
        BY <2>3, <4>3
    <3>2. Cardinality(S) >= majority
      BY <2>1, <2>6 DEF LeaderOK, MajorityHolds
    <3> HIDE DEF H, S
    <3>3. S \in SUBSET H
      BY <3>1
    <3>4. Cardinality(S) <= Cardinality(H)
      BY <2>4, <3>3, CountMonotone
    <3>5. 2 * Cardinality(H) > Cardinality(Server)
      BY <2>5, <3>2, <3>4 DEF majority
    <3>6. QED
      BY <3>5 DEF H
  <2>7. CASE v.state # "primary"
    <3>1. i = -1
      <4>1. v.commit_index = -1 /\ AppliedOK(server[s])
        BY <2>1, <2>7, AnyServer DEF LeaderOK
      <4>2. i + 1 \in Nat
        BY <2>1, <4>1, AnyServer, ServerTypes DEF AppliedOK
      <4>3. QED
        BY <2>2, <4>1, <4>2
    <3>2. \A p \in Server : i < Len(server[p].entries)
      BY <2>1, <3>1, AnyServer, ServerTypes
    <3>3. H = Server
      BY <2>3, <2>4, <3>2
    <3>4. Cardinality(Server) >= 1
      <4>1. Cardinality({c}) = 1 /\ {c} \in SUBSET Server
        BY <2>1, FS_Singleton
      <4>2. Cardinality({c}) <= Cardinality(Server)
        BY <4>1, CountMonotone
      <4>3. QED
        BY <2>5, <4>1, <4>2
    <3> HIDE DEF H
    <3>5. 2 * Cardinality(H) > Cardinality(Server)
      BY <2>5, <3>3, <3>4
    <3>6. QED
      BY <3>5 DEF H
  <2>8. QED
    BY <2>6, <2>7
<1>2. QED
  BY <1>1, ReplicationInvariance, PTL

=============================================================================
