------------------------ MODULE ServerTimersProofs ------------------------
(***************************************************************************)
(* What ServerTimers promises, proved for any number of peers.             *)
(*                                                                         *)
(* A handler that is late meets timers that were set after it was queued.  *)
(* The invariant says which timers those can be: it follows the handlers   *)
(* of a pass from the role in which they were queued to the one in which   *)
(* they run.                                                               *)
(***************************************************************************)
EXTENDS ServerTimers, FiniteSetTheorems, TLAPS

CandidateHandler == {"run", "trans2F", "trans2C"}

RetryHandler == {"RV", "AE"}

Item == [timer : Timer, handler : Handler]

\* Timers of the right kind: the candidate timer and the retry timers have
\* handlers of their own, and a timer set to min_date_time has none.
TimersOK(t) ==
    /\ t \in [Timer -> [min : BOOLEAN, wait : Handler \cup {"none"}]]
    /\ t["candidate"].wait \in CandidateHandler \cup {"none"}
    /\ \A p \in Peer : t[p].wait \in RetryHandler \cup {"none"}
    /\ \A k \in Timer : t[k].min => ~hooked(t, k)

ItemOK(e) ==
    \/ e.timer = "candidate" /\ e.handler \in CandidateHandler
    \/ e.timer \in Peer /\ e.handler \in RetryHandler

QueueOK(q) ==
    /\ q \in Seq(Item)
    /\ \A i \in DOMAIN q : ItemOK(q[i])

Queued(q, k) == \E i \in DOMAIN q : q[i].timer = k

AeQueued(q) == \E i \in DOMAIN q : q[i].handler = "AE"

\* The candidate timer is cancelled in a primary only, and somebody else's
\* election is pending.
CandidateTimerOK(st, t, q) ==
    /\ st = "primary" <=> t["candidate"].min
    /\ st # "primary" => hooked(t, "candidate") \/ Queued(q, "candidate")

\* A follower's retry timers do not wait, and a late handler finds them
\* cancelled.  A candidate has no AE timer, and no AE handler is queued in a
\* pass that may still make the server one.
RetryTimersOK(st, t, q) ==
    /\ st = "follower" =>
          \A p \in Peer : ~hooked(t, p) /\ (t[p].min \/ ~Queued(q, p))
    /\ st = "candidate" => ~AeQueued(q) /\ \A p \in Peer : t[p].wait # "AE"
    /\ AeQueued(q) => ~Queued(q, "candidate")

\* If no handler is overtaken at most one is queued, and its timer is as it
\* was when it expired.
PromptOK(t, q) ==
    /\ Len(q) <= 1
    /\ \A i \in DOMAIN q : ~t[q[i].timer].min /\ ~hooked(t, q[i].timer)

HeartbeatOK(t, q, p) ==
    \/ t[p].wait = "AE"
    \/ \E i \in DOMAIN q : q[i] = [timer |-> p, handler |-> "AE"]

TInv ==
    /\ overtaking \in BOOLEAN /\ ahead \in BOOLEAN
    /\ state \in {"follower", "candidate", "primary"}
    /\ TimersOK(timer)
    /\ QueueOK(ready)
    /\ Alive => CandidateTimerOK(state, timer, ready)
    /\ Alive => RetryTimersOK(state, timer, ready)
    /\ ~overtaking =>
          /\ Alive /\ ~ahead
          /\ PromptOK(timer, ready)
          /\ state = "primary" => \A p \in Peer : HeartbeatOK(timer, ready, p)

-----------------------------------------------------------------------------
(* Timers and queues. *)

LEMMA TimerNames ==
    /\ "candidate" \in Timer /\ "candidate" \notin Peer
    /\ \A p \in Peer : p \in Timer /\ p # "candidate"
BY TimersAssumption DEF Timer

\* What a timer is after it was set or cancelled.
LEMMA SetTimer ==
    ASSUME NEW t, NEW T, NEW h, NEW k \in Timer
    PROVE  /\ k \in T => hook(t, T, h)[k] = [min |-> FALSE, wait |-> h]
           /\ k \notin T => hook(t, T, h)[k] = t[k]
BY DEF hook

LEMMA CancelledTimer ==
    ASSUME NEW t, NEW T, NEW k \in Timer
    PROVE  /\ k \in T => expires_at_min(t, T)[k] = [min |-> TRUE, wait |-> "none"]
           /\ k \notin T => expires_at_min(t, T)[k] = t[k]
BY DEF expires_at_min

LEMMA TimerFields ==
    ASSUME NEW t, TimersOK(t), NEW k \in Timer
    PROVE  /\ t[k] \in [min : BOOLEAN, wait : Handler \cup {"none"}]
           /\ t[k].min \in BOOLEAN
           /\ t[k].wait \in Handler \cup {"none"}
           /\ t[k].min => t[k].wait = "none"
BY DEF TimersOK, hooked

LEMMA CancelKeeps ==
    ASSUME NEW t, TimersOK(t), NEW T
    PROVE  TimersOK(expires_at_min(t, T))
<1> DEFINE w == expires_at_min(t, T)
<1>1. \A k \in Timer : \/ w[k] = [min |-> TRUE, wait |-> "none"]
                       \/ w[k] = t[k]
  BY CancelledTimer
<1>2. \A k \in Timer : w[k] \in [min : BOOLEAN, wait : Handler \cup {"none"}]
  <2> HIDE DEF w
  <2>1. [min |-> TRUE, wait |-> "none"] \in [min : BOOLEAN, wait : Handler \cup {"none"}]
    OBVIOUS
  <2>2. QED
    BY <1>1, <2>1, TimerFields
<1>3. w \in [Timer -> [min : BOOLEAN, wait : Handler \cup {"none"}]]
  BY <1>2 DEF expires_at_min
<1> HIDE DEF w
<1>4. w["candidate"].wait \in CandidateHandler \cup {"none"}
  BY <1>1, TimerNames DEF TimersOK
<1>5. \A p \in Peer : w[p].wait \in RetryHandler \cup {"none"}
  BY <1>1, TimerNames DEF TimersOK
<1>6. \A k \in Timer : w[k].min => ~hooked(w, k)
  BY <1>1, TimerFields DEF hooked
<1>7. QED
  BY <1>3, <1>4, <1>5, <1>6 DEF TimersOK, w

LEMMA HookKeeps ==
    ASSUME NEW t, TimersOK(t), NEW T, NEW h,
           \/ T \subseteq Peer /\ h \in RetryHandler \cup {"none"}
           \/ T = {"candidate"} /\ h \in CandidateHandler
    PROVE  TimersOK(hook(t, T, h))
<1> DEFINE w == hook(t, T, h)
<1>0. h \in Handler \cup {"none"}
  BY DEF RetryHandler, CandidateHandler, Handler
<1>1. \A k \in Timer : \/ k \in T /\ w[k] = [min |-> FALSE, wait |-> h]
                       \/ k \notin T /\ w[k] = t[k]
  BY SetTimer
<1>2. \A k \in Timer : w[k] \in [min : BOOLEAN, wait : Handler \cup {"none"}]
  <2> HIDE DEF w
  <2>1. [min |-> FALSE, wait |-> h] \in [min : BOOLEAN, wait : Handler \cup {"none"}]
    BY <1>0
  <2>2. QED
    BY <1>1, <2>1, TimerFields
<1>3. w \in [Timer -> [min : BOOLEAN, wait : Handler \cup {"none"}]]
  BY <1>2 DEF hook
<1> HIDE DEF w
<1>4. w["candidate"].wait \in CandidateHandler \cup {"none"}
  BY <1>1, TimerNames DEF TimersOK
<1>5. \A p \in Peer : w[p].wait \in RetryHandler \cup {"none"}
  BY <1>1, TimerNames DEF TimersOK
<1>6. \A k \in Timer : w[k].min => ~hooked(w, k)
  BY <1>1, TimerFields DEF hooked
<1>7. QED
  BY <1>3, <1>4, <1>5, <1>6 DEF TimersOK, w

LEMMA Trans2FTimers ==
    ASSUME NEW t, TimersOK(t),
           NEW w, w = hook(cancel_all_timers(t), {"candidate"}, "trans2F")
    PROVE  /\ TimersOK(w)
           /\ ~w["candidate"].min /\ hooked(w, "candidate")
           /\ \A p \in Peer : w[p].min /\ ~hooked(w, p)
<1>1. TimersOK(cancel_all_timers(t))
  BY CancelKeeps DEF cancel_all_timers
<1>2. TimersOK(w)
  BY <1>1, HookKeeps DEF CandidateHandler
<1>3. w["candidate"] = [min |-> FALSE, wait |-> "trans2F"]
  BY TimerNames, SetTimer
<1>4. \A p \in Peer : w[p] = [min |-> TRUE, wait |-> "none"]
  <2> SUFFICES ASSUME NEW p \in Peer PROVE w[p] = [min |-> TRUE, wait |-> "none"]
    OBVIOUS
  <2>1. p \in Timer /\ p \notin {"candidate"}
    BY TimerNames
  <2>2. w[p] = cancel_all_timers(t)[p]
    BY <2>1 DEF hook
  <2>3. QED
    BY <2>1, <2>2, CancelledTimer DEF cancel_all_timers
<1>5. QED
  BY <1>2, <1>3, <1>4 DEF hooked

LEMMA Trans2CTimers ==
    ASSUME NEW t, TimersOK(t),
           NEW w, w = hook(hook(cancel_all_timers(t), {"candidate"}, "trans2C"),
                           Peer, "RV")
    PROVE  /\ TimersOK(w)
           /\ ~w["candidate"].min /\ hooked(w, "candidate")
           /\ \A p \in Peer : w[p].wait # "AE"
<1> DEFINE x == hook(cancel_all_timers(t), {"candidate"}, "trans2C")
<1>1. TimersOK(cancel_all_timers(t))
  BY CancelKeeps DEF cancel_all_timers
<1>2. TimersOK(x)
  BY <1>1, HookKeeps DEF CandidateHandler
<1>3. x["candidate"] = [min |-> FALSE, wait |-> "trans2C"]
  BY TimerNames, SetTimer
<1> HIDE DEF x
<1>4. TimersOK(w)
  BY <1>2, HookKeeps DEF RetryHandler, x
<1>5. w["candidate"] = [min |-> FALSE, wait |-> "trans2C"]
  BY <1>3, TimerNames DEF x, hook
<1>6. \A p \in Peer : w[p] = [min |-> FALSE, wait |-> "RV"]
  BY TimerNames, SetTimer
<1>7. QED
  BY <1>4, <1>5, <1>6 DEF hooked

LEMMA Trans2PTimers ==
    ASSUME NEW t, TimersOK(t), NEW w, w = hook(cancel_all_timers(t), Peer, "AE")
    PROVE  /\ TimersOK(w)
           /\ w["candidate"].min
           /\ \A p \in Peer : w[p].wait = "AE"
<1>1. TimersOK(cancel_all_timers(t))
  BY CancelKeeps DEF cancel_all_timers
<1>2. TimersOK(w)
  BY <1>1, HookKeeps DEF RetryHandler
<1>3. w["candidate"] = [min |-> TRUE, wait |-> "none"]
  <2>1. w["candidate"] = cancel_all_timers(t)["candidate"]
    BY TimerNames DEF hook
  <2>2. QED
    BY <2>1, TimerNames, CancelledTimer DEF cancel_all_timers
<1>4. \A p \in Peer : w[p] = [min |-> FALSE, wait |-> "AE"]
  BY TimerNames, SetTimer
<1>5. QED
  BY <1>2, <1>3, <1>4

\* A queue without its first handler.
LEMMA QueueTail ==
    ASSUME NEW q, QueueOK(q), q # << >>
    PROVE  /\ 1 \in DOMAIN q /\ Head(q) = q[1] /\ ItemOK(Head(q))
           /\ QueueOK(Tail(q))
           /\ \A j \in DOMAIN Tail(q) : \E i \in DOMAIN q : i # 1 /\ Tail(q)[j] = q[i]
           /\ \A i \in DOMAIN q : i # 1 => \E j \in DOMAIN Tail(q) : Tail(q)[j] = q[i]
           /\ Len(q) <= 1 => Len(Tail(q)) <= 1 /\ \A i \in DOMAIN q : i = 1
           /\ Len(q) <= 1 => DOMAIN Tail(q) = {}
<1>1. q \in Seq(Item) /\ Len(q) \in Nat /\ Len(q) > 0 /\ DOMAIN q = 1 .. Len(q)
  BY DEF QueueOK
<1>2. 1 \in DOMAIN q /\ Head(q) = q[1]
  BY <1>1
<1>3. Tail(q) \in Seq(Item) /\ Len(Tail(q)) = Len(q) - 1
      /\ DOMAIN Tail(q) = 1 .. Len(q) - 1
  BY <1>1
<1>4. \A j \in 1 .. Len(q) - 1 : j + 1 \in DOMAIN q /\ j + 1 # 1 /\ Tail(q)[j] = q[j + 1]
  BY <1>1
<1>5. \A j \in DOMAIN Tail(q) : \E i \in DOMAIN q : i # 1 /\ Tail(q)[j] = q[i]
  BY <1>3, <1>4
<1>6. ASSUME NEW i \in DOMAIN q, i # 1
      PROVE  \E j \in DOMAIN Tail(q) : Tail(q)[j] = q[i]
  <2>1. i - 1 \in 1 .. Len(q) - 1 /\ (i - 1) + 1 = i
    BY <1>1, <1>6
  <2>2. QED
    BY <1>3, <1>4, <2>1
<1>7. QueueOK(Tail(q))
  BY <1>3, <1>5 DEF QueueOK
<1>8. ItemOK(Head(q))
  BY <1>2 DEF QueueOK
<1>9. Len(q) <= 1 => Len(Tail(q)) <= 1
  BY <1>1, <1>3
<1>10. Len(q) <= 1 => \A i \in DOMAIN q : i = 1
  BY <1>1
<1>11. Len(q) <= 1 => DOMAIN Tail(q) = {}
  BY <1>1, <1>3
<1>12. QED
  BY <1>2, <1>5, <1>6, <1>7, <1>8, <1>9, <1>10, <1>11

LEMMA TailQueued ==
    ASSUME NEW q, QueueOK(q), q # << >>, NEW k
    PROVE  /\ Queued(Tail(q), k) => Queued(q, k)
           /\ Queued(q, k) /\ Head(q).timer # k => Queued(Tail(q), k)
           /\ AeQueued(Tail(q)) => AeQueued(q)
           /\ Queued(q, Head(q).timer)
           /\ Head(q).handler = "AE" => AeQueued(q)
BY QueueTail DEF Queued, AeQueued

-----------------------------------------------------------------------------
(* The reactor. *)

LEMMA Waiting ==
    ASSUME TInv, NEW batch \in Batches
    PROVE  /\ batch \in Seq(Timer) /\ Len(batch) \in Nat
           /\ \A i \in DOMAIN batch : batch[i] \in Timer /\ hooked(timer, batch[i])
<1> DEFINE W == {k \in Timer : hooked(timer, k)}
<1>1. IsFiniteSet(W)
  <2>1. IsFiniteSet(Timer)
    BY TimersAssumption, FS_AddElement DEF Timer
  <2>2. QED
    BY <2>1, FS_Subset
<1>2. Cardinality(W) \in Nat
  BY <1>1, FS_CardinalityType
<1>3. PICK n \in 1 .. Cardinality(W) : batch \in Injection(1 .. n, W)
  BY DEF Batches
<1>4. n \in Nat /\ batch \in [1 .. n -> W]
  BY <1>2, <1>3 DEF Injection
<1> HIDE DEF W
<1>5. batch \in Seq(W)
  BY <1>4
<1>6. \A i \in DOMAIN batch : batch[i] \in W
  BY <1>4
<1>7. \A k \in W : k \in Timer /\ hooked(timer, k)
  BY DEF W
<1>8. QED
  BY <1>5, <1>6, <1>7

\* A pass: exactly the timers whose handlers are queued wait no more.
LEMMA ExpireFacts ==
    ASSUME TInv, NEW batch \in Batches, Expire(batch)
    PROVE  /\ ready' \in Seq(Item)
           /\ \A i \in DOMAIN ready' :
                 /\ ready'[i].timer \in Timer
                 /\ hooked(timer, ready'[i].timer)
                 /\ ready'[i] = [timer |-> ready'[i].timer,
                                 handler |-> timer[ready'[i].timer].wait]
           /\ timer' \in [Timer -> [min : BOOLEAN, wait : Handler \cup {"none"}]]
           /\ \A k \in Timer :
                 /\ timer'[k].min = timer[k].min
                 /\ Queued(ready', k) => timer'[k].wait = "none"
                 /\ ~Queued(ready', k) => timer'[k] = timer[k]
           /\ ~overtaking => Len(ready') = 1
<1>1. /\ batch \in Seq(Timer) /\ Len(batch) \in Nat
      /\ \A i \in DOMAIN batch : batch[i] \in Timer /\ hooked(timer, batch[i])
  BY Waiting
<1>2. /\ ready' = [i \in DOMAIN batch |->
                     [timer |-> batch[i], handler |-> timer[batch[i]].wait]]
      /\ ~overtaking => Len(batch) = 1
  BY DEF Expire
<1>3. TimersOK(timer)
  BY DEF TInv
<1>4. \A i \in DOMAIN batch : timer[batch[i]].wait \in Handler
  BY <1>1, <1>3, TimerFields DEF hooked
<1>5. \A i \in DOMAIN batch :
         [timer |-> batch[i], handler |-> timer[batch[i]].wait] \in Item
  BY <1>1, <1>4 DEF Item
<1>6. ready' \in Seq(Item) /\ DOMAIN ready' = DOMAIN batch /\ Len(ready') = Len(batch)
  BY <1>1, <1>2, <1>5
<1>7. \A i \in DOMAIN batch :
         ready'[i] = [timer |-> batch[i], handler |-> timer[batch[i]].wait]
  BY <1>2
<1>8. ASSUME NEW i \in DOMAIN batch PROVE ready'[i].timer = batch[i]
  <2> DEFINE r == ready'[i]
  <2>1. r = [timer |-> batch[i], handler |-> timer[batch[i]].wait]
    BY <1>7
  <2> HIDE DEF r
  <2>2. r.timer = batch[i]
    BY <2>1
  <2>3. QED
    BY <2>2 DEF r
<1>9. \A k : Queued(ready', k) <=> k \in Range(batch)
  BY <1>6, <1>8 DEF Queued, Range
<1>10. timer' = [k \in Timer |-> IF k \in Range(batch)
                                 THEN [timer[k] EXCEPT !.wait = "none"]
                                 ELSE timer[k]]
  BY DEF Expire
<1>11. ASSUME NEW k \in Timer
       PROVE  /\ timer'[k].min = timer[k].min
              /\ Queued(ready', k) => timer'[k].wait = "none"
              /\ ~Queued(ready', k) => timer'[k] = timer[k]
              /\ timer'[k] \in [min : BOOLEAN, wait : Handler \cup {"none"}]
  <2> DEFINE a == timer[k]
  <2>1. a \in [min : BOOLEAN, wait : Handler \cup {"none"}]
    BY <1>3, TimerFields
  <2> HIDE DEF a
  <2>2. CASE k \in Range(batch)
    <3>1. timer'[k] = [a EXCEPT !.wait = "none"]
      BY <1>10, <2>2 DEF a
    <3>2. /\ timer'[k].min = a.min /\ timer'[k].wait = "none"
          /\ timer'[k] \in [min : BOOLEAN, wait : Handler \cup {"none"}]
      BY <2>1, <3>1
    <3>3. QED
      BY <1>9, <2>2, <3>2 DEF a
  <2>3. CASE k \notin Range(batch)
    <3>1. timer'[k] = a
      BY <1>10, <2>3 DEF a
    <3>2. QED
      BY <1>9, <2>1, <2>3, <3>1 DEF a
  <2>4. QED
    BY <2>2, <2>3
<1>12. timer' \in [Timer -> [min : BOOLEAN, wait : Handler \cup {"none"}]]
  BY <1>10, <1>11
<1>13. \A i \in DOMAIN ready' :
                 /\ ready'[i].timer \in Timer
                 /\ hooked(timer, ready'[i].timer)
                 /\ ready'[i] = [timer |-> ready'[i].timer,
                                 handler |-> timer[ready'[i].timer].wait]
  BY <1>1, <1>6, <1>7, <1>8
<1>14. ~overtaking => Len(ready') = 1
  BY <1>2, <1>6
<1>15. QED
  BY <1>6, <1>11, <1>12, <1>13, <1>14

LEMMA ExpireKeeps ==
    ASSUME TInv, NEW batch \in Batches, Expire(batch)
    PROVE  TInv'
<1> DEFINE t == timer
           w == timer'
           q == ready'
<1>1. /\ q \in Seq(Item)
      /\ w \in [Timer -> [min : BOOLEAN, wait : Handler \cup {"none"}]]
      /\ ~overtaking => Len(q) = 1
  BY ExpireFacts
<1>2. \A i \in DOMAIN q : /\ q[i].timer \in Timer
                          /\ hooked(t, q[i].timer)
                          /\ q[i].handler = t[q[i].timer].wait
                          /\ q[i] = [timer |-> q[i].timer,
                                     handler |-> t[q[i].timer].wait]
  BY ExpireFacts
<1>3. \A k \in Timer : /\ w[k].min = t[k].min
                       /\ Queued(q, k) => w[k].wait = "none"
                       /\ ~Queued(q, k) => w[k] = t[k]
  BY ExpireFacts
<1>4. /\ TimersOK(t) /\ Alive /\ Alive' /\ state' = state
      /\ overtaking' = overtaking /\ ahead' = overtaking /\ ready = << >>
      /\ CandidateTimerOK(state, t, ready) /\ RetryTimersOK(state, t, ready)
      /\ overtaking \in BOOLEAN
      /\ state \in {"follower", "candidate", "primary"}
  BY DEF TInv, Expire, Alive
<1>5. \A k : ~Queued(ready, k)
  BY <1>4 DEF Queued
<1>6. \A k \in Timer : t[k].min => ~hooked(t, k)
  BY <1>4 DEF TimersOK
<1> HIDE DEF t, w, q
<1>7. \A k \in Timer : w[k].wait = "none" \/ w[k] = t[k]
  BY <1>3
<1>8. TimersOK(w)
  <2>1. w["candidate"].wait \in CandidateHandler \cup {"none"}
    BY <1>4, <1>7, TimerNames DEF TimersOK
  <2>2. \A p \in Peer : w[p].wait \in RetryHandler \cup {"none"}
    BY <1>4, <1>7, TimerNames DEF TimersOK
  <2>3. \A k \in Timer : w[k].min => ~hooked(w, k)
    BY <1>3, <1>6, <1>7 DEF hooked
  <2>4. QED
    BY <1>1, <2>1, <2>2, <2>3 DEF TimersOK
<1>9. QueueOK(q)
  <2>1. ASSUME NEW i \in DOMAIN q PROVE ItemOK(q[i])
    <3>1. CASE q[i].timer = "candidate"
      BY <1>2, <1>4, <3>1 DEF TimersOK, ItemOK, hooked
    <3>2. CASE q[i].timer \in Peer
      BY <1>2, <1>4, <3>2 DEF TimersOK, ItemOK, hooked
    <3>3. QED
      BY <1>2, <3>1, <3>2 DEF Timer
  <2>2. QED
    BY <1>1, <2>1 DEF QueueOK
<1>10. \A k \in Timer : Queued(q, k) => hooked(t, k)
  BY <1>2 DEF Queued
<1>11. AeQueued(q) => \E p \in Peer : t[p].wait = "AE"
  <2> SUFFICES ASSUME AeQueued(q) PROVE \E p \in Peer : t[p].wait = "AE"
    OBVIOUS
  <2>1. PICK i \in DOMAIN q : q[i].handler = "AE"
    BY DEF AeQueued
  <2>2. ItemOK(q[i])
    BY <1>9 DEF QueueOK
  <2>3. q[i].timer \in Peer
    BY <2>1, <2>2 DEF ItemOK, CandidateHandler
  <2>4. QED
    BY <1>2, <2>1, <2>3
<1>12. CandidateTimerOK(state, w, q)
  <2>1. (state = "primary") <=> w["candidate"].min
    BY <1>3, <1>4, TimerNames DEF CandidateTimerOK
  <2>2. state # "primary" => hooked(t, "candidate")
    BY <1>4, <1>5 DEF CandidateTimerOK
  <2>3. state # "primary" => hooked(w, "candidate") \/ Queued(q, "candidate")
    BY <1>3, <2>2, TimerNames DEF hooked
  <2>4. QED
    BY <2>1, <2>3 DEF CandidateTimerOK
<1>13. RetryTimersOK(state, w, q)
  <2>1. state = "follower" => \A p \in Peer : ~hooked(t, p)
    BY <1>4 DEF RetryTimersOK
  <2>2. state = "follower" => \A p \in Peer : ~Queued(q, p) /\ ~hooked(w, p)
    BY <1>3, <1>10, <2>1, TimerNames DEF hooked
  <2>3. state = "candidate" => \A p \in Peer : t[p].wait # "AE"
    BY <1>4 DEF RetryTimersOK
  <2>4. state = "candidate" => ~AeQueued(q) /\ \A p \in Peer : w[p].wait # "AE"
    BY <1>7, <1>11, <2>3, TimerNames
  <2>5. ASSUME AeQueued(q) PROVE ~Queued(q, "candidate")
    <3>1. PICK p \in Peer : t[p].wait = "AE"
      BY <1>11, <2>5
    <3>2. state = "primary"
      BY <1>4, <2>1, <2>3, <3>1 DEF hooked
    <3>3. t["candidate"].min
      BY <1>4, <3>2 DEF CandidateTimerOK
    <3>4. QED
      BY <1>6, <1>10, <3>3, TimerNames
  <2>6. QED
    BY <2>2, <2>4, <2>5 DEF RetryTimersOK
<1>14. ASSUME ~overtaking
       PROVE  /\ PromptOK(w, q)
              /\ state = "primary" => \A p \in Peer : HeartbeatOK(w, q, p)
  <2>1. Len(q) <= 1
    <3>1. Len(q) = 1
      BY <1>1, <1>14
    <3>2. QED
      BY <3>1
  <2>2. ASSUME NEW i \in DOMAIN q PROVE ~w[q[i].timer].min /\ ~hooked(w, q[i].timer)
    <3> DEFINE k == q[i].timer
    <3>1. k \in Timer /\ hooked(t, k) /\ Queued(q, k)
      BY <1>2 DEF Queued
    <3> HIDE DEF k
    <3>2. ~w[k].min /\ ~hooked(w, k)
      BY <1>3, <1>6, <3>1 DEF hooked
    <3>3. QED
      BY <3>2 DEF k
  <2>3. ASSUME state = "primary", NEW p \in Peer PROVE HeartbeatOK(w, q, p)
    <3>1. t[p].wait = "AE"
      BY <1>4, <1>14, <2>3 DEF TInv, HeartbeatOK, t
    <3>2. CASE Queued(q, p)
      <4>1. PICK i \in DOMAIN q : q[i].timer = p
        BY <3>2 DEF Queued
      <4>2. q[i] = [timer |-> p, handler |-> "AE"]
        BY <1>2, <3>1, <4>1
      <4>3. QED
        BY <4>2 DEF HeartbeatOK
    <3>3. CASE ~Queued(q, p)
      BY <1>3, <3>1, <3>3, TimerNames DEF HeartbeatOK
    <3>4. QED
      BY <3>2, <3>3
  <2>4. QED
    BY <2>1, <2>2, <2>3 DEF PromptOK
<1>15. QED
  BY <1>4, <1>8, <1>9, <1>12, <1>13, <1>14 DEF TInv, w, q

-----------------------------------------------------------------------------
(* Handlers. *)

\* What the invariant says of a handler that is about to run.
LEMMA HandlerFacts ==
    ASSUME TInv, Alive, ready # << >>
    PROVE  /\ TimersOK(timer) /\ ItemOK(Head(ready)) /\ Head(ready).timer \in Timer
           /\ QueueOK(Tail(ready))
           /\ Queued(ready, Head(ready).timer)
           /\ Head(ready).handler = "AE" => AeQueued(ready)
           /\ AeQueued(Tail(ready)) => AeQueued(ready)
           /\ \A k : Queued(Tail(ready), k) => Queued(ready, k)
           /\ \A k : Queued(ready, k) /\ Head(ready).timer # k => Queued(Tail(ready), k)
           /\ CandidateTimerOK(state, timer, ready)
           /\ RetryTimersOK(state, timer, ready)
           /\ overtaking \in BOOLEAN
           /\ state \in {"follower", "candidate", "primary"}
           /\ ~overtaking => /\ ~timer[Head(ready).timer].min
                             /\ ~hooked(timer, Head(ready).timer)
                             /\ Len(Tail(ready)) <= 1
                             /\ DOMAIN Tail(ready) = {}
                             /\ \A i \in DOMAIN ready : ready[i] = Head(ready)
<1>1. QueueOK(ready) /\ (~overtaking => PromptOK(timer, ready))
  BY DEF TInv
<1>2. /\ 1 \in DOMAIN ready /\ Head(ready) = ready[1] /\ ItemOK(Head(ready))
      /\ QueueOK(Tail(ready))
      /\ Len(ready) <= 1 => Len(Tail(ready)) <= 1 /\ \A i \in DOMAIN ready : i = 1
      /\ Len(ready) <= 1 => DOMAIN Tail(ready) = {}
  BY <1>1, QueueTail
<1>3. Head(ready).timer \in Timer
  BY <1>2, TimerNames DEF ItemOK
<1>4. ~overtaking => /\ ~timer[Head(ready).timer].min
                     /\ ~hooked(timer, Head(ready).timer)
                     /\ Len(ready) <= 1
  BY <1>1, <1>2 DEF PromptOK
<1>5. ~overtaking => \A i \in DOMAIN ready : ready[i] = Head(ready)
  BY <1>2, <1>4
<1>6. /\ TimersOK(timer) /\ CandidateTimerOK(state, timer, ready)
      /\ RetryTimersOK(state, timer, ready) /\ overtaking \in BOOLEAN
      /\ state \in {"follower", "candidate", "primary"}
  BY DEF TInv
<1>7. QED
  BY <1>1, <1>2, <1>3, <1>4, <1>5, <1>6, TailQueued

\* An assertion fires, which happens to a handler that was overtaken.
LEMMA ThrowKeeps ==
    ASSUME TInv, Alive, ready # << >>, NEW line, line # 0,
           Throw(line, Tail(ready)), ahead' = FALSE, overtaking
    PROVE  TInv'
<1>1. /\ QueueOK(ready') /\ TimersOK(timer') /\ ~Alive' /\ ahead' \in BOOLEAN
      /\ overtaking' = overtaking /\ state' = state
  BY HandlerFacts DEF Throw, Alive
<1>2. QED
  BY <1>1, HandlerFacts DEF TInv

\* A handler leaves the server in state st with timers t: what has to be shown.
LEMMA HandlerKeeps ==
    ASSUME TInv, Alive, ready # << >>, NEW st, NEW votes, NEW t,
           Become(st, votes, t, Tail(ready)), ahead' = FALSE,
           st \in {"follower", "candidate", "primary"}, TimersOK(t),
           CandidateTimerOK(st, t, Tail(ready)),
           RetryTimersOK(st, t, Tail(ready)),
           ~overtaking /\ st = "primary" => \A p \in Peer : t[p].wait = "AE"
    PROVE  TInv'
<1>1. /\ ready' = Tail(ready) /\ timer' = t /\ state' = st /\ Alive'
      /\ overtaking' = overtaking /\ ahead' \in BOOLEAN /\ ~ahead'
  BY DEF Become, Alive
<1>2. QueueOK(ready') /\ overtaking \in BOOLEAN
  BY <1>1, HandlerFacts
<1>3. ~overtaking => PromptOK(t, Tail(ready))
  BY HandlerFacts DEF PromptOK
<1>4. ~overtaking /\ st = "primary" => \A p \in Peer : HeartbeatOK(t, ready', p)
  BY DEF HeartbeatOK
<1>5. QED
  BY <1>1, <1>2, <1>3, <1>4 DEF TInv

LEMMA CandidateHandlerKeeps ==
    ASSUME TInv, candidate_handler
    PROVE  TInv'
<1> DEFINE h == Head(ready).handler
           r == Tail(ready)
<1>1. /\ Alive /\ ready # << >> /\ Head(ready).timer = "candidate" /\ ahead' = FALSE
  BY DEF candidate_handler
<1>2. Queued(ready, "candidate") /\ ItemOK(Head(ready))
  BY <1>1, HandlerFacts
<1>3. h \in CandidateHandler
  BY <1>1, <1>2, TimerNames DEF ItemOK
<1>4. ~AeQueued(ready) /\ ~AeQueued(r)
  BY <1>1, <1>2, HandlerFacts DEF RetryTimersOK
<1>5. CASE ~timer["candidate"].min
  <2> DEFINE w == hook(hook(cancel_all_timers(timer), {"candidate"}, "trans2C"),
                       Peer, "RV")
  <2>1. Become("candidate", {}, w, r)
    BY <1>5 DEF candidate_handler, trans2C
  <2>2. /\ TimersOK(w)
        /\ ~w["candidate"].min /\ hooked(w, "candidate")
        /\ \A p \in Peer : w[p].wait # "AE"
    BY <1>1, HandlerFacts, Trans2CTimers
  <2> HIDE DEF w, r, h
  <2>3. CandidateTimerOK("candidate", w, r)
    BY <2>2 DEF CandidateTimerOK
  <2>4. RetryTimersOK("candidate", w, r)
    BY <1>4, <2>2 DEF RetryTimersOK
  <2>5. QED
    BY <1>1, <2>1, <2>2, <2>3, <2>4, HandlerKeeps DEF r
<1>6. CASE timer["candidate"].min
  <2>1. overtaking
    BY <1>1, <1>6, HandlerFacts
  <2>2. CASE h = "run"
    <3>1. Become(state, granted, timer, r)
      BY <1>6, <2>2 DEF candidate_handler
    <3>2. state = "primary"
      BY <1>1, <1>6, HandlerFacts DEF CandidateTimerOK
    <3>3. CandidateTimerOK(state, timer, r)
      BY <1>6, <3>2 DEF CandidateTimerOK
    <3>4. RetryTimersOK(state, timer, r)
      BY <1>4, <3>2 DEF RetryTimersOK
    <3>5. QED
      BY <1>1, <2>1, <3>1, <3>3, <3>4, HandlerFacts, HandlerKeeps
  <2>3. CASE h = "trans2F"
    <3>1. Throw(160, r)
      BY <1>6, <2>3 DEF candidate_handler
    <3>2. 160 # 0
      OBVIOUS
    <3>3. QED
      BY <1>1, <2>1, <3>1, <3>2, ThrowKeeps
  <2>4. CASE h = "trans2C"
    <3>1. Throw(250, r)
      BY <1>6, <2>4 DEF candidate_handler
    <3>2. 250 # 0
      OBVIOUS
    <3>3. QED
      BY <1>1, <2>1, <3>1, <3>2, ThrowKeeps
  <2>5. QED
    BY <1>3, <2>2, <2>3, <2>4 DEF CandidateHandler
<1>7. QED
  BY <1>5, <1>6

LEMMA RvHandlerKeeps ==
    ASSUME TInv, rv_handler
    PROVE  TInv'
<1> DEFINE p == Head(ready).timer
           r == Tail(ready)
           w == RV(timer, p)
<1>1. Alive /\ ready # << >> /\ Head(ready).handler = "RV" /\ ahead' = FALSE
  BY DEF rv_handler
<1>2. /\ p \in Peer /\ p \in Timer /\ p # "candidate" /\ Queued(ready, p)
      /\ TimersOK(timer) /\ state \in {"follower", "candidate", "primary"}
  BY <1>1, HandlerFacts, TimerNames DEF ItemOK, CandidateHandler
<1>3. CASE timer[p].min
  <2>1. overtaking /\ Throw(399, r) /\ 399 # 0
    BY <1>1, <1>3, HandlerFacts DEF rv_handler
  <2>2. QED
    BY <1>1, <2>1, ThrowKeeps
<1>4. CASE ~timer[p].min
  <2>1. Become(state, granted, w, r)
    BY <1>4 DEF rv_handler
  <2>2. \/ w = hook(timer, {p}, "RV") /\ ~hooked(timer, p)
        \/ w = hook(timer, {p}, "none") /\ hooked(timer, p)
    BY DEF RV
  <2>3. TimersOK(w)
    <3>1. TimersOK(hook(timer, {p}, "RV")) /\ TimersOK(hook(timer, {p}, "none"))
      BY <1>2, HookKeeps DEF RetryHandler
    <3>2. QED
      BY <2>2, <3>1
  <2>4. \A k \in Timer : k # p => w[k] = timer[k]
    BY <2>2 DEF hook
  <2>5. w[p].wait # "AE"
    <3>1. w[p].wait = "RV" \/ w[p].wait = "none"
      BY <1>2, <2>2 DEF hook
    <3>2. QED
      BY <3>1
  <2>6. CandidateTimerOK(state, timer, ready) /\ RetryTimersOK(state, timer, ready)
    BY <1>1, HandlerFacts
  <2>7. /\ Queued(ready, "candidate") => Queued(r, "candidate")
        /\ Queued(r, "candidate") => Queued(ready, "candidate")
        /\ AeQueued(r) => AeQueued(ready)
    BY <1>1, <1>2, HandlerFacts
  <2>8. state # "follower"
    BY <1>2, <1>4, <2>6 DEF RetryTimersOK
  <2>9. ~overtaking => state # "primary"
    <3> SUFFICES ASSUME ~overtaking, state = "primary" PROVE FALSE
      OBVIOUS
    <3>1. HeartbeatOK(timer, ready, p)
      BY <1>1, <1>2 DEF TInv
    <3>2. ~hooked(timer, p) /\ \A i \in DOMAIN ready : ready[i] = Head(ready)
      BY <1>1, HandlerFacts
    <3>3. \A i \in DOMAIN ready : ready[i].handler = "RV"
      BY <1>1, <3>2
    <3>4. PICK i \in DOMAIN ready : ready[i] = [timer |-> p, handler |-> "AE"]
      BY <3>1, <3>2 DEF HeartbeatOK, hooked
    <3>5. ready[i].handler = "AE"
      BY <3>4
    <3>6. QED
      BY <3>3, <3>5
  <2> HIDE DEF w, r, p
  <2>10. w["candidate"] = timer["candidate"]
    BY <1>2, <2>4, TimerNames
  <2>11. CandidateTimerOK(state, w, r)
    BY <2>6, <2>7, <2>10 DEF CandidateTimerOK, hooked
  <2>12. \A k \in Peer : timer[k].wait # "AE" => w[k].wait # "AE"
    BY <2>4, <2>5, TimerNames
  <2>13. RetryTimersOK(state, w, r)
    BY <2>6, <2>7, <2>8, <2>12 DEF RetryTimersOK
  <2>14. QED
    BY <1>1, <1>2, <2>1, <2>3, <2>9, <2>11, <2>13, HandlerKeeps DEF r
<1>5. QED
  BY <1>3, <1>4

LEMMA AeHandlerKeeps ==
    ASSUME TInv, ae_handler
    PROVE  TInv'
<1> DEFINE p == Head(ready).timer
           r == Tail(ready)
           w == hook(timer, {p}, "AE")
<1>1. Alive /\ ready # << >> /\ Head(ready).handler = "AE" /\ ahead' = FALSE
  BY DEF ae_handler
<1>2. /\ p \in Peer /\ p \in Timer /\ p # "candidate" /\ Queued(ready, p)
      /\ AeQueued(ready)
      /\ TimersOK(timer) /\ state \in {"follower", "candidate", "primary"}
  BY <1>1, HandlerFacts, TimerNames DEF ItemOK, CandidateHandler
<1>3. CandidateTimerOK(state, timer, ready) /\ RetryTimersOK(state, timer, ready)
  BY <1>1, HandlerFacts
<1>4. /\ Queued(ready, "candidate") => Queued(r, "candidate")
      /\ Queued(r, "candidate") => Queued(ready, "candidate")
      /\ AeQueued(r) => AeQueued(ready)
      /\ \A k : Queued(r, k) => Queued(ready, k)
  BY <1>1, <1>2, HandlerFacts
<1>5. state # "candidate" /\ ~Queued(ready, "candidate")
  BY <1>2, <1>3 DEF RetryTimersOK
<1>6. CASE timer[p].min
  <2>1. overtaking /\ Become(state, granted, timer, r)
    BY <1>1, <1>6, HandlerFacts DEF ae_handler
  <2>2. CandidateTimerOK(state, timer, r)
    BY <1>3, <1>4 DEF CandidateTimerOK
  <2>3. RetryTimersOK(state, timer, r)
    BY <1>3, <1>4, <1>5 DEF RetryTimersOK
  <2>4. QED
    BY <1>1, <1>2, <2>1, <2>2, <2>3, HandlerKeeps
<1>7. CASE ~timer[p].min /\ hooked(timer, p)
  <2>1. overtaking /\ Throw(316, r) /\ 316 # 0
    BY <1>1, <1>7, HandlerFacts DEF ae_handler, AE
  <2>2. QED
    BY <1>1, <2>1, ThrowKeeps
<1>8. CASE ~timer[p].min /\ ~hooked(timer, p)
  <2>1. Become(state, granted, w, r)
    BY <1>8 DEF ae_handler, AE
  <2>2. TimersOK(w)
    BY <1>2, HookKeeps DEF RetryHandler
  <2>3. \A k \in Timer : k # p => w[k] = timer[k]
    BY DEF hook
  <2>4. w[p].wait = "AE"
    BY <1>2 DEF hook
  <2>5. state = "primary"
    BY <1>2, <1>3, <1>5, <1>8 DEF RetryTimersOK
  <2>6. ~overtaking => \A k \in Peer : w[k].wait = "AE"
    <3> SUFFICES ASSUME ~overtaking, NEW k \in Peer, k # p PROVE w[k].wait = "AE"
      BY <2>4
    <3>1. HeartbeatOK(timer, ready, k)
      BY <1>1, <2>5 DEF TInv
    <3>2. \A i \in DOMAIN ready : ready[i].timer = p
      BY <1>1, HandlerFacts
    <3>3. \A i \in DOMAIN ready : ready[i] # [timer |-> k, handler |-> "AE"]
      BY <3>2
    <3>4. timer[k].wait = "AE"
      BY <3>1, <3>3 DEF HeartbeatOK
    <3>5. QED
      BY <2>3, <3>4, TimerNames
  <2> HIDE DEF w, r, p
  <2>7. w["candidate"] = timer["candidate"]
    BY <1>2, <2>3, TimerNames
  <2>8. CandidateTimerOK(state, w, r)
    BY <1>3, <1>4, <2>7 DEF CandidateTimerOK, hooked
  <2>9. RetryTimersOK(state, w, r)
    BY <1>3, <1>4, <2>5 DEF RetryTimersOK
  <2>10. QED
    BY <1>1, <1>2, <2>1, <2>2, <2>6, <2>8, <2>9, HandlerKeeps DEF r
<1>9. QED
  BY <1>6, <1>7, <1>8

-----------------------------------------------------------------------------
(* Messages. *)

\* A message leaves the server in state st with timers t.  Handlers may be
\* queued behind it, but none if handlers are prompt.
LEMMA MessageKeeps ==
    ASSUME TInv, Receive, NEW st, NEW votes, NEW t, Become(st, votes, t, ready),
           st \in {"follower", "candidate", "primary"}, TimersOK(t),
           CandidateTimerOK(st, t, ready), RetryTimersOK(st, t, ready),
           ~overtaking /\ st = "primary" => \A p \in Peer : t[p].wait = "AE"
    PROVE  TInv'
<1>1. /\ ready' = ready /\ timer' = t /\ state' = st /\ Alive'
      /\ overtaking' = overtaking /\ ahead' = ahead
  BY DEF Become, Receive, Alive
<1>2. QueueOK(ready) /\ overtaking \in BOOLEAN /\ ahead \in BOOLEAN
  BY DEF TInv
<1>3. ~overtaking => ~ahead /\ PromptOK(t, ready)
  <2>1. ~overtaking => ~ahead /\ ready = << >>
    BY DEF TInv, Receive
  <2>2. ~overtaking => DOMAIN ready = {} /\ Len(ready) = 0
    BY <2>1
  <2>3. ~overtaking => PromptOK(t, ready)
    BY <2>2 DEF PromptOK
  <2>4. QED
    BY <2>1, <2>3
<1>4. ~overtaking /\ st = "primary" => \A p \in Peer : HeartbeatOK(t, ready, p)
  BY DEF HeartbeatOK
<1>5. QED
  BY <1>1, <1>2, <1>3, <1>4 DEF TInv

\* The invariant when a message arrives.
LEMMA MessageFacts ==
    ASSUME TInv, Receive
    PROVE  /\ TimersOK(timer) /\ QueueOK(ready)
           /\ CandidateTimerOK(state, timer, ready)
           /\ RetryTimersOK(state, timer, ready)
           /\ ~overtaking /\ state = "primary" => \A p \in Peer : timer[p].wait = "AE"
<1>1. /\ TimersOK(timer) /\ QueueOK(ready)
      /\ CandidateTimerOK(state, timer, ready)
      /\ RetryTimersOK(state, timer, ready)
  BY DEF TInv, Receive
<1>2. ASSUME ~overtaking, state = "primary", NEW p \in Peer
      PROVE  timer[p].wait = "AE"
  <2>1. HeartbeatOK(timer, ready, p) /\ ready = << >>
    BY <1>2 DEF TInv, Receive
  <2>2. QED
    BY <2>1 DEF HeartbeatOK
<1>3. QED
  BY <1>1, <1>2

LEMMA StepDownKeeps ==
    ASSUME TInv, StepDown
    PROVE  TInv'
<1> DEFINE w == hook(cancel_all_timers(timer), {"candidate"}, "trans2F")
<1>1. Receive /\ Become("follower", {}, w, ready)
  BY DEF StepDown, trans2F
<1>2. /\ TimersOK(w) /\ ~w["candidate"].min /\ hooked(w, "candidate")
      /\ \A p \in Peer : w[p].min /\ ~hooked(w, p)
  BY <1>1, MessageFacts, Trans2FTimers
<1> HIDE DEF w
<1>3. CandidateTimerOK("follower", w, ready)
  BY <1>2 DEF CandidateTimerOK
<1>4. RetryTimersOK("follower", w, ready)
  BY <1>1, <1>2, MessageFacts DEF RetryTimersOK
<1>5. QED
  BY <1>1, <1>2, <1>3, <1>4, MessageKeeps

LEMMA VoteGrantedKeeps ==
    ASSUME TInv, NEW p \in Peer, VoteGranted(p)
    PROVE  TInv'
<1> DEFINE votes == granted \cup {p}
           w == hook(cancel_all_timers(timer), Peer, "AE")
           x == expires_at_min(timer, {p})
<1>1. /\ Receive /\ state = "candidate"
      /\ \/ Become("primary", votes, w, ready)
         \/ Become(state, votes, x, ready)
  BY DEF VoteGranted, trans2P
<1>2. /\ TimersOK(timer) /\ CandidateTimerOK(state, timer, ready)
      /\ RetryTimersOK(state, timer, ready)
  BY <1>1, MessageFacts
<1>3. CASE Become("primary", votes, w, ready)
  <2>1. TimersOK(w) /\ w["candidate"].min /\ \A k \in Peer : w[k].wait = "AE"
    BY <1>2, Trans2PTimers
  <2> HIDE DEF w, votes
  <2>2. CandidateTimerOK("primary", w, ready)
    BY <2>1 DEF CandidateTimerOK
  <2>3. RetryTimersOK("primary", w, ready)
    BY <1>2 DEF RetryTimersOK
  <2>4. QED
    BY <1>1, <1>3, <2>1, <2>2, <2>3, MessageKeeps
<1>4. CASE Become(state, votes, x, ready)
  <2>1. TimersOK(x)
    BY <1>2, CancelKeeps
  <2>2. x["candidate"] = timer["candidate"]
    BY TimerNames DEF expires_at_min
  <2>3. \A k \in Peer : x[k].wait = "none" \/ x[k] = timer[k]
    BY TimerNames DEF expires_at_min
  <2> HIDE DEF x, votes
  <2>4. CandidateTimerOK("candidate", x, ready)
    BY <1>1, <1>2, <2>2 DEF CandidateTimerOK, hooked
  <2>5. RetryTimersOK("candidate", x, ready)
    BY <1>1, <1>2, <2>3 DEF RetryTimersOK
  <2>6. Become("candidate", votes, x, ready)
    BY <1>1, <1>4
  <2>7. QED
    BY <1>1, <2>1, <2>4, <2>5, <2>6, MessageKeeps
<1>5. QED
  BY <1>1, <1>3, <1>4

LEMMA NextAEKeeps ==
    ASSUME TInv, NEW p \in Peer, NextAE(p)
    PROVE  TInv'
<1> DEFINE x == expires_at_min(timer, {p})
           w == hook(x, {p}, "AE")
<1>1. Receive /\ state = "primary" /\ AE(x, p, ready)
  BY DEF NextAE
<1>2. /\ TimersOK(timer) /\ CandidateTimerOK(state, timer, ready)
      /\ RetryTimersOK(state, timer, ready)
      /\ ~overtaking => \A k \in Peer : timer[k].wait = "AE"
  BY <1>1, MessageFacts
<1>3. ~hooked(x, p)
  BY TimerNames, CancelledTimer DEF hooked
<1>4. Become(state, granted, w, ready)
  BY <1>1, <1>3 DEF AE
<1>5. TimersOK(w)
  <2>1. TimersOK(x)
    BY <1>2, CancelKeeps
  <2>2. QED
    BY <2>1, HookKeeps DEF RetryHandler
<1>6. w["candidate"] = timer["candidate"]
  BY TimerNames DEF hook, expires_at_min
<1>7. \A k \in Peer : w[k].wait = "AE" \/ w[k] = timer[k]
  BY TimerNames DEF hook, expires_at_min
<1> HIDE DEF w, x
<1>8. CandidateTimerOK("primary", w, ready)
  BY <1>1, <1>2, <1>6 DEF CandidateTimerOK
<1>9. RetryTimersOK("primary", w, ready)
  BY <1>1, <1>2 DEF RetryTimersOK
<1>10. ~overtaking => \A k \in Peer : w[k].wait = "AE"
  BY <1>2, <1>7
<1>11. Become("primary", granted, w, ready)
  BY <1>1, <1>4
<1>12. QED
  BY <1>1, <1>5, <1>8, <1>9, <1>10, <1>11, MessageKeeps

-----------------------------------------------------------------------------
(* The results. *)

LEMMA TInvInit == Init => TInv
<1> SUFFICES ASSUME Init PROVE TInv
  OBVIOUS
<1>1. /\ overtaking \in BOOLEAN /\ ahead \in BOOLEAN /\ state = "follower"
      /\ ready = << >> /\ Alive /\ ~ahead
  BY DEF Init, Alive
<1>2. /\ timer = [k \in Timer |->
                    [min |-> FALSE,
                     wait |-> IF k = "candidate" THEN "run" ELSE "none"]]
  BY DEF Init
<1>3. timer["candidate"] = [min |-> FALSE, wait |-> "run"]
  BY <1>2, TimerNames
<1>4. \A p \in Peer : timer[p] = [min |-> FALSE, wait |-> "none"]
  BY <1>2, TimerNames
<1>5. \A k \in Timer : /\ timer[k] \in [min : BOOLEAN, wait : Handler \cup {"none"}]
                       /\ ~timer[k].min
  <2>1. /\ [min |-> FALSE, wait |-> "run"] \in [min : BOOLEAN, wait : Handler \cup {"none"}]
        /\ [min |-> FALSE, wait |-> "none"] \in [min : BOOLEAN, wait : Handler \cup {"none"}]
    BY DEF Handler
  <2>2. QED
    BY <1>3, <1>4, <2>1 DEF Timer
<1>6. timer \in [Timer -> [min : BOOLEAN, wait : Handler \cup {"none"}]]
  BY <1>2, <1>5
<1>7. /\ timer["candidate"].wait = "run" /\ ~timer["candidate"].min
      /\ \A p \in Peer : timer[p].wait = "none"
  BY <1>3, <1>4
<1>8. TimersOK(timer)
  BY <1>5, <1>6, <1>7 DEF TimersOK, CandidateHandler
<1>9. QueueOK(ready) /\ DOMAIN ready = {} /\ Len(ready) = 0
  BY <1>1 DEF QueueOK
<1>10. CandidateTimerOK(state, timer, ready)
  BY <1>1, <1>7 DEF CandidateTimerOK, hooked
<1>11. RetryTimersOK(state, timer, ready)
  BY <1>1, <1>7, <1>9 DEF RetryTimersOK, hooked, Queued, AeQueued
<1>12. PromptOK(timer, ready)
  BY <1>9 DEF PromptOK
<1>13. QED
  BY <1>1, <1>8, <1>9, <1>10, <1>11, <1>12 DEF TInv

LEMMA TInvNext == TInv /\ [Next]_vars => TInv'
<1> SUFFICES ASSUME TInv, [Next]_vars PROVE TInv'
  OBVIOUS
<1>1. CASE UNCHANGED vars
  BY <1>1 DEF vars, TInv, Alive
<1>2. QED
  BY <1>1, ExpireKeeps, CandidateHandlerKeeps, RvHandlerKeeps, AeHandlerKeeps,
     StepDownKeeps, VoteGrantedKeeps, NextAEKeeps DEF Next

LEMMA TimersInvariance == Spec => []TInv
BY TInvInit, TInvNext, PTL DEF Spec

\* Whatever the number of peers, and however the handlers of a pass are
\* delayed and overtaken by messages, a server that is not primary has its
\* candidate timer running or the handler queued (run, trans2F, trans2C).
THEOREM ElectionStaysPending == Spec => []ElectionPending
<1>1. TInv => ElectionPending
  BY DEF TInv, ElectionPending, CandidateTimerOK, Queued
<1>2. QED
  BY <1>1, TimersInvariance, PTL

\* Whatever the number of peers, no late handler sets a timer that the
\* server's role does not have (cancel_all_timers and the tests for
\* min_date_time in the handlers).
THEOREM RolesHaveTheirTimers == Spec => []TimersFitRole
<1>1. TInv => TimersFitRole
  <2> SUFFICES ASSUME TInv, Alive PROVE TimersFitRole
    BY DEF TimersFitRole
  <2>1. state = "follower" => \A p \in Peer : ~hooked(timer, p)
    BY DEF TInv, RetryTimersOK
  <2>2. state = "candidate" => \A p \in Peer : timer[p].wait # "AE"
    BY DEF TInv, RetryTimersOK
  <2>3. state = "primary" => ~hooked(timer, "candidate")
    BY TimerNames DEF TInv, CandidateTimerOK, TimersOK
  <2>4. QED
    BY <2>1, <2>2, <2>3 DEF TimersFitRole
<1>2. QED
  BY <1>1, TimersInvariance, PTL

\* Whatever the number of peers, as long as no handler is overtaken no
\* assertion about timers fires and a primary's heartbeats go on, which is what
\* RaftServer.cpp:104 says of cancelled handlers.
THEOREM PromptHandlersAreSound == Spec => []PromptHandlersSound
<1>1. TInv => PromptHandlersSound
  BY DEF TInv, PromptHandlersSound, CancelledHandlersDoNothing, HeartbeatsKept,
         HeartbeatOK
<1>2. QED
  BY <1>1, TimersInvariance, PTL

=============================================================================
