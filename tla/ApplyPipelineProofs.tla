------------------------ MODULE ApplyPipelineProofs ------------------------
(***************************************************************************)
(* What ApplyPipeline promises, proved for any number of threads, clients, *)
(* keys and entries: it implements the safety part of CommandLog, its      *)
(* clients are told of their own commands, and while the map has not seen  *)
(* a data race queries are answered with what was applied last.            *)
(*                                                                         *)
(* The heart is HandoverOK: what was applied, what the write thread has in *)
(* hand and what waits in the queue of the write pool are together, and in *)
(* this order, the entries that were handed over.                          *)
(***************************************************************************)
EXTENDS ApplyPipeline, FiniteSetTheorems, TLAPS

writer == CHOOSE w \in Writer : TRUE

Answer == ApplyDone \cup QueryDone

\* The io thread is in the loop that hands entries over exactly while there
\* are some to hand over.
IoOK ==
    /\ io \in {"apply", "notify_write", "poll", "notify_read",
               "stop_read", "notify_all_read", "join_read",
               "stop_write", "notify_all_write", "join_write", "ended"}
    /\ io \in {"apply", "notify_write"} <=> applied_index < commit_index

\* The number of entries that were handed over.
Handed == IF io = "notify_write" THEN applied_index + 2 ELSE applied_index + 1

\* The task that the write thread has taken and not yet applied.
InHand == IF InMap(writer) THEN wtask[writer] ELSE << >>

\* The task for the n-th entry of the log es.
TaskFor(es, n) == [index |-> n - 1, entry |-> es[n]]

\* The entries done, the task in hand and the tasks in the queue are the first
\* n entries of the log es.
HandedOver(es, done, hand, queue, n) ==
    /\ done \in Seq(Entry)
    /\ \A j \in 1 .. Len(done) : done[j] = es[j]
    /\ hand = << >> \/ hand = <<TaskFor(es, Len(done) + 1)>>
    /\ queue \in Seq(WriteTask)
    /\ \A j \in 1 .. Len(queue) :
          queue[j] = TaskFor(es, Len(done) + Len(hand) + j)
    /\ Len(done) + Len(hand) + Len(queue) = n

HandoverOK == HandedOver(entries, applied, InHand, wtasks, Handed)

\* Only a thread that runs a task holds a result.
ResultsOK == \A t \in Thread : result[t] # << >> => task_of(t) # << >>

\* An answer that was posted or is about to be.
Given(r) ==
    \/ \E j \in DOMAIN posted : posted[j] = r
    \/ \E t \in Thread : \E j \in DOMAIN result[t] : result[t][j] = r

\* Whoever is on record for index i wanted v stored there, unless v came
\* from elsewhere.
OwnerOK(i, v) == i \in DOMAIN socketAddr => v \in {socketAddr[i], "elsewhere"}

\* An address belongs to its entry, and to what was applied of it.
AddressesOK ==
    /\ \A j \in 1 .. Len(entries) : OwnerOK(j - 1, entries[j].v)
    /\ \A r : Given(r) /\ r.type = "RESP_CLIENT_APPLY" =>
            r.index < Len(applied) /\ OwnerOK(r.index, r.of.v)

PInv == TypeOK /\ IoOK /\ HandoverOK /\ ResultsOK /\ AddressesOK

-----------------------------------------------------------------------------
(* What the map holds. *)

Maps == UNION {[ks -> Value \cup {"0"}] : ks \in SUBSET Key}

\* After the first n of the entries done key k has the value v.
HasValue(done, k, n, v) ==
    \/ v = "0" /\ \A j \in 1 .. n : done[j].key # k
    \/ \E j \in 1 .. n :
          /\ done[j].key = k /\ done[j].v = v
          /\ \A i \in 1 .. n : done[i].key = k => i <= j

\* While no race has spoilt the map, each key in it has the value that was
\* applied last, or 0, and no key that was applied is missing.
Holds(m, done) ==
    /\ \A k \in DOMAIN m : HasValue(done, k, Len(done), m[k])
    /\ \A j \in 1 .. Len(done) : done[j].key \in DOMAIN m

MapOK == ~raced => Holds(store, applied)

-----------------------------------------------------------------------------
(* Threads and pools. *)

LEMMA OneWriter ==
    /\ Writer = {writer} /\ writer \in Writer /\ writer \in Thread
    /\ \A t \in Reader : t \notin Writer /\ t # writer /\ t \in Thread
<1>1. PICK w : Writer = {w}
  BY PoolAssumption, FS_Singleton
<1>2. writer = w
  BY <1>1 DEF writer
<1>3. QED
  BY <1>1, <1>2, PoolAssumption DEF Thread

\* Either pool: ts are its tasks, wk its workers, a where they are and h what
\* they hold.
PoolOK(wk, tk, ts, st, a, h) ==
    /\ ts \in Seq(tk)
    /\ st \in BOOLEAN
    /\ a \in [wk -> {"lock", "wait", "run", "returned"}]
    /\ h \in [wk -> Seq(tk)]
    /\ \A w \in wk : Len(h[w]) = IF a[w] = "run" THEN 1 ELSE 0

WritePoolOK == PoolOK(Writer, WriteTask, wtasks, wstop, wat, wtask)
ReadPoolOK == PoolOK(Reader, Query, rtasks, rstop, rat, rtask)

LEMMA PoolTypes ==
    /\ Write!TypeOK <=> WritePoolOK
    /\ Read!TypeOK <=> ReadPoolOK
BY DEF Write!TypeOK, Read!TypeOK, WritePoolOK, ReadPoolOK, PoolOK

\* Who does not run a task goes somewhere else, still without one.
LEMMA PoolMoves ==
    ASSUME NEW wk, NEW tk, NEW ts, NEW st, NEW a, NEW h,
           PoolOK(wk, tk, ts, st, a, h),
           NEW w \in wk, a[w] # "run", NEW b,
           NEW x \in {"lock", "wait", "returned"}, b = [a EXCEPT ![w] = x]
    PROVE  PoolOK(wk, tk, ts, st, b, h)
BY DEF PoolOK

LEMMA PoolWakes ==
    ASSUME NEW wk, NEW tk, NEW ts, NEW st, NEW a, NEW h,
           PoolOK(wk, tk, ts, st, a, h), NEW b,
           b = [w \in wk |-> IF a[w] = "wait" THEN "lock" ELSE a[w]]
    PROVE  PoolOK(wk, tk, ts, st, b, h)
BY DEF PoolOK

LEMMA PoolGrows ==
    ASSUME NEW wk, NEW tk, NEW ts, NEW st, NEW a, NEW h,
           PoolOK(wk, tk, ts, st, a, h), NEW t \in tk
    PROVE  PoolOK(wk, tk, Append(ts, t), st, a, h)
BY DEF PoolOK

LEMMA PoolStops ==
    ASSUME NEW wk, NEW tk, NEW ts, NEW st, NEW a, NEW h,
           PoolOK(wk, tk, ts, st, a, h)
    PROVE  PoolOK(wk, tk, ts, TRUE, a, h)
BY DEF PoolOK

LEMMA PoolTakes ==
    ASSUME NEW wk, NEW tk, NEW ts, NEW st, NEW a, NEW h,
           PoolOK(wk, tk, ts, st, a, h),
           NEW w \in wk, ts # << >>,
           NEW b, b = [a EXCEPT ![w] = "run"],
           NEW g, g = [h EXCEPT ![w] = <<Head(ts)>>]
    PROVE  PoolOK(wk, tk, Tail(ts), st, b, g)
<1>1. /\ ts \in Seq(tk) /\ st \in BOOLEAN
      /\ a \in [wk -> {"lock", "wait", "run", "returned"}]
      /\ h \in [wk -> Seq(tk)]
      /\ \A v \in wk : Len(h[v]) = IF a[v] = "run" THEN 1 ELSE 0
  BY DEF PoolOK
<1>2. Head(ts) \in tk /\ Tail(ts) \in Seq(tk)
  BY <1>1
<1>3. <<Head(ts)>> \in Seq(tk) /\ Len(<<Head(ts)>>) = 1
  BY <1>2
<1>4. g \in [wk -> Seq(tk)] /\ b \in [wk -> {"lock", "wait", "run", "returned"}]
  BY <1>1, <1>3
<1>5. ASSUME NEW v \in wk PROVE Len(g[v]) = IF b[v] = "run" THEN 1 ELSE 0
  <2>1. CASE v = w
    BY <1>1, <1>3, <2>1
  <2>2. CASE v # w
    BY <1>1, <2>2
  <2>3. QED
    BY <2>1, <2>2
<1>6. QED
  BY <1>1, <1>2, <1>4, <1>5 DEF PoolOK

LEMMA PoolEnds ==
    ASSUME NEW wk, NEW tk, NEW ts, NEW st, NEW a, NEW h,
           PoolOK(wk, tk, ts, st, a, h), NEW w \in wk,
           NEW b, b = [a EXCEPT ![w] = "lock"],
           NEW g, g = [h EXCEPT ![w] = << >>]
    PROVE  PoolOK(wk, tk, ts, st, b, g)
<1>1. /\ ts \in Seq(tk) /\ st \in BOOLEAN
      /\ a \in [wk -> {"lock", "wait", "run", "returned"}]
      /\ h \in [wk -> Seq(tk)]
      /\ \A v \in wk : Len(h[v]) = IF a[v] = "run" THEN 1 ELSE 0
  BY DEF PoolOK
<1>2. << >> \in Seq(tk) /\ Len(<< >>) = 0
  OBVIOUS
<1>3. g \in [wk -> Seq(tk)] /\ b \in [wk -> {"lock", "wait", "run", "returned"}]
  BY <1>1, <1>2
<1>4. ASSUME NEW v \in wk PROVE Len(g[v]) = IF b[v] = "run" THEN 1 ELSE 0
  <2>1. CASE v = w
    BY <1>1, <1>2, <2>1
  <2>2. CASE v # w
    BY <1>1, <2>2
  <2>3. QED
    BY <2>1, <2>2
<1>5. QED
  BY <1>1, <1>3, <1>4 DEF PoolOK

\* A worker that runs no task holds none.
LEMMA PoolHolds ==
    ASSUME NEW wk, NEW tk, NEW ts, NEW st, NEW a, NEW h,
           PoolOK(wk, tk, ts, st, a, h), NEW w \in wk
    PROVE  /\ a[w] # "run" => h[w] = << >>
           /\ h[w] # << >> => a[w] = "run" /\ h[w] = <<h[w][1]>> /\ h[w][1] \in tk
           /\ h[w] \in Seq(tk) /\ Len(h[w]) <= 1
<1>1. h[w] \in Seq(tk) /\ Len(h[w]) = IF a[w] = "run" THEN 1 ELSE 0
  BY DEF PoolOK
<1>2. a[w] # "run" => h[w] = << >>
  BY <1>1
<1>3. Len(h[w]) <= 1
  BY <1>1
<1>4. ASSUME h[w] # << >>
      PROVE  a[w] = "run" /\ h[w] = <<h[w][1]>> /\ h[w][1] \in tk
  <2>1. a[w] = "run" /\ Len(h[w]) = 1
    BY <1>1, <1>4
  <2>2. QED
    BY <1>1, <2>1
<1>5. QED
  BY <1>1, <1>2, <1>3, <1>4

\* The steps of a pool that move no task.
LEMMA WritePoolIdles ==
    ASSUME WritePoolOK,
           \/ \E w \in Writer : Write!wait(w) \/ Write!wake(w) \/ Write!return(w)
           \/ Write!notify_one \/ Write!notify_all \/ Write!set_stop
           \/ UNCHANGED write_pool
    PROVE  WritePoolOK' /\ UNCHANGED <<wtasks, wtask>>
<1>1. ASSUME NEW w \in Writer, Write!wait(w) \/ Write!wake(w) \/ Write!return(w)
      PROVE  WritePoolOK' /\ UNCHANGED <<wtasks, wtask>>
  <2>1. /\ UNCHANGED <<wtasks, wstop, wtask>> /\ wat[w] # "run"
        /\ \E x \in {"lock", "wait", "returned"} : wat' = [wat EXCEPT ![w] = x]
    BY <1>1 DEF Write!wait, Write!wake, Write!return
  <2>2. QED
    BY <2>1, PoolMoves DEF WritePoolOK
<1>2. CASE UNCHANGED write_pool
  BY <1>2 DEF WritePoolOK, write_pool
<1>3. CASE Write!notify_one
  BY <1>1, <1>2, <1>3 DEF Write!notify_one, Write!pool, write_pool
<1>4. CASE Write!notify_all
  BY <1>4, PoolWakes DEF WritePoolOK, Write!notify_all
<1>5. CASE Write!set_stop
  <2>1. wstop' = TRUE /\ UNCHANGED <<wtasks, wat, wtask>>
    BY <1>5 DEF Write!set_stop
  <2>2. QED
    BY <2>1, PoolStops DEF WritePoolOK
<1>6. QED
  BY <1>1, <1>2, <1>3, <1>4, <1>5

LEMMA ReadPoolIdles ==
    ASSUME ReadPoolOK,
           \/ \E w \in Reader : Read!wait(w) \/ Read!wake(w) \/ Read!return(w)
           \/ Read!notify_one \/ Read!notify_all \/ Read!set_stop
           \/ UNCHANGED read_pool
    PROVE  ReadPoolOK' /\ UNCHANGED <<rtasks, rtask>>
<1>1. ASSUME NEW w \in Reader, Read!wait(w) \/ Read!wake(w) \/ Read!return(w)
      PROVE  ReadPoolOK' /\ UNCHANGED <<rtasks, rtask>>
  <2>1. /\ UNCHANGED <<rtasks, rstop, rtask>> /\ rat[w] # "run"
        /\ \E x \in {"lock", "wait", "returned"} : rat' = [rat EXCEPT ![w] = x]
    BY <1>1 DEF Read!wait, Read!wake, Read!return
  <2>2. QED
    BY <2>1, PoolMoves DEF ReadPoolOK
<1>2. CASE UNCHANGED read_pool
  BY <1>2 DEF ReadPoolOK, read_pool
<1>3. CASE Read!notify_one
  BY <1>1, <1>2, <1>3 DEF Read!notify_one, Read!pool, read_pool
<1>4. CASE Read!notify_all
  BY <1>4, PoolWakes DEF ReadPoolOK, Read!notify_all
<1>5. CASE Read!set_stop
  <2>1. rstop' = TRUE /\ UNCHANGED <<rtasks, rat, rtask>>
    BY <1>5 DEF Read!set_stop
  <2>2. QED
    BY <2>1, PoolStops DEF ReadPoolOK
<1>6. QED
  BY <1>1, <1>2, <1>3, <1>4, <1>5

-----------------------------------------------------------------------------
(* What the invariant says of the log and the threads. *)

LEMMA LogFacts ==
    ASSUME PInv
    PROVE  /\ entries \in Seq(Entry) /\ Len(entries) \in Nat
           /\ commit_index \in Int /\ commit_index >= -1
           /\ commit_index < Len(entries)
           /\ applied_index \in Int /\ applied_index >= -1
           /\ applied_index < Len(entries)
           /\ handed_over \in Int /\ handed_over >= -1
           /\ handed_over < Len(entries)
           /\ commit_index <= handed_over /\ applied_index <= handed_over
<1>1. /\ entries \in Seq(Entry)
      /\ commit_index \in -1 .. Len(entries) - 1
      /\ applied_index \in -1 .. Len(entries) - 1
  BY DEF PInv, TypeOK
<1>2. Len(entries) \in Nat
  BY <1>1
<1>3. /\ commit_index \in Int /\ commit_index >= -1 /\ commit_index < Len(entries)
      /\ applied_index \in Int /\ applied_index >= -1 /\ applied_index < Len(entries)
  BY <1>1, <1>2
<1>4. QED
  BY <1>1, <1>2, <1>3 DEF handed_over

\* Everything that was taken and applied had been handed over, and everything
\* that was handed over is committed.
LEMMA HandedFits ==
    ASSUME PInv
    PROVE  /\ Len(applied) \in Nat /\ Len(wtasks) \in Nat /\ Len(InHand) \in Nat
           /\ Len(applied) + Len(InHand) + Len(wtasks) = Handed
           /\ Handed \in Nat /\ Handed <= handed_over + 1
           /\ Len(applied) <= handed_over + 1
           /\ applied \in Seq(Entry) /\ wtasks \in Seq(WriteTask)
<1>1. /\ applied \in Seq(Entry) /\ wtasks \in Seq(WriteTask)
      /\ Len(applied) + Len(InHand) + Len(wtasks) = Handed
      /\ Len(InHand) = 0 \/ Len(InHand) = 1
  BY DEF PInv, HandoverOK, HandedOver
<1>2. Len(applied) \in Nat /\ Len(wtasks) \in Nat /\ Len(InHand) \in Nat
  BY <1>1
<1>3. Handed <= handed_over + 1
  <2>1. CASE io = "notify_write"
    <3>1. applied_index < commit_index
      BY <2>1 DEF PInv, IoOK
    <3>2. Handed = applied_index + 2
      BY <2>1 DEF Handed
    <3>3. QED
      BY <3>1, <3>2, LogFacts
  <2>2. CASE io # "notify_write"
    <3>1. Handed = applied_index + 1
      BY <2>2 DEF Handed
    <3>2. QED
      BY <3>1, LogFacts
  <2>3. QED
    BY <2>1, <2>2
<1>4. Handed \in Nat /\ Len(applied) <= Handed
  BY <1>1, <1>2
<1>5. Len(applied) <= handed_over + 1
  BY <1>2, <1>3, <1>4, LogFacts
<1>6. QED
  BY <1>1, <1>2, <1>3, <1>4, <1>5

LEMMA ThreadFacts ==
    ASSUME PInv
    PROVE  /\ WritePoolOK /\ ReadPoolOK
           /\ result \in [Thread -> Seq(Answer)]
           /\ posted \in Seq(Answer) /\ asking \in SUBSET Asker
           /\ store \in Maps /\ raced \in BOOLEAN
           /\ state \in {"follower", "primary"}
           /\ \A t \in Writer : task_of(t) = wtask[t]
           /\ \A t \in Reader : task_of(t) = rtask[t]
BY PoolTypes, OneWriter DEF PInv, TypeOK, Answer, Maps, task_of

-----------------------------------------------------------------------------
(* Steps that leave log, tasks, results and map alone. *)

Quiet ==
    UNCHANGED <<entries, wtasks, wtask, rtasks, rtask, posted, store, raced,
                result, applied>>

LEMMA GivenSame ==
    ASSUME UNCHANGED <<posted, result>>, NEW r
    PROVE  Given(r)' <=> Given(r)
BY DEF Given

\* A step that neither changes the log nor moves a task of the write pool, and
\* gives no answer to a command.
LEMMA TasksKeep ==
    ASSUME PInv, UNCHANGED <<entries, wtasks, applied>>, InHand' = InHand,
           IoOK', Handed' = Handed,
           state' \in {"follower", "primary"}, asking' \in SUBSET Asker,
           commit_index' \in -1 .. Len(entries) - 1,
           applied_index' \in -1 .. Len(entries) - 1,
           WritePoolOK', ReadPoolOK', posted' \in Seq(Answer),
           result' \in [Thread -> Seq(Answer)], store' \in Maps /\ raced' \in BOOLEAN, ResultsOK',
           socketAddr' = socketAddr \/ socketAddr' = << >>,
           \A r : Given(r)' /\ r.type = "RESP_CLIENT_APPLY" => Given(r)
    PROVE  PInv'
<1>1. TypeOK'
  <2>1. Write!TypeOK' /\ Read!TypeOK'
    BY PoolTypes, PTL
  <2>2. entries' \in Seq(Entry)
    BY DEF PInv, TypeOK
  <2>3. QED
    BY <2>1, <2>2 DEF TypeOK, Answer, Maps
<1>2. HandoverOK'
  BY DEF PInv, HandoverOK
<1>3. AddressesOK'
  <2>1. \A i, v : OwnerOK(i, v) => OwnerOK(i, v)'
    BY DEF OwnerOK
  <2>2. QED
    BY <2>1 DEF PInv, AddressesOK
<1>4. QED
  BY <1>1, <1>2, <1>3 DEF PInv

LEMMA QuietKeeps ==
    ASSUME PInv, Quiet, IoOK', Handed' = Handed,
           state' \in {"follower", "primary"}, asking' \in SUBSET Asker,
           commit_index' \in -1 .. Len(entries) - 1,
           applied_index' \in -1 .. Len(entries) - 1,
           WritePoolOK', ReadPoolOK',
           socketAddr' = socketAddr \/ socketAddr' = << >>
    PROVE  PInv'
<1>1. UNCHANGED <<entries, wtasks, wtask, rtasks, rtask, posted, store, raced,
                  result, applied>>
  BY DEF Quiet
<1>2. InHand' = InHand
  BY <1>1 DEF InHand, InMap, task_of
<1>3. ResultsOK'
  BY <1>1 DEF PInv, ResultsOK, task_of
<1>4. /\ posted' \in Seq(Answer) /\ result' \in [Thread -> Seq(Answer)]
      /\ store' \in Maps /\ raced' \in BOOLEAN
  BY <1>1, ThreadFacts
<1>5. \A r : Given(r)' => Given(r)
  BY <1>1, GivenSame
<1>6. QED
  BY <1>1, <1>2, <1>3, <1>4, <1>5, TasksKeep

\* The io thread goes on outside the loop.
LEMMA IoOutside ==
    ASSUME PInv, UNCHANGED controler, io \notin {"apply", "notify_write"},
           io' \in {"poll", "notify_read", "stop_read", "notify_all_read",
                    "join_read", "stop_write", "notify_all_write", "join_write",
                    "ended"}
    PROVE  IoOK' /\ Handed' = Handed
BY DEF PInv, IoOK, Handed, controler

LEMMA IoSame ==
    ASSUME PInv, UNCHANGED <<controler, io>>
    PROVE  IoOK' /\ Handed' = Handed
BY DEF PInv, IoOK, Handed, controler

\* Both pools, of which none moves a task.
PoolsIdle == WritePoolOK' /\ ReadPoolOK' /\ UNCHANGED <<wtasks, wtask, rtasks, rtask>>

LEMMA PoolsIdleSame ==
    ASSUME PInv, UNCHANGED <<write_pool, read_pool>>
    PROVE  PoolsIdle
BY ThreadFacts, WritePoolIdles, ReadPoolIdles DEF PoolsIdle

\* The same, of the controler.
LEMMA IdleKeeps ==
    ASSUME PInv, PoolsIdle, IoOK', Handed' = Handed,
           UNCHANGED <<state, entries, controler, posted, machine, asking>>,
           socketAddr' = socketAddr \/ socketAddr' = << >>
    PROVE  PInv' /\ Quiet
<1>1. Quiet
  BY DEF Quiet, machine, PoolsIdle
<1>2. /\ state' \in {"follower", "primary"} /\ asking' \in SUBSET Asker
      /\ commit_index' \in -1 .. Len(entries) - 1
      /\ applied_index' \in -1 .. Len(entries) - 1
  BY DEF PInv, TypeOK, controler
<1>3. QED
  BY <1>1, <1>2, QuietKeeps DEF PoolsIdle

LEMMA PrimaryKeeps ==
    ASSUME PInv, trans2P
    PROVE  PInv' /\ Quiet
<1>1. /\ UNCHANGED <<entries, socketAddr, controler, io, posted, write_pool,
                     read_pool, machine, asking>>
      /\ state' = "primary"
  BY DEF trans2P
<1>2. Quiet
  BY <1>1 DEF Quiet, machine, write_pool, read_pool
<1>3. IoOK' /\ Handed' = Handed /\ PoolsIdle
  BY <1>1, IoSame, PoolsIdleSame
<1>4. /\ asking' \in SUBSET Asker
      /\ commit_index' \in -1 .. Len(entries) - 1
      /\ applied_index' \in -1 .. Len(entries) - 1
  BY <1>1 DEF PInv, TypeOK, controler
<1>5. QED
  BY <1>1, <1>2, <1>3, <1>4, QuietKeeps DEF PoolsIdle

LEMMA CommitKeeps ==
    ASSUME PInv, NEW n, update_commit_index_and_apply(n)
    PROVE  PInv' /\ Quiet
<1>1. /\ io = "poll" /\ commit_index' = n /\ n \in -1 .. Len(entries) - 1
      /\ io' = IF applied_index < n THEN "apply" ELSE "poll"
      /\ UNCHANGED <<log, applied_index, posted, write_pool, read_pool, machine,
                     asking>>
  BY DEF update_commit_index_and_apply, passes
<1>2. Quiet
  BY <1>1 DEF Quiet, machine, write_pool, read_pool, log
<1>3. IoOK' /\ Handed' = Handed
  BY <1>1 DEF IoOK, Handed
<1>4. PoolsIdle
  BY <1>1, PoolsIdleSame
<1>5. /\ asking' \in SUBSET Asker /\ state' \in {"follower", "primary"}
      /\ commit_index' \in -1 .. Len(entries) - 1
      /\ applied_index' \in -1 .. Len(entries) - 1
      /\ socketAddr' = socketAddr
  BY <1>1 DEF PInv, TypeOK, log
<1>6. QED
  BY <1>2, <1>3, <1>4, <1>5, QuietKeeps DEF PoolsIdle

LEMMA NotifyWriteKeeps ==
    ASSUME PInv, notify_write
    PROVE  PInv' /\ Quiet
<1>1. /\ io = "notify_write" /\ applied_index' = applied_index + 1
      /\ io' = IF applied_index' < commit_index THEN "apply" ELSE "poll"
      /\ Write!notify_one
      /\ UNCHANGED <<log, commit_index, posted, read_pool, machine, asking>>
  BY DEF notify_write
<1>2. PoolsIdle
  BY <1>1, ThreadFacts, WritePoolIdles, ReadPoolIdles DEF PoolsIdle
<1>3. Quiet
  BY <1>1, <1>2 DEF Quiet, machine, log, PoolsIdle
<1>4. IoOK'
  <2>1. commit_index' = commit_index
    BY <1>1
  <2>2. QED
    BY <1>1, <2>1 DEF IoOK
<1>5. Handed' = Handed
  <2>1. Handed = applied_index + 2 /\ Handed' = (applied_index + 1) + 1
    BY <1>1 DEF Handed
  <2>2. QED
    BY <2>1, LogFacts
<1>6. applied_index' \in -1 .. Len(entries) - 1
  <2>1. applied_index < commit_index
    BY <1>1 DEF PInv, IoOK
  <2>2. QED
    BY <1>1, <2>1, LogFacts
<1>7. /\ asking' \in SUBSET Asker /\ state' \in {"follower", "primary"}
      /\ commit_index' \in -1 .. Len(entries) - 1 /\ socketAddr' = socketAddr
  BY <1>1 DEF PInv, TypeOK, log
<1>8. QED
  BY <1>2, <1>3, <1>4, <1>5, <1>6, <1>7, QuietKeeps DEF PoolsIdle

LEMMA NotifyReadKeeps ==
    ASSUME PInv, notify_read
    PROVE  PInv' /\ Quiet
<1>1. /\ io = "notify_read" /\ io' = "poll" /\ Read!notify_one
      /\ UNCHANGED <<log, controler, posted, write_pool, machine, asking>>
  BY DEF notify_read
<1>2. PoolsIdle
  BY <1>1, ThreadFacts, WritePoolIdles, ReadPoolIdles DEF PoolsIdle
<1>3. QED
  BY <1>1, <1>2, IoOutside, IdleKeeps DEF log

LEMMA ThrowLineKeeps ==
    ASSUME PInv, throw_line
    PROVE  PInv'
<1>1. /\ io = "poll" /\ io' = "stop_read" /\ socketAddr' = << >>
      /\ posted' = << >>
      /\ UNCHANGED <<state, entries, controler, write_pool, read_pool, machine,
                     asking>>
  BY DEF throw_line
<1>2. UNCHANGED <<wtasks, wtask, rtasks, rtask, store, raced, result, applied>>
  BY <1>1 DEF write_pool, read_pool, machine
<1>3. WritePoolOK' /\ ReadPoolOK'
  BY <1>1, PoolsIdleSame DEF PoolsIdle
<1>4. InHand' = InHand
  BY <1>2 DEF InHand, InMap, task_of
<1>5. ResultsOK'
  BY <1>2 DEF PInv, ResultsOK, task_of
<1>6. IoOK' /\ Handed' = Handed
  BY <1>1, IoOutside
<1>7. \A r : Given(r)' => Given(r)
  BY <1>1, <1>2 DEF Given
<1>8. /\ posted' \in Seq(Answer) /\ result' \in [Thread -> Seq(Answer)]
      /\ store' \in Maps /\ raced' \in BOOLEAN /\ asking' \in SUBSET Asker
      /\ state' \in {"follower", "primary"}
  BY <1>1, <1>2, ThreadFacts
<1>9. /\ commit_index' \in -1 .. Len(entries) - 1
      /\ applied_index' \in -1 .. Len(entries) - 1
  BY <1>1 DEF PInv, TypeOK, controler
<1>10. QED
  BY <1>1, <1>2, <1>3, <1>4, <1>5, <1>6, <1>7, <1>8, <1>9, TasksKeep

LEMMA DestroyReadKeeps ==
    ASSUME PInv, destroy_read_pool
    PROVE  PInv' /\ Quiet
<1>1. /\ UNCHANGED <<log, controler, posted, write_pool, machine, asking>>
      /\ \/ io = "stop_read" /\ Read!set_stop /\ io' = "notify_all_read"
         \/ io = "notify_all_read" /\ Read!notify_all /\ io' = "join_read"
         \/ io = "join_read" /\ io' = "stop_write" /\ UNCHANGED read_pool
  BY DEF destroy_read_pool
<1>2. PoolsIdle
  BY <1>1, ThreadFacts, WritePoolIdles, ReadPoolIdles DEF PoolsIdle
<1>3. IoOK' /\ Handed' = Handed
  BY <1>1, IoOutside
<1>4. QED
  BY <1>1, <1>2, <1>3, IdleKeeps DEF log

LEMMA DestroyWriteKeeps ==
    ASSUME PInv, destroy_write_pool
    PROVE  PInv' /\ Quiet
<1>1. /\ UNCHANGED <<log, controler, posted, read_pool, machine, asking>>
      /\ \/ io = "stop_write" /\ Write!set_stop /\ io' = "notify_all_write"
         \/ io = "notify_all_write" /\ Write!notify_all /\ io' = "join_write"
         \/ io = "join_write" /\ io' = "ended" /\ UNCHANGED write_pool
  BY DEF destroy_write_pool
<1>2. PoolsIdle
  BY <1>1, ThreadFacts, WritePoolIdles, ReadPoolIdles DEF PoolsIdle
<1>3. IoOK' /\ Handed' = Handed
  BY <1>1, IoOutside
<1>4. QED
  BY <1>1, <1>2, <1>3, IdleKeeps DEF log

\* A worker begins or ends to wait, or returns.
LEMMA WorkerIdleKeeps ==
    ASSUME PInv,
           UNCHANGED <<log, controler, io, posted, machine, asking>>,
           \/ /\ \E t \in Writer : Write!wait(t) \/ Write!return(t) \/ Write!wake(t)
              /\ UNCHANGED read_pool
           \/ /\ \E t \in Reader : Read!wait(t) \/ Read!return(t) \/ Read!wake(t)
              /\ UNCHANGED write_pool
    PROVE  PInv' /\ Quiet
<1>1. PoolsIdle
  BY ThreadFacts, WritePoolIdles, ReadPoolIdles DEF PoolsIdle
<1>2. QED
  BY <1>1, IoSame, IdleKeeps DEF log

-----------------------------------------------------------------------------
(* Steps that change the log. *)

LEMMA GivenTypes ==
    ASSUME PInv, NEW r, Given(r)
    PROVE  /\ r \in Answer
           /\ r.type = "RESP_CLIENT_APPLY" => r \in ApplyDone /\ r.index \in Nat
<1>1. r \in Answer
  BY ThreadFacts DEF Given
<1>2. QED
  BY <1>1 DEF Answer, ApplyDone, QueryDone

\* Only the entries that were handed over matter.
LEMMA OtherLog ==
    ASSUME NEW es, NEW done, NEW hand, NEW queue, NEW n \in Nat,
           HandedOver(es, done, hand, queue, n),
           NEW fs, \A j \in 1 .. n : fs[j] = es[j]
    PROVE  HandedOver(fs, done, hand, queue, n)
<1>1. /\ done \in Seq(Entry) /\ queue \in Seq(WriteTask)
      /\ Len(done) + Len(hand) + Len(queue) = n
      /\ Len(hand) = 0 \/ Len(hand) = 1
  BY DEF HandedOver
<1>2. Len(done) \in Nat /\ Len(queue) \in Nat /\ Len(hand) \in Nat
  BY <1>1
<1>3. \A j \in 1 .. n : TaskFor(fs, j) = TaskFor(es, j)
  BY DEF TaskFor
<1>4. \A j \in 1 .. Len(done) : j \in 1 .. n
  BY <1>1, <1>2
<1>5. \A j \in 1 .. Len(queue) : Len(done) + Len(hand) + j \in 1 .. n
  BY <1>1, <1>2
<1>6. hand # << >> => hand = <<TaskFor(fs, Len(done) + 1)>>
  <2>1. hand # << >> => hand = <<TaskFor(es, Len(done) + 1)>>
    BY DEF HandedOver
  <2>2. hand # << >> => Len(hand) = 1
    BY <2>1
  <2>3. hand # << >> => Len(done) + 1 \in 1 .. n
    BY <1>1, <1>2, <2>2
  <2>4. QED
    BY <1>3, <2>1, <2>3
<1>7. \A j \in 1 .. Len(queue) : queue[j] = TaskFor(fs, Len(done) + Len(hand) + j)
  BY <1>3, <1>5 DEF HandedOver
<1>8. \A j \in 1 .. Len(done) : done[j] = fs[j]
  BY <1>4 DEF HandedOver
<1>9. QED
  BY <1>1, <1>6, <1>7, <1>8 DEF HandedOver

\* An entry is added, or one that was not handed over is replaced; the rest of
\* the server stays as it is.
LogOnly ==
    /\ entries' \in Seq(Entry) /\ Len(entries') >= handed_over + 1
    /\ \A j \in 1 .. handed_over + 1 : entries'[j] = entries[j]
    /\ UNCHANGED <<controler, io, posted, write_pool, read_pool, machine, asking>>

LEMMA LogKeeps ==
    ASSUME PInv, LogOnly, state' \in {"follower", "primary"},
           \A j \in 1 .. Len(entries') : OwnerOK(j - 1, entries[j].v)',
           \A i \in Nat : i # Len(entries) =>
              (i \in DOMAIN socketAddr' =>
                 i \in DOMAIN socketAddr /\ socketAddr'[i] = socketAddr[i])
    PROVE  PInv'
<1>0. /\ entries' \in Seq(Entry) /\ Len(entries') >= handed_over + 1
      /\ \A j \in 1 .. handed_over + 1 : entries'[j] = entries[j]
      /\ UNCHANGED <<controler, io, posted, write_pool, read_pool, machine, asking>>
  BY DEF LogOnly
<1>1. /\ UNCHANGED <<commit_index, applied_index, io, posted, asking>>
      /\ UNCHANGED <<wtasks, wstop, wat, wtask, rtasks, rstop, rat, rtask>>
      /\ UNCHANGED <<store, raced, result, applied>>
  BY <1>0 DEF controler, write_pool, read_pool, machine
<1>2. IoOK' /\ Handed' = Handed
  BY <1>0, IoSame
<1>3. WritePoolOK' /\ ReadPoolOK'
  BY <1>0, PoolsIdleSame DEF PoolsIdle
<1>4. TypeOK'
  <2>1. Write!TypeOK' /\ Read!TypeOK'
    BY <1>3, PoolTypes, PTL
  <2>2. Len(entries') \in Nat
    BY <1>0
  <2>3. /\ commit_index' \in -1 .. Len(entries') - 1
        /\ applied_index' \in -1 .. Len(entries') - 1
    BY <1>0, <1>1, <2>2, LogFacts
  <2>4. QED
    BY <1>0, <1>1, <2>1, <2>3 DEF PInv, TypeOK
<1>5. HandoverOK'
  <2>1. InHand' = InHand
    BY <1>1 DEF InHand, InMap, task_of
  <2>2. \A j \in 1 .. Handed : j \in 1 .. handed_over + 1
    BY HandedFits, LogFacts
  <2>3. HandedOver(entries', applied, InHand, wtasks, Handed)
    BY <1>0, <2>2, HandedFits, OtherLog DEF PInv, HandoverOK
  <2>4. QED
    BY <1>1, <1>2, <2>1, <2>3 DEF HandoverOK
<1>6. ResultsOK'
  BY <1>1 DEF PInv, ResultsOK, task_of
<1>7. AddressesOK'
  <2>1. ASSUME NEW r, Given(r)', r.type = "RESP_CLIENT_APPLY"
        PROVE  r.index < Len(applied') /\ OwnerOK(r.index, r.of.v)'
    <3>1. Given(r)
      BY <1>1, <2>1, GivenSame
    <3>2. r.index < Len(applied) /\ OwnerOK(r.index, r.of.v)
      BY <2>1, <3>1 DEF PInv, AddressesOK
    <3>3. r.index \in Nat
      BY <2>1, <3>1, GivenTypes
    <3>4. r.index # Len(entries)
      BY <3>2, <3>3, HandedFits, LogFacts
    <3>5. OwnerOK(r.index, r.of.v)'
      BY <3>2, <3>3, <3>4 DEF OwnerOK
    <3>6. QED
      BY <1>1, <3>2, <3>5
  <2>2. QED
    BY <2>1 DEF AddressesOK
<1>8. QED
  BY <1>2, <1>4, <1>5, <1>6, <1>7 DEF PInv

LEMMA ClientApplyKeeps ==
    ASSUME PInv, NEW c \in Client, NEW k \in Key,
           append_client_apply_to_entries(c, k)
    PROVE  PInv' /\ LogOnly
<1> DEFINE e == apply_to_server(c, k)
           n == Len(entries)
<1>1. /\ entries' = Append(entries, e)
      /\ socketAddr' = Put(socketAddr, n, c)
      /\ UNCHANGED <<state, controler, io, posted, write_pool, read_pool, machine,
                     asking>>
  BY DEF append_client_apply_to_entries
<1>2. e \in Entry /\ e.v = c
  BY DEF apply_to_server, Entry, Value
<1> HIDE DEF e
<1>3. entries \in Seq(Entry) /\ n \in Nat /\ handed_over \in Int /\ handed_over < n
  BY LogFacts
<1>4. /\ entries' \in Seq(Entry) /\ Len(entries') = n + 1
      /\ \A j \in 1 .. n : entries'[j] = entries[j]
      /\ entries'[n + 1] = e
  BY <1>1, <1>2, <1>3
<1>5. Len(entries') >= handed_over + 1
  BY <1>3, <1>4
<1>6. \A j \in 1 .. handed_over + 1 : entries'[j] = entries[j]
  <2>1. \A j \in 1 .. handed_over + 1 : j \in 1 .. n
    BY <1>3
  <2>2. QED
    BY <1>4, <2>1
<1>7. /\ DOMAIN socketAddr' = {n} \cup DOMAIN socketAddr /\ socketAddr'[n] = c
      /\ \A i \in DOMAIN socketAddr : i # n => socketAddr'[i] = socketAddr[i]
  BY <1>1 DEF Put
<1>8. ASSUME NEW j \in 1 .. Len(entries') PROVE OwnerOK(j - 1, entries[j].v)'
  <2>1. CASE j = n + 1
    <3>1. j - 1 = n /\ entries'[j] = e
      BY <1>3, <1>4, <2>1
    <3>2. QED
      BY <1>2, <1>7, <3>1 DEF OwnerOK
  <2>2. CASE j # n + 1
    <3>1. j \in 1 .. n /\ j - 1 # n
      BY <1>3, <1>4, <2>2
    <3>2. entries'[j] = entries[j] /\ OwnerOK(j - 1, entries[j].v)
      BY <1>4, <3>1 DEF PInv, AddressesOK
    <3>3. QED
      BY <1>7, <3>1, <3>2 DEF OwnerOK
  <2>3. QED
    BY <2>1, <2>2
<1>9. \A i \in Nat : i # n => (i \in DOMAIN socketAddr' =>
                 i \in DOMAIN socketAddr /\ socketAddr'[i] = socketAddr[i])
  BY <1>7
<1>10. state' \in {"follower", "primary"}
  BY <1>1, ThreadFacts
<1>11. LogOnly
  BY <1>1, <1>4, <1>5, <1>6 DEF LogOnly
<1>12. QED
  BY <1>8, <1>9, <1>10, <1>11, LogKeeps

LEMMA ReactAeKeeps ==
    ASSUME PInv, NEW i, NEW k \in Key, react2ae(i, k)
    PROVE  PInv' /\ LogOnly
<1> DEFINE e == [key |-> k, v |-> "elsewhere"]
           kept == SubSeq(entries, 1, i)
<1>1. /\ i \in handed_over + 1 .. Len(entries)
      /\ entries' = Append(kept, e) /\ state' = "follower"
      /\ UNCHANGED <<socketAddr, controler, io, posted, write_pool, read_pool,
                     machine, asking>>
  BY DEF react2ae
<1>2. e \in Entry /\ e.v = "elsewhere"
  BY DEF Entry, Value
<1>3. /\ i \in Nat /\ handed_over + 1 <= i /\ i <= Len(entries)
      /\ entries \in Seq(Entry) /\ handed_over \in Int
  BY <1>1, LogFacts
<1>4. /\ kept \in Seq(Entry) /\ Len(kept) = i
      /\ \A j \in 1 .. i : kept[j] = entries[j]
  BY <1>3
<1> HIDE DEF e, kept
<1>5. /\ entries' \in Seq(Entry) /\ Len(entries') = i + 1
      /\ \A j \in 1 .. i : entries'[j] = kept[j]
      /\ entries'[i + 1] = e
  BY <1>1, <1>2, <1>3, <1>4
<1>6. Len(entries') >= handed_over + 1
  BY <1>3, <1>5
<1>7. \A j \in 1 .. handed_over + 1 : entries'[j] = entries[j]
  <2>1. \A j \in 1 .. handed_over + 1 : j \in 1 .. i
    BY <1>3
  <2>2. QED
    BY <1>4, <1>5, <2>1
<1>8. ASSUME NEW j \in 1 .. Len(entries') PROVE OwnerOK(j - 1, entries[j].v)'
  <2>1. CASE j = i + 1
    <3>1. entries'[j].v = "elsewhere"
      BY <1>2, <1>5, <2>1
    <3>2. QED
      BY <3>1 DEF OwnerOK
  <2>2. CASE j # i + 1
    <3>1. j \in 1 .. i /\ j \in 1 .. Len(entries)
      BY <1>3, <1>5, <2>2
    <3>2. entries'[j] = entries[j] /\ OwnerOK(j - 1, entries[j].v)
      BY <1>4, <1>5, <3>1 DEF PInv, AddressesOK
    <3>3. QED
      BY <1>1, <3>2 DEF OwnerOK
  <2>3. QED
    BY <2>1, <2>2
<1>9. \A x \in Nat : x # Len(entries) => (x \in DOMAIN socketAddr' =>
                 x \in DOMAIN socketAddr /\ socketAddr'[x] = socketAddr[x])
  BY <1>1
<1>10. state' \in {"follower", "primary"}
  BY <1>1
<1>11. LogOnly
  BY <1>1, <1>5, <1>6, <1>7 DEF LogOnly
<1>12. QED
  BY <1>8, <1>9, <1>10, <1>11, LogKeeps

-----------------------------------------------------------------------------
(* Steps that move tasks to and from the threads. *)

\* The entry behind those that were handed over is enqueued.
LEMMA OneMore ==
    ASSUME NEW es, NEW done, NEW hand, NEW queue, NEW n \in Nat,
           HandedOver(es, done, hand, queue, n), TaskFor(es, n + 1) \in WriteTask
    PROVE  HandedOver(es, done, hand, Append(queue, TaskFor(es, n + 1)), n + 1)
<1> DEFINE e == TaskFor(es, n + 1)
           q == Append(queue, e)
<1>1. /\ done \in Seq(Entry) /\ queue \in Seq(WriteTask)
      /\ Len(done) + Len(hand) + Len(queue) = n
      /\ Len(hand) = 0 \/ Len(hand) = 1
      /\ \A j \in 1 .. Len(done) : done[j] = es[j]
      /\ hand = << >> \/ hand = <<TaskFor(es, Len(done) + 1)>>
      /\ \A j \in 1 .. Len(queue) :
            queue[j] = TaskFor(es, Len(done) + Len(hand) + j)
  BY DEF HandedOver
<1>2. Len(done) \in Nat /\ Len(queue) \in Nat /\ Len(hand) \in Nat
  BY <1>1
<1> HIDE DEF e
<1>3. /\ q \in Seq(WriteTask) /\ Len(q) = Len(queue) + 1
      /\ \A j \in 1 .. Len(queue) : q[j] = queue[j]
      /\ q[Len(queue) + 1] = e
  BY <1>1 DEF e
<1> HIDE DEF q
<1>4. Len(done) + Len(hand) + Len(q) = n + 1
  <2>1. Len(done) + Len(hand) + Len(queue) = n /\ Len(q) = Len(queue) + 1
    BY <1>1, <1>3
  <2>2. QED
    BY <1>2, <2>1
<1>5. ASSUME NEW j \in 1 .. Len(q)
      PROVE  q[j] = TaskFor(es, Len(done) + Len(hand) + j)
  <2>1. CASE j = Len(queue) + 1
    <3>1. Len(done) + Len(hand) + j = n + 1
      <4>1. Len(done) + Len(hand) + Len(queue) = n
        BY <1>1
      <4>2. QED
        BY <1>2, <2>1, <4>1
    <3>2. QED
      BY <1>3, <2>1, <3>1 DEF e
  <2>2. CASE j # Len(queue) + 1
    <3>1. j \in 1 .. Len(queue)
      BY <1>2, <1>3, <2>2
    <3>2. QED
      BY <1>1, <1>3, <3>1
  <2>3. QED
    BY <2>1, <2>2
<1>6. QED
  BY <1>1, <1>3, <1>4, <1>5 DEF HandedOver, q, e

\* The write thread takes the first task of the queue.
LEMMA TakesFirst ==
    ASSUME NEW es, NEW done, NEW queue, NEW n \in Nat,
           HandedOver(es, done, << >>, queue, n), queue # << >>
    PROVE  HandedOver(es, done, <<Head(queue)>>, Tail(queue), n)
<1> DEFINE q == Tail(queue)
<1>1. /\ done \in Seq(Entry) /\ queue \in Seq(WriteTask)
      /\ Len(done) + 0 + Len(queue) = n
      /\ \A j \in 1 .. Len(done) : done[j] = es[j]
      /\ \A j \in 1 .. Len(queue) : queue[j] = TaskFor(es, Len(done) + 0 + j)
  BY DEF HandedOver
<1>2. Len(done) \in Nat /\ Len(queue) \in Nat /\ Len(queue) > 0
  BY <1>1
<1>3. /\ q \in Seq(WriteTask) /\ Len(q) = Len(queue) - 1
      /\ \A j \in 1 .. Len(q) : q[j] = queue[j + 1]
      /\ Head(queue) = queue[1]
  BY <1>1, <1>2
<1> HIDE DEF q
<1>4. Head(queue) = TaskFor(es, Len(done) + 1)
  <2>1. 1 \in 1 .. Len(queue) /\ Len(done) + 0 + 1 = Len(done) + 1
    BY <1>2
  <2>2. QED
    BY <1>1, <1>3, <2>1
<1>5. Len(<<Head(queue)>>) = 1
  OBVIOUS
<1>6. Len(done) + 1 + Len(q) = n
  <2>1. Len(done) + 0 + Len(queue) = n /\ Len(q) = Len(queue) - 1
    BY <1>1, <1>3
  <2>2. QED
    BY <1>2, <2>1
<1>7. ASSUME NEW j \in 1 .. Len(q) PROVE q[j] = TaskFor(es, Len(done) + 1 + j)
  <2>1. j + 1 \in 1 .. Len(queue) /\ Len(done) + 0 + (j + 1) = Len(done) + 1 + j
    BY <1>2, <1>3
  <2>2. QED
    BY <1>1, <1>3, <2>1
<1>8. QED
  BY <1>1, <1>3, <1>4, <1>5, <1>6, <1>7 DEF HandedOver, q

\* The task in hand is done.
LEMMA AppliesNext ==
    ASSUME NEW es, NEW done, NEW hand, NEW queue, NEW n \in Nat,
           HandedOver(es, done, hand, queue, n), hand # << >>,
           NEW e, e = hand[1].entry, e \in Entry
    PROVE  /\ HandedOver(es, Append(done, e), << >>, queue, n)
           /\ hand[1].index = Len(done) /\ e = es[Len(done) + 1]
           /\ Len(done) + 1 <= n
<1> DEFINE d == Append(done, e)
<1>1. /\ done \in Seq(Entry) /\ queue \in Seq(WriteTask)
      /\ Len(done) + Len(hand) + Len(queue) = n
      /\ \A j \in 1 .. Len(done) : done[j] = es[j]
      /\ hand = <<TaskFor(es, Len(done) + 1)>>
      /\ \A j \in 1 .. Len(queue) :
            queue[j] = TaskFor(es, Len(done) + Len(hand) + j)
  BY DEF HandedOver
<1>2. Len(done) \in Nat /\ Len(queue) \in Nat /\ Len(hand) = 1
  BY <1>1
<1>3. hand[1] = [index |-> (Len(done) + 1) - 1, entry |-> es[Len(done) + 1]]
  BY <1>1 DEF TaskFor
<1>4. hand[1].index = (Len(done) + 1) - 1 /\ e = es[Len(done) + 1]
  BY <1>3
<1>5. hand[1].index = Len(done)
  BY <1>2, <1>4
<1>6. /\ d \in Seq(Entry) /\ Len(d) = Len(done) + 1
      /\ \A j \in 1 .. Len(done) : d[j] = done[j]
      /\ d[Len(done) + 1] = e
  BY <1>1
<1> HIDE DEF d
<1>7. ASSUME NEW j \in 1 .. Len(d) PROVE d[j] = es[j]
  <2>1. CASE j = Len(done) + 1
    BY <1>4, <1>6, <2>1
  <2>2. CASE j # Len(done) + 1
    <3>1. j \in 1 .. Len(done)
      BY <1>2, <1>6, <2>2
    <3>2. QED
      BY <1>1, <1>6, <3>1
  <2>3. QED
    BY <2>1, <2>2
<1>8. Len(<< >>) = 0
  OBVIOUS
<1>9. Len(d) + 0 + Len(queue) = n /\ Len(done) + 1 <= n
  BY <1>1, <1>2, <1>6
<1>10. ASSUME NEW j \in 1 .. Len(queue) PROVE queue[j] = TaskFor(es, Len(d) + 0 + j)
  <2>1. Len(d) + 0 + j = Len(done) + Len(hand) + j
    BY <1>2, <1>6
  <2>2. QED
    BY <1>1, <2>1
<1>11. HandedOver(es, d, << >>, queue, n)
  BY <1>1, <1>6, <1>7, <1>8, <1>9, <1>10 DEF HandedOver
<1>12. QED
  BY <1>4, <1>5, <1>9, <1>11 DEF d

\* apply_to_state_machine hands the next entry over.
LEMMA EnqueueKeeps ==
    ASSUME PInv, apply_to_state_machine
    PROVE  PInv'
<1> DEFINE e == [index |-> applied_index + 1, entry |-> entries[applied_index + 2]]
<1>1. /\ io = "apply" /\ io' = "notify_write"
      /\ wtasks' = Append(wtasks, e) /\ UNCHANGED <<wstop, wat, wtask>>
      /\ UNCHANGED <<log, controler, posted, read_pool, machine, asking>>
  BY DEF apply_to_state_machine, Write!enqueue
<1>2. /\ UNCHANGED <<state, entries, socketAddr, commit_index, applied_index>>
      /\ UNCHANGED <<rtasks, rstop, rat, rtask, store, raced, result, applied>>
  BY <1>1 DEF log, controler, read_pool, machine
<1>3. applied_index < commit_index
  BY <1>1 DEF PInv, IoOK
<1>4. /\ applied_index + 1 \in Nat /\ applied_index + 2 \in 1 .. Len(entries)
      /\ applied_index + 2 = (applied_index + 1) + 1
      /\ applied_index + 1 = (applied_index + 2) - 1
  BY <1>3, LogFacts
<1>5. entries[applied_index + 2] \in Entry
  BY <1>4, LogFacts
<1>6. e \in WriteTask
  BY <1>4, <1>5 DEF WriteTask
<1>7. e = TaskFor(entries, applied_index + 2)
  BY <1>4 DEF TaskFor
<1> HIDE DEF e
<1>8. Handed = applied_index + 1 /\ Handed' = applied_index + 2
  BY <1>1, <1>2 DEF Handed
<1>9. HandedOver(entries, applied, InHand, Append(wtasks, e), applied_index + 2)
  <2>1. HandedOver(entries, applied, InHand, wtasks, applied_index + 1)
    BY <1>8 DEF PInv, HandoverOK
  <2>2. e = TaskFor(entries, (applied_index + 1) + 1)
    BY <1>4, <1>7
  <2>3. HandedOver(entries, applied, InHand, Append(wtasks, e),
                   (applied_index + 1) + 1)
    BY <1>4, <1>6, <2>1, <2>2, OneMore
  <2>4. QED
    BY <1>4, <2>3
<1>10. InHand' = InHand
  BY <1>1, <1>2 DEF InHand, InMap, task_of
<1>11. HandoverOK'
  BY <1>1, <1>2, <1>8, <1>9, <1>10 DEF HandoverOK
<1>12. IoOK'
  BY <1>1, <1>2, <1>3 DEF IoOK
<1>13. TypeOK'
  <2>1. WritePoolOK'
    BY <1>1, <1>6, ThreadFacts, PoolGrows DEF WritePoolOK
  <2>2. ReadPoolOK'
    BY <1>2, ThreadFacts DEF ReadPoolOK
  <2>3. Write!TypeOK' /\ Read!TypeOK'
    BY <2>1, <2>2, PoolTypes, PTL
  <2>4. QED
    BY <1>1, <1>2, <2>3 DEF PInv, TypeOK
<1>14. ResultsOK'
  BY <1>1, <1>2 DEF PInv, ResultsOK, task_of
<1>15. AddressesOK'
  <2>1. \A i, v : OwnerOK(i, v)' <=> OwnerOK(i, v)
    BY <1>2 DEF OwnerOK
  <2>2. UNCHANGED <<posted, result>>
    BY <1>1, <1>2
  <2>3. QED
    BY <1>2, <2>1, <2>2, GivenSame DEF PInv, AddressesOK
<1>16. QED
  BY <1>1, <1>2, <1>11, <1>12, <1>13, <1>14, <1>15 DEF PInv

\* A thread of the write pool takes a task.
LEMMA WriterTakesKeeps ==
    ASSUME PInv, NEW t \in Writer, Write!take(t),
           UNCHANGED <<log, controler, io, posted, read_pool, machine, asking>>
    PROVE  PInv'
<1>1. /\ wat[t] = "lock" /\ wtasks # << >> /\ wstop' = wstop
      /\ wtask' = [wtask EXCEPT ![t] = <<Head(wtasks)>>]
      /\ wtasks' = Tail(wtasks) /\ wat' = [wat EXCEPT ![t] = "run"]
  BY DEF Write!take
<1>2. /\ UNCHANGED <<state, entries, socketAddr, commit_index, applied_index, io>>
      /\ UNCHANGED <<rtasks, rstop, rat, rtask, posted, store, raced, result, applied,
                     asking>>
  BY DEF log, controler, read_pool, machine
<1>3. t = writer /\ writer \in Writer /\ Writer = {writer} /\ writer \in Thread
  BY OneWriter
<1>4. wtask \in [Writer -> Seq(WriteTask)]
  BY ThreadFacts DEF WritePoolOK, PoolOK
<1>5. wtask[writer] = << >> /\ wtask'[writer] = <<Head(wtasks)>>
  <2>1. wat[writer] # "run" /\ PoolOK(Writer, WriteTask, wtasks, wstop, wat, wtask)
    BY <1>1, <1>3, ThreadFacts DEF WritePoolOK
  <2>2. wtask[writer] = << >>
    BY <1>3, <2>1, PoolHolds
  <2>3. QED
    BY <1>1, <1>3, <1>4, <2>2
<1>6. task_of(writer) = wtask[writer] /\ task_of(writer)' = wtask'[writer]
  BY <1>3 DEF task_of
<1>7. result[writer] = << >>
  BY <1>3, <1>5, <1>6 DEF PInv, ResultsOK
<1>8. <<Head(wtasks)>> # << >>
  OBVIOUS
<1>9. InHand = << >> /\ InHand' = <<Head(wtasks)>>
  <2>1. ~InMap(writer)
    BY <1>5, <1>6 DEF InMap
  <2>2. InMap(writer)'
    BY <1>2, <1>5, <1>6, <1>7, <1>8 DEF InMap
  <2>3. QED
    BY <1>5, <2>1, <2>2 DEF InHand
<1>10. IoOK' /\ Handed' = Handed
  BY IoSame
<1>11. HandoverOK'
  <2>1. HandedOver(entries, applied, << >>, wtasks, Handed) /\ Handed \in Nat
    BY <1>9, HandedFits DEF PInv, HandoverOK
  <2>2. HandedOver(entries, applied, <<Head(wtasks)>>, Tail(wtasks), Handed)
    BY <1>1, <2>1, TakesFirst
  <2>3. QED
    BY <1>1, <1>2, <1>9, <1>10, <2>2 DEF HandoverOK
<1>12. TypeOK'
  <2>1. WritePoolOK'
    BY <1>1, ThreadFacts, PoolTakes DEF WritePoolOK
  <2>2. ReadPoolOK'
    BY <1>2, ThreadFacts DEF ReadPoolOK
  <2>3. Write!TypeOK' /\ Read!TypeOK'
    BY <2>1, <2>2, PoolTypes, PTL
  <2>4. QED
    BY <1>2, <2>3 DEF PInv, TypeOK
<1>13. ResultsOK'
  <2>1. ASSUME NEW u \in Thread, result'[u] # << >> PROVE task_of(u)' # << >>
    <3>1. u # writer
      BY <1>2, <1>7, <2>1
    <3>2. task_of(u)' = task_of(u)
      BY <1>2, <1>3, <3>1 DEF task_of
    <3>3. QED
      BY <1>2, <2>1, <3>2 DEF PInv, ResultsOK
  <2>2. QED
    BY <2>1 DEF ResultsOK
<1>14. AddressesOK'
  <2>1. \A i, v : OwnerOK(i, v)' <=> OwnerOK(i, v)
    BY <1>2 DEF OwnerOK
  <2>2. UNCHANGED <<posted, result>>
    BY <1>2
  <2>3. QED
    BY <1>2, <2>1, <2>2, GivenSame DEF PInv, AddressesOK
<1>15. QED
  BY <1>2, <1>10, <1>11, <1>12, <1>13, <1>14 DEF PInv

-----------------------------------------------------------------------------
(* Queries and answers. *)

\* What a step that leaves the log and the controler alone keeps.
LEMMA ServerSame ==
    ASSUME PInv, UNCHANGED <<log, controler>>
    PROVE  /\ entries' = entries /\ socketAddr' = socketAddr
           /\ state' \in {"follower", "primary"}
           /\ commit_index' \in -1 .. Len(entries) - 1
           /\ applied_index' \in -1 .. Len(entries) - 1
BY DEF PInv, TypeOK, log, controler

LEMMA AskKeeps ==
    ASSUME PInv, NEW c \in Asker, NEW k \in Key, get_from_state_machine(c, k)
    PROVE  /\ PInv'
           /\ UNCHANGED <<rtask, posted, store, raced, result, applied>>
           /\ rtasks' = Append(rtasks, [to |-> c, key |-> k])
<1> DEFINE q == [to |-> c, key |-> k]
<1>1. /\ io = "poll" /\ io' = "notify_read"
      /\ asking' = asking \cup {c}
      /\ rtasks' = Append(rtasks, q) /\ UNCHANGED <<rstop, rat, rtask>>
      /\ UNCHANGED <<log, controler, posted, write_pool, machine>>
  BY DEF get_from_state_machine, query_from_server, Read!enqueue
<1>2. /\ UNCHANGED <<wtasks, wstop, wat, wtask, store, raced, result, applied>>
  BY <1>1 DEF write_pool, machine
<1>3. q \in Query
  BY PoolAssumption, HandedFits DEF Query
<1> HIDE DEF q
<1>4. ReadPoolOK'
  BY <1>1, <1>3, ThreadFacts, PoolGrows DEF ReadPoolOK
<1>5. WritePoolOK'
  BY <1>2, ThreadFacts DEF WritePoolOK
<1>6. InHand' = InHand
  BY <1>1, <1>2 DEF InHand, InMap, task_of
<1>7. ResultsOK'
  BY <1>1, <1>2 DEF PInv, ResultsOK, task_of
<1>8. IoOK' /\ Handed' = Handed
  BY <1>1, IoOutside
<1>9. asking' \in SUBSET Asker
  BY <1>1, ThreadFacts
<1>10. \A r : Given(r)' => Given(r)
  BY <1>1, <1>2, GivenSame
<1>11. /\ posted' \in Seq(Answer) /\ result' \in [Thread -> Seq(Answer)]
       /\ store' \in Maps /\ raced' \in BOOLEAN
  BY <1>1, <1>2, ThreadFacts
<1>12. PInv'
  BY <1>1, <1>2, <1>4, <1>5, <1>6, <1>7, <1>8, <1>9, <1>10, <1>11, ServerSame,
     TasksKeep
<1>13. QED
  BY <1>1, <1>2, <1>12 DEF q

LEMMA ReaderTakesKeeps ==
    ASSUME PInv, NEW t \in Reader, Read!take(t),
           UNCHANGED <<log, controler, io, posted, write_pool, machine, asking>>
    PROVE  /\ PInv'
           /\ UNCHANGED <<posted, store, raced, result, applied>>
           /\ rtasks # << >> /\ rtasks' = Tail(rtasks)
           /\ rtask' = [rtask EXCEPT ![t] = <<Head(rtasks)>>]
<1>1. /\ rat[t] = "lock" /\ rtasks # << >> /\ rstop' = rstop
      /\ rtask' = [rtask EXCEPT ![t] = <<Head(rtasks)>>]
      /\ rtasks' = Tail(rtasks) /\ rat' = [rat EXCEPT ![t] = "run"]
  BY DEF Read!take
<1>2. /\ UNCHANGED <<wtasks, wstop, wat, wtask, store, raced, result, applied>>
  BY DEF write_pool, machine
<1>3. ReadPoolOK'
  BY <1>1, ThreadFacts, PoolTakes DEF ReadPoolOK
<1>4. WritePoolOK'
  BY <1>2, ThreadFacts DEF WritePoolOK
<1>5. InHand' = InHand
  BY <1>2, OneWriter DEF InHand, InMap, task_of
<1>6. rtask \in [Reader -> Seq(Query)]
  BY ThreadFacts DEF ReadPoolOK, PoolOK
<1>7. ResultsOK'
  <2>1. ASSUME NEW u \in Thread, result'[u] # << >> PROVE task_of(u)' # << >>
    <3>1. task_of(u) # << >>
      BY <1>2, <2>1 DEF PInv, ResultsOK
    <3>2. CASE u = t
      <4>1. task_of(u)' = <<Head(rtasks)>>
        BY <1>1, <1>6, <3>2, OneWriter DEF task_of
      <4>2. QED
        BY <4>1
    <3>3. CASE u # t
      <4>1. task_of(u)' = task_of(u)
        BY <1>1, <1>2, <1>6, <3>3 DEF task_of, Thread
      <4>2. QED
        BY <3>1, <4>1
    <3>4. QED
      BY <3>2, <3>3
  <2>2. QED
    BY <2>1 DEF ResultsOK
<1>8. IoOK' /\ Handed' = Handed
  BY IoSame
<1>9. \A r : Given(r)' => Given(r)
  BY <1>2, GivenSame
<1>10. /\ posted' \in Seq(Answer) /\ result' \in [Thread -> Seq(Answer)]
       /\ store' \in Maps /\ raced' \in BOOLEAN /\ asking' \in SUBSET Asker
  BY <1>2, ThreadFacts
<1>11. PInv'
  BY <1>2, <1>3, <1>4, <1>5, <1>7, <1>8, <1>9, <1>10, ServerSame, TasksKeep
<1>12. QED
  BY <1>1, <1>2, <1>11

LEMMA AnswerKeeps ==
    ASSUME PInv, write_resp_call
    PROVE  /\ PInv'
           /\ UNCHANGED <<rtasks, rtask, store, raced, result, applied>>
           /\ posted # << >> /\ posted' = Tail(posted)
           /\ \A r : Given(r)' => Given(r)
<1>1. /\ posted # << >> /\ posted' = Tail(posted) /\ react_to_resp(Head(posted))
      /\ UNCHANGED <<log, controler, io, write_pool, read_pool, machine>>
  BY DEF write_resp_call
<1>2. /\ UNCHANGED <<wtasks, wtask, rtasks, rtask, store, raced, result, applied>>
  BY <1>1 DEF write_pool, read_pool, machine
<1>3. WritePoolOK' /\ ReadPoolOK'
  BY <1>1, PoolsIdleSame DEF PoolsIdle
<1>4. InHand' = InHand
  BY <1>2 DEF InHand, InMap, task_of
<1>5. ResultsOK'
  BY <1>2 DEF PInv, ResultsOK, task_of
<1>6. IoOK' /\ Handed' = Handed
  BY <1>1, IoSame
<1>7. posted \in Seq(Answer)
  BY ThreadFacts
<1>8. /\ posted' \in Seq(Answer)
      /\ \A j \in DOMAIN posted' : \E i \in DOMAIN posted : posted'[j] = posted[i]
  BY <1>1, <1>7
<1>9. \A r : Given(r)' => Given(r)
  BY <1>2, <1>8 DEF Given
<1>10. result' \in [Thread -> Seq(Answer)] /\ store' \in Maps /\ raced' \in BOOLEAN
  BY <1>2, ThreadFacts
<1>11. asking' \in SUBSET Asker
  BY <1>1, ThreadFacts DEF react_to_resp
<1>12. PInv'
  BY <1>1, <1>2, <1>3, <1>4, <1>5, <1>6, <1>8, <1>9, <1>10, <1>11, ServerSame,
     TasksKeep
<1>13. QED
  BY <1>1, <1>2, <1>9, <1>12

-----------------------------------------------------------------------------
(* Steps of the threads in the map. *)

LEMMA LookupTypes ==
    ASSUME store \in Maps, NEW t, NEW k \in Key, NEW v \in Value \cup {"0"},
           Lookup(t, k, v)
    PROVE  store' \in Maps /\ raced' \in BOOLEAN
<1>1. PICK ks \in SUBSET Key : store \in [ks -> Value \cup {"0"}]
  BY DEF Maps
<1>2. /\ Put(store, k, v) \in [ks \cup {k} -> Value \cup {"0"}]
      /\ ks \cup {k} \in SUBSET Key
  BY <1>1 DEF Put
<1>3. << >> \in [{} -> Value \cup {"0"}] /\ {} \in SUBSET Key
  OBVIOUS
<1>4. Put(store, k, v) \in Maps /\ << >> \in Maps
  BY <1>2, <1>3 DEF Maps
<1>5. store' \in Maps
  BY <1>4 DEF Lookup
<1>6. raced' \in BOOLEAN
  BY DEF Lookup
<1>7. QED
  BY <1>5, <1>6

\* What a thread of the read pool holds.
LEMMA ReaderHolds ==
    ASSUME PInv, NEW t \in Reader, rtask[t] # << >>
    PROVE  /\ rtask[t] = <<rtask[t][1]>> /\ rtask[t][1] \in Query
           /\ rtask[t][1].key \in Key /\ rtask[t][1].key = key_of(t)
           /\ rat[t] = "run"
<1>1. PoolOK(Reader, Query, rtasks, rstop, rat, rtask)
  BY ThreadFacts DEF ReadPoolOK
<1>2. /\ rtask[t] = <<rtask[t][1]>> /\ rtask[t][1] \in Query /\ rat[t] = "run"
  BY <1>1, PoolHolds
<1>3. rtask[t][1].key \in Key
  BY <1>2 DEF Query
<1>4. QED
  BY <1>2, <1>3, OneWriter DEF key_of

LEMMA GetKeeps ==
    ASSUME PInv, NEW t, get(t)
    PROVE  /\ PInv' /\ t \in Reader /\ InMap(t)
<1> DEFINE q == rtask[t][1]
           v == IF Inserts(t) THEN "0" ELSE store[q.key]
           r == [type |-> "RESP_CLIENT_QUERY", to |-> q.to,
                 v |-> IF raced' THEN "undefined" ELSE v]
<1>1. /\ t \in Reader /\ InMap(t)
      /\ Lookup(t, q.key, v)
      /\ result' = [result EXCEPT ![t] = <<r>>]
      /\ UNCHANGED <<log, controler, io, posted, write_pool, read_pool, applied,
                     asking>>
  BY DEF get, Returns
<1>2. UNCHANGED <<wtasks, wstop, wat, wtask, rtasks, rstop, rat, rtask>>
  BY <1>1 DEF write_pool, read_pool
<1>3. rtask[t] # << >> /\ result[t] = << >>
  BY <1>1, ThreadFacts DEF InMap
<1>4. q.to \in Client /\ q.key \in Key /\ q.key = key_of(t)
  BY <1>1, <1>3, ReaderHolds DEF Query
<1>5. v \in Value \cup {"0"}
  <2>1. PICK ks \in SUBSET Key : store \in [ks -> Value \cup {"0"}]
    BY ThreadFacts DEF Maps
  <2>2. QED
    BY <1>4, <2>1 DEF Inserts
<1> HIDE DEF v
<1>6. store' \in Maps /\ raced' \in BOOLEAN
  BY <1>1, <1>4, <1>5, ThreadFacts, LookupTypes
<1>7. r \in Answer /\ r.type = "RESP_CLIENT_QUERY"
  BY <1>4, <1>5, <1>6 DEF Answer, QueryDone
<1> HIDE DEF r, q
<1>8. /\ t # writer /\ t \in Thread /\ t \notin Writer
      /\ writer \in Thread /\ writer \in Writer
  BY <1>1, OneWriter
<1>9. result \in [Thread -> Seq(Answer)]
  BY ThreadFacts
<1>10. result' \in [Thread -> Seq(Answer)]
  <2>1. <<r>> \in Seq(Answer)
    BY <1>7
  <2>2. QED
    BY <1>1, <1>9, <2>1
<1>11. result'[t] = <<r>> /\ \A u \in Thread : u # t => result'[u] = result[u]
  BY <1>1, <1>8, <1>9
<1>12. \A u : task_of(u)' = task_of(u)
  BY <1>2 DEF task_of
<1>13. InHand' = InHand
  <2>1. result'[writer] = result[writer]
    BY <1>8, <1>11
  <2>2. QED
    BY <1>2, <1>12, <2>1 DEF InHand, InMap
<1>14. ResultsOK'
  <2>1. ASSUME NEW u \in Thread, result'[u] # << >> PROVE task_of(u)' # << >>
    BY <1>1, <1>11, <1>12, <2>1 DEF PInv, ResultsOK, InMap
  <2>2. QED
    BY <2>1 DEF ResultsOK
<1>15. ASSUME NEW s, Given(s)', s.type = "RESP_CLIENT_APPLY" PROVE Given(s)
  <2>1. CASE \E j \in DOMAIN posted' : posted'[j] = s
    BY <1>1, <2>1 DEF Given
  <2>2. CASE \E u \in Thread : \E j \in DOMAIN result'[u] : result'[u][j] = s
    <3>1. PICK u \in Thread : \E j \in DOMAIN result'[u] : result'[u][j] = s
      BY <2>2
    <3>2. u # t
      BY <1>7, <1>11, <1>15, <3>1
    <3>3. QED
      BY <1>11, <3>1, <3>2 DEF Given
  <2>3. QED
    BY <1>15, <2>1, <2>2 DEF Given
<1>16. IoOK' /\ Handed' = Handed
  BY <1>1, IoSame
<1>17. WritePoolOK' /\ ReadPoolOK'
  BY <1>1, PoolsIdleSame DEF PoolsIdle
<1>18. posted' \in Seq(Answer) /\ asking' \in SUBSET Asker
  BY <1>1, ThreadFacts
<1>19. PInv'
  BY <1>1, <1>2, <1>6, <1>10, <1>13, <1>14, <1>15, <1>16, <1>17, <1>18,
     ServerSame, TasksKeep
<1>20. QED
  BY <1>1, <1>19

\* The answer of a thread is posted, or dropped: nothing is given that was not
\* before.
LEMMA PostGives ==
    ASSUME PInv, NEW t \in Thread,
           posted' = posted \o result[t] \/ posted' = posted,
           result' = [result EXCEPT ![t] = << >>]
    PROVE  /\ posted' \in Seq(Answer) /\ result' \in [Thread -> Seq(Answer)]
           /\ result'[t] = << >>
           /\ \A u \in Thread : u # t => result'[u] = result[u]
           /\ \A r : Given(r)' => Given(r)
<1>1. posted \in Seq(Answer) /\ result \in [Thread -> Seq(Answer)]
  BY ThreadFacts
<1>2. result[t] \in Seq(Answer) /\ << >> \in Seq(Answer)
  BY <1>1
<1>3. /\ result' \in [Thread -> Seq(Answer)] /\ result'[t] = << >>
      /\ \A u \in Thread : u # t => result'[u] = result[u]
  BY <1>1, <1>2
<1>4. posted' \in Seq(Answer)
  <2>1. posted \o result[t] \in Seq(Answer)
    BY <1>1, <1>2
  <2>2. QED
    BY <1>1, <2>1
<1>5. \A j \in DOMAIN posted' :
          \/ \E i \in DOMAIN posted : posted[i] = posted'[j]
          \/ \E i \in DOMAIN result[t] : result[t][i] = posted'[j]
  <2> SUFFICES ASSUME NEW p \in Seq(Answer), NEW s \in Seq(Answer),
                      NEW j \in DOMAIN (p \o s)
               PROVE  \/ \E i \in DOMAIN p : p[i] = (p \o s)[j]
                      \/ \E i \in DOMAIN s : s[i] = (p \o s)[j]
    <3>1. CASE posted' = posted
      BY <3>1
    <3>2. CASE posted' = posted \o result[t]
      BY <1>1, <1>2, <3>2
    <3>3. QED
      BY <3>1, <3>2
  <2>1. /\ Len(p) \in Nat /\ Len(s) \in Nat
        /\ DOMAIN p = 1 .. Len(p) /\ DOMAIN s = 1 .. Len(s)
        /\ j \in 1 .. Len(p) + Len(s)
    OBVIOUS
  <2>2. CASE j <= Len(p)
    <3>1. j \in DOMAIN p /\ (p \o s)[j] = p[j]
      BY <2>1, <2>2
    <3>2. QED
      BY <3>1
  <2>3. CASE ~(j <= Len(p))
    <3>1. j - Len(p) \in DOMAIN s /\ (p \o s)[j] = s[j - Len(p)]
      BY <2>1, <2>3
    <3>2. QED
      BY <3>1
  <2>4. QED
    BY <2>2, <2>3
<1>6. ASSUME NEW r, Given(r)' PROVE Given(r)
  <2>1. CASE \E j \in DOMAIN posted' : posted'[j] = r
    BY <1>5, <2>1 DEF Given
  <2>2. CASE \E u \in Thread : \E j \in DOMAIN result'[u] : result'[u][j] = r
    <3>1. PICK u \in Thread : \E j \in DOMAIN result'[u] : result'[u][j] = r
      BY <2>2
    <3>2. u # t
      BY <1>3, <3>1
    <3>3. QED
      BY <1>3, <3>1, <3>2 DEF Given
  <2>3. QED
    BY <1>6, <2>1, <2>2 DEF Given
<1>7. QED
  BY <1>3, <1>4, <1>6

LEMMA PostKeeps ==
    ASSUME PInv, NEW t, post(t)
    PROVE  PInv'
<1>1. /\ t \in Thread /\ result[t] # << >>
      /\ posted' = posted \o result[t] \/ posted' = posted
      /\ result' = [result EXCEPT ![t] = << >>]
      /\ UNCHANGED <<log, controler, io, store, raced, applied, asking>>
  BY DEF post, Thread
<1>2. /\ posted' \in Seq(Answer) /\ result' \in [Thread -> Seq(Answer)]
      /\ result'[t] = << >>
      /\ \A u \in Thread : u # t => result'[u] = result[u]
      /\ \A r : Given(r)' => Given(r)
  BY <1>1, PostGives
<1>3. /\ wtasks' = wtasks /\ rtasks' = rtasks /\ InHand' = InHand
      /\ WritePoolOK' /\ ReadPoolOK'
      /\ \A u \in Thread : u # t => task_of(u)' = task_of(u)
  <2>1. CASE t \in Writer /\ Write!end_task(t) /\ UNCHANGED read_pool
    <3>1. /\ wtask' = [wtask EXCEPT ![t] = << >>] /\ wat' = [wat EXCEPT ![t] = "lock"]
          /\ UNCHANGED <<wtasks, wstop, rtasks, rstop, rat, rtask>>
      BY <2>1 DEF Write!end_task, read_pool
    <3>2. t = writer /\ writer \in Writer /\ writer \in Thread
      BY <2>1, OneWriter
    <3>3. wtask \in [Writer -> Seq(WriteTask)]
      BY ThreadFacts DEF WritePoolOK, PoolOK
    <3>4. WritePoolOK' /\ ReadPoolOK'
      BY <2>1, <3>1, ThreadFacts, PoolEnds DEF WritePoolOK, ReadPoolOK
    <3>5. InHand = << >> /\ InHand' = << >>
      <4>1. ~InMap(writer)
        BY <1>1, <3>2 DEF InMap
      <4>2. task_of(writer)' = << >>
        BY <3>1, <3>2, <3>3 DEF task_of
      <4>3. ~InMap(writer)'
        BY <4>2 DEF InMap
      <4>4. QED
        BY <4>1, <4>3 DEF InHand
    <3>6. \A u \in Thread : u # t => task_of(u)' = task_of(u)
      BY <3>1, <3>3 DEF task_of
    <3>7. QED
      BY <3>1, <3>4, <3>5, <3>6
  <2>2. CASE t \in Reader /\ Read!end_task(t) /\ UNCHANGED write_pool
    <3>1. /\ rtask' = [rtask EXCEPT ![t] = << >>] /\ rat' = [rat EXCEPT ![t] = "lock"]
          /\ UNCHANGED <<rtasks, rstop, wtasks, wstop, wat, wtask>>
      BY <2>2 DEF Read!end_task, write_pool
    <3>2. t # writer /\ writer \in Writer /\ writer \in Thread
      BY <2>2, OneWriter
    <3>3. rtask \in [Reader -> Seq(Query)]
      BY ThreadFacts DEF ReadPoolOK, PoolOK
    <3>4. WritePoolOK' /\ ReadPoolOK'
      BY <2>2, <3>1, ThreadFacts, PoolEnds DEF WritePoolOK, ReadPoolOK
    <3>5. InHand' = InHand
      <4>1. result'[writer] = result[writer]
        BY <1>2, <3>2
      <4>2. task_of(writer)' = task_of(writer)
        BY <3>1, <3>2 DEF task_of
      <4>3. QED
        BY <3>1, <4>1, <4>2 DEF InHand, InMap
    <3>6. \A u \in Thread : u # t => task_of(u)' = task_of(u)
      BY <3>1, <3>3 DEF task_of, Thread
    <3>7. QED
      BY <3>1, <3>4, <3>5, <3>6
  <2>3. QED
    BY <2>1, <2>2 DEF post
<1>4. ResultsOK'
  BY <1>2, <1>3 DEF PInv, ResultsOK
<1>5. IoOK' /\ Handed' = Handed
  BY <1>1, IoSame
<1>6. store' \in Maps /\ raced' \in BOOLEAN /\ asking' \in SUBSET Asker
  BY <1>1, ThreadFacts
<1>7. QED
  BY <1>1, <1>2, <1>3, <1>4, <1>5, <1>6, ServerSame, TasksKeep

\* EasyStateMachine::apply applies the entry that is next in the log.
LEMMA ApplyKeeps ==
    ASSUME PInv, NEW t, apply(t)
    PROVE  /\ PInv' /\ t = writer /\ InMap(t)
           /\ UNCHANGED <<entries, controler, io, rtasks, rtask, posted>>
           /\ applied' = Append(applied, entries[Len(applied) + 1])
           /\ Len(applied) + 1 <= Handed
           /\ entries[Len(applied) + 1] \in Entry
           /\ entries[Len(applied) + 1].key = key_of(t)
           /\ Lookup(t, entries[Len(applied) + 1].key,
                        entries[Len(applied) + 1].v)
<1> DEFINE x == wtask[t][1]
           e == x.entry
           r == [type |-> "RESP_CLIENT_APPLY", index |-> x.index, of |-> e]
<1>1. /\ t \in Writer /\ InMap(t)
      /\ Lookup(t, e.key, e.v)
      /\ applied' = Append(applied, e)
      /\ result' = [result EXCEPT ![t] = <<r>>]
      /\ UNCHANGED <<log, controler, io, posted, write_pool, read_pool, asking>>
  BY DEF apply, Returns
<1>2. /\ UNCHANGED <<state, entries, socketAddr, commit_index, applied_index>>
      /\ UNCHANGED <<wtasks, wstop, wat, wtask, rtasks, rstop, rat, rtask>>
  BY <1>1 DEF log, controler, write_pool, read_pool
<1>3. t = writer /\ t \in Thread
  BY <1>1, OneWriter
<1>4. wtask[t] # << >> /\ InHand = wtask[t]
  BY <1>1, <1>3, ThreadFacts DEF InMap, InHand
<1>5. x \in WriteTask
  <2>1. PoolOK(Writer, WriteTask, wtasks, wstop, wat, wtask)
    BY ThreadFacts DEF WritePoolOK
  <2>2. QED
    BY <1>1, <1>4, <2>1, PoolHolds
<1>6. x.index \in Nat /\ e \in Entry
  BY <1>5 DEF WriteTask
<1>7. e.key \in Key /\ e.v \in Value
  BY <1>6 DEF Entry
<1>8. /\ HandedOver(entries, Append(applied, e), << >>, wtasks, Handed)
      /\ x.index = Len(applied) /\ e = entries[Len(applied) + 1]
      /\ Len(applied) + 1 <= Handed
  <2>1. HandedOver(entries, applied, InHand, wtasks, Handed) /\ Handed \in Nat
    BY HandedFits DEF PInv, HandoverOK
  <2>2. InHand # << >> /\ e = InHand[1].entry /\ x = InHand[1]
    BY <1>4
  <2>3. QED
    BY <1>6, <2>1, <2>2, AppliesNext
<1>9. r \in Answer /\ r.type = "RESP_CLIENT_APPLY" /\ r.index = x.index /\ r.of = e
  BY <1>6 DEF Answer, ApplyDone
<1>10. key_of(t) = e.key
  BY <1>1 DEF key_of
<1> DEFINE n == Len(applied)
<1>11. n \in Nat /\ applied \in Seq(Entry) /\ n + 1 \in 1 .. Len(entries)
  BY <1>8, HandedFits, LogFacts
<1> HIDE DEF x, e, r
<1>12. applied' \in Seq(Entry) /\ Len(applied') = n + 1
  BY <1>1, <1>6, <1>11
<1>13. result \in [Thread -> Seq(Answer)]
  BY ThreadFacts
<1>14. result' \in [Thread -> Seq(Answer)]
  <2>1. <<r>> \in Seq(Answer)
    BY <1>9
  <2>2. QED
    BY <1>1, <1>13, <2>1
<1>15. result'[t] = <<r>> /\ \A u \in Thread : u # t => result'[u] = result[u]
  BY <1>1, <1>3, <1>13
<1>16. \A u : task_of(u)' = task_of(u)
  BY <1>2 DEF task_of
<1>17. InHand' = << >>
  <2>1. result'[writer] # << >>
    BY <1>3, <1>15
  <2>2. QED
    BY <2>1 DEF InHand, InMap
<1>18. IoOK' /\ Handed' = Handed
  BY <1>1, IoSame
<1>19. HandoverOK'
  BY <1>1, <1>2, <1>8, <1>17, <1>18 DEF HandoverOK
<1>20. ResultsOK'
  <2>1. ASSUME NEW u \in Thread, result'[u] # << >> PROVE task_of(u)' # << >>
    BY <1>1, <1>15, <1>16, <2>1 DEF PInv, ResultsOK, InMap
  <2>2. QED
    BY <2>1 DEF ResultsOK
<1>21. TypeOK'
  <2>1. WritePoolOK' /\ ReadPoolOK'
    BY <1>1, PoolsIdleSame DEF PoolsIdle
  <2>2. Write!TypeOK' /\ Read!TypeOK'
    BY <2>1, PoolTypes, PTL
  <2>3. store' \in Maps /\ raced' \in BOOLEAN
    BY <1>1, <1>7, ThreadFacts, LookupTypes
  <2>4. QED
    BY <1>1, <1>2, <1>14, <2>2, <2>3 DEF PInv, TypeOK, Answer, Maps
<1>22. AddressesOK'
  <2>1. \A i, v : OwnerOK(i, v)' <=> OwnerOK(i, v)
    BY <1>2 DEF OwnerOK
  <2>2. OwnerOK(n, e.v)
    <3>1. OwnerOK((n + 1) - 1, entries[n + 1].v)
      BY <1>11 DEF PInv, AddressesOK
    <3>2. (n + 1) - 1 = n /\ e = entries[n + 1]
      BY <1>8, <1>11
    <3>3. QED
      BY <3>1, <3>2
  <2>3. ASSUME NEW s, Given(s)', s # r PROVE Given(s)
    <3>1. CASE \E j \in DOMAIN posted' : posted'[j] = s
      BY <1>1, <3>1 DEF Given
    <3>2. CASE \E u \in Thread : \E j \in DOMAIN result'[u] : result'[u][j] = s
      <4>1. PICK u \in Thread : \E j \in DOMAIN result'[u] : result'[u][j] = s
        BY <3>2
      <4>2. u # t
        BY <1>15, <2>3, <4>1
      <4>3. QED
        BY <1>15, <4>1, <4>2 DEF Given
    <3>3. QED
      BY <2>3, <3>1, <3>2 DEF Given
  <2>4. ASSUME NEW s, Given(s)', s.type = "RESP_CLIENT_APPLY"
        PROVE  s.index < Len(applied') /\ OwnerOK(s.index, s.of.v)'
    <3>1. CASE s = r
      <4>1. s.index = n /\ s.of = e
        BY <1>8, <1>9, <3>1
      <4>2. s.index < Len(applied')
        BY <1>11, <1>12, <4>1
      <4>3. QED
        BY <2>1, <2>2, <4>1, <4>2
    <3>2. CASE s # r
      <4>1. Given(s)
        BY <2>3, <2>4, <3>2
      <4>2. s.index < Len(applied) /\ OwnerOK(s.index, s.of.v)
        BY <2>4, <4>1 DEF PInv, AddressesOK
      <4>3. s.index \in Nat
        BY <2>4, <4>1, GivenTypes
      <4>4. s.index < Len(applied')
        BY <1>11, <1>12, <4>2, <4>3
      <4>5. QED
        BY <2>1, <4>2, <4>4
    <3>3. QED
      BY <3>1, <3>2
  <2>5. \A j \in 1 .. Len(entries) : OwnerOK(j - 1, entries[j].v)
    BY DEF PInv, AddressesOK
  <2>6. \A j \in 1 .. Len(entries') : OwnerOK(j - 1, entries[j].v)'
    BY <1>2, <2>1, <2>5
  <2>7. QED
    BY <2>4, <2>6 DEF AddressesOK
<1>23. PInv'
  BY <1>18, <1>19, <1>20, <1>21, <1>22 DEF PInv
<1>24. /\ applied' = Append(applied, entries[Len(applied) + 1])
       /\ entries[Len(applied) + 1] \in Entry
       /\ entries[Len(applied) + 1].key = key_of(t)
       /\ Lookup(t, entries[Len(applied) + 1].key, entries[Len(applied) + 1].v)
  BY <1>1, <1>6, <1>8, <1>10
<1>25. QED
  BY <1>1, <1>2, <1>3, <1>8, <1>23, <1>24

-----------------------------------------------------------------------------
(* The invariant. *)

LEMMA InitP ==
    ASSUME Init
    PROVE  PInv
<1>1. /\ state = "follower" /\ entries = << >> /\ socketAddr = << >>
      /\ commit_index = -1 /\ applied_index = -1 /\ io = "poll"
      /\ posted = << >> /\ store = << >> /\ raced = FALSE
      /\ applied = << >> /\ asking = {}
      /\ result = [t \in Thread |-> << >>]
  BY DEF Init
<1>2. /\ wtasks = << >> /\ wstop = FALSE /\ wat = [w \in Writer |-> "lock"]
      /\ wtask = [w \in Writer |-> << >>]
  BY DEF Init, Write!Start
<1>3. /\ rtasks = << >> /\ rstop = FALSE /\ rat = [w \in Reader |-> "lock"]
      /\ rtask = [w \in Reader |-> << >>]
  BY DEF Init, Read!Start
<1>4. WritePoolOK /\ ReadPoolOK
  <2>1. ASSUME NEW wk, NEW tk
        PROVE  PoolOK(wk, tk, << >>, FALSE, [w \in wk |-> "lock"],
                      [w \in wk |-> << >>])
    <3>1. /\ [w \in wk |-> << >>] \in [wk -> Seq(tk)]
          /\ [w \in wk |-> "lock"] \in [wk -> {"lock", "wait", "run", "returned"}]
      OBVIOUS
    <3>2. \A w \in wk : Len([u \in wk |-> << >>][w]) = 0
      OBVIOUS
    <3>3. QED
      BY <3>1, <3>2 DEF PoolOK
  <2>2. QED
    BY <1>2, <1>3, <2>1 DEF WritePoolOK, ReadPoolOK
<1>5. store \in Maps
  <2>1. << >> \in [{} -> Value \cup {"0"}] /\ {} \in SUBSET Key
    OBVIOUS
  <2>2. QED
    BY <1>1, <2>1 DEF Maps
<1>6. TypeOK
  <2>1. Len(entries) = 0
    BY <1>1
  <2>2. commit_index \in -1 .. Len(entries) - 1 /\ applied_index \in -1 .. Len(entries) - 1
    BY <1>1, <2>1
  <2>3. /\ entries \in Seq(Entry) /\ posted \in Seq(Answer)
        /\ result \in [Thread -> Seq(Answer)]
    BY <1>1
  <2>4. raced \in BOOLEAN
    BY <1>1
  <2>5. QED
    BY <1>1, <1>4, <1>5, <2>2, <2>3, <2>4, PoolTypes DEF TypeOK, Maps, Answer
<1>7. IoOK
  BY <1>1 DEF IoOK
<1>8. \A t \in Thread : result[t] = << >>
  BY <1>1
<1>9. ResultsOK
  BY <1>8 DEF ResultsOK
<1>10. HandoverOK
  <2>1. InHand = << >>
    BY <1>2, OneWriter DEF InHand, InMap, task_of
  <2>2. Handed = 0
    BY <1>1 DEF Handed
  <2>3. HandedOver(entries, << >>, << >>, << >>, 0)
    BY DEF HandedOver
  <2>4. QED
    BY <1>1, <1>2, <2>1, <2>2, <2>3 DEF HandoverOK
<1>11. \A r : ~Given(r)
  BY <1>1, <1>8 DEF Given
<1>12. AddressesOK
  BY <1>1, <1>11 DEF AddressesOK
<1>13. QED
  BY <1>6, <1>7, <1>9, <1>10, <1>12 DEF PInv

LEMMA WorkerKeeps ==
    ASSUME PInv, NEW t \in Thread, Worker(t)
    PROVE  PInv'
<1>1. CASE t \in Writer /\ write_worker(t)
  <2>1. CASE Write!take(t)
    BY <1>1, <2>1, WriterTakesKeeps DEF write_worker
  <2>2. CASE Write!wait(t) \/ Write!return(t)
    BY <1>1, <2>2, WorkerIdleKeeps DEF write_worker
  <2>3. QED
    BY <1>1, <2>1, <2>2 DEF write_worker
<1>2. CASE t \in Reader /\ read_worker(t)
  <2>1. CASE Read!take(t)
    BY <1>2, <2>1, ReaderTakesKeeps DEF read_worker
  <2>2. CASE Read!wait(t) \/ Read!return(t)
    BY <1>2, <2>2, WorkerIdleKeeps DEF read_worker
  <2>3. QED
    BY <1>2, <2>1, <2>2 DEF read_worker
<1>3. CASE apply(t)
  BY <1>3, ApplyKeeps
<1>4. CASE get(t)
  BY <1>4, GetKeeps
<1>5. CASE post(t)
  BY <1>5, PostKeeps
<1>6. QED
  BY <1>1, <1>2, <1>3, <1>4, <1>5 DEF Worker

LEMMA PipelineStep ==
    ASSUME PInv, [Next]_vars
    PROVE  PInv'
<1>1. CASE UNCHANGED vars
  <2>1. UNCHANGED <<log, controler, io, posted, write_pool, read_pool, machine, asking>>
    BY <1>1 DEF vars
  <2>2. QED
    BY <2>1, PoolsIdleSame, IoSame, IdleKeeps DEF log
<1>2. CASE IoThread
  <2>1. CASE apply_to_state_machine
    BY <2>1, EnqueueKeeps
  <2>2. CASE notify_write \/ notify_read \/ destroy_read_pool \/ destroy_write_pool
    BY <2>2, NotifyWriteKeeps, NotifyReadKeeps, DestroyReadKeeps,
       DestroyWriteKeeps
  <2>3. CASE write_resp_call
    BY <2>3, AnswerKeeps
  <2>4. QED
    BY <1>2, <2>1, <2>2, <2>3 DEF IoThread
<1>3. CASE \E t \in Thread : Worker(t)
  BY <1>3, WorkerKeeps
<1>4. CASE Environment
  <2>1. ASSUME NEW c \in Client, NEW k \in Key, append_client_apply_to_entries(c, k)
        PROVE  PInv'
    BY <2>1, ClientApplyKeeps
  <2>2. ASSUME NEW i, NEW k \in Key, react2ae(i, k)
        PROVE  PInv'
    BY <2>2, ReactAeKeeps
  <2>3. ASSUME trans2P \/ throw_line \/ \E n : update_commit_index_and_apply(n)
        PROVE  PInv'
    BY <2>3, PrimaryKeeps, ThrowLineKeeps, CommitKeeps
  <2>4. ASSUME NEW c \in Asker, NEW k \in Key, get_from_state_machine(c, k)
        PROVE  PInv'
    BY <2>4, AskKeeps
  <2>5. QED
    BY <1>4, <2>1, <2>2, <2>3, <2>4 DEF Environment
<1>5. CASE spurious_wakeup
  BY <1>5, WorkerIdleKeeps DEF spurious_wakeup
<1>6. QED
  BY <1>1, <1>2, <1>3, <1>4, <1>5 DEF Next

LEMMA PipelineInvariance == Spec => []PInv
<1>1. PInv /\ [Next]_vars => PInv'
  BY PipelineStep
<1>2. QED
  BY <1>1, InitP, PTL DEF Spec

\* Every variable of the pipeline holds a value of its declared type, and no
\* index leaves the log, whatever the threads do.
THEOREM PipelineTypes == Spec => []TypeOK
<1>1. PInv => TypeOK
  BY DEF PInv
<1>2. QED
  BY <1>1, PipelineInvariance, PTL


\* A client is told that a command was applied only if the command was its
\* own, or took its place in the log with an AE (write_resp_apply_call):
\* however late the answer is posted, socketAddr still holds whoever asked for
\* the entry of that index.
THEOREM ClientsToldOfTheirOwn == Spec => ToldOfOwnCommand
<1> DEFINE Told == Head(posted).type = "RESP_CLIENT_APPLY" =>
                     \A c \in answered_client(Head(posted)) :
                        Head(posted).of.v \in {c, "elsewhere"}
<1>1. ASSUME PInv, posted # << >> PROVE Told
  <2>1. posted \in Seq(Answer)
    BY <1>1, ThreadFacts
  <2>2. 1 \in DOMAIN posted /\ Head(posted) = posted[1]
    BY <1>1, <2>1
  <2>3. Given(Head(posted))
    BY <2>2 DEF Given
  <2>4. Head(posted).type = "RESP_CLIENT_APPLY" =>
          OwnerOK(Head(posted).index, Head(posted).of.v)
    BY <1>1, <2>3 DEF PInv, AddressesOK
  <2>5. QED
    BY <2>4 DEF OwnerOK, answered_client
<1>2. PInv /\ [Next]_vars =>
        [write_resp_call /\ Head(posted).type = "RESP_CLIENT_APPLY" =>
          \A c \in answered_client(Head(posted)) :
              Head(posted).of.v \in {c, "elsewhere"}]_vars
  BY <1>1 DEF write_resp_call
<1>3. QED
  BY <1>2, PipelineInvariance, PTL DEF Spec, ToldOfOwnCommand

-----------------------------------------------------------------------------
(* The pipeline implements CommandLog, but for its fairness. *)

committed == SubSeq(entries, 1, handed_over + 1)

LEMMA SamePrefix ==
    ASSUME NEW es \in Seq(Entry), NEW fs \in Seq(Entry), NEW n \in Nat,
           n <= Len(es), n <= Len(fs), \A j \in 1 .. n : fs[j] = es[j]
    PROVE  SubSeq(fs, 1, n) = SubSeq(es, 1, n)
OBVIOUS

LEMMA LongerPrefix ==
    ASSUME NEW es \in Seq(Entry), NEW m \in Nat, NEW n \in Nat,
           m < n, n <= Len(es)
    PROVE  /\ Len(SubSeq(es, 1, n)) > Len(SubSeq(es, 1, m))
           /\ SubSeq(SubSeq(es, 1, n), 1, Len(SubSeq(es, 1, m))) = SubSeq(es, 1, m)
<1>1. Len(es) \in Nat
  OBVIOUS
<1>2. /\ Len(SubSeq(es, 1, n)) = n /\ Len(SubSeq(es, 1, m)) = m
      /\ SubSeq(es, 1, n) \in Seq(Entry)
  BY <1>1
<1>3. \A j \in 1 .. m : SubSeq(es, 1, n)[j] = es[j]
  BY <1>1
<1>4. QED
  BY <1>1, <1>2, <1>3, SamePrefix

\* Commits that do not reach beyond what was handed over, and the end of a
\* turn of the loop, change nothing.
LEMMA CommitStep ==
    ASSUME PInv, NEW n, update_commit_index_and_apply(n)
    PROVE  Log!Commit \/ UNCHANGED <<committed, applied>>
<1>1. /\ io = "poll" /\ commit_index' = n /\ n \in -1 .. Len(entries) - 1
      /\ UNCHANGED <<entries, applied_index, applied>>
  BY DEF update_commit_index_and_apply, passes, log, machine
<1>2. ~(applied_index < commit_index)
  BY <1>1 DEF PInv, IoOK
<1>3. handed_over = applied_index
  BY <1>2 DEF handed_over
<1>4. CASE applied_index < n
  <2>1. handed_over' = n
    BY <1>1, <1>4 DEF handed_over
  <2>2. /\ applied_index + 1 \in Nat /\ n + 1 \in Nat
        /\ applied_index + 1 < n + 1 /\ n + 1 <= Len(entries)
    BY <1>1, <1>4, LogFacts
  <2>3. /\ SubSeq(entries', 1, handed_over' + 1) = SubSeq(entries, 1, n + 1)
        /\ SubSeq(entries, 1, handed_over + 1) = SubSeq(entries, 1, applied_index + 1)
    BY <1>1, <1>3, <2>1
  <2>4. entries \in Seq(Entry)
    BY LogFacts
  <2>5. /\ Len(SubSeq(entries, 1, n + 1)) > Len(SubSeq(entries, 1, applied_index + 1))
        /\ SubSeq(SubSeq(entries, 1, n + 1), 1,
                  Len(SubSeq(entries, 1, applied_index + 1)))
             = SubSeq(entries, 1, applied_index + 1)
    BY ONLY <2>2, <2>4, LongerPrefix
  <2>6. Log!Commit
    BY ONLY <1>1, <2>3, <2>5 DEF Log!Commit
  <2>7. QED
    BY <2>6
<1>5. CASE ~(applied_index < n)
  BY <1>1, <1>3, <1>5 DEF handed_over, committed
<1>6. QED
  BY <1>4, <1>5

LEMMA NotifyStep ==
    ASSUME PInv, notify_write
    PROVE  UNCHANGED <<committed, applied>>
<1>1. /\ io = "notify_write" /\ applied_index' = applied_index + 1
      /\ UNCHANGED <<entries, commit_index, applied>>
  BY DEF notify_write, log, machine
<1>2. applied_index < commit_index
  BY <1>1 DEF PInv, IoOK
<1>3. handed_over = commit_index
  BY <1>2 DEF handed_over
<1>4. handed_over' = commit_index
  BY <1>1, <1>2, LogFacts DEF handed_over
<1>5. QED
  BY <1>1, <1>3, <1>4 DEF committed

LEMMA LogOnlyStep ==
    ASSUME PInv, LogOnly
    PROVE  UNCHANGED <<committed, applied>>
<1>1. /\ entries' \in Seq(Entry) /\ Len(entries') >= handed_over + 1
      /\ \A j \in 1 .. handed_over + 1 : entries'[j] = entries[j]
      /\ UNCHANGED <<commit_index, applied_index, applied>>
  BY DEF LogOnly, controler, machine
<1>2. handed_over' = handed_over
  BY <1>1 DEF handed_over
<1>3. /\ handed_over + 1 \in Nat /\ handed_over + 1 <= Len(entries)
      /\ handed_over + 1 <= Len(entries') /\ entries \in Seq(Entry)
  BY <1>1, LogFacts
<1>4. SubSeq(entries', 1, handed_over + 1) = SubSeq(entries, 1, handed_over + 1)
  BY <1>1, <1>3, SamePrefix
<1>5. QED
  BY <1>1, <1>2, <1>4 DEF committed

LEMMA ApplyStep ==
    ASSUME PInv, NEW t, apply(t)
    PROVE  Log!Apply
<1>1. /\ UNCHANGED <<entries, commit_index, applied_index>>
      /\ applied' = Append(applied, entries[Len(applied) + 1])
      /\ Len(applied) + 1 <= Handed
  BY ApplyKeeps DEF controler
<1>2. handed_over' = handed_over
  BY <1>1 DEF handed_over
<1>3. /\ Len(applied) \in Nat /\ Len(applied) + 1 \in 1 .. handed_over + 1
      /\ handed_over + 1 \in Nat /\ handed_over + 1 <= Len(entries)
      /\ entries \in Seq(Entry)
  BY <1>1, HandedFits, LogFacts
<1>4. /\ Len(SubSeq(entries, 1, handed_over + 1)) = handed_over + 1
      /\ SubSeq(entries, 1, handed_over + 1)[Len(applied) + 1]
           = entries[Len(applied) + 1]
  BY <1>3
<1>5. Len(applied) < Len(SubSeq(entries, 1, handed_over + 1))
  BY <1>3, <1>4
<1>6. QED
  BY <1>1, <1>2, <1>4, <1>5 DEF Log!Apply

LEMMA LogStep ==
    ASSUME PInv, [Next]_vars
    PROVE  Log!Commit \/ Log!Apply \/ UNCHANGED <<committed, applied>>
<1>1. ASSUME UNCHANGED <<entries, commit_index, applied_index, applied>>
      PROVE  UNCHANGED <<committed, applied>>
  BY <1>1 DEF committed, handed_over
<1>2. CASE UNCHANGED vars
  BY <1>1, <1>2 DEF vars, log, controler, machine
<1>3. CASE IoThread
  <2>1. CASE \/ apply_to_state_machine \/ notify_read \/ write_resp_call
             \/ destroy_read_pool \/ destroy_write_pool
    <3>1. UNCHANGED <<log, controler, machine>>
      BY <2>1 DEF apply_to_state_machine, notify_read, write_resp_call,
                  destroy_read_pool, destroy_write_pool
    <3>2. QED
      BY <1>1, <3>1 DEF log, controler, machine
  <2>2. QED
    BY <1>3, <2>1, NotifyStep DEF IoThread
<1>4. ASSUME NEW t \in Thread, Worker(t)
      PROVE  Log!Apply \/ UNCHANGED <<committed, applied>>
  <2>1. CASE write_worker(t) \/ read_worker(t)
    BY <1>1, <2>1 DEF write_worker, read_worker, log, controler, machine
  <2>2. CASE get(t) \/ post(t)
    BY <1>1, <2>2 DEF get, post, log, controler
  <2>3. CASE apply(t)
    BY <2>3, ApplyStep
  <2>4. QED
    BY <1>4, <2>1, <2>2, <2>3 DEF Worker
<1>5. CASE Environment
  <2>1. ASSUME NEW c \in Client, NEW k \in Key, append_client_apply_to_entries(c, k)
        PROVE  UNCHANGED <<committed, applied>>
    BY <2>1, ClientApplyKeeps, LogOnlyStep
  <2>2. ASSUME NEW i, NEW k \in Key, react2ae(i, k)
        PROVE  UNCHANGED <<committed, applied>>
    BY <2>2, ReactAeKeeps, LogOnlyStep
  <2>3. CASE \/ trans2P \/ throw_line
             \/ \E c \in Asker, k \in Key : get_from_state_machine(c, k)
    <3>1. UNCHANGED <<entries, controler, machine>>
      BY <2>3 DEF trans2P, throw_line, get_from_state_machine, log
    <3>2. QED
      BY <1>1, <3>1 DEF controler, machine
  <2>4. QED
    BY <1>5, <2>1, <2>2, <2>3, CommitStep DEF Environment
<1>6. CASE spurious_wakeup
  BY <1>1, <1>6 DEF spurious_wakeup, log, controler, machine
<1>7. QED
  BY <1>2, <1>3, <1>4, <1>5, <1>6 DEF Next

\* Entries are applied to the state machine one after the other, each once, in
\* the order of the log and only if they are committed, although the commit
\* index of update_commit_index_and_apply may go back and the write pool may
\* be busy, waiting or being destroyed: the safety part of AppliesInOrder.
THEOREM PipelineAppliesInOrder ==
    Spec => /\ Log!Init
            /\ [][Log!Commit \/ Log!Apply]_<<SubSeq(entries, 1, handed_over + 1),
                                             applied>>
<1>1. Init => Log!Init
  <2>1. Init => /\ entries = << >> /\ applied = << >>
                /\ applied_index = -1 /\ commit_index = -1
    BY DEF Init
  <2>2. SubSeq(<< >>, 1, 0) = << >> /\ -1 + 1 = 0
    OBVIOUS
  <2>3. QED
    BY <2>1, <2>2 DEF Log!Init, handed_over
<1>2. PInv /\ [Next]_vars =>
        [Log!Commit \/ Log!Apply]_<<SubSeq(entries, 1, handed_over + 1), applied>>
  BY LogStep DEF committed
<1>3. QED
  BY <1>1, <1>2, PipelineInvariance, PTL DEF Spec


-----------------------------------------------------------------------------
(* What the map holds, and so what a query is answered with. *)

\* The entry that is applied sets its key, and only that one.
LEMMA ValueSet ==
    ASSUME NEW done \in Seq(Entry), NEW e \in Entry, NEW more,
           more = Append(done, e), NEW n, n = Len(done)
    PROVE  /\ HasValue(more, e.key, n + 1, e.v)
           /\ \A k, v : k # e.key /\ HasValue(done, k, n, v)
                           => HasValue(more, k, n + 1, v)
<1>1. /\ n \in Nat /\ more[n + 1] = e
      /\ \A j \in 1 .. n : more[j] = done[j]
  OBVIOUS
<1>2. /\ n + 1 \in 1 .. n + 1
      /\ \A j \in 1 .. n + 1 : j <= n + 1 /\ (j = n + 1 \/ j \in 1 .. n)
      /\ \A j \in 1 .. n : j \in 1 .. n + 1
  BY <1>1
<1>3. HasValue(more, e.key, n + 1, e.v)
  BY <1>1, <1>2 DEF HasValue
<1>4. ASSUME NEW k, NEW v, k # e.key, HasValue(done, k, n, v)
      PROVE  HasValue(more, k, n + 1, v)
  <2>1. more[n + 1].key # k
    BY <1>1, <1>4
  <2>2. CASE v = "0" /\ \A j \in 1 .. n : done[j].key # k
    <3>1. \A j \in 1 .. n + 1 : more[j].key # k
      BY <1>1, <1>2, <2>1, <2>2
    <3>2. QED
      BY <2>2, <3>1 DEF HasValue
  <2>3. CASE \E j \in 1 .. n :
               /\ done[j].key = k /\ done[j].v = v
               /\ \A i \in 1 .. n : done[i].key = k => i <= j
    <3>1. PICK j \in 1 .. n :
               /\ done[j].key = k /\ done[j].v = v
               /\ \A i \in 1 .. n : done[i].key = k => i <= j
      BY <2>3
    <3>2. more[j].key = k /\ more[j].v = v /\ j \in 1 .. n + 1
      BY <1>1, <1>2, <3>1
    <3>3. \A i \in 1 .. n + 1 : more[i].key = k => i <= j
      BY <1>1, <1>2, <2>1, <3>1
    <3>4. QED
      BY <3>2, <3>3 DEF HasValue
  <2>4. QED
    BY <1>4, <2>2, <2>3 DEF HasValue
<1>5. QED
  BY <1>3, <1>4


\* Only apply and get touch the map.
LEMMA MapSteps ==
    ASSUME [Next]_vars
    PROVE  \/ \E t \in Thread : apply(t) \/ get(t)
           \/ UNCHANGED <<store, raced, applied>>
<1>1. ASSUME UNCHANGED machine PROVE UNCHANGED <<store, raced, applied>>
  BY <1>1 DEF machine
<1>2. CASE UNCHANGED vars
  BY <1>1, <1>2 DEF vars
<1>3. CASE IoThread
  <2>1. UNCHANGED machine
    BY <1>3 DEF IoThread, apply_to_state_machine, notify_write, notify_read,
                write_resp_call, destroy_read_pool, destroy_write_pool
  <2>2. QED
    BY <1>1, <2>1
<1>4. ASSUME NEW t \in Thread, Worker(t), ~apply(t), ~get(t)
      PROVE  UNCHANGED <<store, raced, applied>>
  <2>1. CASE write_worker(t) \/ read_worker(t)
    BY <1>1, <2>1 DEF write_worker, read_worker
  <2>2. CASE post(t)
    BY <2>2 DEF post
  <2>3. QED
    BY <1>4, <2>1, <2>2 DEF Worker
<1>5. CASE Environment
  <2>1. UNCHANGED machine
    BY <1>5 DEF Environment, append_client_apply_to_entries, trans2P, react2ae,
                update_commit_index_and_apply, get_from_state_machine,
                throw_line
  <2>2. QED
    BY <1>1, <2>1
<1>6. CASE spurious_wakeup
  BY <1>1, <1>6 DEF spurious_wakeup
<1>7. QED
  BY <1>2, <1>3, <1>4, <1>5, <1>6 DEF Next

\* What get returns and leaves behind while no race has spoilt the map: the
\* value of its key, which it adds with 0 if nobody stored it.
LEMMA GetReturns ==
    ASSUME PInv, MapOK, NEW t, get(t), ~raced'
    PROVE  /\ ~raced /\ applied' = applied /\ t \in Reader
           /\ Holds(store', applied)
           /\ HasValue(applied, rtask[t][1].key, Len(applied), result'[t][1].v)
<1> DEFINE q == rtask[t][1]
           v == IF Inserts(t) THEN "0" ELSE store[q.key]
<1>1. /\ t \in Reader /\ InMap(t) /\ applied' = applied
      /\ Lookup(t, q.key, v)
      /\ result' = [result EXCEPT ![t] = <<[type |-> "RESP_CLIENT_QUERY",
            to |-> q.to, v |-> IF raced' THEN "undefined" ELSE v]>>]
  BY DEF get, Returns
<1>2. ~raced /\ store' = Put(store, q.key, v)
  BY <1>1 DEF Lookup
<1>3. Holds(store, applied)
  BY <1>2 DEF MapOK
<1>4. rtask[t] # << >>
  BY <1>1, ThreadFacts DEF InMap
<1>5. q.key = key_of(t)
  BY <1>1, <1>4, ReaderHolds
<1>6. result'[t][1].v = v
  <2>1. t \in Thread /\ result \in [Thread -> Seq(Answer)]
    BY <1>1, ThreadFacts, OneWriter
  <2>2. QED
    BY <1>1, <2>1
<1>7. HasValue(applied, q.key, Len(applied), v)
  <2>1. CASE Inserts(t)
    <3>1. q.key \notin DOMAIN store
      BY <1>5, <2>1 DEF Inserts
    <3>2. \A j \in 1 .. Len(applied) : applied[j].key # q.key
      BY <1>3, <3>1 DEF Holds
    <3>3. QED
      BY <2>1, <3>2 DEF HasValue
  <2>2. CASE ~Inserts(t)
    <3>1. q.key \in DOMAIN store
      BY <1>5, <2>2 DEF Inserts
    <3>2. QED
      BY <1>3, <2>2, <3>1 DEF Holds
  <2>3. QED
    BY <2>1, <2>2
<1> HIDE DEF q, v
<1>8. /\ DOMAIN store' = {q.key} \cup DOMAIN store
      /\ store'[q.key] = v
      /\ \A x \in DOMAIN store : x # q.key => store'[x] = store[x]
  BY <1>2 DEF Put
<1>9. Holds(store', applied)
  BY <1>3, <1>7, <1>8 DEF Holds
<1>10. QED
  BY <1>1, <1>2, <1>6, <1>7, <1>9 DEF q

\* EasyStateMachine::apply stores the value of the entry that is next.
LEMMA ApplyStores ==
    ASSUME PInv, MapOK, NEW t, apply(t), ~raced'
    PROVE  Holds(store', applied')
<1> DEFINE e == entries[Len(applied) + 1]
           n == Len(applied)
<1>1. /\ applied' = Append(applied, e) /\ e \in Entry /\ Lookup(t, e.key, e.v)
  BY ApplyKeeps
<1>2. ~raced /\ store' = Put(store, e.key, e.v)
  BY <1>1 DEF Lookup
<1>3. Holds(store, applied)
  BY <1>2 DEF MapOK
<1>4. n \in Nat /\ applied \in Seq(Entry)
  BY HandedFits
<1> HIDE DEF e
<1>5. /\ Len(applied') = n + 1 /\ applied'[n + 1] = e
      /\ \A j \in 1 .. n : applied'[j] = applied[j]
  BY <1>1, <1>4
<1>6. /\ DOMAIN store' = {e.key} \cup DOMAIN store
      /\ store'[e.key] = e.v
      /\ \A x \in DOMAIN store : x # e.key => store'[x] = store[x]
  BY <1>2 DEF Put
<1>7. /\ HasValue(applied', e.key, n + 1, e.v)
      /\ \A k, v : k # e.key /\ HasValue(applied, k, n, v)
                      => HasValue(applied', k, n + 1, v)
  BY <1>1, <1>4, ValueSet
<1>8. ASSUME NEW k \in DOMAIN store'
      PROVE  HasValue(applied', k, Len(applied'), store'[k])
  <2>1. CASE k = e.key
    BY <1>5, <1>6, <1>7, <2>1
  <2>2. CASE k # e.key
    <3>1. k \in DOMAIN store /\ store'[k] = store[k]
      BY <1>6, <2>2
    <3>2. HasValue(applied, k, n, store[k])
      BY <1>3, <3>1 DEF Holds
    <3>3. QED
      BY <1>5, <1>7, <2>2, <3>1, <3>2
  <2>3. QED
    BY <2>1, <2>2
<1>9. ASSUME NEW j \in 1 .. Len(applied') PROVE applied'[j].key \in DOMAIN store'
  <2>1. j = n + 1 \/ j \in 1 .. n
    BY <1>4, <1>5
  <2>2. QED
    BY <1>3, <1>5, <1>6, <2>1 DEF Holds
<1>10. QED
  BY <1>8, <1>9 DEF Holds

LEMMA MapInvariance == Spec => [](PInv /\ MapOK)
<1>1. Init => MapOK
  <2>1. Init => store = << >> /\ applied = << >>
    BY DEF Init
  <2>2. Holds(<< >>, << >>)
    BY DEF Holds
  <2>3. QED
    BY <2>1, <2>2 DEF MapOK
<1>2. PInv /\ MapOK /\ [Next]_vars => MapOK'
  <2> SUFFICES ASSUME PInv, MapOK, [Next]_vars, ~raced'
               PROVE  Holds(store', applied')
    BY DEF MapOK
  <2>1. CASE UNCHANGED <<store, raced, applied>>
    BY <2>1 DEF MapOK
  <2>2. ASSUME NEW t, get(t) PROVE Holds(store', applied')
    <3>1. Holds(store', applied) /\ applied' = applied
      BY <2>2, GetReturns
    <3>2. QED
      BY <3>1
  <2>3. QED
    BY <2>1, <2>2, MapSteps, ApplyStores
<1>3. QED
  BY <1>1, <1>2, PipelineInvariance, PTL DEF Spec

\* The latest of the first n entries that set key k is unique.
LEMMA LatestValue ==
    ASSUME NEW done, NEW k, NEW n \in Nat, NEW v, HasValue(done, k, n, v),
           NEW sets, \A j : j \in sets <=> j \in 1 .. n /\ done[j].key = k
    PROVE  v = IF sets = {} THEN "0" ELSE done[Max(sets)].v
<1>1. CASE v = "0" /\ \A j \in 1 .. n : done[j].key # k
  BY <1>1
<1>2. CASE \E j \in 1 .. n :
             /\ done[j].key = k /\ done[j].v = v
             /\ \A i \in 1 .. n : done[i].key = k => i <= j
  <2>1. PICK j \in 1 .. n :
             /\ done[j].key = k /\ done[j].v = v
             /\ \A i \in 1 .. n : done[i].key = k => i <= j
    BY <1>2
  <2>2. j \in sets /\ \A i \in sets : j >= i
    BY <2>1
  <2>3. \A i \in sets : i \in Nat
    OBVIOUS
  <2>4. Max(sets) \in sets /\ \A i \in sets : Max(sets) >= i
    BY <2>2 DEF Max
  <2>5. Max(sets) = j
    BY <2>2, <2>3, <2>4
  <2>6. QED
    BY <2>1, <2>2, <2>5
<1>3. QED
  BY <1>1, <1>2 DEF HasValue

\* A query is answered with the value that the last applied entry of its key
\* stored, and with 0 if there is none, as of the moment a thread of the read
\* pool calls EasyStateMachine::get: with any number of readers, writers that
\* overtake them, clients, keys and entries, until two threads race in the map.
THEOREM QueriesAreFresh == Spec => QueryFresh
<1> DEFINE Sets(t) == {j \in DOMAIN applied : applied[j].key = rtask[t][1].key}
           Fresh(t) == result'[t][1].v = IF Sets(t) = {} THEN "0"
                                         ELSE applied[Max(Sets(t))].v
<1>1. ASSUME PInv, MapOK, NEW t \in Reader, get(t), ~raced' PROVE Fresh(t)
  <2>1. HasValue(applied, rtask[t][1].key, Len(applied), result'[t][1].v)
    BY <1>1, GetReturns
  <2>2. Len(applied) \in Nat /\ DOMAIN applied = 1 .. Len(applied)
    BY <1>1, HandedFits
  <2>3. ASSUME NEW sets, sets = Sets(t)
        PROVE  result'[t][1].v = IF sets = {} THEN "0" ELSE applied[Max(sets)].v
    <3>1. \A j : j \in sets <=> j \in 1 .. Len(applied)
                                  /\ applied[j].key = rtask[t][1].key
      BY <2>2, <2>3
    <3>2. QED
      BY ONLY <2>1, <2>2, <3>1, LatestValue
  <2>4. QED
    BY <2>3
<1>2. PInv /\ MapOK /\ [Next]_vars =>
        [\A t \in Reader : get(t) /\ ~raced' =>
          LET sets == {j \in DOMAIN applied :
                          applied[j].key = rtask[t][1].key}
          IN  result'[t][1].v = IF sets = {} THEN "0"
                                             ELSE applied[Max(sets)].v]_vars
  BY <1>1
<1>3. QED
  BY <1>2, MapInvariance, PTL DEF Spec, QueryFresh

=============================================================================
