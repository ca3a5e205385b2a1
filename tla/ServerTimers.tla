---------------------------- MODULE ServerTimers ----------------------------
(***************************************************************************)
(* The timers of one RaftServer as boost::asio runs them.  A timer has an  *)
(* expiry time and at most one handler waiting for it.  When the time has  *)
(* come the handler is queued, and from then on it can no longer be        *)
(* cancelled: it will run, without an error, however the timer is set in   *)
(* the meantime.  The code therefore sets a timer it cancels to            *)
(* min_date_time, and its handlers look for that value when they run.      *)
(*                                                                         *)
(* The reactor works in passes: it collects the messages that have arrived *)
(* and the timers that have expired, and their handlers, messages first,   *)
(* all run before it looks again.                                          *)
(*                                                                         *)
(* The other servers are an environment that sends whatever makes this     *)
(* server touch its timers.  Terms, logs and lsns are left out: RaftServer *)
(* models them, with timers whose handlers run as soon as they expire.     *)
(***************************************************************************)
EXTENDS Naturals, FiniteSets, Sequences, Functions

CONSTANTS
    Peer,           \* the other servers
    MaxMessages     \* bound: messages in a behaviour

ASSUME TimersAssumption ==
    /\ IsFiniteSet(Peer) /\ "candidate" \notin Peer
    /\ MaxMessages \in Nat

VARIABLES
    overtaking, \* may a pass find more than a single timer or message?
    state,      \* state_
    granted,    \* the peers whose votes are counted in winned_votes_
    timer,      \* candidate_timer_ and retry_timers_
    ready,      \* the timer handlers of this pass that are still to run
    ahead,      \* are messages of this pass still to be handled before them?
    thrown,     \* the line of the assertion that ended the process, or 0
    messages    \* number of messages so far

vars == <<overtaking, state, granted, timer, ready, ahead, thrown, messages>>

Timer == Peer \cup {"candidate"}

\* Which function hooked a handler, by its name in the code.
Handler == {"run", "trans2F", "trans2C", "RV", "AE"}

majority == (Cardinality(Peer) + 1) \div 2 + 1

-----------------------------------------------------------------------------
(* Timer operations.  t is the function of all timers. *)

\* expires_at(min_date_time): a waiting handler is aborted and returns at once.
expires_at_min(t, T) ==
    [k \in Timer |-> IF k \in T THEN [min |-> TRUE, wait |-> "none"] ELSE t[k]]

\* expires_from_now and async_wait.
hook(t, T, h) ==
    [k \in Timer |-> IF k \in T THEN [min |-> FALSE, wait |-> h] ELSE t[k]]

cancel_all_timers(t) == expires_at_min(t, Timer)

hooked(t, k) == t[k].wait # "none"

\* RV: a handler found waiting is aborted, and then none is hooked.
RV(t, p) == IF hooked(t, p) THEN hook(t, {p}, "none") ELSE hook(t, {p}, "RV")

-----------------------------------------------------------------------------
(* What handlers do, each with the rest of the queue. *)

Throw(line, rest) ==
    /\ thrown' = line
    /\ ready' = rest
    /\ UNCHANGED <<overtaking, state, granted, timer>>

Become(s, votes, t, rest) ==
    /\ state' = s
    /\ granted' = votes
    /\ timer' = t
    /\ ready' = rest
    /\ UNCHANGED <<overtaking, thrown>>

\* Slip: who is a follower already does not set the candidate timer again.
trans2F_again(rest) ==
    Become("follower", {},
           IF state = "follower" THEN cancel_all_timers(timer)
           ELSE hook(cancel_all_timers(timer), {"candidate"}, "trans2F"), rest)

\* Slip: the retry timers are left running.
trans2F_no_cancel(rest) ==
    Become("follower", {}, hook(timer, {"candidate"}, "trans2F"), rest)

trans2F(rest) ==
    Become("follower", {},
           hook(cancel_all_timers(timer), {"candidate"}, "trans2F"), rest)

\* Slip: the next election's timer is not set.
trans2C_once(rest) ==
    Become("candidate", {}, hook(cancel_all_timers(timer), Peer, "RV"), rest)

trans2C(rest) ==
    Become("candidate", {},
           hook(hook(cancel_all_timers(timer), {"candidate"}, "trans2C"),
                Peer, "RV"), rest)

\* Slip: the timers of the election run on.
trans2P_no_cancel(votes, rest) ==
    IF \E p \in Peer : hooked(timer, p) THEN Throw(316, rest)
    ELSE Become("primary", votes, hook(timer, Peer, "AE"), rest)

trans2P(votes, rest) ==
    Become("primary", votes, hook(cancel_all_timers(timer), Peer, "AE"), rest)

\* Slip: the AE is sent, but no handler hooked.
AE_once(t, p, rest) ==
    IF hooked(t, p) THEN Throw(316, rest)
    ELSE Become(state, granted, t, rest)

AE(t, p, rest) ==
    IF hooked(t, p) THEN Throw(316, rest)
    ELSE Become(state, granted, hook(t, {p}, "AE"), rest)

-----------------------------------------------------------------------------

Alive == thrown = 0

\* Any timers with a waiting handler, in the order in which they expire.
Batches ==
    LET Waiting == {k \in Timer : hooked(timer, k)}
    IN  UNION {Injection(1 .. n, Waiting) : n \in 1 .. Cardinality(Waiting)}

\* The reactor queues the handlers of the timers that have expired.
Expire(batch) ==
    /\ Alive
    /\ ready = << >>
    /\ overtaking \/ Len(batch) = 1
    /\ ready' = [i \in DOMAIN batch |->
                   [timer |-> batch[i], handler |-> timer[batch[i]].wait]]
    /\ timer' = [k \in Timer |-> IF k \in Range(batch)
                                 THEN [timer[k] EXCEPT !.wait = "none"]
                                 ELSE timer[k]]
    /\ ahead' = overtaking
    /\ UNCHANGED <<overtaking, state, granted, thrown, messages>>

\* The handlers of candidate_timer_, hooked by run, trans2F and trans2C.
candidate_handler ==
    /\ Alive /\ ready # << >>
    /\ Head(ready).timer = "candidate"
    /\ IF ~timer["candidate"].min THEN trans2C(Tail(ready))
       ELSE CASE Head(ready).handler = "run" ->
                     Become(state, granted, timer, Tail(ready))
              [] Head(ready).handler = "trans2F" -> Throw(160, Tail(ready))
              [] Head(ready).handler = "trans2C" -> Throw(250, Tail(ready))
    /\ ahead' = FALSE
    /\ UNCHANGED messages

\* The handler hooked by RV.
rv_handler ==
    LET p == Head(ready).timer
    IN  /\ Alive /\ ready # << >>
        /\ Head(ready).handler = "RV"
        /\ IF timer[p].min THEN Throw(399, Tail(ready))
           ELSE Become(state, granted, RV(timer, p), Tail(ready))
        /\ ahead' = FALSE
    /\ UNCHANGED messages

\* The handler hooked by AE.
ae_handler ==
    LET p == Head(ready).timer
    IN  /\ Alive /\ ready # << >>
        /\ Head(ready).handler = "AE"
        /\ IF timer[p].min THEN Become(state, granted, timer, Tail(ready))
           ELSE AE(timer, p, Tail(ready))
        /\ ahead' = FALSE
    /\ UNCHANGED messages

-----------------------------------------------------------------------------
(* Messages, as far as they touch the timers. *)

Receive ==
    /\ Alive
    /\ messages < MaxMessages
    /\ ahead \/ ready = << >>
    /\ messages' = messages + 1
    /\ UNCHANGED ahead

\* react2ae in this term or a later one; react2rv, react2resp_rv and
\* react2resp_ae in a later one.  A primary gets no AE of its own term.
StepDown == Receive /\ trans2F(ready)

\* candidate_deal_resp_rv_with_same_term: p grants its vote.
VoteGranted(p) ==
    LET votes == granted \cup {p}
    IN  /\ Receive
        /\ state = "candidate"
        /\ p \notin granted
        /\ \/ /\ Cardinality(votes) + 1 >= majority
              /\ trans2P(votes, ready)
           \/ /\ Cardinality(votes) + 1 < majority
              /\ Become(state, votes, expires_at_min(timer, {p}), ready)

\* primary_deal_resp_ae_with_same_term: another AE goes to p at once, because
\* p accepted an AE and there are more entries (expires_at), or because p
\* denied it (cancel).  Either way AE overwrites the expiry time.
NextAE(p) ==
    /\ Receive
    /\ state = "primary"
    /\ AE(expires_at_min(timer, {p}), p, ready)

Init ==
    /\ overtaking \in BOOLEAN
    /\ state = "follower"
    /\ granted = {}
    /\ timer = [k \in Timer |->
                    [min |-> FALSE,
                     wait |-> IF k = "candidate" THEN "run" ELSE "none"]]
    /\ ready = << >>
    /\ ahead = FALSE
    /\ thrown = 0
    /\ messages = 0

HandlerRuns == candidate_handler \/ rv_handler \/ ae_handler

Next ==
    \/ \E batch \in Batches : Expire(batch)
    \/ candidate_handler
    \/ rv_handler
    \/ ae_handler
    \/ StepDown
    \/ \E p \in Peer : VoteGranted(p) \/ NextAE(p)

Spec == Init /\ [][Next]_vars

\* io_service::run runs every handler it has queued, and a timer that is not
\* set again expires: a later pass finds it.
FairSpec ==
    /\ Spec
    /\ WF_vars(HandlerRuns)
    /\ \A k \in Timer :
            SF_vars(\E batch \in Batches : k \in Range(batch) /\ Expire(batch))

-----------------------------------------------------------------------------
(* Kept however the handlers are delayed. *)

\* Whoever is not primary will stand for election unless it hears from one:
\* the candidate timer runs, or its handler is queued (run, trans2F, trans2C).
ElectionPending ==
    Alive /\ state # "primary" =>
        \/ hooked(timer, "candidate")
        \/ \E i \in DOMAIN ready : ready[i].timer = "candidate"

\* No late handler sets a timer that is none of the server's role: a follower
\* sends nothing, a candidate no AE, a primary does not stand for election.
TimersFitRole ==
    Alive =>
        /\ state = "follower" => \A p \in Peer : ~hooked(timer, p)
        /\ state = "candidate" => \A p \in Peer : timer[p].wait # "AE"
        /\ state = "primary" => ~hooked(timer, "candidate")

\* Whoever is not primary stands for election, again and again, once it hears
\* nothing more: the handler of the candidate timer is queued in the end,
\* unless an assertion ended the process (trans2F's and trans2C's handlers).
ElectionsGoOn ==
    Alive /\ state # "primary" ~>
        \/ ~Alive
        \/ state = "primary"
        \/ \E i \in DOMAIN ready : ready[i].timer = "candidate"

-----------------------------------------------------------------------------
(* Kept only if every handler runs as soon as its timer expires. *)

\* A primary keeps sending to every peer: an AE handler waits or is queued.
HeartbeatsKept ==
    Alive /\ state = "primary" =>
        \A p \in Peer :
            \/ timer[p].wait = "AE"
            \/ \E i \in DOMAIN ready : ready[i] = [timer |-> p, handler |-> "AE"]

\* RaftServer.cpp:104: a cancelled handler does nothing.  It neither ends the
\* process with an assertion (160, 250, 316, 399) nor takes away another
\* handler's timer (379).
CancelledHandlersDoNothing == Alive /\ HeartbeatsKept

\* The promise is kept while no handler is overtaken, as RaftServer assumes:
\* none of the assertions about timers fires and no heartbeat stops.
PromptHandlersSound == ~overtaking => CancelledHandlersDoNothing

=============================================================================
