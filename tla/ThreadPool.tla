----------------------------- MODULE ThreadPool -----------------------------
(***************************************************************************)
(* A ThreadPool (state_machine/ThreadPool.h): a queue of tasks under       *)
(* queue_mutex, workers that wait on a condition variable while it is      *)
(* empty, and a destructor that lets them finish the queue and joins them. *)
(*                                                                         *)
(* What a thread does between lock and unlock is one step; notify_one and  *)
(* notify_all are called without the lock and are steps of their own.  A   *)
(* worker that is woken looks at the queue again, whoever woke it.         *)
(*                                                                         *)
(* The module has no specification of its own: ApplyPipeline instantiates  *)
(* it for each pool of a server.                                           *)
(***************************************************************************)
EXTENDS Naturals, Sequences

CONSTANTS
    Worker,     \* the threads
    Task        \* the tasks that may be enqueued

VARIABLES
    tasks,      \* tasks
    stop,       \* stop
    at,         \* where each worker is in its loop
    task        \* the task each worker holds, a sequence of length one or zero

pool == <<tasks, stop, at, task>>

TypeOK ==
    /\ tasks \in Seq(Task)
    /\ stop \in BOOLEAN
    /\ at \in [Worker -> {"lock", "wait", "run", "returned"}]
    /\ task \in [Worker -> Seq(Task)]
    /\ \A w \in Worker : Len(task[w]) = IF at[w] = "run" THEN 1 ELSE 0

Start ==
    /\ tasks = << >>
    /\ stop = FALSE
    /\ at = [w \in Worker |-> "lock"]
    /\ task = [w \in Worker |-> << >>]

-----------------------------------------------------------------------------
(* The loop of a worker. *)

\* Slip: the newest task is taken.
take_newest(w) ==
    /\ at[w] = "lock"
    /\ tasks # << >>
    /\ task' = [task EXCEPT ![w] = <<tasks[Len(tasks)]>>]
    /\ tasks' = SubSeq(tasks, 1, Len(tasks) - 1)
    /\ at' = [at EXCEPT ![w] = "run"]
    /\ UNCHANGED stop

\* The lock is held and there is a task: take it, unlock.
take(w) ==
    /\ at[w] = "lock"
    /\ tasks # << >>
    /\ task' = [task EXCEPT ![w] = <<Head(tasks)>>]
    /\ tasks' = Tail(tasks)
    /\ at' = [at EXCEPT ![w] = "run"]
    /\ UNCHANGED stop

\* Slip: wait is called without a predicate.
wait_anyway(w) ==
    /\ at[w] = "lock"
    /\ ~stop
    /\ at' = [at EXCEPT ![w] = "wait"]
    /\ UNCHANGED <<tasks, stop, task>>

\* The predicate of wait is false: unlock and wait, in one.
wait(w) ==
    /\ at[w] = "lock"
    /\ tasks = << >> /\ ~stop
    /\ at' = [at EXCEPT ![w] = "wait"]
    /\ UNCHANGED <<tasks, stop, task>>

\* A condition variable may wake without having been notified.
wake(w) ==
    /\ at[w] = "wait"
    /\ at' = [at EXCEPT ![w] = "lock"]
    /\ UNCHANGED <<tasks, stop, task>>

return(w) ==
    /\ at[w] = "lock"
    /\ tasks = << >> /\ stop
    /\ at' = [at EXCEPT ![w] = "returned"]
    /\ UNCHANGED <<tasks, stop, task>>

\* Slip: the task is kept.
end_task_kept(w) ==
    /\ at[w] = "run"
    /\ at' = [at EXCEPT ![w] = "lock"]
    /\ UNCHANGED <<tasks, stop, task>>

\* task() returns.
end_task(w) ==
    /\ at[w] = "run"
    /\ task' = [task EXCEPT ![w] = << >>]
    /\ at' = [at EXCEPT ![w] = "lock"]
    /\ UNCHANGED <<tasks, stop>>

-----------------------------------------------------------------------------
(* enqueue and ~ThreadPool, called by the owner of the pool. *)

enqueue(t) ==
    /\ ~stop
    /\ tasks' = Append(tasks, t)
    /\ UNCHANGED <<stop, at, task>>

notify_one ==
    \/ \E w \in Worker : wake(w)
    \/ /\ \A w \in Worker : at[w] # "wait"
       /\ UNCHANGED pool

set_stop ==
    /\ stop' = TRUE
    /\ UNCHANGED <<tasks, at, task>>

\* Slip: notify_one is called where notify_all should be.
notify_first ==
    \/ \E w \in Worker : wake(w)
    \/ /\ \A w \in Worker : at[w] # "wait"
       /\ UNCHANGED pool

notify_all ==
    /\ at' = [w \in Worker |-> IF at[w] = "wait" THEN "lock" ELSE at[w]]
    /\ UNCHANGED <<tasks, stop, task>>

joined == \A w \in Worker : at[w] = "returned"

=============================================================================
