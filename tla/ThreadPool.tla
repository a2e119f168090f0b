------------------------------ MODULE ThreadPool ------------------------------
(***************************************************************************)
(* base/ThreadPool.h: worker threads that take tasks from one queue under  *)
(* one mutex and one condition variable, and a destructor that lets them   *)
(* finish what is queued.                                                  *)
(*                                                                         *)
(* A step is a critical section of _mutex, or the run of a task between    *)
(* two of them.  notify_one() and notify_all() are called with the mutex   *)
(* held, so they belong to the critical section they are in.               *)
(***************************************************************************)
EXTENDS Naturals, Sequences, Functions, FiniteSets

CONSTANTS
  Workers,      \* the threads of the pool
  Tasks,        \* the tasks that get scheduled
  none          \* no task: an empty std::function

ASSUME WorkersAssumption == IsFiniteSet(Workers)

VARIABLES
  tasks,        \* _tasks
  stop,         \* _stop
  worker,       \* worker[w]: where w is in its loop, or the task it runs
  owner,        \* the thread that destroys the pool
  fresh,        \* tasks not scheduled yet
  started       \* tasks started so far, in order

vars == <<tasks, stop, worker, owner, fresh, started>>

(* "test": about to take _mutex and evaluate the condition; "waiting": in  *)
(* _condition.wait(); "returned": the thread function is over.             *)
Places == {"test", "waiting", "returned"}
ASSUME TasksAssumption == Tasks \cap Places = {} /\ none \notin Tasks

TypeOK ==
  /\ tasks \in Seq(Tasks)
  /\ stop \in BOOLEAN
  /\ worker \in [Workers -> Places \cup Tasks]
  /\ owner \in {"using", "joining", "gone"}
  /\ fresh \subseteq Tasks
  /\ started \in Seq(Tasks)

Init ==
  /\ tasks = <<>>
  /\ stop = FALSE
  /\ worker = [w \in Workers |-> "test"]
  /\ owner = "using"
  /\ fresh = Tasks
  /\ started = <<>>

AtPlace(p) == {w \in Workers : worker[w] = p}
Running == {w \in Workers : worker[w] \in Tasks}

-----------------------------------------------------------------------------
(* The condition variable                                                  *)

(* notify_one(): if somebody waits, one of them goes to test again. *)
NotifyOne ==
  IF AtPlace("waiting") = {}
    THEN UNCHANGED worker
    ELSE \E w \in AtPlace("waiting") : worker' = [worker EXCEPT ![w] = "test"]

NotifyAll ==
  worker' = [w \in Workers |->
               IF worker[w] = "waiting" THEN "test" ELSE worker[w]]

(* wait() may also return without having been notified. *)
SpuriousWakeup(w) ==
  /\ worker[w] = "waiting"
  /\ worker' = [worker EXCEPT ![w] = "test"]
  /\ UNCHANGED <<tasks, stop, owner, fresh, started>>

-----------------------------------------------------------------------------
(* The pool                                                                *)

(* Any thread may schedule while the pool is in use; once its destruction  *)
(* has begun, only the tasks that still run may.                           *)
MaySchedule == owner = "using" \/ Running # {}

\* fault: only the task that finds the queue empty wakes a worker
schedule_NotifyFirst(t) ==
  /\ MaySchedule
  /\ t \in fresh
  /\ fresh' = fresh \ {t}
  /\ tasks' = Append(tasks, t)
  /\ IF tasks = <<>> THEN NotifyOne ELSE UNCHANGED worker
  /\ UNCHANGED <<stop, owner, started>>

schedule(t) ==
  /\ MaySchedule
  /\ t \in fresh
  /\ fresh' = fresh \ {t}
  /\ tasks' = Append(tasks, t)
  /\ NotifyOne
  /\ UNCHANGED <<stop, owner, started>>

(* The condition does not hold: the mutex is released and the worker       *)
(* waits, in one step.                                                     *)
Wait(w) ==
  /\ worker[w] = "test"
  /\ ~stop /\ tasks = <<>>
  /\ worker' = [worker EXCEPT ![w] = "waiting"]
  /\ UNCHANGED <<tasks, stop, owner, fresh, started>>

\* fault: a stopped worker leaves the rest of the queue
Return_OnStop(w) ==
  /\ worker[w] = "test"
  /\ stop
  /\ worker' = [worker EXCEPT ![w] = "returned"]
  /\ UNCHANGED <<tasks, stop, owner, fresh, started>>

(* if(_stop && _tasks.empty()) return *)
Return(w) ==
  /\ worker[w] = "test"
  /\ stop /\ tasks = <<>>
  /\ worker' = [worker EXCEPT ![w] = "returned"]
  /\ UNCHANGED <<tasks, stop, owner, fresh, started>>

\* fault: the task is copied from the queue and popped after it has run
Take_KeepFront(w) ==
  /\ worker[w] = "test"
  /\ tasks # <<>>
  /\ worker' = [worker EXCEPT ![w] = Head(tasks)]
  /\ started' = Append(started, Head(tasks))
  /\ UNCHANGED <<tasks, stop, owner, fresh>>

Take(w) ==
  /\ worker[w] = "test"
  /\ tasks # <<>>
  /\ worker' = [worker EXCEPT ![w] = Head(tasks)]
  /\ tasks' = Tail(tasks)
  /\ started' = Append(started, Head(tasks))
  /\ UNCHANGED <<stop, owner, fresh>>

(* task() has returned. *)
Finish(w) ==
  /\ worker[w] \in Tasks
  /\ worker' = [worker EXCEPT ![w] = "test"]
  /\ UNCHANGED <<tasks, stop, owner, fresh, started>>

\* fault: the destructor wakes one worker
BeginDestruction_NotifyOne ==
  /\ owner = "using"
  /\ owner' = "joining"
  /\ stop' = TRUE
  /\ NotifyOne
  /\ UNCHANGED <<tasks, fresh, started>>

(* ~ThreadPool(): the flag, then one join() per worker. *)
BeginDestruction ==
  /\ owner = "using"
  /\ owner' = "joining"
  /\ stop' = TRUE
  /\ NotifyAll
  /\ UNCHANGED <<tasks, fresh, started>>

EndDestruction ==
  /\ owner = "joining"
  /\ AtPlace("returned") = Workers
  /\ owner' = "gone"
  /\ UNCHANGED <<tasks, stop, worker, fresh, started>>

WorkerStep(w) == Wait(w) \/ Return(w) \/ Take(w) \/ Finish(w)

Next ==
  \/ \E t \in Tasks : schedule(t)
  \/ \E w \in Workers : WorkerStep(w) \/ SpuriousWakeup(w)
  \/ BeginDestruction
  \/ EndDestruction

Spec == Init /\ [][Next]_vars

(* Every worker gets the mutex and its tasks return; the destructor        *)
(* returns when it can.  Nobody has to schedule, to destroy the pool or to *)
(* wake up spuriously.                                                     *)
Fairness ==
  /\ \A w \in Workers : WF_vars(WorkerStep(w))
  /\ WF_vars(EndDestruction)

FairSpec == Spec /\ Fairness

-----------------------------------------------------------------------------
(* Properties                                                              *)

(* The pool is work-conserving: while a worker waits, there are at least   *)
(* as many workers on their way to the queue as tasks in it.  No           *)
(* notification is lost, however many schedule() calls are made in a row.  *)
NoWorkerSleepsOnWork ==
  AtPlace("waiting") # {} => Len(tasks) <= Cardinality(AtPlace("test"))

(* When the destructor returns, no worker is left and every task that was  *)
(* scheduled has run, also one that another task scheduled meanwhile.      *)
(* (A pool of no workers runs nothing.)                                    *)
DrainedOnReturn ==
  owner = "gone" /\ Workers # {} =>
    tasks = <<>> /\ Running = {} /\ Range(started) = Tasks \ fresh

(* Tasks are started in the order in which they were scheduled, each once: *)
(* the queue keeps the promise of FunctorQueue without its way to stop.    *)
Queue == INSTANCE FunctorQueue WITH
           Functors <- Tasks, inbox <- tasks, executed <- started,
           discarded <- {}, stopping <- FALSE

ImplementsFunctorQueue == Queue!Spec

(* The destructor returns: no worker sleeps through it. *)
DestructorReturns == owner = "joining" ~> owner = "gone"

=============================================================================
