--------------------------- MODULE EventLoopThread ---------------------------
(***************************************************************************)
(* base/EventLoopThread.{h,cpp}: the object that starts a thread, builds   *)
(* an EventLoop in it and runs it, composed with that loop.                *)
(*                                                                         *)
(* Owner is the thread that constructs the object, calls startLoop() and   *)
(* stopLoop() and usually destroys it; Clients hold the EventLoop pointer  *)
(* that startLoop() returned.  The steps of the loop are those of module   *)
(* EventLoop.  The mutex of EventLoopThread protects the handshake of      *)
(* startLoop() with the new thread: a wait for cond_ is a state of its own,*)
(* so that a notification nobody waits for is lost, as it is in the code.  *)
(***************************************************************************)
EXTENDS Naturals, Sequences, Functions

CONSTANTS
  LoopThread,   \* the thread startLoop() creates
  Owner,        \* the thread that owns the EventLoopThread
  Clients,      \* other threads that use the loop
  Functors,
  EfdMax

Users == Clients \cup {Owner}

VARIABLES
  quit_, pendingFunctors_, sizePendingFunctors_, wakeupFd_, waking,
  pc, active, functors, fresh, executed, discarded,
  loop_,        \* the EventLoop: "null", "alive" or "deleted"
  thread,       \* the thread: "none", "starting", "running" or "ended"
  joinable,     \* thread_.joinable()
  owner         \* the member function being executed, see Phases

loopVars == <<quit_, pendingFunctors_, sizePendingFunctors_, wakeupFd_, waking,
              pc, active, functors, fresh, executed, discarded>>
vars == <<loopVars, loop_, thread, joinable, owner>>

L == INSTANCE EventLoop WITH Callers <- Users

(* "outside": in no member function; "test" and "wait": in startLoop(),    *)
(* about to look at loop_ and blocked in cond_.wait(); "stop" and          *)
(* "destroy": in stopLoop() and in the destructor, past quit(); "inside":  *)
(* in the destructor, run by the loop's own thread; "gone": destroyed.     *)
Phases == {"outside", "test", "wait", "stop", "destroy", "inside", "gone"}

TypeOK ==
  /\ L!TypeOK
  /\ loop_ \in {"null", "alive", "deleted"}
  /\ thread \in {"none", "starting", "running", "ended"}
  /\ joinable \in BOOLEAN
  /\ owner \in Phases

Init ==
  /\ L!Init
  /\ loop_ = "null"
  /\ thread = "none"
  /\ joinable = FALSE
  /\ owner = "outside"

-----------------------------------------------------------------------------
(* startLoop() and threadFunc()                                            *)

(* assert(loop_ == nullptr), then the thread is created. *)
startLoop ==
  /\ owner = "outside"
  /\ loop_ = "null" /\ thread = "none"
  /\ thread' = "starting"
  /\ joinable' = TRUE
  /\ owner' = "test"
  /\ UNCHANGED <<loopVars, loop_>>

\* fault: cond_ is waited for without looking at loop_ first
TestLoop_WaitFirst ==
  /\ owner = "test"
  /\ owner' = "wait"
  /\ UNCHANGED <<loopVars, loop_, thread, joinable>>

(* while(loop_ == nullptr) cond_.wait(lock), one test of the condition. *)
TestLoop ==
  /\ owner = "test"
  /\ owner' = IF loop_ = "null" THEN "wait" ELSE "outside"
  /\ UNCHANGED <<loopVars, loop_, thread, joinable>>

(* cond_.wait() may return without a notification. *)
SpuriousWakeup ==
  /\ owner = "wait"
  /\ owner' = "test"
  /\ UNCHANGED <<loopVars, loop_, thread, joinable>>

(* The critical section of threadFunc(): the loop is built and whoever     *)
(* waits for it is notified.                                               *)
BuildLoop ==
  /\ thread = "starting"
  /\ thread' = "running"
  /\ loop_' = "alive"
  /\ owner' = IF owner = "wait" THEN "test" ELSE owner
  /\ UNCHANGED <<loopVars, joinable>>

(* loop_->loop(), on the new thread; the thread ends when it returns. *)
RunLoop ==
  /\ thread = "running" /\ loop_ = "alive" /\ owner # "inside"
  /\ L!LoopStep
  /\ thread' = IF pc = "clear" THEN "ended" ELSE thread
  /\ UNCHANGED <<loop_, joinable, owner>>

-----------------------------------------------------------------------------
(* stopLoop() and the destructor                                           *)

(* assert(loop_ && !loop_->isInLoopThread()), then loop_->quit(). *)
stopLoop ==
  /\ owner = "outside"
  /\ loop_ = "alive"
  /\ L!quit(Owner)
  /\ owner' = "stop"
  /\ UNCHANGED <<loop_, thread, joinable>>

(* if(thread_.joinable()) thread_.join() *)
Join ==
  /\ owner = "stop"
  /\ ~waking[Owner]
  /\ joinable => thread = "ended"
  /\ joinable' = FALSE
  /\ owner' = "outside"
  /\ UNCHANGED <<loopVars, loop_, thread>>

(* The destructor, called by the owner: quit() if there is a loop. *)
destructor ==
  /\ owner = "outside"
  /\ \/ /\ loop_ = "alive"
        /\ L!quit(Owner)
        /\ owner' = "destroy"
     \/ /\ loop_ = "null"
        /\ owner' = "gone"
        /\ UNCHANGED loopVars
  /\ UNCHANGED <<loop_, thread, joinable>>

(* The EventLoop is deleted with its member, and with it the functors      *)
(* queued since the loop returned.  No client may be in a call of it.      *)
DeleteLoop ==
  /\ \A t \in L!Threads : ~waking[t]
  /\ loop_' = "deleted"
  /\ joinable' = FALSE
  /\ owner' = "gone"
  /\ discarded' = discarded \cup Range(pendingFunctors_)
  /\ pendingFunctors_' = <<>>
  /\ UNCHANGED <<quit_, sizePendingFunctors_, wakeupFd_, waking, pc, active,
                 functors, fresh, executed, thread>>

DestroyAfterJoin ==
  /\ owner = "destroy"
  /\ joinable => thread = "ended"
  /\ DeleteLoop

(* The destructor, called by user code on the loop's own thread: it quits, *)
(* detaches the thread and deletes the loop that is running it.            *)
destructorInLoop ==
  /\ owner = "outside"
  /\ loop_ = "alive" /\ thread = "running"
  /\ pc \in {"io", "functor"}
  /\ L!quit(LoopThread)
  /\ owner' = "inside"
  /\ UNCHANGED <<loop_, thread, joinable>>

DestroyAfterDetach ==
  /\ owner = "inside"
  /\ DeleteLoop

-----------------------------------------------------------------------------
(* Use of the loop                                                         *)

(* Thread t may start a call: the loop was handed out and is not being     *)
(* destroyed; the owner is in no member function, and the loop's thread is *)
(* in a functor or callback.                                               *)
MayUse(t) ==
  /\ loop_ = "alive"
  /\ owner \in {"outside", "stop"}
  /\ t = Owner => owner = "outside"
  /\ t = LoopThread => pc \in {"io", "functor"}

UseLoop ==
  /\ \E t \in L!Threads :
       \/ /\ MayUse(t)
          /\ \/ \E f \in Functors : L!queueInLoop(t, f) \/ L!runInLoop(t, f)
             \/ L!quit(t)
       \/ L!wakeup(t)
  /\ UNCHANGED <<loop_, thread, joinable, owner>>

Next ==
  \/ startLoop \/ TestLoop \/ SpuriousWakeup \/ BuildLoop \/ RunLoop
  \/ stopLoop \/ Join
  \/ destructor \/ DestroyAfterJoin
  \/ destructorInLoop \/ DestroyAfterDetach
  \/ UseLoop

Spec == Init /\ [][Next]_vars

(***************************************************************************)
(* Both threads are scheduled, functors and callbacks return, and a call   *)
(* of a member function that has begun goes on.  Nobody has to start, stop *)
(* or destroy anything, and no wait has to return spuriously.              *)
(***************************************************************************)
Fairness ==
  /\ WF_vars(TestLoop) /\ WF_vars(BuildLoop)
  /\ WF_vars(RunLoop /\ (L!loop \/ L!OwnStep))
  /\ SF_vars(RunLoop /\ (L!EndIo \/ L!EndFunctor))
  /\ WF_vars(Join) /\ WF_vars(DestroyAfterJoin) /\ WF_vars(DestroyAfterDetach)
  /\ \A t \in L!Threads : WF_vars(UseLoop /\ L!wakeup(t))

FairSpec == Spec /\ Fairness

-----------------------------------------------------------------------------
(* Properties                                                              *)

(* Who waits for cond_ waits for a thread that will notify it.  Who joins   *)
(* the thread joins one that is leaving loop(), or that will see the quit:  *)
(* nothing but leaving resets quit_, be it set before loop() was entered,   *)
(* and the loop does not block on it.                                       *)
NobodyWaitsInVain ==
  /\ owner = "wait" => thread = "starting"
  /\ owner \in {"stop", "destroy"} /\ joinable /\ thread # "ended" =>
       \/ pc \in {"exit", "clear"}
       \/ quit_ /\ (pc = "poll" => L!WakeupComing)

(* startLoop(), stopLoop() and the destructor return: the notification of  *)
(* the new loop is not lost, whichever thread comes first, and join() ends *)
(* wherever the loop is when it is asked to quit: not yet in loop(),       *)
(* blocked, in user code, or already out because someone else called       *)
(* quit().                                                                 *)
CallsReturn ==
  /\ owner \in {"test", "wait"} ~> owner = "outside"
  /\ owner = "stop" ~> owner # "stop"
  /\ owner = "destroy" ~> owner = "gone"

=============================================================================
