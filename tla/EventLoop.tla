------------------------------ MODULE EventLoop ------------------------------
(***************************************************************************)
(* base/EventLoop.{h,cpp}: one libevent loop, the thread that runs it and  *)
(* the other threads that queue functors on it or ask it to quit.          *)
(*                                                                         *)
(* Each step is what one thread does between two points where another      *)
(* thread can get in: a critical section of mutex_, an access to quit_, a  *)
(* read or write of the wakeup eventfd, one poll of the kernel, the start  *)
(* or the end of one piece of user code.  In particular queueInLoop() and  *)
(* quit() are two steps each, because wakeup() is called after the lock is *)
(* released (after the flag is set).                                       *)
(*                                                                         *)
(* User code (a functor or an I/O, timer or signal callback) may call the  *)
(* loop back.  It is modelled by the window in which it runs on the loop's *)
(* thread: pc = "functor", "io", or "idle" when loop() is not running.     *)
(***************************************************************************)
EXTENDS Naturals, Sequences, Functions

CONSTANTS
  LoopThread,   \* the thread that constructed the loop and runs loop()
  Callers,      \* every other thread
  Functors,     \* the functors that get submitted
  EfdMax        \* where the eventfd counter saturates (2^64 - 2 on Linux)

ASSUME LoopThreadAssumption == LoopThread \notin Callers
ASSUME EfdMaxAssumption == EfdMax \in Nat \ {0}

Threads == Callers \cup {LoopThread}

VARIABLES
  quit_,                  \* the flag quit() sets
  pendingFunctors_,       \* the queue, guarded by mutex_
  sizePendingFunctors_,   \* its length as the code counts it
  wakeupFd_,              \* the counter of the eventfd
  waking,                 \* waking[t]: t is about to call wakeup()
  pc,                     \* where the loop's thread is in loop()
  active,                 \* events libevent found active and has not handled
  functors,               \* the batch doPendingFunctors() has still to run
  fresh,                  \* functors not submitted yet
  executed,               \* functors started so far, in order
  discarded               \* functors cleared at the end of loop()

vars == <<quit_, pendingFunctors_, sizePendingFunctors_, wakeupFd_, waking,
          pc, active, functors, fresh, executed, discarded>>

Events == {"wakeup", "io"}
Locations == {"idle", "check", "poll", "dispatch", "io", "drain", "functor",
              "exit", "clear"}

TypeOK ==
  /\ quit_ \in BOOLEAN
  /\ pendingFunctors_ \in Seq(Functors)
  /\ sizePendingFunctors_ \in Nat
  /\ wakeupFd_ \in 0..EfdMax
  /\ waking \in [Threads -> BOOLEAN]
  /\ pc \in Locations
  /\ active \subseteq Events
  /\ functors \in Seq(Functors)
  /\ fresh \subseteq Functors
  /\ executed \in Seq(Functors)
  /\ discarded \subseteq Functors

Init ==
  /\ quit_ = FALSE
  /\ pendingFunctors_ = <<>>
  /\ sizePendingFunctors_ = 0
  /\ wakeupFd_ = 0
  /\ waking = [t \in Threads |-> FALSE]
  /\ pc = "idle"
  /\ active = {}
  /\ functors = <<>>
  /\ fresh = Functors
  /\ executed = <<>>
  /\ discarded = {}

-----------------------------------------------------------------------------
(* Calls from any thread                                                   *)

(* The places where the loop's thread is in user code. *)
InUserCode == pc \in {"idle", "io", "functor"}

(* Thread t is free to make a call of the loop's interface. *)
MayCall(t) ==
  /\ ~waking[t]
  /\ t = LoopThread => InUserCode

(* The critical section of queueInLoop(); wakes says whether the caller    *)
(* goes on to wake the loop.                                               *)
Push(t, f, wakes) ==
  /\ MayCall(t)
  /\ f \in fresh
  /\ fresh' = fresh \ {f}
  /\ pendingFunctors_' = Append(pendingFunctors_, f)
  /\ sizePendingFunctors_' = sizePendingFunctors_ + 1
  /\ waking' = [waking EXCEPT ![t] = wakes]
  /\ UNCHANGED <<quit_, wakeupFd_, pc, active, functors, executed, discarded>>

\* fault: the length after the increment is compared with zero
queueInLoop_PreIncrement(t, f) == Push(t, f, sizePendingFunctors_ + 1 = 0)

(* Only the thread that finds the queue empty wakes the loop: the size is  *)
(* read before the increment.                                              *)
queueInLoop(t, f) == Push(t, f, sizePendingFunctors_ = 0)

(* The loop's thread runs f inside the user code that calls runInLoop();   *)
(* what f itself calls is part of what that user code calls.               *)
runInLoop(t, f) ==
  \/ /\ t # LoopThread
     /\ queueInLoop(t, f)
  \/ /\ t = LoopThread
     /\ MayCall(t)
     /\ f \in fresh
     /\ fresh' = fresh \ {f}
     /\ executed' = Append(executed, f)
     /\ UNCHANGED <<quit_, pendingFunctors_, sizePendingFunctors_, wakeupFd_,
                    waking, pc, active, functors, discarded>>

\* fault: the flag is set but nobody wakes the loop
quit_NoWakeup(t) ==
  /\ MayCall(t)
  /\ quit_' = TRUE
  /\ UNCHANGED <<pendingFunctors_, sizePendingFunctors_, wakeupFd_, waking, pc,
                 active, functors, fresh, executed, discarded>>

quit(t) ==
  /\ MayCall(t)
  /\ quit_' = TRUE
  /\ waking' = [waking EXCEPT ![t] = TRUE]
  /\ UNCHANGED <<pendingFunctors_, sizePendingFunctors_, wakeupFd_, pc, active,
                 functors, fresh, executed, discarded>>

(* The write to the eventfd.  The descriptor is non-blocking: when the     *)
(* counter is saturated write() fails, the code logs and carries on.       *)
wakeup(t) ==
  /\ waking[t]
  /\ waking' = [waking EXCEPT ![t] = FALSE]
  /\ wakeupFd_' = IF wakeupFd_ < EfdMax THEN wakeupFd_ + 1 ELSE wakeupFd_
  /\ UNCHANGED <<quit_, pendingFunctors_, sizePendingFunctors_, pc, active,
                 functors, fresh, executed, discarded>>

-----------------------------------------------------------------------------
(* loop(), on the loop's thread                                            *)

Goto(from, to) == pc = from /\ pc' = to

\* fault: the flag is reset when loop() is entered
loop_ResetFirst ==
  /\ Goto("idle", "check")
  /\ ~waking[LoopThread]
  /\ quit_' = FALSE
  /\ UNCHANGED <<pendingFunctors_, sizePendingFunctors_, wakeupFd_, waking,
                 active, functors, fresh, executed, discarded>>

(* loop() is called; it may be called again after it returned. *)
loop ==
  /\ Goto("idle", "check")
  /\ ~waking[LoopThread]
  /\ UNCHANGED <<quit_, pendingFunctors_, sizePendingFunctors_, wakeupFd_,
                 waking, active, functors, fresh, executed, discarded>>

(* while(!quit_) *)
CheckQuit ==
  /\ Goto("check", IF quit_ THEN "exit" ELSE "poll")
  /\ UNCHANGED <<quit_, pendingFunctors_, sizePendingFunctors_, wakeupFd_,
                 waking, active, functors, fresh, executed, discarded>>

(* event_base_loop(base_, EVLOOP_ONCE) blocks until some event is active:  *)
(* the wakeup event is, when the eventfd is readable, and io stands for    *)
(* the other descriptors, timers and signals, which may be active or not.  *)
Poll(io) ==
  /\ Goto("poll", "dispatch")
  /\ active' = {e \in Events : IF e = "wakeup" THEN wakeupFd_ > 0 ELSE io}
  /\ active' # {}
  /\ UNCHANGED <<quit_, pendingFunctors_, sizePendingFunctors_, wakeupFd_,
                 waking, functors, fresh, executed, discarded>>

(* read() of a non-blocking eventfd resets its counter. *)
handleWakeup ==
  /\ pc = "dispatch"
  /\ "wakeup" \in active
  /\ active' = active \ {"wakeup"}
  /\ wakeupFd_' = 0
  /\ UNCHANGED <<quit_, pendingFunctors_, sizePendingFunctors_, waking, pc,
                 functors, fresh, executed, discarded>>

BeginIo ==
  /\ Goto("dispatch", "io")
  /\ "io" \in active
  /\ active' = active \ {"io"}
  /\ UNCHANGED <<quit_, pendingFunctors_, sizePendingFunctors_, wakeupFd_,
                 waking, functors, fresh, executed, discarded>>

EndIo ==
  /\ Goto("io", "dispatch")
  /\ ~waking[LoopThread]
  /\ UNCHANGED <<quit_, pendingFunctors_, sizePendingFunctors_, wakeupFd_,
                 waking, active, functors, fresh, executed, discarded>>

\* fault: the batch is a copy, the queue keeps its functors
SwapPending_Copy ==
  /\ Goto("dispatch", "drain")
  /\ active = {}
  /\ functors' = pendingFunctors_
  /\ sizePendingFunctors_' = 0
  /\ UNCHANGED <<quit_, pendingFunctors_, wakeupFd_, waking, active, fresh,
                 executed, discarded>>

\* fault: the queue is emptied but its length is not reset
SwapPending_KeepSize ==
  /\ Goto("dispatch", "drain")
  /\ active = {}
  /\ functors' = pendingFunctors_
  /\ pendingFunctors_' = <<>>
  /\ UNCHANGED <<quit_, sizePendingFunctors_, wakeupFd_, waking, active, fresh,
                 executed, discarded>>

(* The critical section of doPendingFunctors(). *)
SwapPending ==
  /\ Goto("dispatch", "drain")
  /\ active = {}
  /\ functors' = pendingFunctors_
  /\ pendingFunctors_' = <<>>
  /\ sizePendingFunctors_' = 0
  /\ UNCHANGED <<quit_, wakeupFd_, waking, active, fresh, executed, discarded>>

(* The loop over the batch, which needs no lock. *)
BeginFunctor ==
  /\ Goto("drain", "functor")
  /\ functors # <<>>
  /\ executed' = Append(executed, Head(functors))
  /\ functors' = Tail(functors)
  /\ UNCHANGED <<quit_, pendingFunctors_, sizePendingFunctors_, wakeupFd_,
                 waking, active, fresh, discarded>>

EndFunctor ==
  /\ Goto("functor", "drain")
  /\ ~waking[LoopThread]
  /\ UNCHANGED <<quit_, pendingFunctors_, sizePendingFunctors_, wakeupFd_,
                 waking, active, functors, fresh, executed, discarded>>

EndDrain ==
  /\ Goto("drain", "check")
  /\ functors = <<>>
  /\ UNCHANGED <<quit_, pendingFunctors_, sizePendingFunctors_, wakeupFd_,
                 waking, active, functors, fresh, executed, discarded>>

(* After the while: quit_ = false, so that loop() can be called again. *)
ResetQuit ==
  /\ Goto("exit", "clear")
  /\ quit_' = FALSE
  /\ UNCHANGED <<pendingFunctors_, sizePendingFunctors_, wakeupFd_, waking,
                 active, functors, fresh, executed, discarded>>

(* The critical section at the end of loop() drops what is still queued. *)
ClearPending ==
  /\ Goto("clear", "idle")
  /\ sizePendingFunctors_' = 0
  /\ discarded' = discarded \cup Range(pendingFunctors_)
  /\ pendingFunctors_' = <<>>
  /\ UNCHANGED <<quit_, wakeupFd_, waking, active, functors, fresh, executed>>

-----------------------------------------------------------------------------

CallerStep ==
  \E t \in Threads :
    \/ \E f \in Functors : queueInLoop(t, f) \/ runInLoop(t, f)
    \/ quit(t)
    \/ wakeup(t)

LoopStep ==
  \/ loop
  \/ CheckQuit
  \/ \E io \in BOOLEAN : Poll(io)
  \/ handleWakeup
  \/ BeginIo
  \/ EndIo
  \/ SwapPending
  \/ BeginFunctor
  \/ EndFunctor
  \/ EndDrain
  \/ ResetQuit
  \/ ClearPending

Next == CallerStep \/ LoopStep

Spec == Init /\ [][Next]_vars

(***************************************************************************)
(* Fairness.  The kernel schedules every thread that can run, so the       *)
(* loop's own steps and a wakeup() already begun are weakly fair; a poll   *)
(* is bound to return only when the eventfd is readable, never because     *)
(* some other descriptor might become active.  Strong fairness on the end  *)
(* of user code says that functors and callbacks return: without it one    *)
(* that calls quit() for ever could never do so.  Nobody has to call       *)
(* loop(), queue a functor or quit.                                        *)
(***************************************************************************)
OwnStep ==
  \/ CheckQuit
  \/ wakeupFd_ > 0 /\ \E io \in BOOLEAN : Poll(io)
  \/ handleWakeup \/ BeginIo
  \/ SwapPending \/ BeginFunctor \/ EndDrain
  \/ ResetQuit \/ ClearPending

Fairness ==
  /\ WF_vars(OwnStep)
  /\ SF_vars(EndIo \/ EndFunctor)
  /\ \A t \in Threads : WF_vars(wakeup(t))

FairSpec == Spec /\ Fairness

-----------------------------------------------------------------------------
(* Properties                                                              *)

(* The eventfd is readable, or some thread is about to make it so. *)
WakeupComing == wakeupFd_ > 0 \/ \E t \in Threads : waking[t]

(* sizePendingFunctors_ is the length of the queue whenever mutex_ is free:*)
(* whether a caller wakes the loop hangs on it being exactly 0.            *)
SizeAgrees == sizePendingFunctors_ = Len(pendingFunctors_)

(* No lost wakeup.  While the loop is, or may still get, at the point      *)
(* where it blocks, functors in the queue imply a wakeup on its way: the   *)
(* thread that found the queue empty has written the eventfd or will.      *)
(* (While events are dispatched the queue is drained before the next poll  *)
(* and in "clear" it is about to be dropped.)                              *)
NoLostWakeup ==
  pendingFunctors_ # <<>> /\ pc \notin {"dispatch", "io", "clear"}
    => WakeupComing

(* No lost quit.  The loop never blocks on a quit() it has not seen. *)
NoLostQuit == quit_ /\ pc = "poll" => WakeupComing

(* The batch is local to doPendingFunctors(): it is empty elsewhere. *)
BatchIsLocal == functors # <<>> => pc \in {"drain", "functor"}

(* The inbox of FunctorQueue is what is left of the batch, then the queue. *)
Queue == INSTANCE FunctorQueue WITH
           inbox <- functors \o pendingFunctors_,
           stopping <- quit_ \/ pc \in {"exit", "clear"}

(* The loop keeps the promise of FunctorQueue: FIFO execution across       *)
(* batches, no functor run twice or lost, none dropped but by a quit.      *)
ImplementsFunctorQueue == Queue!Spec

(* Every functor is in exactly one place (FunctorQueue's invariant, in the *)
(* terms of the loop's queue and batch).                                   *)
ExactlyOnce == Queue!ExactlyOnce

(* A functor queued on a running loop is executed, or dropped by a quit;   *)
(* one queued on a loop that is not running waits for the next loop().     *)
FunctorServed ==
  \A f \in Functors :
    f \in Range(functors \o pendingFunctors_) /\ pc # "idle"
      ~> f \in Range(executed) \cup discarded

(* A running loop that is asked to quit, by any thread, returns. *)
QuitHonoured == quit_ /\ pc # "idle" ~> pc = "idle"

(* What is asked of a running loop happens. *)
RequestsServed == FunctorServed /\ QuitHonoured

=============================================================================
