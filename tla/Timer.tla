-------------------------------- MODULE Timer --------------------------------
(***************************************************************************)
(* base/TimerId.{h,cpp} and the timer map of base/EventLoop: runAfter(),   *)
(* runEvery() and cancel() from any thread, and the loop that arms, fires  *)
(* and destroys the timers.                                                *)
(*                                                                         *)
(* The loop is seen as FunctorQueue promises it (EventLoop implements it). *)
(* Its functors are the bound calls of TimerObj: starting a timer and      *)
(* stopping it.  Time is not modelled: an armed timer may fire at any      *)
(* moment at which libevent dispatches callbacks.                          *)
(*                                                                         *)
(* callback is the timer whose onTimer() the loop's thread is inside of.   *)
(* While it is none, calls made on the loop's thread come from some other  *)
(* functor or callback, or from outside loop().                            *)
(***************************************************************************)
EXTENDS Naturals, Sequences, Functions

CONSTANTS
  Timers,       \* the TimerIds handed out
  Once,         \* those created by runAfter(); runEvery() made the others
  none          \* no timer

ASSUME OnceAssumption == Once \subseteq Timers
ASSUME NoneAssumption == none \notin Timers

Start(i) == <<"start", i>>
Stop(i) == <<"stop", i>>
TimerFunctors == {"start", "stop"} \X Timers

VARIABLES
  fresh, inbox, executed, discarded, stopping,  \* of the loop's queue
  phase,        \* "running", "ended" (its thread is over), "deleted", or "died"
                \* with the process
  deleter,      \* who deleted the loop: "nobody", "loopThread", "other"
  caller,       \* caller[f]: the thread that gave f to the loop
  timerMap_,    \* the TimerObjs the loop owns
  armed,        \* those with an event pending in libevent
  callback,     \* the one in whose onTimer() the loop's thread is
  fired,        \* those whose callback has been called
  damaged       \* onTimer() has read a TimerObj that was destroyed

Queue == INSTANCE FunctorQueue WITH Functors <- TimerFunctors

queueVars == <<fresh, inbox, executed, discarded, stopping>>
timerVars == <<timerMap_, armed, callback, fired, damaged>>
vars == <<queueVars, phase, deleter, caller, timerVars>>

Threads == {"loopThread", "other"}

TypeOK ==
  /\ Queue!TypeOK
  /\ phase \in {"running", "ended", "deleted", "died"}
  /\ deleter \in Threads \cup {"nobody"}
  /\ caller \in [TimerFunctors -> Threads \cup {"nobody"}]
  /\ timerMap_ \subseteq Timers
  /\ armed \subseteq Timers
  /\ callback \in Timers \cup {none}
  /\ fired \subseteq Timers
  /\ damaged \in BOOLEAN

Init ==
  /\ Queue!Init
  /\ phase = "running"
  /\ deleter = "nobody"
  /\ caller = [f \in TimerFunctors |-> "nobody"]
  /\ timerMap_ = {}
  /\ armed = {}
  /\ callback = none
  /\ fired = {}
  /\ damaged = FALSE

-----------------------------------------------------------------------------
(* The functors, on the loop's thread                                      *)

\* fault: the event is created and never added
startTimer_NotAdded(i) ==
  /\ timerMap_' = timerMap_ \cup {i}
  /\ UNCHANGED armed

(* The TimerObj is built, which arms its event, and put into the map. *)
startTimer(i) ==
  /\ timerMap_' = timerMap_ \cup {i}
  /\ armed' = armed \cup {i}

(* Erasing it from the map destroys it, which deletes its event.  An id    *)
(* the map does not have is ignored.                                       *)
stopTimer(i) ==
  /\ timerMap_' = timerMap_ \ {i}
  /\ armed' = armed \ {i}

Effect(f) == IF f[1] = "start" THEN startTimer(f[2]) ELSE stopTimer(f[2])

-----------------------------------------------------------------------------
(* Calls                                                                   *)

(* Thread t gives f to the loop: the loop's thread runs it where it is,    *)
(* another one queues it.  (Nothing keeps it from doing so when nobody     *)
(* will ever run it.)                                                      *)
queueInLoop(t, f) ==
  /\ phase \in {"running", "ended"}
  /\ t = "loopThread" => phase = "running"
  /\ Queue!Submit(f)
  /\ caller' = [caller EXCEPT ![f] = t]
  /\ UNCHANGED <<phase, deleter, timerVars>>

runInLoop(t, f) ==
  \/ t = "other" /\ queueInLoop(t, f)
  \/ /\ t = "loopThread"
     /\ phase = "running"
     /\ Queue!RunNow(f)
     /\ Effect(f)
     /\ caller' = [caller EXCEPT ![f] = t]
     /\ UNCHANGED <<phase, deleter, callback, fired, damaged>>

\* fault: a timer is started by the queue even on the loop's own thread
createTimer_Queued(t, i) == queueInLoop(t, Start(i))

(* runAfter() and runEvery(). *)
createTimer(t, i) == runInLoop(t, Start(i))

\* fault: whoever cancels erases the timer at once
deleteTimer_AtOnce(t, i) ==
  /\ Start(i) \notin fresh
  /\ phase = "running"
  /\ Queue!RunNow(Stop(i))
  /\ Effect(Stop(i))
  /\ caller' = [caller EXCEPT ![Stop(i)] = t]
  /\ UNCHANGED <<phase, deleter, callback, fired, damaged>>

(* cancel(), by someone who was given the id; also by the callback of i.  *)
deleteTimer(t, i) ==
  /\ Start(i) \notin fresh
  /\ runInLoop(t, Stop(i))

quit ==
  /\ phase \in {"running", "ended"}
  /\ Queue!RequestStop
  /\ UNCHANGED <<phase, deleter, caller, timerVars>>

-----------------------------------------------------------------------------
(* The loop's thread                                                       *)

BetweenCallbacks == phase = "running" /\ callback = none

(* doPendingFunctors() runs the next functor. *)
RunFunctor ==
  /\ BetweenCallbacks
  /\ Queue!Execute
  /\ Effect(Head(inbox))
  /\ UNCHANGED <<phase, deleter, caller, callback, fired, damaged>>

(* libevent calls handleTimer().  A one-shot event is not pending any more *)
(* when its callback is called, a persistent one has been added again.     *)
handleTimer(i) ==
  /\ BetweenCallbacks
  /\ i \in armed
  /\ armed' = armed \ (Once \cap {i})
  /\ callback' = i
  /\ fired' = fired \cup {i}
  /\ UNCHANGED <<queueVars, phase, deleter, caller, timerMap_, damaged>>

(* What onTimer() does with the type_ and timerId_ of a TimerObj that was   *)
(* destroyed: the process dies, or nothing happens, or a one-shot timer     *)
(* that the callback has started, and that now lies in the same memory, is  *)
(* stopped in its place.                                                    *)
UseAfterFree ==
  /\ damaged' = TRUE
  /\ \/ phase' = "died" /\ UNCHANGED <<timerMap_, armed>>
     \/ UNCHANGED <<phase, timerMap_, armed>>
     \/ \E i \in timerMap_ \cap Once :
          caller[Start(i)] = "loopThread" /\ stopTimer(i) /\ UNCHANGED phase

(* cb_() has returned: a one-shot timer stops, that is destroys, itself.   *)
onTimer ==
  /\ phase = "running"
  /\ callback # none
  /\ callback' = none
  /\ \/ callback \notin timerMap_ /\ UseAfterFree
     \/ /\ callback \in timerMap_
        /\ IF callback \in Once THEN stopTimer(callback)
                                ELSE UNCHANGED <<timerMap_, armed>>
        /\ UNCHANGED <<phase, damaged>>
  /\ UNCHANGED <<queueVars, deleter, caller, fired>>

(* loop() returns, and is called again or not.  The timers survive it. *)
LoopReturns ==
  /\ BetweenCallbacks
  /\ Queue!Stop
  /\ phase' \in {"running", "ended"}
  /\ UNCHANGED <<deleter, caller, timerVars>>

(* ~EventLoop() destroys the map with the timers that are left: in the     *)
(* loop's thread when the loop lives on its stack, in the owner's thread   *)
(* when an EventLoopThread owns it.                                        *)
DeleteLoop(who) ==
  /\ phase = "ended"
  /\ phase' = "deleted"
  /\ deleter' = who
  /\ UNCHANGED <<queueVars, caller, timerVars>>

LoopStep ==
  \/ RunFunctor
  \/ \E i \in Timers : handleTimer(i)
  \/ onTimer
  \/ LoopReturns

Next ==
  \/ \E t \in Threads, i \in Timers :
       createTimer(t, i) \/ deleteTimer(t, i)
  \/ quit
  \/ LoopStep
  \/ DeleteLoop("loopThread") \/ DeleteLoop("other")

Spec == Init /\ [][Next]_vars

(***************************************************************************)
(* A running loop runs what is queued, a callback returns, and a timer     *)
(* that stays armed is fired: libevent fires all that are due in one pass. *)
(* Strong fairness, because a persistent timer may be firing in between.   *)
(***************************************************************************)
Fairness ==
  /\ SF_vars(RunFunctor)
  /\ WF_vars(onTimer)
  /\ \A i \in Timers : SF_vars(handleTimer(i))

FairSpec == Spec /\ Fairness

-----------------------------------------------------------------------------
(* Properties                                                              *)

Executed(f) == f \in Range(executed)

(* The TimerObj whose callback runs is destroyed by a cancel that the       *)
(* callback makes itself, on the loop's thread, and by nothing else: not by *)
(* another thread's cancel, not by a queued one.  onTimer() reads type_     *)
(* after cb_() returned, and cb_ itself is a member.                        *)
FiringAlive ==
  callback # none /\ callback \notin timerMap_ =>
    Executed(Stop(callback)) /\ caller[Stop(callback)] = "loopThread"

(* i was created by another thread and is cancelled on the loop's thread:  *)
(* the cancel is run at once, the start may still be waiting in the queue. *)
MayOvertake(i) == caller[Start(i)] = "other" /\ caller[Stop(i)] = "loopThread"

(* A timer that was started and cancelled is gone, except when the cancel  *)
(* may have overtaken the start: then nothing will ever stop it.           *)
CancelSticks ==
  \A i \in Timers :
    Executed(Start(i)) /\ Executed(Stop(i)) /\ ~MayOvertake(i)
      => i \notin timerMap_

(* A one-shot timer fires, unless it is cancelled, or the loop stops, or    *)
(* some timer was cancelled by its own callback.                            *)
OnceFires ==
  \A i \in Once :
    Start(i) \notin fresh
      ~> \/ i \in fired \/ Stop(i) \notin fresh
         \/ stopping \/ Start(i) \in discarded \/ phase # "running" \/ damaged

(* "loop_->assertInLoopThread()" in the destructor of TimerObj: the timers *)
(* are destroyed by the loop's thread.                                     *)
DestroyedInLoopThread == deleter = "other" => timerMap_ = {}

=============================================================================
