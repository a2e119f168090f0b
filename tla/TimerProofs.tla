----------------------------- MODULE TimerProofs -----------------------------
(* Theorems about Timer for any timers, one-shot and persistent ones.       *)
EXTENDS Timer, SequenceTheorems, TLAPS

QueueTypes ==
  /\ fresh \subseteq TimerFunctors
  /\ inbox \in Seq(TimerFunctors)
  /\ executed \in Seq(TimerFunctors)

Waiting(f) == \E k \in 1..Len(inbox) : inbox[k] = f

-----------------------------------------------------------------------------
(* Sequences                                                               *)

LEMMA ExecutedNow ==
  ASSUME NEW S, NEW s \in Seq(S), NEW e \in S
  PROVE  /\ Append(s, e) \in Seq(S)
         /\ Range(Append(s, e)) = Range(s) \cup {e}
<1>1. /\ Append(s, e) \in Seq(S)
      /\ Len(Append(s, e)) = Len(s) + 1
      /\ \A i \in 1..Len(s) : Append(s, e)[i] = s[i]
      /\ Append(s, e)[Len(s) + 1] = e
  BY AppendProperties
<1>2. DOMAIN s = 1..Len(s) /\ DOMAIN Append(s, e) = 1..(Len(s) + 1) /\ Len(s) \in Nat
  BY <1>1, LenProperties
<1>3. Range(Append(s, e)) = {Append(s, e)[i] : i \in 1..(Len(s) + 1)}
      /\ Range(s) = {s[i] : i \in 1..Len(s)}
  BY <1>2 DEF Range
<1>4. 1..(Len(s) + 1) = 1..Len(s) \cup {Len(s) + 1}
  BY <1>2
<1> QED
  BY <1>1, <1>2, <1>3, <1>4

LEMMA QueueHead ==
  ASSUME NEW S, NEW s \in Seq(S), s # <<>>
  PROVE  /\ Head(s) \in S /\ Head(s) = s[1] /\ Tail(s) \in Seq(S)
         /\ Len(s) \in Nat \ {0} /\ Len(Tail(s)) = Len(s) - 1
         /\ \A k \in 1..Len(Tail(s)) : Tail(s)[k] = s[k + 1]
  BY HeadTailProperties, EmptySeq, LenProperties, ElementOfSeq

-----------------------------------------------------------------------------
(* What the steps do to the queue                                          *)

LEMMA InitQueueTypes == Init => QueueTypes
  BY DEF Init, Queue!Init, QueueTypes

LEMMA NextQueueTypes == QueueTypes /\ [Next]_vars => QueueTypes'
<1> SUFFICES ASSUME QueueTypes, [Next]_vars PROVE QueueTypes'
  OBVIOUS
<1> USE DEF QueueTypes
<1>1. ASSUME NEW f \in TimerFunctors, Queue!Submit(f) PROVE QueueTypes'
  BY <1>1, AppendProperties DEF Queue!Submit
<1>2. ASSUME NEW f \in TimerFunctors, Queue!RunNow(f) PROVE QueueTypes'
  BY <1>2, AppendProperties DEF Queue!RunNow
<1>3. ASSUME NEW t \in Threads, NEW f \in TimerFunctors, runInLoop(t, f)
      PROVE  QueueTypes'
  BY <1>1, <1>2, <1>3 DEF runInLoop, queueInLoop
<1>4. ASSUME NEW t \in Threads, NEW i \in Timers, createTimer(t, i) \/ deleteTimer(t, i)
      PROVE  QueueTypes'
  <2>1. Start(i) \in TimerFunctors /\ Stop(i) \in TimerFunctors
    BY DEF Start, Stop, TimerFunctors
  <2> QED
    BY <1>3, <1>4, <2>1 DEF createTimer, deleteTimer
<1>5. CASE quit
  BY <1>5 DEF quit, Queue!RequestStop
<1>6. CASE RunFunctor
  BY <1>6, QueueHead, AppendProperties DEF RunFunctor, Queue!Execute
<1>7. ASSUME NEW i \in Timers, handleTimer(i) PROVE QueueTypes'
  BY <1>7 DEF handleTimer, queueVars
<1>8. CASE onTimer \/ DeleteLoop("loopThread") \/ DeleteLoop("other")
  BY <1>8 DEF onTimer, DeleteLoop, queueVars
<1>9. CASE LoopReturns
  <2>1. <<>> \in Seq(TimerFunctors)
    BY EmptySeq
  <2> QED
    BY <1>9, <2>1 DEF LoopReturns, Queue!Stop
<1>10. CASE UNCHANGED vars
  BY <1>10 DEF vars, queueVars
<1> QED
  BY <1>4, <1>5, <1>6, <1>7, <1>8, <1>9, <1>10 DEF Next, LoopStep

-----------------------------------------------------------------------------
(* Cancelled timers                                                        *)

(* A cancel is given to the loop after the start of its timer, and, except  *)
(* when it may overtake it, is executed after it: what is cancelled is not  *)
(* in the map, and no start is left that could bring it back.               *)
GivenInOrder ==
  /\ \A i \in Timers : Start(i) \in fresh => Stop(i) \in fresh
  /\ \A i \in Timers, j, k \in 1..Len(inbox) :
       inbox[j] = Stop(i) /\ inbox[k] = Start(i) => k < j

CallersKnown ==
  /\ \A f \in TimerFunctors : f \notin fresh => caller[f] \in Threads
  /\ \A f \in TimerFunctors : caller[f] = "loopThread" => ~Waiting(f)
  /\ \A f \in fresh : caller[f] = "nobody" /\ ~Waiting(f) /\ f \notin Range(executed)
  /\ DOMAIN caller = TimerFunctors

CancelledStay ==
  \A i \in Timers :
    Executed(Stop(i)) /\ ~MayOvertake(i) => ~Waiting(Start(i)) /\ i \notin timerMap_

CInv == QueueTypes /\ GivenInOrder /\ CallersKnown /\ CancelledStay

LEMMA FunctorsDiffer ==
  ASSUME NEW i \in Timers, NEW j \in Timers
  PROVE  /\ Start(i) \in TimerFunctors /\ Stop(i) \in TimerFunctors
         /\ Start(i) # Stop(j)
         /\ Start(i) = Start(j) => i = j
         /\ Stop(i) = Stop(j) => i = j
  BY DEF Start, Stop, TimerFunctors

LEMMA InitCInv == Init => CInv
<1> SUFFICES ASSUME Init PROVE CInv
  OBVIOUS
<1>1. QueueTypes /\ inbox = <<>> /\ executed = <<>> /\ Len(inbox) = 0
  BY InitQueueTypes, EmptySeq DEF Init, Queue!Init
<1>2. Range(executed) = {} /\ \A f : ~Waiting(f)
  BY <1>1 DEF Range, Waiting
<1> QED
  BY <1>1, <1>2, FunctorsDiffer DEF Init, Queue!Init, CInv, GivenInOrder, CallersKnown,
     CancelledStay, Executed

(* A functor is queued by a thread that is not the loop's. *)
LEMMA SubmitCInv ==
  ASSUME CInv, NEW f \in TimerFunctors, queueInLoop("other", f),
         \A i \in Timers : f = Stop(i) => Start(i) \notin fresh
  PROVE  GivenInOrder' /\ CallersKnown' /\ CancelledStay'
<1>1. /\ f \in fresh /\ fresh' = fresh \ {f} /\ inbox' = Append(inbox, f)
      /\ executed' = executed /\ timerMap_' = timerMap_
      /\ caller' = [caller EXCEPT ![f] = "other"]
  BY DEF queueInLoop, Queue!Submit, timerVars
<1>2. /\ Len(inbox) \in Nat /\ Len(inbox') = Len(inbox) + 1
      /\ \A k \in 1..Len(inbox) : inbox'[k] = inbox[k]
      /\ inbox'[Len(inbox) + 1] = f
  BY <1>1, AppendProperties, LenProperties DEF CInv, QueueTypes
<1>3. \A k \in 1..Len(inbox') : k \in 1..Len(inbox) \/ k = Len(inbox) + 1
  BY <1>2
<1>4. \A g : Waiting(g)' => Waiting(g) \/ g = f
  BY <1>2, <1>3 DEF Waiting
<1>5. GivenInOrder'
  <2>1. \A i \in Timers : Start(i) \in fresh' => Stop(i) \in fresh'
    BY <1>1 DEF CInv, GivenInOrder
  <2>2. ASSUME NEW i \in Timers, NEW j \in 1..Len(inbox'), NEW k \in 1..Len(inbox'),
               inbox'[j] = Stop(i), inbox'[k] = Start(i)
        PROVE  k < j
    <3>1. CASE j = Len(inbox) + 1
      <4>1. f = Stop(i) /\ f # Start(i)
        BY <1>2, <2>2, <3>1, FunctorsDiffer
      <4>2. k # Len(inbox) + 1
        BY <1>2, <2>2, <4>1
      <4> QED
        BY <1>2, <1>3, <3>1, <4>2
    <3>2. CASE j \in 1..Len(inbox) /\ k = Len(inbox) + 1
      <4>1. f = Start(i) /\ Waiting(Stop(i))
        BY <1>2, <2>2, <3>2 DEF Waiting
      <4> QED
        BY <1>1, <4>1 DEF CInv, GivenInOrder, CallersKnown
    <3>3. CASE j \in 1..Len(inbox) /\ k \in 1..Len(inbox)
      BY <1>2, <2>2, <3>3 DEF CInv, GivenInOrder
    <3> QED
      BY <1>3, <3>1, <3>2, <3>3
  <2> QED
    BY <2>1, <2>2 DEF GivenInOrder
<1>6. CallersKnown'
  BY <1>1, <1>4 DEF CInv, CallersKnown, Threads
<1>7. CancelledStay'
  <2> SUFFICES ASSUME NEW i \in Timers, Executed(Stop(i))', ~MayOvertake(i)'
               PROVE  ~Waiting(Start(i))' /\ i \notin timerMap_'
    BY DEF CancelledStay
  <2>1. Stop(i) \in Range(executed) /\ Stop(i) \notin fresh
    BY <1>1 DEF Executed, CInv, CallersKnown
  <2>2. Start(i) # f /\ Stop(i) # f
    BY <1>1, <2>1 DEF CInv, GivenInOrder
  <2>3. ~MayOvertake(i)
    BY <1>1, <2>2 DEF MayOvertake
  <2> QED
    BY <1>1, <1>4, <2>1, <2>2, <2>3 DEF CInv, CancelledStay, Executed
<1> QED
  BY <1>5, <1>6, <1>7

(* A functor is run at once, on the loop's thread. *)
LEMMA RunNowCInv ==
  ASSUME CInv, NEW f \in TimerFunctors, Queue!RunNow(f), Effect(f),
         caller' = [caller EXCEPT ![f] = "loopThread"],
         \A i \in Timers : f = Stop(i) => Start(i) \notin fresh
  PROVE  GivenInOrder' /\ CallersKnown' /\ CancelledStay'
<1>1. /\ f \in fresh /\ fresh' = fresh \ {f} /\ inbox' = inbox
      /\ executed' = Append(executed, f)
  BY DEF Queue!RunNow
<1>2. Range(executed') = Range(executed) \cup {f}
  BY <1>1, ExecutedNow DEF CInv, QueueTypes
<1>3. \A g : Waiting(g)' <=> Waiting(g)
  BY <1>1 DEF Waiting
<1>4. GivenInOrder'
  BY <1>1 DEF CInv, GivenInOrder
<1>5. CallersKnown'
  BY <1>1, <1>2, <1>3 DEF CInv, CallersKnown, Threads
<1>6. CancelledStay'
  <2> SUFFICES ASSUME NEW i \in Timers, Executed(Stop(i))', ~MayOvertake(i)'
               PROVE  ~Waiting(Start(i))' /\ i \notin timerMap_'
    BY DEF CancelledStay
  <2>1. CASE f = Stop(i)
    <3>1. Start(i) # f /\ Start(i) \notin fresh /\ Start(i) \in TimerFunctors
      BY <2>1, FunctorsDiffer
    <3>2. caller'[Stop(i)] = "loopThread" /\ caller'[Start(i)] = caller[Start(i)]
      BY <2>1, <3>1 DEF CInv, CallersKnown
    <3>3. caller[Start(i)] = "loopThread"
      BY <3>1, <3>2 DEF MayOvertake, CInv, CallersKnown, Threads
    <3>4. f[1] = "stop" /\ f[2] = i
      BY <2>1 DEF Stop
    <3>5. i \notin timerMap_'
      BY <3>4 DEF Effect, stopTimer
    <3> QED
      BY <1>3, <3>1, <3>3, <3>5 DEF CInv, CallersKnown
  <2>2. CASE f # Stop(i)
    <3>1. Stop(i) \in Range(executed) /\ Stop(i) \notin fresh
      BY <1>2, <2>2 DEF Executed, CInv, CallersKnown
    <3>2. f # Start(i)
      BY <1>1, <3>1 DEF CInv, GivenInOrder
    <3>3. ~MayOvertake(i)
      BY <2>2, <3>2 DEF MayOvertake
    <3>4. ~Waiting(Start(i)) /\ i \notin timerMap_
      BY <3>1, <3>3 DEF CInv, CancelledStay, Executed
    <3>5. i \notin timerMap_'
      <4>1. PICK j \in Timers : f = Start(j) \/ f = Stop(j)
        BY DEF TimerFunctors, Start, Stop
      <4>2. CASE f = Start(j)
        BY <3>2, <3>4, <4>2 DEF Effect, startTimer, Start
      <4>3. CASE f = Stop(j)
        BY <3>4, <4>3 DEF Effect, stopTimer, Stop
      <4> QED
        BY <4>1, <4>2, <4>3
    <3> QED
      BY <1>3, <3>4, <3>5
  <2> QED
    BY <2>1, <2>2
<1> QED
  BY <1>4, <1>5, <1>6

(* The loop executes the functor at the head of its queue. *)
LEMMA ExecuteCInv ==
  ASSUME CInv, RunFunctor
  PROVE  GivenInOrder' /\ CallersKnown' /\ CancelledStay'
<1> DEFINE f == Head(inbox)
<1>1. /\ inbox # <<>> /\ inbox' = Tail(inbox) /\ executed' = Append(executed, f)
      /\ fresh' = fresh /\ caller' = caller /\ Effect(f)
  BY DEF RunFunctor, Queue!Execute
<1>2. /\ f \in TimerFunctors /\ f = inbox[1] /\ Len(inbox) \in Nat \ {0}
      /\ Len(inbox') = Len(inbox) - 1
      /\ \A k \in 1..Len(inbox') : inbox'[k] = inbox[k + 1]
  BY <1>1, QueueHead DEF CInv, QueueTypes
<1>3. Range(executed') = Range(executed) \cup {f}
  BY <1>1, <1>2, ExecutedNow DEF CInv, QueueTypes
<1>4. \A k \in 1..Len(inbox') : k + 1 \in 1..Len(inbox) /\ k + 1 # 1
  BY <1>2
<1>5. Waiting(f) /\ \A g : Waiting(g)' => Waiting(g)
  BY <1>2, <1>4 DEF Waiting
<1>6. GivenInOrder'
  <2>1. ASSUME NEW i \in Timers, NEW j \in 1..Len(inbox'), NEW k \in 1..Len(inbox'),
               inbox'[j] = Stop(i), inbox'[k] = Start(i)
        PROVE  k < j
    <3>1. k + 1 < j + 1
      BY <1>2, <1>4, <2>1 DEF CInv, GivenInOrder
    <3> QED
      BY <1>2, <3>1
  <2> QED
    BY <1>1, <2>1 DEF CInv, GivenInOrder
<1>7. CallersKnown'
  BY <1>1, <1>3, <1>5 DEF CInv, CallersKnown
<1>8. CancelledStay'
  <2> SUFFICES ASSUME NEW i \in Timers, Executed(Stop(i))', ~MayOvertake(i)'
               PROVE  ~Waiting(Start(i))' /\ i \notin timerMap_'
    BY DEF CancelledStay
  <2>1. ~MayOvertake(i)
    BY <1>1 DEF MayOvertake
  <2>2. CASE f = Stop(i)
    <3>1. ASSUME Waiting(Start(i))' PROVE FALSE
      <4>1. PICK k \in 1..Len(inbox') : inbox'[k] = Start(i)
        BY <3>1 DEF Waiting
      <4>2. inbox[k + 1] = Start(i) /\ k + 1 \in 1..Len(inbox) /\ inbox[1] = Stop(i)
            /\ 1 \in 1..Len(inbox) /\ k \in Nat
        BY <1>2, <1>4, <2>2, <4>1
      <4>3. k + 1 < 1
        BY <4>2 DEF CInv, GivenInOrder
      <4> QED
        BY <1>2, <4>1, <4>2, <4>3
    <3>2. i \notin timerMap_'
      BY <1>1, <2>2 DEF Effect, stopTimer, Stop
    <3> QED
      BY <3>1, <3>2
  <2>3. CASE f # Stop(i)
    <3>1. Stop(i) \in Range(executed)
      BY <1>3, <2>3 DEF Executed
    <3>2. ~Waiting(Start(i)) /\ i \notin timerMap_
      BY <2>1, <3>1 DEF CInv, CancelledStay, Executed
    <3>3. f # Start(i)
      BY <1>5, <3>2
    <3>4. i \notin timerMap_'
      <4>1. PICK j \in Timers : f = Start(j) \/ f = Stop(j)
        BY <1>2 DEF TimerFunctors, Start, Stop
      <4>2. CASE f = Start(j)
        BY <1>1, <3>2, <3>3, <4>2 DEF Effect, startTimer, Start
      <4>3. CASE f = Stop(j)
        BY <1>1, <3>2, <4>3 DEF Effect, stopTimer, Stop
      <4> QED
        BY <4>1, <4>2, <4>3
    <3> QED
      BY <1>5, <3>2, <3>4
  <2> QED
    BY <2>2, <2>3
<1> QED
  BY <1>6, <1>7, <1>8

LEMMA NextCInv == CInv /\ [Next]_vars => CInv'
<1> SUFFICES ASSUME CInv, [Next]_vars PROVE CInv'
  OBVIOUS
<1>1. QueueTypes'
  BY NextQueueTypes DEF CInv
<1> SUFFICES GivenInOrder' /\ CallersKnown' /\ CancelledStay'
  BY <1>1 DEF CInv
<1>2. ASSUME NEW t \in Threads, NEW f \in TimerFunctors, runInLoop(t, f),
             \A i \in Timers : f = Stop(i) => Start(i) \notin fresh
      PROVE  GivenInOrder' /\ CallersKnown' /\ CancelledStay'
  BY <1>2, SubmitCInv, RunNowCInv DEF runInLoop
<1>3. ASSUME NEW t \in Threads, NEW i \in Timers, createTimer(t, i)
      PROVE  GivenInOrder' /\ CallersKnown' /\ CancelledStay'
  BY <1>2, <1>3, FunctorsDiffer DEF createTimer
<1>4. ASSUME NEW t \in Threads, NEW i \in Timers, deleteTimer(t, i)
      PROVE  GivenInOrder' /\ CallersKnown' /\ CancelledStay'
  BY <1>2, <1>4, FunctorsDiffer DEF deleteTimer
<1>5. CASE RunFunctor
  BY <1>5, ExecuteCInv
(* In the other steps the queue stays or is dropped, and timers go. *)
<1>6. ASSUME UNCHANGED <<fresh, executed, caller>>,
             inbox' = inbox \/ inbox' = <<>>, timerMap_' \subseteq timerMap_
      PROVE  GivenInOrder' /\ CallersKnown' /\ CancelledStay'
  <2>1. Len(<<>>) = 0
    BY EmptySeq
  <2>2. \A g : Waiting(g)' => Waiting(g)
    BY <1>6, <2>1 DEF Waiting
  <2>3. GivenInOrder'
    BY <1>6, <2>1 DEF CInv, GivenInOrder
  <2>4. CallersKnown'
    BY <1>6, <2>2 DEF CInv, CallersKnown
  <2>5. CancelledStay'
    BY <1>6, <2>2 DEF CInv, CancelledStay, Executed, MayOvertake
  <2> QED
    BY <2>3, <2>4, <2>5
<1>7. ASSUME NEW i \in Timers, handleTimer(i)
      PROVE  GivenInOrder' /\ CallersKnown' /\ CancelledStay'
  BY <1>6, <1>7 DEF handleTimer, queueVars
<1>8. CASE onTimer
  <2>1. timerMap_' \subseteq timerMap_ /\ UNCHANGED <<queueVars, caller>>
    BY <1>8 DEF onTimer, UseAfterFree, stopTimer
  <2> QED
    BY <1>6, <2>1 DEF queueVars
<1>9. CASE LoopReturns
  BY <1>6, <1>9 DEF LoopReturns, Queue!Stop, timerVars
<1>10. CASE quit \/ DeleteLoop("loopThread") \/ DeleteLoop("other") \/ UNCHANGED vars
  BY <1>6, <1>10 DEF quit, Queue!RequestStop, DeleteLoop, vars, queueVars, timerVars
<1> QED
  BY <1>3, <1>4, <1>5, <1>7, <1>8, <1>9, <1>10 DEF Next, LoopStep

(* A timer that was started and cancelled is gone for good, whoever started *)
(* and cancelled it, unless the cancel was made on the loop's thread past a *)
(* start that another thread had queued.                                    *)
THEOREM CancelledIsGone == Spec => []CancelSticks
<1>1. CInv => CancelSticks
  BY DEF CInv, CancelledStay, CancelSticks
<1> QED
  BY <1>1, InitCInv, NextCInv, PTL DEF Spec
-----------------------------------------------------------------------------
(* The timer whose callback runs                                           *)

(* i was cancelled by a call on the loop's thread, which runs it where it is. *)
CancelledHere(i) == Executed(Stop(i)) /\ caller[Stop(i)] = "loopThread"

(* libevent only knows timers that the map owns. *)
FInv ==
  /\ armed \subseteq timerMap_
  /\ timerMap_ \subseteq Timers
  /\ callback \in Timers \cup {none}
  /\ callback # none => callback \in timerMap_ \/ CancelledHere(callback)

LEMMA InitFInv == Init => FInv
  BY DEF Init, FInv

(* What was executed stays executed, and whoever asked for it. *)
LEMMA NextCancelledHere ==
  ASSUME CInv, [Next]_vars, NEW i \in Timers, CancelledHere(i)
  PROVE  CancelledHere(i)'
<1>1. /\ Stop(i) \in Range(executed) /\ Stop(i) \notin fresh /\ caller[Stop(i)] = "loopThread"
      /\ executed \in Seq(TimerFunctors) /\ DOMAIN caller = TimerFunctors
  BY DEF CancelledHere, Executed, CInv, CallersKnown, QueueTypes
<1>2. ASSUME \/ executed' = executed
             \/ \E f \in TimerFunctors : executed' = Append(executed, f),
             \/ caller' = caller
             \/ \E f \in fresh, t \in Threads : caller' = [caller EXCEPT ![f] = t]
      PROVE  CancelledHere(i)'
  <2>1. Stop(i) \in Range(executed')
    <3>1. CASE executed' = executed
      BY <1>1, <3>1
    <3>2. ASSUME NEW f \in TimerFunctors, executed' = Append(executed, f)
          PROVE  Stop(i) \in Range(executed')
      BY <1>1, <3>2, ExecutedNow
    <3> QED
      BY <1>2, <3>1, <3>2
  <2>2. caller'[Stop(i)] = "loopThread"
    <3>1. CASE caller' = caller
      BY <1>1, <3>1
    <3>2. ASSUME NEW f \in fresh, NEW t \in Threads, caller' = [caller EXCEPT ![f] = t]
          PROVE  caller'[Stop(i)] = "loopThread"
      <4>1. f # Stop(i) /\ Stop(i) \in DOMAIN caller
        BY <1>1, FunctorsDiffer
      <4> QED
        BY <1>1, <3>2, <4>1
    <3> QED
      BY <1>2, <3>1, <3>2
  <2> QED
    BY <2>1, <2>2 DEF CancelledHere, Executed
<1>3. ASSUME NEW t \in Threads, NEW f \in TimerFunctors, runInLoop(t, f)
      PROVE  CancelledHere(i)'
  BY <1>2, <1>3 DEF runInLoop, queueInLoop, Queue!Submit, Queue!RunNow
<1>4. ASSUME NEW t \in Threads, NEW j \in Timers, createTimer(t, j) \/ deleteTimer(t, j)
      PROVE  CancelledHere(i)'
  BY <1>3, <1>4, FunctorsDiffer DEF createTimer, deleteTimer
<1>5. CASE RunFunctor
  <2>1. inbox # <<>> /\ executed' = Append(executed, Head(inbox)) /\ caller' = caller
    BY <1>5 DEF RunFunctor, Queue!Execute
  <2>2. Head(inbox) \in TimerFunctors
    BY <2>1, QueueHead DEF CInv, QueueTypes
  <2> QED
    BY <1>2, <2>1, <2>2
<1>6. ASSUME NEW j \in Timers, handleTimer(j) PROVE CancelledHere(i)'
  BY <1>2, <1>6 DEF handleTimer, queueVars
<1>7. CASE onTimer
  BY <1>2, <1>7 DEF onTimer, queueVars
<1>8. CASE quit \/ LoopReturns \/ DeleteLoop("loopThread") \/ DeleteLoop("other")
  BY <1>2, <1>8 DEF quit, LoopReturns, DeleteLoop, queueVars, Queue!RequestStop, Queue!Stop
<1>9. CASE UNCHANGED vars
  BY <1>2, <1>9 DEF vars, queueVars
<1> QED
  BY <1>4, <1>5, <1>6, <1>7, <1>8, <1>9 DEF Next, LoopStep

LEMMA NextFInv == CInv /\ FInv /\ [Next]_vars => FInv'
<1> SUFFICES ASSUME CInv, FInv, [Next]_vars PROVE FInv'
  OBVIOUS
<1>1. callback # none /\ callback' = callback /\ CancelledHere(callback)
        => CancelledHere(callback)'
  BY NextCancelledHere DEF FInv
<1> USE DEF FInv
<1>2. ASSUME NEW i \in Timers, startTimer(i), UNCHANGED callback PROVE FInv'
  BY <1>1, <1>2 DEF startTimer
<1>3. ASSUME NEW i \in Timers, stopTimer(i), UNCHANGED callback,
             callback = i => CancelledHere(i)'
      PROVE  FInv'
  BY <1>1, <1>3 DEF stopTimer
<1>4. ASSUME UNCHANGED <<timerMap_, armed, callback>> PROVE FInv'
  BY <1>1, <1>4
<1>5. ASSUME NEW t \in Threads, NEW i \in Timers, createTimer(t, i) PROVE FInv'
  <2>1. Start(i)[1] = "start" /\ Start(i)[2] = i
    BY DEF Start
  <2>2. CASE queueInLoop(t, Start(i))
    BY <1>4, <2>2 DEF queueInLoop, timerVars
  <2>3. CASE Effect(Start(i)) /\ UNCHANGED callback
    BY <1>2, <2>1, <2>3 DEF Effect
  <2> QED
    BY <1>5, <2>2, <2>3 DEF createTimer, runInLoop
<1>6. ASSUME NEW t \in Threads, NEW i \in Timers, deleteTimer(t, i) PROVE FInv'
  <2>1. Stop(i) \in TimerFunctors /\ Stop(i)[1] = "stop" /\ Stop(i)[2] = i
    BY DEF Stop, TimerFunctors
  <2>2. CASE queueInLoop(t, Stop(i))
    BY <1>4, <2>2 DEF queueInLoop, timerVars
  <2>3. CASE /\ Queue!RunNow(Stop(i)) /\ Effect(Stop(i)) /\ UNCHANGED callback
             /\ caller' = [caller EXCEPT ![Stop(i)] = "loopThread"]
    <3>1. Stop(i) \in Range(executed')
      BY <2>1, <2>3, ExecutedNow DEF Queue!RunNow, CInv, QueueTypes
    <3>2. CancelledHere(i)'
      BY <2>1, <2>3, <3>1 DEF CancelledHere, Executed, CInv, CallersKnown
    <3> QED
      BY <1>3, <2>1, <2>3, <3>2 DEF Effect
  <2> QED
    BY <1>6, <2>2, <2>3 DEF deleteTimer, runInLoop
<1>7. CASE RunFunctor
  <2>1. inbox # <<>> /\ callback = none /\ Effect(Head(inbox)) /\ UNCHANGED callback
    BY <1>7 DEF RunFunctor, BetweenCallbacks, Queue!Execute
  <2>2. Head(inbox) \in TimerFunctors
    BY <2>1, QueueHead DEF CInv, QueueTypes
  <2>3. Head(inbox)[2] \in Timers
    BY <2>2 DEF TimerFunctors
  <2> QED
    BY <1>2, <1>3, <2>1, <2>3, NoneAssumption DEF Effect
<1>8. ASSUME NEW i \in Timers, handleTimer(i) PROVE FInv'
  BY <1>8 DEF handleTimer
<1>9. CASE onTimer
  BY <1>9 DEF onTimer, UseAfterFree, stopTimer
<1>10. CASE quit \/ LoopReturns \/ DeleteLoop("loopThread") \/ DeleteLoop("other")
  BY <1>4, <1>10 DEF quit, LoopReturns, DeleteLoop, timerVars
<1>11. CASE UNCHANGED vars
  BY <1>4, <1>11 DEF vars, timerVars
<1> QED
  BY <1>5, <1>6, <1>7, <1>8, <1>9, <1>10, <1>11 DEF Next, LoopStep

(* No TimerObj is destroyed under its callback but by a cancel made on the  *)
(* loop's thread, that is by the callback itself: whatever other timers it  *)
(* starts and cancels, and whatever other threads start and cancel, among   *)
(* that the very timer that is firing.                                      *)
THEOREM NoneDiesFiring == Spec => []FiringAlive
<1>1. CInv /\ FInv /\ [Next]_vars => (CInv /\ FInv)'
  BY NextCInv, NextFInv
<1>2. Init => CInv /\ FInv
  BY InitCInv, InitFInv
<1>3. CInv /\ FInv => FiringAlive
  BY DEF FInv, CancelledHere, FiringAlive
<1> QED
  BY <1>1, <1>2, <1>3, PTL DEF Spec
=============================================================================
