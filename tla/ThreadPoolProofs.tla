-------------------------- MODULE ThreadPoolProofs --------------------------
(* Theorems about ThreadPool for any finite set of workers and any tasks.   *)
EXTENDS ThreadPool, SequenceTheorems, FiniteSetTheorems, TLAPS

(* Once the pool is stopped nobody waits, and nobody will.  A worker only   *)
(* returns from an empty queue, and what is queued afterwards is queued by  *)
(* a task, whose worker is still there to take it.                          *)
StopWakesAll ==
  /\ stop <=> owner # "using"
  /\ stop => AtPlace("waiting") = {}
LastLeavesNothing ==
  /\ AtPlace("returned") # {} => stop
  /\ Workers # {} /\ AtPlace("returned") = Workers => tasks = <<>>
  /\ owner = "gone" => AtPlace("returned") = Workers

IInv ==
  /\ TypeOK
  /\ NoWorkerSleepsOnWork
  /\ StopWakesAll
  /\ LastLeavesNothing

-----------------------------------------------------------------------------
(* Where the workers are                                                    *)

(* A worker that goes to x leaves the place where it was. *)
LEMMA WorkerMoves ==
  ASSUME worker \in [Workers -> Places \cup Tasks], NEW w \in Workers, NEW x,
         worker' = [worker EXCEPT ![w] = x], NEW p
  PROVE  AtPlace(p)' = IF p = x THEN AtPlace(p) \cup {w}
                                ELSE AtPlace(p) \ {w}
  BY DEF AtPlace

LEMMA PlacesAreFinite == \A p : IsFiniteSet(AtPlace(p))
                               /\ Cardinality(AtPlace(p)) \in Nat
<1> SUFFICES ASSUME NEW p PROVE IsFiniteSet(AtPlace(p))
                                /\ Cardinality(AtPlace(p)) \in Nat
  OBVIOUS
<1>1. AtPlace(p) \in SUBSET Workers
  BY DEF AtPlace
<1>2. IsFiniteSet(AtPlace(p))
  BY <1>1, WorkersAssumption, FS_Subset
<1>3. QED
  BY <1>2, FS_CardinalityType

(* The three places are different, and no task is one of them. *)
LEMMA PlacesDiffer ==
  \A t \in Tasks : t # "test" /\ t # "waiting" /\ t # "returned"
  BY TasksAssumption DEF Places

-----------------------------------------------------------------------------
(* Typing                                                                   *)

LEMMA InitTypeOK == Init => TypeOK
  BY EmptySeq DEF Init, TypeOK, Places

LEMMA NextTypeOK == TypeOK /\ [Next]_vars => TypeOK'
<1> SUFFICES ASSUME TypeOK, [Next]_vars PROVE TypeOK'
  OBVIOUS
<1> USE DEF TypeOK, Places, AtPlace
<1>1. NotifyOne => worker' \in [Workers -> Places \cup Tasks]
  BY DEF NotifyOne
<1>2. ASSUME NEW t \in Tasks, schedule(t) PROVE TypeOK'
  BY <1>1, <1>2, AppendProperties DEF schedule
<1>3. ASSUME NEW w \in Workers, WorkerStep(w) \/ SpuriousWakeup(w)
      PROVE  TypeOK'
  <2>1. CASE Wait(w)
    BY <2>1 DEF Wait
  <2>2. CASE Return(w)
    BY <2>2 DEF Return
  <2>3. CASE Take(w)
    <3>1. Head(tasks) \in Tasks /\ Tail(tasks) \in Seq(Tasks)
      BY <2>3, HeadTailProperties DEF Take
    <3>2. QED
      BY <1>3, <2>3, <3>1, AppendProperties DEF Take
  <2>4. CASE Finish(w)
    BY <2>4 DEF Finish
  <2>5. CASE SpuriousWakeup(w)
    BY <2>5 DEF SpuriousWakeup
  <2>6. QED
    BY <1>3, <2>1, <2>2, <2>3, <2>4, <2>5 DEF WorkerStep
<1>4. CASE BeginDestruction
  BY <1>4 DEF BeginDestruction, NotifyAll
<1>5. CASE EndDestruction
  BY <1>5 DEF EndDestruction
<1>6. CASE UNCHANGED vars
  BY <1>6 DEF vars
<1>7. QED
  BY <1>2, <1>3, <1>4, <1>5, <1>6 DEF Next

(* The variables always have their types. *)
THEOREM Typing == Spec => []TypeOK
  BY InitTypeOK, NextTypeOK, PTL DEF Spec

-----------------------------------------------------------------------------
(* No worker sleeps on work                                                 *)

LEMMA NextNoSleep ==
  TypeOK /\ NoWorkerSleepsOnWork /\ [Next]_vars => NoWorkerSleepsOnWork'
<1> SUFFICES ASSUME TypeOK, NoWorkerSleepsOnWork, [Next]_vars,
                    AtPlace("waiting")' # {}
             PROVE  Len(tasks') <= Cardinality(AtPlace("test")')
  BY DEF NoWorkerSleepsOnWork
<1> DEFINE n == Cardinality(AtPlace("test"))
<1>1. worker \in [Workers -> Places \cup Tasks] /\ tasks \in Seq(Tasks)
  BY DEF TypeOK
<1>2. n \in Nat /\ IsFiniteSet(AtPlace("test")) /\ Len(tasks) \in Nat
  BY <1>1, PlacesAreFinite, LenProperties
<1>3. AtPlace("waiting") # {} => Len(tasks) <= n
  BY DEF NoWorkerSleepsOnWork
(* One more worker is on its way. *)
<1>4. ASSUME NEW w \in Workers, worker[w] # "test",
             worker' = [worker EXCEPT ![w] = "test"]
      PROVE  /\ Cardinality(AtPlace("test")') = n + 1
             /\ AtPlace("waiting")' = AtPlace("waiting") \ {w}
  <2>1. AtPlace("test")' = AtPlace("test") \cup {w}
    BY <1>1, <1>4, WorkerMoves
  <2>2. w \notin AtPlace("test")
    BY <1>4 DEF AtPlace
  <2>3. Cardinality(AtPlace("test") \cup {w}) = n + 1
    BY <1>2, <2>2, FS_AddElement
  <2>4. QED
    BY <1>1, <1>4, <2>1, <2>3, WorkerMoves
<1>5. ASSUME NEW t \in Tasks, schedule(t)
      PROVE  Len(tasks') <= Cardinality(AtPlace("test")')
  <2>1. AtPlace("waiting") # {}
    BY <1>5 DEF schedule, NotifyOne, AtPlace
  <2>2. PICK w \in AtPlace("waiting") : worker' = [worker EXCEPT ![w] = "test"]
    BY <1>5, <2>1 DEF schedule, NotifyOne
  <2>3. Cardinality(AtPlace("test")') = n + 1
    BY <1>4, <2>2 DEF AtPlace
  <2>4. Len(tasks') = Len(tasks) + 1
    BY <1>1, <1>5, AppendProperties DEF schedule
  <2>5. QED
    BY <1>2, <1>3, <2>1, <2>3, <2>4
<1>6. ASSUME NEW w \in Workers, WorkerStep(w) \/ SpuriousWakeup(w)
      PROVE  Len(tasks') <= Cardinality(AtPlace("test")')
  <2>1. CASE Wait(w) \/ Return(w)
    <3>1. Len(tasks') = 0
      BY <2>1 DEF Wait, Return
    <3>2. PICK x : worker' = [worker EXCEPT ![w] = x] /\ x # "test"
      BY <2>1 DEF Wait, Return
    <3>3. AtPlace("test")' = AtPlace("test") \ {w}
      BY <1>1, <3>2, WorkerMoves
    <3>4. Cardinality(AtPlace("test") \ {w}) \in Nat
      BY <1>2, FS_RemoveElement, FS_CardinalityType
    <3>5. Cardinality(AtPlace("test")') \in Nat
      BY <3>3, <3>4, Zenon
    <3>6. QED
      BY <3>1, <3>5
  <2>2. CASE Take(w)
    <3>1. Head(tasks) \in Tasks /\ Len(tasks') = Len(tasks) - 1
      BY <1>1, <2>2, HeadTailProperties DEF Take
    <3>2. worker' = [worker EXCEPT ![w] = Head(tasks)]
      BY <2>2 DEF Take
    <3>3. /\ AtPlace("test")' = AtPlace("test") \ {w}
          /\ AtPlace("waiting")' = AtPlace("waiting") \ {w}
      BY <1>1, <3>1, <3>2, WorkerMoves, PlacesDiffer
    <3>4. w \in AtPlace("test")
      BY <2>2 DEF Take, AtPlace
    <3>5. Cardinality(AtPlace("test") \ {w}) = n - 1
      BY <1>2, <3>4, FS_RemoveElement
    <3>6. Len(tasks) <= n
      BY <1>3, <3>3
    <3>7. Cardinality(AtPlace("test")') = n - 1
      BY <3>3, <3>5, Zenon
    <3>8. QED
      BY <1>2, <3>1, <3>6, <3>7
  <2>3. CASE Finish(w) \/ SpuriousWakeup(w)
    <3>1. /\ worker[w] # "test" /\ tasks' = tasks
          /\ worker' = [worker EXCEPT ![w] = "test"]
      BY <2>3, PlacesDiffer DEF Finish, SpuriousWakeup
    <3>2. /\ Cardinality(AtPlace("test")') = n + 1
          /\ AtPlace("waiting") # {}
      BY <1>4, <3>1
    <3>3. QED
      BY <1>2, <1>3, <3>1, <3>2
  <2>4. QED
    BY <1>6, <2>1, <2>2, <2>3 DEF WorkerStep
<1>7. CASE BeginDestruction
  BY <1>7 DEF BeginDestruction, NotifyAll, AtPlace
<1>8. CASE EndDestruction \/ UNCHANGED vars
  <2>1. UNCHANGED <<tasks, worker>>
    BY <1>8 DEF EndDestruction, vars
  <2>2. QED
    BY <1>3, <2>1 DEF AtPlace
<1>9. QED
  BY <1>5, <1>6, <1>7, <1>8 DEF Next

-----------------------------------------------------------------------------
(* What the destructor finds                                                *)

LEMMA NextStopWakesAll ==
  TypeOK /\ StopWakesAll /\ [Next]_vars => StopWakesAll'
<1> SUFFICES ASSUME TypeOK, StopWakesAll, [Next]_vars PROVE StopWakesAll'
  OBVIOUS
<1> USE DEF StopWakesAll, AtPlace
<1>1. ASSUME NEW t \in Tasks, schedule(t) PROVE StopWakesAll'
  BY <1>1 DEF schedule, NotifyOne
<1>2. ASSUME NEW w \in Workers, WorkerStep(w) \/ SpuriousWakeup(w)
      PROVE  StopWakesAll'
  <2>1. CASE Wait(w)
    BY <2>1 DEF Wait
  <2>2. CASE Return(w)
    BY <2>2 DEF Return, TypeOK
  <2>3. CASE Take(w)
    <3>1. Head(tasks) # "waiting"
      BY <2>3, HeadTailProperties, PlacesDiffer DEF Take, TypeOK
    <3>2. QED
      BY <2>3, <3>1 DEF Take, TypeOK
  <2>4. CASE Finish(w)
    BY <2>4 DEF Finish, TypeOK
  <2>5. CASE SpuriousWakeup(w)
    BY <2>5 DEF SpuriousWakeup
  <2>6. QED
    BY <1>2, <2>1, <2>2, <2>3, <2>4, <2>5 DEF WorkerStep
<1>3. CASE BeginDestruction
  BY <1>3 DEF BeginDestruction, NotifyAll
<1>4. CASE EndDestruction
  BY <1>4 DEF EndDestruction
<1>5. CASE UNCHANGED vars
  BY <1>5 DEF vars
<1>6. QED
  BY <1>1, <1>2, <1>3, <1>4, <1>5 DEF Next

LEMMA NextLastLeavesNothing ==
  TypeOK /\ StopWakesAll /\ LastLeavesNothing /\ [Next]_vars
    => LastLeavesNothing'
<1> SUFFICES ASSUME TypeOK, StopWakesAll, LastLeavesNothing, [Next]_vars
             PROVE  LastLeavesNothing'
  OBVIOUS
<1>1. worker \in [Workers -> Places \cup Tasks] /\ tasks \in Seq(Tasks)
  BY DEF TypeOK
(* A task can only be scheduled while a worker is left. *)
<1>2. ASSUME NEW t \in Tasks, schedule(t) PROVE LastLeavesNothing'
  <2>1. AtPlace("returned")' = AtPlace("returned")
    <3>1. CASE UNCHANGED worker
      BY <3>1 DEF AtPlace
    <3>2. CASE \E w \in AtPlace("waiting") :
                 worker' = [worker EXCEPT ![w] = "test"]
      BY <1>1, <3>2 DEF AtPlace
    <3>3. QED
      BY <1>2, <3>1, <3>2 DEF schedule, NotifyOne
  <2>2. Workers # {} => AtPlace("returned") # Workers
    <3>1. CASE owner = "using"
      BY <3>1 DEF StopWakesAll, LastLeavesNothing
    <3>2. CASE Running # {}
      BY <3>2, PlacesDiffer DEF Running, AtPlace
    <3>3. QED
      BY <1>2, <3>1, <3>2 DEF schedule, MaySchedule
  <2>3. QED
    BY <1>2, <2>1, <2>2 DEF schedule, LastLeavesNothing
<1>3. ASSUME NEW w \in Workers, WorkerStep(w) \/ SpuriousWakeup(w)
      PROVE  LastLeavesNothing'
  <2>1. worker[w] # "returned" /\ AtPlace("returned") # Workers
    BY <1>3, PlacesDiffer
       DEF WorkerStep, Wait, Return, Take, Finish, SpuriousWakeup, AtPlace
  <2>2. owner # "gone" /\ owner' = owner /\ stop' = stop
    BY <1>3, <2>1 DEF LastLeavesNothing, WorkerStep, Wait, Return, Take, Finish,
                      SpuriousWakeup
  <2>3. CASE Return(w)
    BY <2>2, <2>3 DEF Return, LastLeavesNothing
  <2>4. CASE Wait(w) \/ Take(w) \/ Finish(w) \/ SpuriousWakeup(w)
    <3>1. PICK x : worker' = [worker EXCEPT ![w] = x] /\ x # "returned"
      <4>1. Take(w) => Head(tasks) # "returned"
        BY <1>1, HeadTailProperties, PlacesDiffer DEF Take
      <4>2. QED
        BY <2>4, <4>1 DEF Wait, Take, Finish, SpuriousWakeup
    <3>2. AtPlace("returned")' = AtPlace("returned") \ {w}
      BY <1>1, <3>1, WorkerMoves
    <3>3. QED
      BY <2>2, <3>2 DEF LastLeavesNothing
  <2>5. QED
    BY <1>3, <2>3, <2>4 DEF WorkerStep
<1>4. CASE BeginDestruction
  <2>1. AtPlace("returned") = {} /\ AtPlace("returned")' = {}
    BY <1>1, <1>4 DEF BeginDestruction, NotifyAll, AtPlace, StopWakesAll,
                      LastLeavesNothing
  <2>2. QED
    BY <1>4, <2>1 DEF BeginDestruction, LastLeavesNothing
<1>5. CASE EndDestruction
  BY <1>5 DEF EndDestruction, LastLeavesNothing, AtPlace
<1>6. CASE UNCHANGED vars
  BY <1>6 DEF vars, LastLeavesNothing, AtPlace
<1>7. QED
  BY <1>2, <1>3, <1>4, <1>5, <1>6 DEF Next

LEMMA Invariance == Spec => []IInv
<1>1. Init => IInv
  <2>1. Init => AtPlace("waiting") = {} /\ AtPlace("returned") = {}
    BY DEF Init, AtPlace
  <2>2. QED
    BY <2>1, InitTypeOK
       DEF Init, IInv, NoWorkerSleepsOnWork, StopWakesAll, LastLeavesNothing
<1>2. IInv /\ [Next]_vars => IInv'
  BY NextTypeOK, NextNoSleep, NextStopWakesAll, NextLastLeavesNothing DEF IInv
<1>3. QED
  BY <1>1, <1>2, PTL DEF Spec

(* While a worker waits there are at least as many on their way to the      *)
(* queue as tasks in it: notify_one() under the mutex loses nothing.        *)
THEOREM WorkIsNotSleptOn == Spec => []NoWorkerSleepsOnWork
  BY Invariance, PTL DEF IInv

-----------------------------------------------------------------------------
(* The pool as a queue                                                      *)

(* Tasks start in the order in which they were scheduled, each once. *)
THEOREM Refinement == Spec => ImplementsFunctorQueue
<1>1. Init => Queue!Init
  BY DEF Init, Queue!Init
<1>2. [Next]_vars => [Queue!Next]_Queue!vars
  <2> SUFFICES ASSUME [Next]_vars PROVE [Queue!Next]_Queue!vars
    OBVIOUS
  <2>1. ASSUME NEW t \in Tasks, schedule(t) PROVE Queue!Next
    BY <2>1 DEF schedule, Queue!Submit, Queue!Next
  <2>2. ASSUME NEW w \in Workers, Take(w) PROVE Queue!Next
    BY <2>2 DEF Take, Queue!Execute, Queue!Next
  <2>3. ASSUME NEW w \in Workers,
               Wait(w) \/ Return(w) \/ Finish(w) \/ SpuriousWakeup(w)
        PROVE  UNCHANGED Queue!vars
    BY <2>3 DEF Wait, Return, Finish, SpuriousWakeup, Queue!vars
  <2>4. CASE BeginDestruction \/ EndDestruction \/ UNCHANGED vars
    BY <2>4 DEF BeginDestruction, EndDestruction, vars, Queue!vars
  <2>5. QED
    BY <2>1, <2>2, <2>3, <2>4 DEF Next, WorkerStep
<1>3. QED
  BY <1>1, <1>2, PTL DEF Spec, ImplementsFunctorQueue, Queue!Spec

-----------------------------------------------------------------------------
(* Nothing is left                                                          *)

(* The tasks that wait and those that were started are those scheduled. *)
Kept == Range(started) \cup Range(tasks) = Tasks \ fresh

(* What a sequence gains by Append, and loses by Tail. *)
LEMMA RangeAppend ==
  ASSUME NEW S, NEW s \in Seq(S), NEW e \in S
  PROVE  Range(Append(s, e)) = Range(s) \cup {e}
<1>1. Append(s, e) = s \o <<e>> /\ <<e>> \in Seq(S)
  BY AppendIsConcat
<1>2. Range(<<e>>) = {e}
  BY DEF Range
<1>3. Range(s \o <<e>>) = Range(s) \cup Range(<<e>>)
  BY <1>1, RangeConcatenation, ZenonT(30)
<1>4. QED
  BY <1>1, <1>2, <1>3

LEMMA RangeHeadTail ==
  ASSUME NEW S, NEW s \in Seq(S), s # <<>>
  PROVE  Range(s) = {Head(s)} \cup Range(Tail(s))
<1>1. Head(s) \in S /\ Tail(s) \in Seq(S) /\ <<Head(s)>> \in Seq(S)
      /\ s = <<Head(s)>> \o Tail(s)
  BY HeadTailProperties, SMTT(30)
<1>2. Range(<<Head(s)>> \o Tail(s)) = Range(<<Head(s)>>) \cup Range(Tail(s))
  BY <1>1, RangeConcatenation, ZenonT(30)
<1>3. Range(<<Head(s)>>) = {Head(s)}
  BY DEF Range
<1>4. QED
  BY <1>1, <1>2, <1>3, Zenon

(* A task that is scheduled waits; one that is taken is started. *)
LEMMA NextKept == TypeOK /\ Kept /\ [Next]_vars => Kept'
<1> SUFFICES ASSUME TypeOK, Kept, [Next]_vars PROVE Kept'
  OBVIOUS
<1>0. tasks \in Seq(Tasks) /\ started \in Seq(Tasks) /\ fresh \subseteq Tasks
  BY DEF TypeOK
<1>1. ASSUME NEW t \in Tasks, schedule(t) PROVE Kept'
  <2>1. t \in fresh /\ fresh' = fresh \ {t} /\ started' = started
        /\ tasks' = Append(tasks, t)
    BY <1>1 DEF schedule
  <2>2. Range(tasks') = Range(tasks) \cup {t}
    BY <1>0, <2>1, RangeAppend
  <2>3. QED
    BY <1>0, <2>1, <2>2 DEF Kept
<1>2. ASSUME NEW w \in Workers, Take(w) PROVE Kept'
  <2>1. tasks # <<>> /\ tasks' = Tail(tasks) /\ fresh' = fresh
        /\ started' = Append(started, Head(tasks))
    BY <1>2 DEF Take
  <2>2. Head(tasks) \in Tasks
    BY <1>0, <2>1
  <2>3. Range(started') = Range(started) \cup {Head(tasks)}
    BY <1>0, <2>1, <2>2, RangeAppend
  <2>4. Range(tasks) = {Head(tasks)} \cup Range(tasks')
    BY <1>0, <2>1, RangeHeadTail
  <2>5. QED
    BY <2>1, <2>3, <2>4 DEF Kept
<1>3. ASSUME NEW w \in Workers,
             Wait(w) \/ Return(w) \/ Finish(w) \/ SpuriousWakeup(w)
      PROVE  Kept'
  BY <1>3 DEF Wait, Return, Finish, SpuriousWakeup, Kept
<1>4. CASE BeginDestruction \/ EndDestruction \/ UNCHANGED vars
  BY <1>4 DEF BeginDestruction, EndDestruction, vars, Kept
<1>5. QED
  BY <1>1, <1>2, <1>3, <1>4 DEF Next, WorkerStep

(* When the destructor returns, the queue is empty, no task runs, and every *)
(* task that was scheduled has been started, also those that other tasks    *)
(* scheduled while the pool was being destroyed.                            *)
THEOREM NothingIsLeft == Spec => []DrainedOnReturn
<1>1. Init => Kept
  <2>1. Range(<<>>) = {}
    BY DEF Range
  <2>2. QED
    BY <2>1 DEF Init, Kept
<1>2. IInv /\ Kept => DrainedOnReturn
  <2> SUFFICES ASSUME IInv, Kept, owner = "gone", Workers # {}
               PROVE  /\ tasks = <<>> /\ Running = {}
                      /\ Range(started) = Tasks \ fresh
    BY DEF DrainedOnReturn
  <2>1. tasks = <<>> /\ AtPlace("returned") = Workers
    BY DEF IInv, LastLeavesNothing
  <2>2. Running = {}
    BY <2>1, PlacesDiffer DEF Running, AtPlace
  <2>3. Range(tasks) = {}
    BY <2>1 DEF Range
  <2>4. QED
    BY <2>1, <2>2, <2>3 DEF Kept
<1>3. QED
  <2>1. IInv => TypeOK
    BY DEF IInv
  <2>2. QED
    BY <1>1, <1>2, <2>1, NextKept, Invariance, PTL DEF Spec

=============================================================================
