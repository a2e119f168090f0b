--------------------------- MODULE EventLoopProofs ---------------------------
(* Theorems about EventLoop, and about EventLoopThread which runs it, for   *)
(* any number of threads and functors and any capacity of the eventfd.      *)
EXTENDS EventLoops, SequenceTheorems, TLAPS

(* Two wakeup hazards and one of the batch need each other's help: a        *)
(* thread decides to wake the loop on sizePendingFunctors_, so NoLostWakeup *)
(* is inductive only together with SizeAgrees; the map to FunctorQueue      *)
(* needs an empty batch wherever the queue is swapped or dropped.           *)
IInv ==
  /\ TypeOK
  /\ SizeAgrees
  /\ NoLostWakeup
  /\ NoLostQuit
  /\ BatchIsLocal

-----------------------------------------------------------------------------
(* Typing                                                                   *)

LEMMA InitTypeOK == Init => TypeOK
<1> SUFFICES ASSUME Init PROVE TypeOK
  OBVIOUS
<1> USE DEF Init
<1>1. <<>> \in Seq(Functors)
  BY EmptySeq
<1>2. wakeupFd_ \in 0..EfdMax /\ sizePendingFunctors_ \in Nat
  BY EfdMaxAssumption
<1>3. waking \in [Threads -> BOOLEAN] /\ quit_ \in BOOLEAN
  OBVIOUS
<1>4. QED
  BY <1>1, <1>2, <1>3 DEF TypeOK, Locations

LEMMA NextTypeOK == TypeOK /\ [Next]_vars => TypeOK'
<1> SUFFICES ASSUME TypeOK, [Next]_vars PROVE TypeOK'
  OBVIOUS
<1> USE DEF TypeOK, Locations, Goto
<1>1. ASSUME NEW t \in Threads, NEW f \in Functors, queueInLoop(t, f)
      PROVE  TypeOK'
  BY <1>1, AppendProperties DEF queueInLoop, Push
<1>2. ASSUME NEW t \in Threads, NEW f \in Functors, runInLoop(t, f)
      PROVE  TypeOK'
  <2>1. CASE t # LoopThread
    BY <1>1, <1>2, <2>1 DEF runInLoop
  <2>2. CASE t = LoopThread
    <3>1. executed' = Append(executed, f)
      BY <1>2, <2>2 DEF runInLoop
    <3>2. executed' \in Seq(Functors)
      BY <1>2, <3>1, AppendProperties
    <3>3. QED
      BY <1>2, <2>2, <3>2 DEF runInLoop
  <2>3. QED
    BY <2>1, <2>2
<1>3. ASSUME NEW t \in Threads, quit(t) PROVE TypeOK'
  BY <1>3 DEF quit
<1>4. ASSUME NEW t \in Threads, wakeup(t) PROVE TypeOK'
  BY <1>4, EfdMaxAssumption DEF wakeup
<1>5. CASE loop
  BY <1>5 DEF loop
<1>6. CASE CheckQuit
  BY <1>6 DEF CheckQuit
<1>7. ASSUME NEW io \in BOOLEAN, Poll(io) PROVE TypeOK'
  BY <1>7 DEF Poll
<1>8. CASE handleWakeup
  BY <1>8, EfdMaxAssumption DEF handleWakeup
<1>9. CASE BeginIo
  BY <1>9 DEF BeginIo
<1>10. CASE EndIo
  BY <1>10 DEF EndIo
<1>11. CASE SwapPending
  BY <1>11, EmptySeq DEF SwapPending
<1>12. CASE BeginFunctor
  <2>1. Head(functors) \in Functors /\ Tail(functors) \in Seq(Functors)
    BY <1>12, HeadTailProperties DEF BeginFunctor
  <2>2. QED
    BY <1>12, <2>1, AppendProperties DEF BeginFunctor
<1>13. CASE EndFunctor
  BY <1>13 DEF EndFunctor
<1>14. CASE EndDrain
  BY <1>14 DEF EndDrain
<1>15. CASE ResetQuit
  BY <1>15 DEF ResetQuit
<1>16. CASE ClearPending
  <2>1. Range(pendingFunctors_) \subseteq Functors
    BY RangeOfSeq
  <2>2. QED
    BY <1>16, <2>1, EmptySeq DEF ClearPending
<1>17. CASE UNCHANGED vars
  BY <1>17 DEF vars
<1>18. QED
  BY <1>1, <1>2, <1>3, <1>4, <1>5, <1>6, <1>7, <1>8, <1>9, <1>10, <1>11, <1>12,
     <1>13, <1>14, <1>15, <1>16, <1>17 DEF Next, CallerStep, LoopStep

(* The variables always have their types; in particular the eventfd never   *)
(* exceeds its capacity, however many threads wake the loop.                *)
THEOREM Typing == Spec => []TypeOK
  BY InitTypeOK, NextTypeOK, PTL DEF Spec

-----------------------------------------------------------------------------
(* The inductive invariant                                                  *)

LEMMA InitIInv == Init => IInv
  BY InitTypeOK, EmptySeq
     DEF Init, IInv, SizeAgrees, NoLostWakeup, NoLostQuit, BatchIsLocal

LEMMA NextIInv == IInv /\ [Next]_vars => IInv'
<1> SUFFICES ASSUME IInv, [Next]_vars PROVE IInv'
  OBVIOUS
<1> USE DEF IInv, SizeAgrees, NoLostWakeup, NoLostQuit, BatchIsLocal,
            WakeupComing, Goto
<1>0. TypeOK /\ TypeOK'
  BY NextTypeOK
<1>1. ASSUME NEW t \in Threads, NEW f \in Functors, queueInLoop(t, f)
      PROVE  IInv'
  <2>1. SizeAgrees'
    BY <1>0, <1>1, AppendProperties DEF queueInLoop, Push, TypeOK
  <2>2. waking'[t] \/ pendingFunctors_ # <<>>
    BY <1>0, <1>1, EmptySeq DEF queueInLoop, Push, TypeOK
  <2>3. \A u \in Threads : waking[u] => waking'[u]
    BY <1>0, <1>1 DEF queueInLoop, Push, MayCall, TypeOK
  <2>4. QED
    BY <1>0, <1>1, <2>1, <2>2, <2>3 DEF queueInLoop, Push
<1>2. ASSUME NEW t \in Threads, NEW f \in Functors, runInLoop(t, f)
      PROVE  IInv'
  BY <1>0, <1>1, <1>2 DEF runInLoop
<1>3. ASSUME NEW t \in Threads, quit(t) PROVE IInv'
  <2>1. waking'[t]
    BY <1>0, <1>3 DEF quit, TypeOK
  <2>2. QED
    BY <1>0, <1>3, <2>1 DEF quit
<1>4. ASSUME NEW t \in Threads, wakeup(t) PROVE IInv'
  <2>1. wakeupFd_' > 0
    BY <1>0, <1>4, EfdMaxAssumption DEF wakeup, TypeOK
  <2>2. QED
    BY <1>0, <1>4, <2>1 DEF wakeup
<1>5. CASE loop
  BY <1>0, <1>5 DEF loop
<1>6. CASE CheckQuit
  BY <1>0, <1>6 DEF CheckQuit
<1>7. ASSUME NEW io \in BOOLEAN, Poll(io) PROVE IInv'
  BY <1>0, <1>7 DEF Poll
<1>8. CASE handleWakeup
  BY <1>0, <1>8 DEF handleWakeup
<1>9. CASE BeginIo
  BY <1>0, <1>9 DEF BeginIo
<1>10. CASE EndIo
  BY <1>0, <1>10 DEF EndIo
<1>11. CASE SwapPending
  BY <1>0, <1>11, EmptySeq DEF SwapPending
<1>12. CASE BeginFunctor
  BY <1>0, <1>12 DEF BeginFunctor
<1>13. CASE EndFunctor
  BY <1>0, <1>13 DEF EndFunctor
<1>14. CASE EndDrain
  BY <1>0, <1>14 DEF EndDrain
<1>15. CASE ResetQuit
  BY <1>0, <1>15 DEF ResetQuit
<1>16. CASE ClearPending
  BY <1>0, <1>16, EmptySeq DEF ClearPending
<1>17. CASE UNCHANGED vars
  BY <1>0, <1>17 DEF vars
<1>18. QED
  BY <1>1, <1>2, <1>3, <1>4, <1>5, <1>6, <1>7, <1>8, <1>9, <1>10, <1>11, <1>12,
     <1>13, <1>14, <1>15, <1>16, <1>17 DEF Next, CallerStep, LoopStep

LEMMA Invariance == Spec => []IInv
  BY InitIInv, NextIInv, PTL DEF Spec

(* sizePendingFunctors_ and the queue never disagree outside mutex_. *)
THEOREM SizeIsLength == Spec => []SizeAgrees
<1>1. IInv => SizeAgrees
  BY DEF IInv
<1>2. QED
  BY <1>1, Invariance, PTL

(* The loop never blocks with functors queued and no wakeup on its way.     *)
THEOREM WakeupIsNotLost == Spec => []NoLostWakeup
<1>1. IInv => NoLostWakeup
  BY DEF IInv
<1>2. QED
  BY <1>1, Invariance, PTL

(* The loop never blocks on a quit() with no wakeup on its way.             *)
THEOREM QuitIsNotLost == Spec => []NoLostQuit
<1>1. IInv => NoLostQuit
  BY DEF IInv
<1>2. QED
  BY <1>1, Invariance, PTL

-----------------------------------------------------------------------------
(* The loop implements FunctorQueue                                         *)

(* What is first in a non-empty sequence stays first when it is extended. *)
LEMMA HeadTailOfConcat ==
  ASSUME NEW S, NEW s \in Seq(S), NEW t \in Seq(S), s # <<>>
  PROVE  /\ s \o t # <<>>
         /\ Head(s \o t) = Head(s)
         /\ Tail(s \o t) = Tail(s) \o t
  BY SMTT(30)

LEMMA InitMaps == Init => Queue!Init
<1>1. <<>> \o <<>> = <<>>
  BY EmptySeq, ConcatEmptySeq
<1>2. QED
  BY <1>1 DEF Init, Queue!Init

LEMMA StepMaps == IInv /\ [Next]_vars => [Queue!Next]_Queue!vars
<1> SUFFICES ASSUME IInv, [Next]_vars PROVE [Queue!Next]_Queue!vars
  OBVIOUS
<1> USE DEF Goto
<1> DEFINE inbox == functors \o pendingFunctors_
           stopping == quit_ \/ pc \in {"exit", "clear"}
<1>0. /\ TypeOK
      /\ functors \in Seq(Functors)
      /\ pendingFunctors_ \in Seq(Functors)
  BY DEF IInv, TypeOK
<1>1. ASSUME NEW t \in Threads, NEW f \in Functors, queueInLoop(t, f)
      PROVE  Queue!Submit(f)
  <2>1. inbox' = Append(inbox, f)
    <3>1. Append(pendingFunctors_, f) = pendingFunctors_ \o <<f>>
          /\ <<f>> \in Seq(Functors)
      BY <1>0, <1>1, AppendIsConcat
    <3>2. inbox \in Seq(Functors)
      BY <1>0, ConcatProperties
    <3>3. Append(inbox, f) = inbox \o <<f>>
      BY <1>1, <3>2, AppendIsConcat
    <3>4. (functors \o pendingFunctors_) \o <<f>>
             = functors \o (pendingFunctors_ \o <<f>>)
      BY <1>0, <3>1, ConcatAssociative
    <3>5. QED
      BY <1>1, <3>1, <3>3, <3>4 DEF queueInLoop, Push
  <2>2. QED
    BY <1>1, <2>1 DEF queueInLoop, Push, Queue!Submit
<1>2. ASSUME NEW t \in Threads, NEW f \in Functors, runInLoop(t, f)
      PROVE  Queue!Submit(f) \/ Queue!RunNow(f)
  BY <1>1, <1>2 DEF runInLoop, Queue!RunNow
<1>3. ASSUME NEW t \in Threads, quit(t) PROVE Queue!RequestStop
  BY <1>3 DEF quit, Queue!RequestStop
<1>4. ASSUME NEW t \in Threads, wakeup(t) PROVE UNCHANGED Queue!vars
  BY <1>4 DEF wakeup, Queue!vars
<1>5. CASE loop
  BY <1>5 DEF loop, Queue!vars
<1>6. CASE CheckQuit
  BY <1>6 DEF CheckQuit, Queue!vars
<1>7. ASSUME NEW io \in BOOLEAN, Poll(io) PROVE UNCHANGED Queue!vars
  BY <1>7 DEF Poll, Queue!vars
<1>8. CASE handleWakeup
  BY <1>8 DEF handleWakeup, Queue!vars
<1>9. CASE BeginIo
  BY <1>9 DEF BeginIo, Queue!vars
<1>10. CASE EndIo
  BY <1>10 DEF EndIo, Queue!vars
<1>11. CASE SwapPending
  <2>1. functors = <<>>
    BY <1>11 DEF SwapPending, IInv, BatchIsLocal
  <2>2. inbox' = inbox
    BY <1>0, <1>11, <2>1, ConcatEmptySeq DEF SwapPending
  <2>3. QED
    BY <1>11, <2>2 DEF SwapPending, Queue!vars
<1>12. CASE BeginFunctor
  <2>1. functors # <<>> /\ Head(functors) \in Functors
        /\ Tail(functors) \in Seq(Functors)
    BY <1>0, <1>12, HeadTailProperties DEF BeginFunctor
  <2>2. inbox # <<>> /\ Head(inbox) = Head(functors)
        /\ Tail(inbox) = Tail(functors) \o pendingFunctors_
    BY <1>0, <2>1, HeadTailOfConcat
  <2>3. Queue!Execute
    BY <1>12, <2>2 DEF BeginFunctor, Queue!Execute
  <2>4. QED
    BY <2>3 DEF Queue!Next
<1>13. CASE EndFunctor
  BY <1>13 DEF EndFunctor, Queue!vars
<1>14. CASE EndDrain
  BY <1>14 DEF EndDrain, Queue!vars
<1>15. CASE ResetQuit
  BY <1>15 DEF ResetQuit, Queue!vars
<1>16. CASE ClearPending
  <2>1. functors = <<>>
    BY <1>16 DEF ClearPending, IInv, BatchIsLocal
  <2>2. inbox = pendingFunctors_ /\ inbox' = <<>>
    BY <1>0, <1>16, <2>1, ConcatEmptySeq, EmptySeq DEF ClearPending
  <2>3. (quit_ \/ pc \in {"exit", "clear"})' \in BOOLEAN
    OBVIOUS
  <2>4. Queue!Stop
    BY <1>16, <2>2, <2>3 DEF ClearPending, Queue!Stop, Range, Queue!Range
  <2>5. QED
    BY <2>4 DEF Queue!Next
<1>17. CASE UNCHANGED vars
  BY <1>17 DEF vars, Queue!vars
<1>18. QED
  BY <1>1, <1>2, <1>3, <1>4, <1>5, <1>6, <1>7, <1>8, <1>9, <1>10, <1>11, <1>12,
     <1>13, <1>14, <1>15, <1>16, <1>17
     DEF Next, CallerStep, LoopStep, Queue!Next

(* Spec implements the abstract specification, for any loop: the functors   *)
(* it executes are those queued, in their order, each once.                 *)
THEOREM Refinement == Spec => ImplementsFunctorQueue
  BY InitMaps, StepMaps, Invariance, PTL DEF Spec, ImplementsFunctorQueue, Queue!Spec

-----------------------------------------------------------------------------
(* Lemmas about inserting a new element in a sequence without repetitions   *)

(* Appending an element adds just it to the range. *)
LEMMA RangeAppend ==
  ASSUME NEW S, NEW s \in Seq(S), NEW e \in S
  PROVE  Range(Append(s, e)) = Range(s) \cup {e}
<1>1. Append(s, e) = s \o <<e>> /\ <<e>> \in Seq(S)
  BY AppendIsConcat
<1>2. Range(<<e>>) = {e}
  BY DEF Range
<1>3. Range(s \o <<e>>) = Range(s) \cup Range(<<e>>)
  BY <1>1, RangeConcatenation, ZenonT(30)
<1>4. QED
  BY <1>1, <1>2, <1>3

(* So does putting an element between two sequences. *)
LEMMA RangeInsert ==
  ASSUME NEW S, NEW s \in Seq(S), NEW t \in Seq(S), NEW e \in S
  PROVE  Range(Append(s, e) \o t) = Range(s \o t) \cup {e}
<1>1. Append(s, e) \in Seq(S)
  BY AppendProperties
<1>2. Range(Append(s, e) \o t) = Range(Append(s, e)) \cup Range(t)
  BY <1>1, RangeConcatenation, ZenonT(30)
<1>3. Range(s \o t) = Range(s) \cup Range(t)
  BY RangeConcatenation, ZenonT(30)
<1>4. Range(Append(s, e)) = Range(s) \cup {e}
  BY RangeAppend
<1>5. QED
  BY <1>2, <1>3, <1>4

(* An element that is in neither sequence leaves them free of repetitions. *)
LEMMA InjectiveInsert ==
  ASSUME NEW S, NEW s \in Seq(S), NEW t \in Seq(S), NEW e \in S,
         IsInjective(s \o t), e \notin Range(s \o t)
  PROVE  IsInjective(Append(s, e) \o t)
<1> DEFINE a == Append(s, e)
           u == a \o t
           v == s \o t
           n == Len(s)
           m == Len(t)
           (* where the elements of u, other than e, are in v *)
           at(i) == IF i <= n THEN i ELSE i - 1
<1>1. n \in Nat /\ m \in Nat
  BY LenProperties
<1>2. a \in Seq(S) /\ Len(a) = n + 1 /\ a[n + 1] = e
      /\ \A i \in 1..n : a[i] = s[i]
  BY AppendProperties
<1>3. u \in Seq(S) /\ DOMAIN u = 1..(n + 1 + m)
      /\ \A i \in 1..(n + 1 + m) : u[i] = IF i <= n + 1 THEN a[i] ELSE t[i - (n + 1)]
  BY <1>2, ConcatProperties, LenProperties
<1>4. v \in Seq(S) /\ DOMAIN v = 1..(n + m)
      /\ \A i \in 1..(n + m) : v[i] = IF i <= n THEN s[i] ELSE t[i - n]
  BY ConcatProperties, LenProperties
<1> HIDE DEF a, u, v, n, m
<1>5. u[n + 1] = e
  BY <1>1, <1>2, <1>3
<1>6. ASSUME NEW i \in DOMAIN u, i # n + 1
      PROVE  at(i) \in DOMAIN v /\ u[i] = v[at(i)]
  <2>1. CASE i <= n
    <3>1. i \in 1..n /\ i \in 1..(n + m) /\ i <= n + 1
      BY <1>1, <1>3, <2>1
    <3>2. u[i] = a[i] /\ a[i] = s[i] /\ v[i] = s[i]
      BY <1>2, <1>3, <1>4, <2>1, <3>1
    <3>3. QED
      BY <1>4, <2>1, <3>1, <3>2
  <2>2. CASE i > n + 1
    <3>1. i - 1 \in 1..(n + m) /\ ~(i - 1 <= n) /\ ~(i <= n) /\ ~(i <= n + 1)
      BY <1>1, <1>3, <2>2
    <3>2. (i - 1) - n = i - (n + 1)
      BY <1>1, <1>3
    <3>3. QED
      BY <1>3, <1>4, <3>1, <3>2
  <2>3. QED
    BY <1>1, <1>3, <1>6, <2>1, <2>2
<1>7. \A i \in DOMAIN u : u[i] = e => i = n + 1
  BY <1>6 DEF Range, v
<1>8. ASSUME NEW i \in DOMAIN u, NEW j \in DOMAIN u, u[i] = u[j] PROVE i = j
  <2>1. CASE i = n + 1 \/ j = n + 1
    BY <1>5, <1>7, <1>8, <2>1
  <2>2. CASE i # n + 1 /\ j # n + 1
    <3>1. at(i) = at(j)
      BY <1>6, <1>8, <2>2 DEF IsInjective, v
    <3>2. QED
      BY <1>1, <1>3, <2>2, <3>1
  <2>3. QED
    BY <2>1, <2>2
<1>9. QED
  BY <1>8 DEF IsInjective, u, a

(* Taking the end off a sequence without repetitions leaves one, and what   *)
(* was taken off does not occur in it.                                      *)
LEMMA InjectiveSplit ==
  ASSUME NEW S, NEW s \in Seq(S), NEW t \in Seq(S), IsInjective(s \o t)
  PROVE  IsInjective(s) /\ Range(s) \cap Range(t) = {}
<1> DEFINE v == s \o t
           n == Len(s)
           m == Len(t)
<1>1. n \in Nat /\ m \in Nat /\ DOMAIN s = 1..n /\ DOMAIN t = 1..m
  BY LenProperties
<1>2. DOMAIN v = 1..(n + m)
      /\ \A i \in 1..(n + m) : v[i] = IF i <= n THEN s[i] ELSE t[i - n]
  BY ConcatProperties, LenProperties
<1>3. \A i, j \in DOMAIN v : v[i] = v[j] => i = j
  BY DEF IsInjective
<1> HIDE DEF v, n, m
<1>4. \A i \in DOMAIN s : i \in DOMAIN v /\ i <= n /\ v[i] = s[i]
  BY <1>1, <1>2
<1>5. ASSUME NEW i \in DOMAIN t
      PROVE  n + i \in DOMAIN v /\ ~(n + i <= n) /\ v[n + i] = t[i]
  <2>1. n + i \in 1..(n + m) /\ ~(n + i <= n) /\ (n + i) - n = i
    BY <1>1
  <2>2. QED
    BY <1>2, <2>1
<1>6. IsInjective(s)
  BY <1>3, <1>4 DEF IsInjective
<1>7. \A i \in DOMAIN s, j \in DOMAIN t : s[i] # t[j]
  BY <1>3, <1>4, <1>5
<1>8. QED
  BY <1>6, <1>7 DEF Range

-----------------------------------------------------------------------------
(* Exactly once                                                             *)

(* What ExactlyOnce says of functors not submitted, executed, waiting and   *)
(* discarded.                                                               *)
Placed(unused, done, waiting, dropped) ==
  /\ IsInjective(done \o waiting)
  /\ Functors = unused \cup Range(done \o waiting) \cup dropped
  /\ unused \cap Range(done \o waiting) = {}
  /\ unused \cap dropped = {}
  /\ Range(done \o waiting) \cap dropped = {}

(* A functor that is new finds its place at the end of those waiting, ... *)
LEMMA PlacedSubmit ==
  ASSUME NEW unused, NEW done \in Seq(Functors), NEW waiting \in Seq(Functors),
         NEW dropped, Placed(unused, done, waiting, dropped), NEW f \in unused
  PROVE  Placed(unused \ {f}, done, Append(waiting, f), dropped)
<1> DEFINE all == done \o waiting
<1>1. f \in Functors /\ f \notin Range(all) /\ IsInjective(all)
  BY DEF Placed
<1>2. all \in Seq(Functors) /\ <<>> \in Seq(Functors) /\ <<f>> \in Seq(Functors)
  BY <1>1, ConcatProperties, EmptySeq
<1>3. done \o Append(waiting, f) = Append(all, f)
  <2>1. Append(waiting, f) = waiting \o <<f>> /\ Append(all, f) = all \o <<f>>
    BY <1>1, <1>2, AppendIsConcat
  <2>2. QED
    BY <1>2, <2>1, ConcatAssociative
<1> HIDE DEF all
<1>4. Append(all, f) \o <<>> = Append(all, f) /\ all \o <<>> = all
  BY <1>1, <1>2, AppendProperties, ConcatEmptySeq
<1>5. Range(Append(all, f)) = Range(all) \cup {f}
  BY <1>1, <1>2, RangeAppend
<1>6. IsInjective(Append(all, f) \o <<>>)
  <2>1. IsInjective(all \o <<>>) /\ f \notin Range(all \o <<>>)
    BY <1>1, <1>4, Zenon
  <2>2. QED
    BY <1>1, <1>2, <2>1, InjectiveInsert, Zenon
<1>7. IsInjective(Append(all, f))
  BY <1>4, <1>6, Zenon
<1>8. QED
  BY <1>3, <1>5, <1>7 DEF Placed, all

(* ... or, executed at once, at the end of those executed. *)
LEMMA PlacedRun ==
  ASSUME NEW unused, NEW done \in Seq(Functors), NEW waiting \in Seq(Functors),
         NEW dropped, Placed(unused, done, waiting, dropped), NEW f \in unused
  PROVE  Placed(unused \ {f}, Append(done, f), waiting, dropped)
<1>1. f \in Functors /\ f \notin Range(done \o waiting) /\ IsInjective(done \o waiting)
  BY DEF Placed
<1>2. Range(Append(done, f) \o waiting) = Range(done \o waiting) \cup {f}
  BY <1>1, RangeInsert
<1>3. IsInjective(Append(done, f) \o waiting)
  BY <1>1, InjectiveInsert
<1>4. QED
  BY <1>2, <1>3 DEF Placed

(* The oldest that waits goes from one end to the other. *)
LEMMA PlacedExecute ==
  ASSUME NEW unused, NEW done \in Seq(Functors), NEW waiting \in Seq(Functors),
         NEW dropped, Placed(unused, done, waiting, dropped), waiting # <<>>
  PROVE  Placed(unused, Append(done, Head(waiting)), Tail(waiting), dropped)
<1>1. Append(done, Head(waiting)) \o Tail(waiting) = done \o waiting
  BY SMTT(30)
<1>2. QED
  BY <1>1 DEF Placed

(* Those that are thrown away were at one place each before. *)
LEMMA PlacedStop ==
  ASSUME NEW unused, NEW done \in Seq(Functors), NEW waiting \in Seq(Functors),
         NEW dropped, Placed(unused, done, waiting, dropped)
  PROVE  Placed(unused, done, <<>>, dropped \cup Range(waiting))
<1>1. done \o <<>> = done
  BY ConcatEmptySeq
<1>2. IsInjective(done) /\ Range(done) \cap Range(waiting) = {}
  BY InjectiveSplit DEF Placed
<1>3. Range(done \o waiting) = Range(done) \cup Range(waiting)
  BY RangeConcatenation, ZenonT(30)
<1>4. QED
  BY <1>1, <1>2, <1>3 DEF Placed

(* Whatever implements the queue executes no functor twice, executes none   *)
(* after it was dropped, and loses none.                                    *)
THEOREM QueueExactlyOnce == Queue!Spec => []Queue!ExactlyOnce
<1> DEFINE inbox == functors \o pendingFunctors_
           QueueTypes == executed \in Seq(Functors) /\ inbox \in Seq(Functors)
           InPlace == Placed(fresh, executed, inbox, discarded)
<1>1. Queue!Init => QueueTypes /\ InPlace
  <2> SUFFICES ASSUME Queue!Init PROVE QueueTypes /\ InPlace
    OBVIOUS
  <2>1. <<>> \o <<>> = <<>> /\ Range(<<>>) = {} /\ IsInjective(<<>>)
        /\ <<>> \in Seq(Functors)
    BY EmptySeq DEF Range, IsInjective
  <2>2. fresh = Functors /\ executed = <<>> /\ inbox = <<>> /\ discarded = {}
    BY DEF Queue!Init
  <2> HIDE DEF inbox
  <2>3. QED
    BY <2>1, <2>2 DEF Placed
<1>2. QueueTypes /\ InPlace /\ [Queue!Next]_Queue!vars => QueueTypes' /\ InPlace'
  <2> SUFFICES ASSUME QueueTypes, InPlace, [Queue!Next]_Queue!vars
               PROVE  QueueTypes' /\ InPlace'
    OBVIOUS
  <2>1. ASSUME NEW f \in Functors, Queue!Submit(f) PROVE QueueTypes' /\ InPlace'
    <3>1. f \in fresh /\ fresh' = fresh \ {f} /\ inbox' = Append(inbox, f)
          /\ executed' = executed /\ discarded' = discarded
      BY <2>1 DEF Queue!Submit
    <3> HIDE DEF inbox
    <3>2. Placed(fresh \ {f}, executed, Append(inbox, f), discarded)
      BY <3>1, PlacedSubmit
    <3>3. Append(inbox, f) \in Seq(Functors)
      BY <2>1, AppendProperties
    <3>4. QED
      BY <3>1, <3>2, <3>3
  <2>2. ASSUME NEW f \in Functors, Queue!RunNow(f) PROVE QueueTypes' /\ InPlace'
    <3>1. f \in fresh /\ fresh' = fresh \ {f} /\ inbox' = inbox
          /\ executed' = Append(executed, f) /\ discarded' = discarded
      BY <2>2 DEF Queue!RunNow
    <3> HIDE DEF inbox
    <3>2. Placed(fresh \ {f}, Append(executed, f), inbox, discarded)
      BY <3>1, PlacedRun
    <3>3. Append(executed, f) \in Seq(Functors)
      BY <2>2, AppendProperties
    <3>4. QED
      BY <3>1, <3>2, <3>3
  <2>3. CASE Queue!Execute
    <3>1. inbox # <<>> /\ inbox' = Tail(inbox) /\ executed' = Append(executed, Head(inbox))
          /\ fresh' = fresh /\ discarded' = discarded
      BY <2>3 DEF Queue!Execute
    <3> HIDE DEF inbox
    <3>2. Placed(fresh, Append(executed, Head(inbox)), Tail(inbox), discarded)
      BY <3>1, PlacedExecute
    <3>3. Head(inbox) \in Functors /\ Tail(inbox) \in Seq(Functors)
      BY <3>1, HeadTailProperties
    <3>4. Append(executed, Head(inbox)) \in Seq(Functors)
      BY <3>3, AppendProperties
    <3>5. QED
      BY <3>1, <3>2, <3>3, <3>4
  <2>4. CASE Queue!Stop
    <3>1. inbox' = <<>> /\ discarded' = discarded \cup Range(inbox)
          /\ fresh' = fresh /\ executed' = executed
      BY <2>4 DEF Queue!Stop, Queue!Range, Range
    <3> HIDE DEF inbox
    <3>2. Placed(fresh, executed, <<>>, discarded \cup Range(inbox))
      BY PlacedStop
    <3>3. QED
      BY <3>1, <3>2, EmptySeq
  <2>5. CASE Queue!RequestStop
    BY <2>5 DEF Queue!RequestStop
  <2>6. CASE UNCHANGED Queue!vars
    BY <2>6 DEF Queue!vars
  <2>7. QED
    BY <2>1, <2>2, <2>3, <2>4, <2>5, <2>6 DEF Queue!Next
<1>3. InPlace => Queue!ExactlyOnce
  BY DEF Placed, Queue!ExactlyOnce, Queue!Handled, Queue!IsInjective,
         Queue!Range, IsInjective, Range
<1>4. QED
  BY <1>1, <1>2, <1>3, PTL DEF Queue!Spec

(* No functor given to the loop is executed twice, executed after it was    *)
(* dropped, or lost, across batches and restarts of loop().                 *)
THEOREM LoopExactlyOnce == Spec => []ExactlyOnce
  BY Refinement, QueueExactlyOnce, PTL DEF ImplementsFunctorQueue, ExactlyOnce

-----------------------------------------------------------------------------
(* EventLoopThread: nobody waits in vain                                    *)

(* The loop is there from when the thread has built it, and the thread from *)
(* when startLoop() has created it.  For the joins, what the loop's own     *)
(* steps leave of a quit is needed, as in IInv.                             *)
ThreadIInv ==
  /\ waking \in [Thread!L!Threads -> BOOLEAN]
  /\ wakeupFd_ \in Nat
  /\ loop_ = "null" <=> thread \in {"none", "starting"}
  /\ owner \in {"test", "wait"} => thread # "none"
  /\ owner \in {"stop", "destroy", "inside"} => loop_ = "alive"
  /\ Thread!L!NoLostQuit
  /\ NobodyWaitsInVain

LEMMA InitThreadIInv == Thread!Init => ThreadIInv
  BY DEF Thread!Init, Thread!L!Init, ThreadIInv, NobodyWaitsInVain,
         Thread!NobodyWaitsInVain, Thread!L!NoLostQuit

(* What the calls of any thread and the steps of the loop do to a quit:     *)
(* only ResetQuit takes it back, on the way out.                            *)
QuitStays ==
  /\ waking' \in [Thread!L!Threads -> BOOLEAN]
  /\ wakeupFd_' \in Nat
  /\ Thread!L!NoLostQuit'
  /\ quit_ => quit_' \/ pc' = "clear"
  /\ pc \in {"exit", "clear"} => pc' \in {"exit", "clear"} \/ pc = "clear"

LEMMA QuitIsLeft ==
  ASSUME waking \in [Thread!L!Threads -> BOOLEAN], wakeupFd_ \in Nat,
         Thread!L!NoLostQuit, NEW t \in Thread!L!Threads, Thread!L!quit(t)
  PROVE  QuitStays /\ quit_' /\ (pc = "poll" => Thread!L!WakeupComing')
<1>1. waking' \in [Thread!L!Threads -> BOOLEAN] /\ waking'[t]
  BY DEF Thread!L!quit
<1>2. QED
  BY <1>1 DEF Thread!L!quit, QuitStays, Thread!L!NoLostQuit, Thread!L!WakeupComing

LEMMA CallLeavesQuit ==
  ASSUME waking \in [Thread!L!Threads -> BOOLEAN], wakeupFd_ \in Nat,
         Thread!L!NoLostQuit, NEW t \in Thread!L!Threads,
         \/ \E f \in Functors : Thread!L!queueInLoop(t, f) \/ Thread!L!runInLoop(t, f)
         \/ Thread!L!quit(t)
         \/ Thread!L!wakeup(t)
  PROVE  QuitStays /\ pc' = pc
<1> USE DEF QuitStays, Thread!L!NoLostQuit, Thread!L!WakeupComing
<1>1. ASSUME NEW f \in Functors, Thread!L!queueInLoop(t, f)
      PROVE  QuitStays /\ pc' = pc
  <2>1. waking' \in [Thread!L!Threads -> BOOLEAN]
        /\ \A u \in Thread!L!Threads : waking[u] => waking'[u]
    BY <1>1 DEF Thread!L!queueInLoop, Thread!L!Push, Thread!L!MayCall
  <2>2. QED
    BY <1>1, <2>1 DEF Thread!L!queueInLoop, Thread!L!Push
<1>2. ASSUME NEW f \in Functors, Thread!L!runInLoop(t, f)
      PROVE  QuitStays /\ pc' = pc
  BY <1>1, <1>2 DEF Thread!L!runInLoop
<1>3. CASE Thread!L!quit(t)
  BY <1>3, QuitIsLeft DEF Thread!L!quit
<1>4. CASE Thread!L!wakeup(t)
  <2>1. wakeupFd_' \in Nat /\ wakeupFd_' > 0
    BY <1>4, EfdMaxAssumption DEF Thread!L!wakeup
  <2>2. waking' \in [Thread!L!Threads -> BOOLEAN]
    BY <1>4 DEF Thread!L!wakeup
  <2>3. QED
    BY <1>4, <2>1, <2>2 DEF Thread!L!wakeup
<1>5. QED
  BY <1>1, <1>2, <1>3, <1>4

LEMMA LoopLeavesQuit ==
  ASSUME waking \in [Thread!L!Threads -> BOOLEAN], wakeupFd_ \in Nat,
         Thread!L!NoLostQuit, Thread!L!LoopStep
  PROVE  QuitStays /\ (quit_ /\ pc # "poll" => pc' # "poll")
<1> USE DEF QuitStays, Thread!L!NoLostQuit, Thread!L!WakeupComing, Thread!L!Goto
<1> DEFINE Goal == QuitStays /\ (quit_ /\ pc # "poll" => pc' # "poll")
<1>1. CASE Thread!L!loop \/ Thread!L!CheckQuit
  BY <1>1 DEF Thread!L!loop, Thread!L!CheckQuit
<1>2. ASSUME NEW io \in BOOLEAN, Thread!L!Poll(io) PROVE Goal
  BY <1>2 DEF Thread!L!Poll
<1>3. CASE Thread!L!handleWakeup
  BY <1>3 DEF Thread!L!handleWakeup
<1>4. CASE Thread!L!BeginIo \/ Thread!L!EndIo
  BY <1>4 DEF Thread!L!BeginIo, Thread!L!EndIo
<1>5. CASE Thread!L!SwapPending
  BY <1>5 DEF Thread!L!SwapPending
<1>6. CASE Thread!L!BeginFunctor \/ Thread!L!EndFunctor \/ Thread!L!EndDrain
  BY <1>6 DEF Thread!L!BeginFunctor, Thread!L!EndFunctor, Thread!L!EndDrain
<1>7. CASE Thread!L!ResetQuit
  BY <1>7 DEF Thread!L!ResetQuit
<1>8. CASE Thread!L!ClearPending
  BY <1>8 DEF Thread!L!ClearPending
<1>9. QED
  BY <1>1, <1>2, <1>3, <1>4, <1>5, <1>6, <1>7, <1>8 DEF Thread!L!LoopStep

LEMMA NextThreadIInv == ThreadIInv /\ [Thread!Next]_(Thread!vars) => ThreadIInv'
<1> SUFFICES ASSUME ThreadIInv, [Thread!Next]_(Thread!vars) PROVE ThreadIInv'
  OBVIOUS
<1> USE DEF ThreadIInv, NobodyWaitsInVain, Thread!NobodyWaitsInVain
<1>0. Owner \in Thread!L!Threads /\ LoopThread \in Thread!L!Threads
  BY DEF Thread!L!Threads, Thread!Users
<1>1. CASE Thread!startLoop
  BY <1>1 DEF Thread!startLoop, Thread!loopVars, Thread!L!NoLostQuit, Thread!L!WakeupComing
<1>2. CASE Thread!TestLoop \/ Thread!SpuriousWakeup
  BY <1>2 DEF Thread!TestLoop, Thread!SpuriousWakeup, Thread!loopVars,
              Thread!L!NoLostQuit, Thread!L!WakeupComing
<1>3. CASE Thread!BuildLoop
  BY <1>3 DEF Thread!BuildLoop, Thread!loopVars, Thread!L!NoLostQuit, Thread!L!WakeupComing
<1>4. CASE Thread!RunLoop
  <2>1. Thread!L!LoopStep /\ thread = "running" /\ loop_ = "alive"
        /\ thread' = (IF pc = "clear" THEN "ended" ELSE "running")
        /\ loop_' = loop_ /\ joinable' = joinable /\ owner' = owner
    BY <1>4 DEF Thread!RunLoop
  <2>2. QuitStays /\ (quit_ /\ pc # "poll" => pc' # "poll")
    BY <2>1, LoopLeavesQuit
  <2>3. NobodyWaitsInVain'
    <3>1. owner' # "wait"
      BY <2>1
    <3>2. ASSUME owner' \in {"stop", "destroy"}, joinable', thread' # "ended"
          PROVE  \/ pc' \in {"exit", "clear"}
                 \/ quit_' /\ (pc' = "poll" => Thread!L!WakeupComing')
      <4>1. pc # "clear" /\ (pc = "exit" \/ quit_)
        BY <2>1, <3>2
      <4>2. pc' \in {"exit", "clear"} \/ quit_'
        BY <2>2, <4>1 DEF QuitStays
      <4>3. QED
        BY <2>2, <4>2 DEF QuitStays, Thread!L!NoLostQuit
    <3>3. QED
      BY <3>1, <3>2
  <2>4. loop_' = "null" <=> thread' \in {"none", "starting"}
    BY <2>1
  <2>5. QED
    BY <2>1, <2>2, <2>3, <2>4 DEF QuitStays
<1>5. CASE Thread!stopLoop
  <2>1. Thread!L!quit(Owner) /\ loop_ = "alive" /\ owner' = "stop" /\ pc' = pc
        /\ loop_' = loop_ /\ thread' = thread /\ joinable' = joinable
    BY <1>5 DEF Thread!stopLoop, Thread!L!quit
  <2>2. QuitStays /\ quit_' /\ (pc = "poll" => Thread!L!WakeupComing')
    BY <1>0, <2>1, QuitIsLeft
  <2>3. QED
    BY <2>1, <2>2 DEF QuitStays
<1>6. CASE Thread!Join
  BY <1>6 DEF Thread!Join, Thread!loopVars, Thread!L!NoLostQuit, Thread!L!WakeupComing
<1>7. CASE Thread!destructor
  <2>1. CASE owner' = "gone"
    BY <1>7, <2>1 DEF Thread!destructor, Thread!loopVars, Thread!L!NoLostQuit,
                      Thread!L!WakeupComing
  <2>2. CASE owner' = "destroy"
    <3>1. Thread!L!quit(Owner) /\ loop_ = "alive" /\ pc' = pc
          /\ loop_' = loop_ /\ thread' = thread /\ joinable' = joinable
      BY <1>7, <2>2 DEF Thread!destructor, Thread!L!quit
    <3>2. QuitStays /\ quit_' /\ (pc = "poll" => Thread!L!WakeupComing')
      BY <1>0, <3>1, QuitIsLeft
    <3>3. QED
      BY <2>2, <3>1, <3>2 DEF QuitStays
  <2>3. QED
    BY <1>7, <2>1, <2>2 DEF Thread!destructor
<1>8. CASE Thread!DestroyAfterJoin \/ Thread!DestroyAfterDetach
  BY <1>8 DEF Thread!DestroyAfterJoin, Thread!DestroyAfterDetach, Thread!DeleteLoop,
              Thread!L!NoLostQuit, Thread!L!WakeupComing
<1>9. CASE Thread!destructorInLoop
  <2>1. Thread!L!quit(LoopThread) /\ loop_ = "alive" /\ owner' = "inside"
        /\ loop_' = loop_ /\ thread' = thread
    BY <1>9 DEF Thread!destructorInLoop
  <2>2. QuitStays
    BY <1>0, <2>1, QuitIsLeft
  <2>3. QED
    BY <2>1, <2>2 DEF QuitStays
<1>10. CASE Thread!UseLoop
  <2>1. PICK t \in Thread!L!Threads :
           \/ \E f \in Functors : Thread!L!queueInLoop(t, f) \/ Thread!L!runInLoop(t, f)
           \/ Thread!L!quit(t)
           \/ Thread!L!wakeup(t)
    BY <1>10 DEF Thread!UseLoop
  <2>2. QuitStays /\ pc' = pc
    BY <2>1, CallLeavesQuit
  <2>3. loop_' = loop_ /\ thread' = thread /\ joinable' = joinable /\ owner' = owner
    BY <1>10 DEF Thread!UseLoop
  <2>4. QED
    BY <2>2, <2>3 DEF QuitStays, Thread!L!NoLostQuit
<1>11. CASE UNCHANGED Thread!vars
  BY <1>11 DEF Thread!vars, Thread!loopVars, Thread!L!NoLostQuit, Thread!L!WakeupComing
<1>12. QED
  BY <1>1, <1>2, <1>3, <1>4, <1>5, <1>6, <1>7, <1>8, <1>9, <1>10, <1>11 DEF Thread!Next

(* Who waits for the loop's thread waits for something it has yet to do:    *)
(* startLoop() for a notification that is to come, stopLoop() and the       *)
(* destructor for the end of a loop that is on its way out or will see the  *)
(* quit, whenever they were called.                                         *)
THEOREM WaitsEnd == ThreadSpec => []NobodyWaitsInVain
<1>1. ThreadIInv => NobodyWaitsInVain
  BY DEF ThreadIInv
<1>2. QED
  BY <1>1, InitThreadIInv, NextThreadIInv, PTL DEF ThreadSpec, Thread!Spec

=============================================================================
