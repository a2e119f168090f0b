-------------------------- MODULE EventLoopThreadPool --------------------------
(***************************************************************************)
(* base/EventLoopThreadPool.{h,cpp}, after start(): getNextLoop() takes    *)
(* the loops one after the other, without a lock and with its assertion on *)
(* the thread commented out, so that several threads may be in it at once. *)
(* It has a step for each access to next_; getModLoop() accesses nothing   *)
(* that changes.                                                           *)
(***************************************************************************)
EXTENDS Integers

CONSTANTS
  Callers,      \* the threads that ask for loops
  Threads,      \* the number of threads_
  MaxIndex      \* how far callers push each other

VARIABLES
  next_,
  step,         \* step[t]: the access to next_ that caller t is at, or "none"
  index,        \* index[t]: where in threads_ it looks
  overlapped    \* overlapped[t]: other callers were inside during its call

vars == <<next_, step, index, overlapped>>

Init ==
  /\ next_ = 0
  /\ step = [t \in Callers |-> "none"]
  /\ index = [t \in Callers |-> 0]
  /\ overlapped = [t \in Callers |-> FALSE]

Inside == {t \in Callers : step[t] # "none"}

\* fault: next_ is compared with > instead of >=.
Test_OffByOne(t) ==
  /\ step[t] = "none"
  /\ step' = [step EXCEPT ![t] = IF next_ > Threads THEN "reset" ELSE "read"]
  /\ overlapped' = [s \in Callers |->
       IF s = t THEN Inside # {}
       ELSE IF s \in Inside THEN TRUE ELSE overlapped[s]]
  /\ UNCHANGED <<next_, index>>

Test(t) ==
  /\ step[t] = "none"
  /\ step' = [step EXCEPT ![t] = IF next_ >= Threads THEN "reset" ELSE "read"]
  /\ overlapped' = [s \in Callers |->
       IF s = t THEN Inside # {}
       ELSE IF s \in Inside THEN TRUE ELSE overlapped[s]]
  /\ UNCHANGED <<next_, index>>

Reset(t) ==
  /\ step[t] = "reset"
  /\ next_' = 0
  /\ step' = [step EXCEPT ![t] = "read"]
  /\ UNCHANGED <<index, overlapped>>

Read(t) ==
  /\ step[t] = "read"
  /\ next_ <= MaxIndex
  /\ index' = [index EXCEPT ![t] = next_]
  /\ step' = [step EXCEPT ![t] = "write"]
  /\ UNCHANGED <<next_, overlapped>>

(* next_ is written, and threads_[index] is returned. *)
Write(t) ==
  /\ step[t] = "write"
  /\ next_' = index[t] + 1
  /\ step' = [step EXCEPT ![t] = "none"]
  /\ UNCHANGED <<index, overlapped>>

Next == \E t \in Callers : Test(t) \/ Reset(t) \/ Read(t) \/ Write(t)

Spec == Init /\ [][Next]_vars

-----------------------------------------------------------------------------
(* A caller that is alone in getNextLoop() gets one of the loops, whatever *)
(* callers that were in it together did to next_ before.  (Two that are in *)
(* it together can push each other past the end, without limit.)           *)
IndexInRange ==
  \A t \in Callers : step[t] = "write" /\ ~overlapped[t] => index[t] < Threads
=============================================================================
