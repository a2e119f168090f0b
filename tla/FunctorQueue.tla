---------------------------- MODULE FunctorQueue ----------------------------
(***************************************************************************)
(* What base/EventLoop promises to the threads that hand it functors, with *)
(* no thread, lock, eventfd or batch in sight.                             *)
(*                                                                         *)
(* A functor is one std::function object, so it is submitted at most once. *)
(* Submitted functors wait in one inbox and are executed in the order in   *)
(* which they entered it; the loop's own thread may also execute a functor *)
(* at once, past the inbox (runInLoop).  Only a loop that was asked to     *)
(* stop may throw waiting functors away.                                   *)
(***************************************************************************)
EXTENDS Naturals, Sequences, Functions

CONSTANT Functors       \* the functors a run of the program submits

VARIABLES
  fresh,        \* functors nobody has submitted yet
  inbox,        \* submitted functors waiting for the loop, in order
  executed,     \* functors the loop has started, in order
  discarded,    \* functors thrown away by a stopping loop
  stopping      \* the loop has been asked to stop and has not finished yet

vars == <<fresh, inbox, executed, discarded, stopping>>

TypeOK ==
  /\ fresh \subseteq Functors
  /\ inbox \in Seq(Functors)
  /\ executed \in Seq(Functors)
  /\ discarded \subseteq Functors
  /\ stopping \in BOOLEAN

Init ==
  /\ fresh = Functors
  /\ inbox = <<>>
  /\ executed = <<>>
  /\ discarded = {}
  /\ stopping = FALSE

(* A thread leaves functor f for the loop (EventLoop::queueInLoop). *)
Submit(f) ==
  /\ f \in fresh
  /\ fresh' = fresh \ {f}
  /\ inbox' = Append(inbox, f)
  /\ UNCHANGED <<executed, discarded, stopping>>

(* The loop's own thread executes f at once (EventLoop::runInLoop). *)
RunNow(f) ==
  /\ f \in fresh
  /\ fresh' = fresh \ {f}
  /\ executed' = Append(executed, f)
  /\ UNCHANGED <<inbox, discarded, stopping>>

(* The loop executes the functor that has waited longest. *)
Execute ==
  /\ inbox # <<>>
  /\ executed' = Append(executed, Head(inbox))
  /\ inbox' = Tail(inbox)
  /\ UNCHANGED <<fresh, discarded, stopping>>

(* Someone asks the loop to stop (EventLoop::quit). *)
RequestStop ==
  /\ stopping' = TRUE
  /\ UNCHANGED <<fresh, inbox, executed, discarded>>

(* The loop stops and drops what still waits.  A stop requested while it   *)
(* does so may remain in force for the next call of loop().                *)
Stop ==
  /\ stopping
  /\ stopping' \in BOOLEAN
  /\ discarded' = discarded \cup Range(inbox)
  /\ inbox' = <<>>
  /\ UNCHANGED <<fresh, executed>>

Next ==
  \/ \E f \in Functors : Submit(f) \/ RunNow(f)
  \/ Execute
  \/ RequestStop
  \/ Stop

Spec == Init /\ [][Next]_vars

-----------------------------------------------------------------------------

(* Everything that was accepted and not thrown away, oldest first. *)
Handled == executed \o inbox

(* Each functor is in exactly one place: not submitted, accepted (executed *)
(* or waiting, at one position only), or discarded.  So a functor is never *)
(* executed twice, never executed after it was discarded and never lost.   *)
ExactlyOnce ==
  /\ IsInjective(Handled)
  /\ Functors = fresh \cup Range(Handled) \cup discarded
  /\ fresh \cap Range(Handled) = {}
  /\ fresh \cap discarded = {}
  /\ Range(Handled) \cap discarded = {}

=============================================================================
