------------------------------ MODULE EventLoops ------------------------------
(***************************************************************************)
(* EventLoop by itself, and as an EventLoopThread starts, runs and deletes *)
(* it: the variables of the loop are the same.                             *)
(***************************************************************************)
EXTENDS EventLoop

CONSTANTS Owner, Clients

(* The callers of the loop are the owner of its EventLoopThread and those   *)
(* to whom the owner gave the loop.                                         *)
ASSUME CallersAssumption == Callers = Clients \cup {Owner} /\ Owner \notin Clients

VARIABLES loop_, thread, joinable, owner

Thread == INSTANCE EventLoopThread

ThreadSpec == Thread!Spec
FairThreadSpec == Thread!FairSpec

(* The properties of EventLoopThread: whoever waits for the other thread    *)
(* waits for what it has yet to do, and no call waits for ever.             *)
NobodyWaitsInVain == Thread!NobodyWaitsInVain
CallsReturn == Thread!CallsReturn
=============================================================================
