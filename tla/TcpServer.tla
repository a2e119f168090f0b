------------------------------ MODULE TcpServer ------------------------------
(***************************************************************************)
(* base/TcpServer.{h,cpp} for one ConnInfo, with the accepting half of     *)
(* base/BaseConn.{h,cpp}, sending and closing, and base/ConnMap.h, where   *)
(* an application keeps the connections it serves.                         *)
(*                                                                         *)
(* The server listens on the loop ServerLoop; connection p runs on the     *)
(* loop LoopOf[p].  A loop is seen as FunctorQueue promises it.  A thread  *)
(* keeps a stack of the calls it is in; it can be interrupted before each  *)
(* critical section of the map, and between two connections of a walk      *)
(* through it.                                                             *)
(*                                                                         *)
(* External: the application, which puts a connection in the map in        *)
(* onConnect(), takes it out in onClose() and writes in onWrite(); which   *)
(* calls ConnMap::sendPdu(), stopConn() and BaseConn::close() from App, a  *)
(* thread without a loop, or from a callback on any loop; and peers, which *)
(* connect and hang up.                                                    *)
(***************************************************************************)
EXTENDS Naturals, Sequences, SequencesExt

CONSTANTS
  Conns,        \* the BaseConn objects onAccept() can create
  Loops,        \* the loops, each with its thread
  ServerLoop,   \* the loop of the server
  LoopOf,       \* LoopOf[p]: the loop of connection p
  App,          \* a thread of the application
  Callers,      \* the threads on which it calls the operations below
  Pdus,         \* what is sent with ConnMap::sendPdu(), each once
  MaxCalls,     \* how many other calls the application makes
  none

ASSUME LoopsAssumption ==
  /\ ServerLoop \in Loops /\ LoopOf \in [Conns -> Loops]
  /\ App \notin Loops /\ Callers \subseteq Loops \cup {App}
  /\ none \notin Loops \cup {App} \cup Conns \cup Pdus
ASSUME MaxCallsAssumption == MaxCalls \in Nat

Threads == Loops \cup {App}

VARIABLES
  connList_,    \* the ConnInfo is in TcpServer::connList_
  listener,     \* its entry in listeners_: "absent", "null" or "listening"
  conn,         \* conn[p]: the fields of connection p, and its socket
  connMap_,     \* the connections in the application's ConnMap
  mutex_,       \* the thread that holds the mutex of the map, or none
  queue,        \* queue[l]: functors queued on loop l
  stack,        \* stack[t]: the calls thread t is in, innermost first
  crashed,      \* the process is gone
  sent,         \* sent[p]: who called sendPdu() of p, with what, in order
  written,      \* written[p]: what of it reached the bufferevent
  torn,         \* connections on which a write failed
  left          \* calls the application may still make

vars == <<connList_, listener, conn, connMap_, mutex_, queue, stack, crashed,
          sent, written, torn, left>>
serverVars == <<connList_, listener>>
mapVars == <<connMap_, mutex_>>
sendVars == <<sent, written, torn>>

Call(op, p) == [op |-> op, conn |-> p]
Write(p, m) == [op |-> "onWrite", conn |-> p, pdu |-> m]
Walk(op, d, todo) == [op |-> op, pdu |-> d, todo |-> todo]

Pdu == [by : Threads, pdu : Pdus]

TypeOK ==
  /\ connList_ \in BOOLEAN
  /\ listener \in {"absent", "null", "listening"}
  /\ conn \in [Conns -> [fd : {"none", "open", "closed"}, bufev_ : BOOLEAN,
                         bConnected_ : BOOLEAN, bClosed_ : BOOLEAN,
                         callbacks : BOOLEAN, tie_ : BOOLEAN]]
  /\ connMap_ \subseteq Conns
  /\ mutex_ \in Threads \cup {none}
  /\ DOMAIN queue = Loops /\ DOMAIN stack = Threads
  /\ crashed \in BOOLEAN
  /\ sent \in [Conns -> Seq(Pdu)] /\ written \in [Conns -> Seq(Pdu)]
  /\ torn \subseteq Conns
  /\ left \in [calls : 0..MaxCalls, pdus : SUBSET Pdus]

NewConn == [fd |-> "none", bufev_ |-> FALSE, bConnected_ |-> FALSE,
            bClosed_ |-> FALSE, callbacks |-> FALSE, tie_ |-> FALSE]

Init ==
  /\ connList_ = FALSE
  /\ listener = "absent"
  /\ conn = [p \in Conns |-> NewConn]
  /\ connMap_ = {}
  /\ mutex_ = none
  /\ queue = [l \in Loops |-> <<>>]
  /\ stack = [t \in Threads |-> <<>>]
  /\ crashed = FALSE
  /\ sent = [p \in Conns |-> <<>>]
  /\ written = [p \in Conns |-> <<>>]
  /\ torn = {}
  /\ left = [calls |-> MaxCalls, pdus |-> Pdus]

-----------------------------------------------------------------------------
(* Threads and loops                                                       *)

Top(t) == Head(stack[t])
At(t, op) == ~crashed /\ stack[t] # <<>> /\ Top(t).op = op

(* A thread runs application code: App at any time, a loop in a callback. *)
Free(t) == ~crashed /\ stack[t] = <<>>

(* Thread t returns from its innermost call, goes on with c instead, or    *)
(* calls c.                                                                *)
Return(t) == stack' = [stack EXCEPT ![t] = Tail(@)]
GoOn(t, c) == stack' = [stack EXCEPT ![t] = <<c>> \o Tail(@)]
Enter(t, c) == stack' = [stack EXCEPT ![t] = <<c>> \o @]

queueInLoop(l, c) == queue' = [queue EXCEPT ![l] = Append(@, c)]

(* A loop takes the next functor. *)
NextFunctor(l) ==
  /\ Free(l)
  /\ queue[l] # <<>>
  /\ Enter(l, Head(queue[l]))
  /\ queue' = [queue EXCEPT ![l] = Tail(@)]
  /\ UNCHANGED <<serverVars, conn, mapVars, crashed, sendVars, left>>

-----------------------------------------------------------------------------
(* The server                                                              *)

(* addServer(), delServer(): the list is changed under its mutex...        *)
SetServer(t, add) ==
  /\ Free(t)
  /\ left.calls > 0
  /\ left' = [left EXCEPT !.calls = @ - 1]
  /\ connList_' = add
  /\ Enter(t, Call(IF add THEN "addServer" ELSE "delServer", none))
  /\ UNCHANGED <<listener, conn, mapVars, queue, crashed, sendVars>>

(* ... and runInLoop() called after it. *)
HandOver(t) ==
  /\ At(t, "addServer") \/ At(t, "delServer")
  /\ LET f == Call(IF At(t, "addServer") THEN "addServerInLoop"
                                         ELSE "delServerInLoop", none) IN
       IF t = ServerLoop
         THEN GoOn(t, f) /\ UNCHANGED queue
         ELSE Return(t) /\ queueInLoop(ServerLoop, f)
  /\ UNCHANGED <<serverVars, conn, mapVars, crashed, sendVars, left>>

(* createServer() may fail, the address being in use. *)
addServerInLoop ==
  /\ At(ServerLoop, "addServerInLoop")
  /\ IF listener = "listening"
       THEN UNCHANGED listener
       ELSE listener' \in {"listening", "null"}
  /\ Return(ServerLoop)
  /\ UNCHANGED <<connList_, conn, mapVars, queue, crashed, sendVars, left>>

(* The listener found is not the one that is freed: listener_, which stays *)
(* null, is, and libevent dereferences it.                                 *)
delServerInLoop ==
  /\ At(ServerLoop, "delServerInLoop")
  /\ crashed' = (listener = "listening")
  /\ Return(ServerLoop)
  /\ UNCHANGED <<serverVars, conn, mapVars, queue, sendVars, left>>

(* onAccept() and doAccept(): a connection with its callbacks, which hold  *)
(* it, and its tie; BuildAccept() is run on its loop.                      *)
onAccept(p) ==
  /\ Free(ServerLoop)
  /\ listener = "listening"
  /\ conn[p].fd = "none"
  /\ conn' = [conn EXCEPT ![p].fd = "open", ![p].callbacks = TRUE,
                          ![p].tie_ = TRUE]
  /\ IF LoopOf[p] = ServerLoop
       THEN Enter(ServerLoop, Call("BuildAccept", p)) /\ UNCHANGED queue
       ELSE queueInLoop(LoopOf[p], Call("BuildAccept", p)) /\ UNCHANGED stack
  /\ UNCHANGED <<serverVars, mapVars, crashed, sendVars, left>>

-----------------------------------------------------------------------------
(* A connection, on its loop                                               *)

(* The bufferevent is created and enabled; enabling it may fail.  (So may  *)
(* the allocation, which is left out: nobody closes the socket then.)      *)
BuildAccept(l) ==
  /\ At(l, "BuildAccept")
  /\ LET p == Top(l).conn IN
       \E enabled \in BOOLEAN :
         /\ conn' = [conn EXCEPT ![p].bufev_ = TRUE,
                                 ![p].bConnected_ = enabled]
         /\ GoOn(l, Call(IF enabled THEN "onConnect" ELSE "closeInLoop", p))
  /\ UNCHANGED <<serverVars, mapVars, queue, crashed, sendVars, left>>

(* The application's onConnect(): ConnMap::addConn(). *)
onConnect(l) ==
  /\ At(l, "onConnect")
  /\ mutex_ = none
  /\ connMap_' = connMap_ \cup {Top(l).conn}
  /\ Return(l)
  /\ UNCHANGED <<serverVars, conn, mutex_, queue, crashed, sendVars, left>>

closeInLoop(l) ==
  /\ At(l, "closeInLoop")
  /\ LET p == Top(l).conn IN
       IF conn[p].bClosed_ THEN Return(l) ELSE GoOn(l, Call("onClose", p))
  /\ UNCHANGED <<serverVars, conn, mapVars, queue, crashed, sendVars, left>>

(* The application's onClose(): ConnMap::delConn(). *)
onClose(l) ==
  /\ At(l, "onClose")
  /\ mutex_ = none
  /\ connMap_' = connMap_ \ {Top(l).conn}
  /\ GoOn(l, Call("finish", Top(l).conn))
  /\ UNCHANGED <<serverVars, conn, mutex_, queue, crashed, sendVars, left>>

\* fault: the callbacks, which hold the connection, are not dropped
finish_KeepCallbacks(l) ==
  /\ At(l, "finish")
  /\ LET p == Top(l).conn IN
       conn' = [conn EXCEPT ![p].fd = "closed", ![p].bufev_ = FALSE,
                            ![p].bConnected_ = FALSE, ![p].bClosed_ = TRUE,
                            ![p].tie_ = FALSE]
  /\ Return(l)
  /\ UNCHANGED <<serverVars, mapVars, queue, crashed, sendVars, left>>

(* The rest of closeInLoop(): the buffer is freed and with it the socket,  *)
(* the callbacks are dropped, the flags set and the tie cut.               *)
finish(l) ==
  /\ At(l, "finish")
  /\ LET p == Top(l).conn IN
       conn' = [conn EXCEPT ![p] =
                  [fd |-> "closed", bufev_ |-> FALSE, bConnected_ |-> FALSE,
                   bClosed_ |-> TRUE, callbacks |-> FALSE, tie_ |-> FALSE]]
  /\ Return(l)
  /\ UNCHANGED <<serverVars, mapVars, queue, crashed, sendVars, left>>

(* The peer hangs up: event_cb(), onEvent(). *)
onEvent(p) ==
  /\ Free(LoopOf[p])
  /\ conn[p].bufev_
  /\ Enter(LoopOf[p], Call("closeInLoop", p))
  /\ UNCHANGED <<serverVars, conn, mapVars, queue, crashed, sendVars, left>>

(* The application's onWrite(): write(), which refuses when the connection *)
(* is not up, and closes it when the bufferevent does not take the data.   *)
onWrite(l) ==
  /\ At(l, "onWrite")
  /\ LET p == Top(l).conn IN
       \/ /\ conn[p].bConnected_
          /\ written' = [written EXCEPT ![p] = Append(@, Top(l).pdu)]
          /\ UNCHANGED <<queue, torn>>
       \/ /\ conn[p].bConnected_
          /\ torn' = torn \cup {p}
          /\ queueInLoop(l, Call("closeInLoop", p))
          /\ UNCHANGED written
       \/ /\ ~conn[p].bConnected_
          /\ UNCHANGED <<queue, written, torn>>
  /\ Return(l)
  /\ UNCHANGED <<serverVars, conn, mapVars, crashed, sent, left>>

-----------------------------------------------------------------------------
(* The application's calls                                                 *)

(* ConnMap::sendPdu() walks through the map with its mutex held.           *)
BeginSend(t, d) ==
  /\ Free(t)
  /\ d \in left.pdus
  /\ mutex_ = none
  /\ left' = [left EXCEPT !.pdus = @ \ {d}]
  /\ mutex_' = t
  /\ Enter(t, Walk("sendPdu", [by |-> t, pdu |-> d], connMap_))
  /\ UNCHANGED <<serverVars, conn, connMap_, queue, crashed, sendVars>>

\* fault: what is to be written next goes in front of what is queued
sendPdu_Front(t) ==
  /\ At(t, "sendPdu")
  /\ \E p \in Top(t).todo :
       /\ sent' = [sent EXCEPT ![p] = Append(@, Top(t).pdu)]
       /\ GoOn(t, [Top(t) EXCEPT !.todo = @ \ {p}])
       /\ queue' = [queue EXCEPT ![LoopOf[p]] =
                      <<Write(p, Top(t).pdu)>> \o @]
  /\ UNCHANGED <<serverVars, conn, mapVars, crashed, written, torn, left>>

(* BaseConn::sendPdu(): onWrite() at once on the connection's own loop. *)
sendPdu(t) ==
  /\ At(t, "sendPdu")
  /\ \E p \in Top(t).todo :
       LET rest == [Top(t) EXCEPT !.todo = @ \ {p}]
           write == Write(p, Top(t).pdu) IN
         /\ sent' = [sent EXCEPT ![p] = Append(@, Top(t).pdu)]
         /\ IF t = LoopOf[p]
              THEN /\ stack' = [stack EXCEPT ![t] = <<write, rest>> \o Tail(@)]
                   /\ UNCHANGED queue
              ELSE GoOn(t, rest) /\ queueInLoop(LoopOf[p], write)
  /\ UNCHANGED <<serverVars, conn, mapVars, crashed, written, torn, left>>

BeginStop(t) ==
  /\ Free(t)
  /\ left.calls > 0
  /\ mutex_ = none
  /\ left' = [left EXCEPT !.calls = @ - 1]
  /\ mutex_' = t
  /\ Enter(t, Walk("stopConn", none, connMap_))
  /\ UNCHANGED <<serverVars, conn, connMap_, queue, crashed, sendVars>>

\* fault: closeInLoop() is run at once on the connection's own loop
shutdown_RunInLoop(t) ==
  /\ At(t, "stopConn")
  /\ \E p \in Top(t).todo :
       LET rest == [Top(t) EXCEPT !.todo = @ \ {p}]
           f == Call("closeInLoop", p) IN
         IF t = LoopOf[p]
           THEN /\ stack' = [stack EXCEPT ![t] = <<f, rest>> \o Tail(@)]
                /\ UNCHANGED queue
           ELSE GoOn(t, rest) /\ queueInLoop(LoopOf[p], f)
  /\ UNCHANGED <<serverVars, conn, mapVars, crashed, sendVars, left>>

(* BaseConn::shutdown(): closeInLoop() is always queued. *)
shutdown(t) ==
  /\ At(t, "stopConn")
  /\ \E p \in Top(t).todo :
       /\ GoOn(t, [Top(t) EXCEPT !.todo = @ \ {p}])
       /\ queueInLoop(LoopOf[p], Call("closeInLoop", p))
  /\ UNCHANGED <<serverVars, conn, mapVars, crashed, sendVars, left>>

(* The walk is over: stopConn() empties the map. *)
EndWalk(t) ==
  /\ At(t, "sendPdu") \/ At(t, "stopConn")
  /\ Top(t).todo = {}
  /\ connMap_' = IF At(t, "stopConn") THEN {} ELSE connMap_
  /\ mutex_' = none
  /\ Return(t)
  /\ UNCHANGED <<serverVars, conn, queue, crashed, sendVars, left>>

(* BaseConn::close() of a connection the application got from the map and  *)
(* may have kept since.                                                    *)
close(t, p) ==
  /\ Free(t)
  /\ left.calls > 0
  /\ conn[p].bConnected_ \/ conn[p].bClosed_
  /\ left' = [left EXCEPT !.calls = @ - 1]
  /\ queueInLoop(LoopOf[p], Call("closeInLoop", p))
  /\ UNCHANGED <<serverVars, conn, mapVars, stack, crashed, sendVars>>

Application(t) ==
  \/ \E add \in BOOLEAN : SetServer(t, add)
  \/ \E d \in Pdus : BeginSend(t, d)
  \/ BeginStop(t)
  \/ \E p \in Conns : close(t, p)

(* A thread goes on with a call it is in. *)
GoesOn(t) ==
  \/ HandOver(t)
  \/ sendPdu(t) \/ shutdown(t) \/ EndWalk(t)

LoopStep(l) ==
  \/ NextFunctor(l)
  \/ BuildAccept(l) \/ onConnect(l)
  \/ closeInLoop(l) \/ onClose(l) \/ finish(l)
  \/ onWrite(l)

Next ==
  \/ \E t \in Callers : Application(t) \/ GoesOn(t)
  \/ \E p \in Conns : onAccept(p) \/ onEvent(p)
  \/ \E l \in Loops : LoopStep(l)
  \/ addServerInLoop \/ delServerInLoop

Spec == Init /\ [][Next]_vars

-----------------------------------------------------------------------------
(* Properties                                                              *)

(* Of what one thread sends on a connection, a first part is written: what *)
(* it sent before something that is written was written before it, nothing *)
(* is written twice and nothing that was not sent, unless the bufferevent  *)
(* refused a write.                                                        *)
Before(s, a, b) == \E i, j \in 1..Len(s) : i < j /\ s[i] = a /\ s[j] = b
StreamHasNoHoles ==
  \A p \in Conns \ torn :
    /\ IsInjective(written[p])
    /\ Range(written[p]) \subseteq Range(sent[p])
    /\ \A m \in Range(sent[p]), n \in Range(written[p]) :
         m.by = n.by /\ Before(sent[p], m, n) => Before(written[p], m, n)

(* "queue in loop is right, or ahaha": a thread that walks through the map *)
(* never gets into a call that wants its mutex, as it would if it closed a *)
(* connection of its own loop at once.                                     *)
NoSelfLock == \A t \in Threads : At(t, "onConnect") \/ At(t, "onClose")
                                   => mutex_ # t

(* At rest a connection is served, that is open and in the map, or it is   *)
(* gone, its socket closed and nothing left that keeps the object: not its *)
(* tie, not the callbacks that are bound to it, not the map.  So stopConn()*)
(* forgets no connection, and a close that races with another leaks none.  *)
Resting ==
  /\ \A t \in Threads : stack[t] = <<>>
  /\ \A l \in Loops : queue[l] = <<>>
Served(p) == conn[p].bufev_ /\ conn[p].bConnected_ /\ p \in connMap_
Gone(p) ==
  /\ conn[p].fd = "closed" /\ ~conn[p].tie_ /\ ~conn[p].callbacks
  /\ p \notin connMap_
ServedOrGone ==
  Resting /\ ~crashed =>
    \A p \in Conns : conn[p].fd # "none" => Served(p) \/ Gone(p)

=============================================================================
