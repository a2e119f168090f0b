------------------------------ MODULE TcpClient ------------------------------
(***************************************************************************)
(* base/TcpClient.{h,cpp} with the connecting half of base/BaseConn.{h,cpp}*)
(* for one ConnInfo: addClient() creates a BaseConn that connects, is      *)
(* registered when it is connected, and connects again after it is closed, *)
(* until delClient() or BaseConn::shutdown().                              *)
(*                                                                         *)
(* ClientLoop is TcpClient::loop_, connLoop is BaseConn::loop_; they are   *)
(* the same loop or two, as the application sets them up.  ConnInfo.{h,cpp}*)
(* is here as the position in the list of addresses that each attempt to   *)
(* connect advances.  A loop is seen as FunctorQueue promises it: it       *)
(* runs one functor, timer or socket callback after the other.  What a     *)
(* callback does is split where another loop can get in, at each critical  *)
(* section of connMap_ and connList_; with one loop nobody gets in.        *)
(*                                                                         *)
(* Outside: the network, which connects a socket or reports an error, and  *)
(* the application, which calls addClient() and delClient() from any       *)
(* thread and close() and shutdown() on a connection it was handed.        *)
(***************************************************************************)
EXTENDS Naturals, Sequences, SequencesExt

CONSTANTS
  ClientLoop,             \* TcpClient::loop_
  ConnLoops,              \* the loops the connections may be on
  Conns,                  \* the BaseConn objects addClient() can create
  none,                   \* no connection
  Addrs,                  \* how many addresses the ConnInfo lists
  PatientRetry,           \* two loops: the retry delay outlasts a close
  AppCloses,              \* two loops: close() and shutdown() are called too
  MaxCalls                \* how many calls the application makes

ClientLoops == {ClientLoop} \cup ConnLoops

VARIABLES
  connLoop,     \* BaseConn::loop_
  conn,         \* conn[p]: the fields of connection p
  connMap_,     \* the entry of the ConnInfo: "absent", "null" or a connection
  connList_,    \* the ConnList of its type
  queue,        \* queue[l]: functors queued on loop l
  frame,        \* frame[l]: what the thread of loop l goes on with
  timers,       \* timers[p]: the onRetry timers armed for p
  wanted,       \* the application's last word was addClient()
  overlapped,   \* an addClient() was run while an earlier client lingered
  calls         \* calls of the application so far

vars == <<connLoop, conn, connMap_, connList_, queue, frame, timers, wanted,
          overlapped, calls>>

(* The connection is on a loop of its own. *)
Apart == connLoop # ClientLoop

(* "dialing": bufferevent_socket_connect_hostname() has failed and is not   *)
(* back yet.                                                               *)
Buffers == {"null", "dialing", "connecting", "up"}

(* Steps of the handlers, named after the functions they are in. *)
ClientSteps == {"addClientInLoop", "addConn", "delClientInLoop", "delOld",
                "delKey", "startTimer", "onRetry", "reconnect"}
ConnSteps == {"BuildConnect", "onConnect", "addToList", "checkOld", "setConn",
              "closeInLoop", "onClose", "eraseKey", "runAfter", "finish",
              "getfd"}
Functor == [op : ClientSteps \cup ConnSteps, conn : Conns \cup {none}]
Idle == [op |-> "idle", conn |-> none]

TypeOK ==
  /\ connLoop \in ConnLoops
  /\ conn \in [Conns -> [bufev_ : Buffers, tie_ : BOOLEAN, callbacks : BOOLEAN,
                         bConnected_ : BOOLEAN, bClosed_ : BOOLEAN,
                         bShutdownd_ : BOOLEAN, born : BOOLEAN,
                         next_ : 0..Addrs]]
  /\ connMap_ \in {"absent", "null"} \cup Conns
  /\ connList_ \in Seq(Conns)
  /\ queue \in [ClientLoops -> Seq(Functor)]
  /\ frame \in [ClientLoops -> Functor \cup {Idle}]
  /\ timers \in [Conns -> Nat]
  /\ wanted \in BOOLEAN
  /\ overlapped \in BOOLEAN
  /\ calls \in 0..MaxCalls

(* BaseConn::BaseConn; born says whether the object has been created. *)
NewConn == [bufev_ |-> "null", tie_ |-> FALSE, callbacks |-> FALSE,
            bConnected_ |-> FALSE, bClosed_ |-> FALSE, bShutdownd_ |-> FALSE,
            born |-> FALSE, next_ |-> 0]

Init ==
  /\ connLoop \in ConnLoops
  /\ conn = [p \in Conns |-> NewConn]
  /\ connMap_ = "absent"
  /\ connList_ = <<>>
  /\ queue = [l \in ClientLoops |-> <<>>]
  /\ frame = [l \in ClientLoops |-> Idle]
  /\ timers = [p \in Conns |-> 0]
  /\ wanted = FALSE
  /\ overlapped = FALSE
  /\ calls = 0

-----------------------------------------------------------------------------
(* References to a connection                                              *)

Queued(p) == \E l \in ClientLoops : \E i \in DOMAIN queue[l] : queue[l][i].conn = p

(* Some shared_ptr to p is left: its own tie_, the callbacks bound to it,  *)
(* the map, the list, a functor, a timer or a running handler.             *)
Alive(p) ==
  \/ conn[p].tie_ \/ conn[p].callbacks
  \/ connMap_ = p \/ p \in ToSet(connList_)
  \/ Queued(p) \/ timers[p] > 0
  \/ \E l \in ClientLoops : frame[l].conn = p

-----------------------------------------------------------------------------
(* The loops                                                               *)

Call(op, p) == [op |-> op, conn |-> p]

(* queue[l] with functor f at its end. *)
Push(l, f) == [queue EXCEPT ![l] = Append(@, f)]

(* Loop l goes on with step op of connection p, or is done. *)
Continue(l, op, p) == frame' = [frame EXCEPT ![l] = Call(op, p)]
Done(l) == frame' = [frame EXCEPT ![l] = Idle]

At(l, op) == frame[l].op = op

(* The process runs: bufferevent_getfd() was not called without a buffer.  *)
Running == ~At(connLoop, "getfd")

(* The thread of loop l, at the end of a handler, calls runInLoop(to, f):  *)
(* f is run at once, or queued when the loop is another one.               *)
HandOver(l, to, f) ==
  IF l = to
    THEN frame' = [frame EXCEPT ![l] = f] /\ UNCHANGED queue
    ELSE Done(l) /\ queue' = Push(to, f)

(* doPendingFunctors() takes the next functor. *)
NextFunctor(l) ==
  /\ frame[l] = Idle
  /\ queue[l] # <<>>
  /\ frame' = [frame EXCEPT ![l] = Head(queue[l])]
  /\ queue' = [queue EXCEPT ![l] = Tail(@)]
  /\ UNCHANGED <<connLoop, conn, connMap_, connList_, timers, wanted,
                 overlapped, calls>>

-----------------------------------------------------------------------------
(* The application                                                         *)

CountCall == calls < MaxCalls /\ calls' = calls + 1

(* addClient() and delClient() run their functor at once when they are     *)
(* called on the client's loop, else they queue it.                        *)
ClientCall(op) ==
  /\ CountCall
  /\ \/ queue' = Push(ClientLoop, Call(op, none)) /\ UNCHANGED frame
     \/ /\ frame[ClientLoop] = Idle
        /\ Continue(ClientLoop, op, none)
        /\ UNCHANGED queue
  /\ UNCHANGED <<connLoop, conn, connMap_, connList_, timers, wanted,
                 overlapped>>

addClient == ClientCall("addClientInLoop")
delClient == ClientCall("delClientInLoop")

(* The connections getConn() and getNextConn() can return. *)
HandedOut == ToSet(connList_) \cup (Conns \cap {connMap_})

(* close() and shutdown() always queue closeInLoop(). *)
close(p) ==
  /\ Apart => AppCloses
  /\ CountCall
  /\ p \in HandedOut
  /\ queue' = Push(connLoop, Call("closeInLoop", p))
  /\ UNCHANGED <<connLoop, conn, connMap_, connList_, frame, timers, wanted,
                 overlapped>>

shutdown(p) ==
  /\ Apart => AppCloses
  /\ CountCall
  /\ p \in HandedOut
  /\ conn' = [conn EXCEPT ![p].bShutdownd_ = TRUE]
  /\ queue' = Push(connLoop, Call("closeInLoop", p))
  /\ wanted' = FALSE
  /\ UNCHANGED <<connLoop, connMap_, connList_, frame, timers, overlapped>>

-----------------------------------------------------------------------------
(* TcpClient, on the client's loop                                         *)

(* if(!connMap_.hasConn(ci)).  An earlier client lingers when it was shut  *)
(* down or deleted and something still refers to it.                       *)
addClientInLoop ==
  /\ At(ClientLoop, "addClientInLoop")
  /\ wanted' = TRUE
  /\ overlapped' = (overlapped \/ \E p \in Conns :
                      Alive(p) /\ (connMap_ = "absent" \/ conn[p].bShutdownd_))
  /\ IF connMap_ = "absent" THEN Continue(ClientLoop, "addConn", none)
                            ELSE Done(ClientLoop)
  /\ UNCHANGED <<connLoop, conn, connMap_, connList_, queue, timers, calls>>

\* fault: the ConnInfo is assigned from a copy, which starts at address 0
doConnect_Copied(c) == [c EXCEPT !.bClosed_ = FALSE, !.callbacks = TRUE,
                                 !.tie_ = TRUE, !.born = TRUE, !.next_ = 0]

\* fault: doConnect() does not tie the connection to itself
doConnect_NoTie(c) == [c EXCEPT !.bClosed_ = FALSE, !.callbacks = TRUE,
                                !.born = TRUE]

(* The callbacks are set and doConnect() is called.  On a retry it is given *)
(* the connection's own ConnInfo, whose assignment to itself leaves the    *)
(* position in the list of addresses alone.                                *)
doConnect(c) == [c EXCEPT !.bClosed_ = FALSE, !.callbacks = TRUE,
                          !.tie_ = TRUE, !.born = TRUE]

(* The objects addClientInLoop() has not created yet: which one it creates *)
(* makes no difference.                                                    *)
Unborn == {p \in Conns : ~conn[p].born}

addConn ==
  /\ At(ClientLoop, "addConn")
  /\ connMap_' = "null"
  /\ Unborn # {}
  /\ LET p == CHOOSE q \in Unborn : TRUE IN
       /\ conn' = [conn EXCEPT ![p] = doConnect(@)]
       /\ HandOver(ClientLoop, connLoop, Call("BuildConnect", p))
  /\ UNCHANGED <<connLoop, connList_, timers, wanted, overlapped, calls>>

(* pConn = connMap_.getConn(ci) *)
delClientInLoop ==
  /\ At(ClientLoop, "delClientInLoop")
  /\ wanted' = FALSE
  /\ IF connMap_ \in Conns THEN Continue(ClientLoop, "delOld", connMap_)
                           ELSE Continue(ClientLoop, "delKey", none)
  /\ UNCHANGED <<connLoop, conn, connMap_, connList_, queue, timers,
                 overlapped, calls>>

delOld ==
  /\ At(ClientLoop, "delOld")
  /\ LET p == frame[ClientLoop].conn IN
       /\ connList_' = RemoveFirst(connList_, p)
       /\ conn' = [conn EXCEPT ![p].bShutdownd_ = TRUE]
       /\ queue' = Push(connLoop, Call("closeInLoop", p))
       /\ Continue(ClientLoop, "delKey", p)
  /\ UNCHANGED <<connLoop, connMap_, timers, wanted, overlapped, calls>>

delKey ==
  /\ At(ClientLoop, "delKey")
  /\ connMap_' = "absent"
  /\ Done(ClientLoop)
  /\ UNCHANGED <<connLoop, conn, connList_, queue, timers, wanted, overlapped,
                 calls>>

startTimer ==
  /\ At(ClientLoop, "startTimer")
  /\ timers' = [timers EXCEPT ![frame[ClientLoop].conn] = @ + 1]
  /\ Done(ClientLoop)
  /\ UNCHANGED <<connLoop, conn, connMap_, connList_, queue, wanted,
                 overlapped, calls>>

(* What the connection's loop has still to do for p. *)
Busy(p) ==
  \/ frame[connLoop].conn = p
  \/ \E i \in DOMAIN queue[connLoop] : queue[connLoop][i].conn = p

(* The retry timer of p fires.  The delay is ConnInfo::retry() seconds;    *)
(* nothing in the code makes it wait for the rest of closeInLoop().        *)
RetryTimer(p) ==
  /\ Running
  /\ frame[ClientLoop] = Idle
  /\ timers[p] > 0
  /\ Apart /\ PatientRetry => ~Busy(p)
  /\ timers' = [timers EXCEPT ![p] = @ - 1]
  /\ Continue(ClientLoop, "onRetry", p)
  /\ UNCHANGED <<connLoop, conn, connMap_, connList_, queue, wanted,
                 overlapped, calls>>

onRetry ==
  /\ At(ClientLoop, "onRetry")
  /\ LET p == frame[ClientLoop].conn IN
       IF ~conn[p].bShutdownd_ /\ connMap_ # "absent"
         THEN Continue(ClientLoop, "reconnect", p)
         ELSE Done(ClientLoop)
  /\ UNCHANGED <<connLoop, conn, connMap_, connList_, queue, timers, wanted,
                 overlapped, calls>>

reconnect ==
  /\ At(ClientLoop, "reconnect")
  /\ LET p == frame[ClientLoop].conn IN
       /\ connMap_' = "null"
       /\ conn' = [conn EXCEPT ![p] = doConnect(@)]
       /\ HandOver(ClientLoop, connLoop, Call("BuildConnect", p))
  /\ UNCHANGED <<connLoop, connList_, timers, wanted, overlapped, calls>>

ClientStep ==
  /\ Running
  /\ \/ NextFunctor(ClientLoop)
     \/ addClientInLoop \/ addConn
     \/ delClientInLoop \/ delOld \/ delKey
     \/ startTimer \/ onRetry \/ reconnect

-----------------------------------------------------------------------------
(* BaseConn, on the connection's loop                                      *)

(* ConnInfo::getNextAddrInfo() and getCurrAddrInfo() count from 0 and keep *)
(* the position behind the address they gave last.                         *)
getNextAddrInfo(c) ==
  LET at == IF c.next_ >= Addrs THEN 0 ELSE c.next_ IN
    [addr |-> at, conn |-> [c EXCEPT !.next_ = at + 1]]

getCurrAddrInfo(c) == IF c.next_ > 0 THEN c.next_ - 1 ELSE 0

(* No buffer could be made, or one that cannot be enabled. *)
NoSocket ==
  /\ At(connLoop, "BuildConnect")
  /\ LET p == frame[connLoop].conn IN
       /\ conn' = conn \/ conn' = [conn EXCEPT ![p].bufev_ = "connecting"]
       /\ Continue(connLoop, "closeInLoop", p)
  /\ UNCHANGED <<connLoop, connMap_, connList_, queue, timers, wanted,
                 overlapped, calls>>

(* The next address is tried: connecting goes on in the kernel, or fails at *)
(* once.  Then libevent says so by the value it returns or, before it       *)
(* returns 0, by calling event_cb(), which closes the connection.           *)
Dial(p) ==
  /\ frame[connLoop] = Call("BuildConnect", p)
  /\ LET Dialed(b) ==
           conn' = [conn EXCEPT ![p] = [getNextAddrInfo(@).conn EXCEPT !.bufev_ = b]]
     IN
     \/ Dialed("connecting") /\ (Done(connLoop) \/ Continue(connLoop, "closeInLoop", p))
     \/ Dialed("dialing") /\ ~conn[p].bClosed_ /\ Continue(connLoop, "closeInLoop", p)
  /\ UNCHANGED <<connLoop, connMap_, connList_, queue, timers, wanted,
                 overlapped, calls>>

BuildConnect == NoSocket \/ \E p \in Conns : Dial(p)

(* BEV_EVENT_CONNECTED: connectInLoop() *)
Connected(p) ==
  /\ frame[connLoop] = Idle
  /\ conn[p].bufev_ = "connecting"
  /\ conn' = [conn EXCEPT ![p].bufev_ = "up", ![p].bConnected_ = TRUE]
  /\ IF conn[p].callbacks THEN Continue(connLoop, "onConnect", p)
                          ELSE UNCHANGED frame
  /\ UNCHANGED <<connLoop, connMap_, connList_, queue, timers, wanted,
                 overlapped, calls>>

(* Any other event of the buffer: an error, or the end of the stream. *)
Failed(p) ==
  /\ frame[connLoop] = Idle
  /\ conn[p].bufev_ # "null"
  /\ Continue(connLoop, "closeInLoop", p)
  /\ UNCHANGED <<connLoop, conn, connMap_, connList_, queue, timers, wanted,
                 overlapped, calls>>

(* The handler shuts p down: the flag, and closeInLoop() queued. *)
ShutdownHere(p) ==
  /\ conn' = [conn EXCEPT ![p].bShutdownd_ = TRUE]
  /\ queue' = Push(connLoop, Call("closeInLoop", p))
  /\ Done(connLoop)

\* fault: a connection that arrives after its client was deleted is kept
onConnect_Unchecked ==
  /\ At(connLoop, "onConnect")
  /\ Continue(connLoop, "addToList", frame[connLoop].conn)
  /\ UNCHANGED <<connLoop, conn, connMap_, connList_, queue, timers, wanted,
                 overlapped, calls>>

(* if(connMap_.hasConn(ci)) ... else pConn->shutdown() *)
onConnect ==
  /\ At(connLoop, "onConnect")
  /\ LET p == frame[connLoop].conn IN
       IF connMap_ # "absent"
         THEN Continue(connLoop, "addToList", p) /\ UNCHANGED <<conn, queue>>
         ELSE ShutdownHere(p)
  /\ UNCHANGED <<connLoop, connMap_, connList_, timers, wanted, overlapped,
                 calls>>

addToList ==
  /\ At(connLoop, "addToList")
  /\ LET p == frame[connLoop].conn IN
       /\ connList_' = Append(connList_, p)
       /\ Continue(connLoop, "checkOld", p)
  /\ UNCHANGED <<connLoop, conn, connMap_, queue, timers, wanted, overlapped,
                 calls>>

(* if(pOldConn && !pOldConn->shutdownd()) pConn->shutdown() *)
checkOld ==
  /\ At(connLoop, "checkOld")
  /\ LET p == frame[connLoop].conn IN
       IF connMap_ \in {q \in Conns : ~conn[q].bShutdownd_}
         THEN ShutdownHere(p)
         ELSE Continue(connLoop, "setConn", p) /\ UNCHANGED <<conn, queue>>
  /\ UNCHANGED <<connLoop, connMap_, connList_, timers, wanted, overlapped,
                 calls>>

setConn ==
  /\ At(connLoop, "setConn")
  /\ connMap_' = frame[connLoop].conn
  /\ Done(connLoop)
  /\ UNCHANGED <<connLoop, conn, connList_, queue, timers, wanted, overlapped,
                 calls>>

(* A closed connection is not closed again; close_cb_ is called if set. *)
closeInLoop ==
  /\ At(connLoop, "closeInLoop")
  /\ LET p == frame[connLoop].conn IN
       IF conn[p].bClosed_ THEN Done(connLoop)
       ELSE Continue(connLoop, IF conn[p].callbacks THEN "onClose" ELSE "finish",
                     p)
  /\ UNCHANGED <<connLoop, conn, connMap_, connList_, queue, timers, wanted,
                 overlapped, calls>>

\* fault: a closed connection stays in the list that getNextConn() serves
onClose_KeepInList ==
  /\ At(connLoop, "onClose")
  /\ LET p == frame[connLoop].conn IN
       Continue(connLoop, IF conn[p].bShutdownd_ THEN "eraseKey" ELSE "runAfter", p)
  /\ UNCHANGED <<connLoop, conn, connMap_, connList_, queue, timers, wanted,
                 overlapped, calls>>

\* fault: the key is erased even though the client goes on
onClose_EraseAlways ==
  /\ At(connLoop, "onClose")
  /\ LET p == frame[connLoop].conn IN
       /\ connList_' = RemoveFirst(connList_, p)
       /\ Continue(connLoop, "eraseKey", p)
  /\ UNCHANGED <<connLoop, conn, connMap_, queue, timers, wanted, overlapped,
                 calls>>

onClose ==
  /\ At(connLoop, "onClose")
  /\ LET p == frame[connLoop].conn IN
       /\ connList_' = RemoveFirst(connList_, p)
       /\ Continue(connLoop, IF conn[p].bShutdownd_ THEN "eraseKey" ELSE "runAfter",
                   p)
  /\ UNCHANGED <<connLoop, conn, connMap_, queue, timers, wanted, overlapped,
                 calls>>

(* connMap_.delConn(ci), whichever connection the key has by now. *)
eraseKey ==
  /\ At(connLoop, "eraseKey")
  /\ connMap_' = "absent"
  /\ Continue(connLoop, "finish", frame[connLoop].conn)
  /\ UNCHANGED <<connLoop, conn, connList_, queue, timers, wanted, overlapped,
                 calls>>

(* loop_->runAfter(tv, onRetry): loop_ is the client's loop. *)
runAfter ==
  /\ At(connLoop, "runAfter")
  /\ LET p == frame[connLoop].conn IN
       /\ IF connLoop = ClientLoop
            THEN timers' = [timers EXCEPT ![p] = @ + 1] /\ UNCHANGED queue
            ELSE queue' = Push(ClientLoop, Call("startTimer", p)) /\ UNCHANGED timers
       /\ Continue(connLoop, "finish", p)
  /\ UNCHANGED <<connLoop, conn, connMap_, connList_, wanted, overlapped,
                 calls>>

(* The rest of closeInLoop(): the buffer is freed, the callbacks are       *)
(* dropped, the flags set and the tie cut.  Called while p was dialing, it *)
(* returns into BuildConnect(), which asks libevent for the descriptor of  *)
(* the buffer that is null now: the process ends.                          *)
finish ==
  /\ At(connLoop, "finish")
  /\ LET p == frame[connLoop].conn IN
       /\ conn' = [conn EXCEPT ![p].bufev_ = "null", ![p].callbacks = FALSE,
                               ![p].bClosed_ = TRUE, ![p].bConnected_ = FALSE,
                               ![p].tie_ = FALSE]
       /\ IF conn[p].bufev_ = "dialing" THEN Continue(connLoop, "getfd", p)
                                        ELSE Done(connLoop)
  /\ UNCHANGED <<connLoop, connMap_, connList_, queue, timers, wanted,
                 overlapped, calls>>

ConnStep ==
  \/ NextFunctor(connLoop)
  \/ BuildConnect
  \/ onConnect \/ addToList \/ checkOld \/ setConn
  \/ closeInLoop \/ onClose \/ eraseKey \/ runAfter \/ finish

Application ==
  /\ Running
  /\ \/ addClient \/ delClient
     \/ \E p \in Conns : close(p) \/ shutdown(p)

Network == \E p \in Conns : Connected(p) \/ Failed(p)

Next ==
  \/ Application
  \/ Network
  \/ \E p \in Conns : RetryTimer(p)
  \/ ClientStep
  \/ ConnStep

Spec == Init /\ [][Next]_vars

(***************************************************************************)
(* Both loops run what is queued and fire the timers that are due.  A      *)
(* socket that is connecting is answered one way or the other; strong      *)
(* fairness, because the loop may be busy in between.  The system does not *)
(* go on refusing sockets and memory for ever.  Nothing is assumed         *)
(* of the application, and no connection has to come up or to fail.        *)
(***************************************************************************)
Fairness ==
  /\ WF_vars(ClientStep) /\ WF_vars(ConnStep)
  /\ \A p \in Conns : SF_vars(RetryTimer(p))
  /\ \A p \in Conns :
       SF_vars(conn[p].bufev_ = "connecting" /\ (Connected(p) \/ Failed(p)))
  /\ SF_vars(\E p \in Conns : Dial(p))

FairSpec == Spec /\ Fairness

-----------------------------------------------------------------------------
(* Properties                                                              *)

(* "tie 'this', so can't free object manual": as long as libevent holds    *)
(* the raw pointer to p, the object holds on to itself.                    *)
TiedWhileOpen == \A p \in Conns : conn[p].bufev_ # "null" => conn[p].tie_

Resting == \A l \in ClientLoops : frame[l] = Idle

(* A client that was added, and neither deleted nor shut down, stays       *)
(* registered, unless it was added while an earlier one for the same       *)
(* ConnInfo lingered: the close of the earlier one erases the new key.     *)
ClientKept == wanted /\ ~overlapped /\ Resting => connMap_ # "absent"

(* Between handlers, the list that getNextConn() serves holds the          *)
(* registered connection, once, while it is up, and nothing else.  (The    *)
(* map may go on naming a connection that is closed and waits to retry.)   *)
ListMatchesMap ==
  Resting /\ ~overlapped /\ ~Apart =>
    /\ ToSet(connList_) = {p \in Conns : connMap_ = p /\ conn[p].bufev_ = "up"}
    /\ Len(connList_) <= 1

(* After delClient() or shutdown() every connection gets closed, also one  *)
(* that was still connecting, unless a client is added again.              *)
DeletedGoes ==
  ~wanted /\ ~overlapped /\ ~Apart
    ~> wanted \/ \A p \in Conns : conn[p].bufev_ = "null"

(* A client that is not deleted keeps connecting again, after a loss and   *)
(* after every failure that libevent tells by its return value or after    *)
(* it has returned, and gets to every address of its ConnInfo, unless one  *)
(* of them answers.  A failure told from inside the call ends the process, *)
(* at the first address that has one.                                      *)
TriesEveryAddress ==
  \A a \in 0..Addrs - 1 :
    wanted /\ ~overlapped
      ~> \/ ~wanted \/ overlapped \/ ~Running
         \/ \E p \in Conns : \/ conn[p].bufev_ = "up"
                             \/ /\ conn[p].bufev_ = "connecting"
                                /\ getCurrAddrInfo(conn[p]) = a

=============================================================================
