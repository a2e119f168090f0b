------------------------------- MODULE ConnList -------------------------------
(***************************************************************************)
(* base/ConnList.{h,cpp}: the connections of one type of a TcpClient, from *)
(* which getNextConn() takes one after the other, from any thread.  Each   *)
(* operation holds mutex_ throughout, so that it is one step.              *)
(***************************************************************************)
EXTENDS Integers, Sequences, FiniteSets, SequencesExt

CONSTANTS
  Conns,        \* the connections; none is in the list twice
  MaxDeleted    \* how many deletions a connection in the list lives to see

VARIABLES
  connList_,
  next_,
  waited,       \* waited[c]: calls of getNextConn() since c was added or returned
  deleted       \* deleted[c]: connections deleted since then

vars == <<connList_, next_, waited, deleted>>

Listed == Range(connList_)

Init ==
  /\ connList_ = <<>>
  /\ next_ = 0
  /\ waited = [c \in Conns |-> 0]
  /\ deleted = [c \in Conns |-> 0]

\* fault: next_ stays.
getNextConn_Stay ==
  /\ connList_ # <<>>
  /\ next_' = IF next_ >= Len(connList_) THEN 0 ELSE next_
  /\ LET pConn == connList_[next_' + 1] IN
     /\ waited' = [c \in Conns |->
          IF c \in Listed \ {pConn} THEN waited[c] + 1 ELSE 0]
     /\ deleted' = [deleted EXCEPT ![pConn] = 0]
  /\ UNCHANGED connList_

getNextConn ==
  LET i == IF next_ >= Len(connList_) THEN 0 ELSE next_ IN
  /\ UNCHANGED connList_
  /\ \/ /\ connList_ = <<>>            \* a null pointer is returned
        /\ next_' = i
        /\ UNCHANGED <<waited, deleted>>
     \/ /\ connList_ # <<>>
        /\ next_' = i + 1
        /\ LET pConn == connList_[i + 1] IN
           /\ waited' = [c \in Conns |->
                IF c \in Listed \ {pConn} THEN waited[c] + 1 ELSE 0]
           /\ deleted' = [deleted EXCEPT ![pConn] = 0]

addConn(pConn) ==
  /\ pConn \notin Listed
  /\ connList_' = Append(connList_, pConn)
  /\ waited' = [waited EXCEPT ![pConn] = 0]
  /\ deleted' = [deleted EXCEPT ![pConn] = 0]
  /\ UNCHANGED next_

(* next_ stays when a connection before it goes. *)
delConn(pConn) ==
  /\ \A c \in Listed : deleted[c] < MaxDeleted
  /\ \/ pConn \notin Listed /\ UNCHANGED <<connList_, deleted>>
     \/ \E i \in DOMAIN connList_ :
          /\ connList_[i] = pConn
          /\ connList_' = RemoveAt(connList_, i)
          /\ deleted' = [c \in Conns |->
               IF c \in Listed \ {pConn} THEN deleted[c] + 1 ELSE deleted[c]]
  /\ UNCHANGED <<next_, waited>>

Next ==
  \/ getNextConn
  \/ \E pConn \in Conns : addConn(pConn) \/ delConn(pConn)

Spec == Init /\ [][Next]_vars

-----------------------------------------------------------------------------
(* Every connection is returned in its turn: after as many calls as there  *)
(* can be connections, and once more as many for each connection that was  *)
(* deleted meanwhile, since a deletion may make getNextConn() pass one.    *)
ServedInTurn ==
  \A c \in Listed : waited[c] < Cardinality(Conns) * (1 + deleted[c])
=============================================================================
