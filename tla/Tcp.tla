--------------------------------- MODULE Tcp ---------------------------------
(***************************************************************************)
(* The two users of BaseConn, which share nothing but the code of it:      *)
(* TcpServer, whose connections are accepted, and TcpClient, whose         *)
(* connections are made.  The server's variables keep their names here;    *)
(* those of the client that have the same name are renamed.                *)
(***************************************************************************)
EXTENDS TcpServer

CONSTANTS ClientLoop, ConnLoops, Addrs, PatientRetry, AppCloses

(* Neither a loop nor an entry of the map is taken for a connection. *)
ASSUME NoneAssumption == Conns \cap {none, "absent", "null"} = {}
ASSUME PatientRetryAssumption == PatientRetry \in BOOLEAN
ASSUME AppClosesAssumption == AppCloses \in BOOLEAN
ASSUME AddrsAssumption == Addrs \in Nat \ {0}

VARIABLES
  connLoop, frame, timers, wanted, overlapped, calls,
  made,         \* the connections of the client: TcpClient's conn
  clientMap_,   \* its connMap_
  clientList_,  \* its connList_
  functors      \* its queue

Client == INSTANCE TcpClient WITH
            conn <- made, connMap_ <- clientMap_, connList_ <- clientList_,
            queue <- functors

(* The client runs while the server rests. *)
ClientSpec ==
  /\ Init /\ Client!Init
  /\ [][Client!Next /\ UNCHANGED vars]_<<vars, Client!vars>>

FairClientSpec == ClientSpec /\ Client!Fairness

-----------------------------------------------------------------------------
(* The properties of TcpClient.  What libevent refers to is kept by its    *)
(* tie; a client that is wanted stays registered; the list that is served  *)
(* holds just the registered connection that is up; a client that is       *)
(* deleted gets closed, one that is not tries all of its addresses.        *)
TiedWhileOpen == Client!TiedWhileOpen
ClientKept == Client!ClientKept
ListMatchesMap == Client!ListMatchesMap
DeletedGoes == Client!DeletedGoes
TriesEveryAddress == Client!TriesEveryAddress

=============================================================================
