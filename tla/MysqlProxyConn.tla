---------------------------- MODULE MysqlProxyConn ----------------------------
(***************************************************************************)
(* dbproxy/MysqlProxyConn.{h,cpp}: a blocking MySQL client, used by one    *)
(* thread, whose command() opens a new connection and repeats its          *)
(* statement when the old one is lost; and AutoMysqlRes, which holds the   *)
(* results of a statement.                                                 *)
(*                                                                         *)
(* External: the client library and the server.  The library, asked to     *)
(* reconnect by MYSQL_OPT_RECONNECT, opens a new session before it sends a *)
(* statement when it has no connection or finds it broken, except inside a *)
(* transaction: it then fails once and forgets the transaction.  When the  *)
(* answer does not come the statement may have been executed, or may be    *)
(* executed later, by the session that was given up.  A new session        *)
(* commits every statement by itself, and a session that ends rolls back.  *)
(*                                                                         *)
(* Statements write; what they write is told apart by the call they were   *)
(* given to.  A statement may leave results to be read (a CALL leaves      *)
(* several).  escape() is the library's and changes nothing.               *)
(***************************************************************************)
EXTENDS Integers, Sequences, FiniteSets, FiniteSetsExt

CONSTANTS
  MaxCalls,     \* how many statements the application gives to command() and query()
  MaxResults,   \* the most results a statement leaves
  Calling       \* the calls whose statements leave results

VARIABLES
  handle,       \* *mysql_, the library's state of the connection
  bConnect_,
  session,      \* the server's state of the connection
  pending,      \* statements that sessions given up may still execute
  effects,      \* effects[n]: how often the statement of call n took effect
  calls,        \* which of command() and query() each call was
  current,      \* the call of command() that repeats, or Idle
  result,       \* the AutoMysqlRes of the last statement, or whether one is owed
  txn,          \* what the application takes for its transaction: see NewTxn
  closed,       \* the one that the last call committed, as it was told
  wrong         \* what no call should meet: "out of sync", "dead row", or "none"

vars == <<handle, bConnect_, session, pending, effects, calls, current, result,
          txn, closed, wrong>>

Ids == 1..MaxCalls
Idle == [n |-> 0, step |-> "none"]
NoResult == [state |-> "none", res_ |-> FALSE, row_ |-> "null", fetched |-> FALSE]

\* ids: calls that succeeded; clean: none failed; moved: it changed its session
NewTxn == [ids |-> {}, clean |-> TRUE, moved |-> FALSE]

Fresh == [alive |-> TRUE, autocommit |-> TRUE, tx |-> {}]
Dead == [alive |-> FALSE, autocommit |-> TRUE, tx |-> {}]

Closed == [vio |-> FALSE, host |-> FALSE, inTrans |-> FALSE, unread |-> 0]
Opened == [vio |-> TRUE, host |-> TRUE, inTrans |-> FALSE, unread |-> 0]

Init ==
  /\ \/ handle = Opened /\ session = Fresh /\ bConnect_ = TRUE
     \/ handle = Closed /\ session = Dead /\ bConnect_ = FALSE
  /\ pending = {}
  /\ effects = [n \in Ids |-> 0]
  /\ calls = <<>>
  /\ current = Idle
  /\ result = NoResult
  /\ txn = NewTxn /\ closed = NewTxn
  /\ wrong = "none"

-----------------------------------------------------------------------------
(* The server *)

(* What statement s does at once in session c, and the session after it. *)
Does(s, c) ==
  CASE s.verb \in {"commit", "autocommit on"} -> c.tx
    [] s.verb = "autocommit off" -> {}
    [] s.verb = "write" -> IF c.autocommit THEN {s.n} ELSE {}

After(s, c) ==
  CASE s.verb = "commit" -> [c EXCEPT !.tx = {}]
    [] s.verb = "autocommit on" -> [c EXCEPT !.tx = {}, !.autocommit = TRUE]
    [] s.verb = "autocommit off" -> [c EXCEPT !.autocommit = FALSE]
    [] s.verb = "write" -> [c EXCEPT !.tx = IF c.autocommit THEN @ ELSE @ \cup {s.n}]

Add(ids) == effects' = [n \in Ids |-> effects[n] + IF n \in ids THEN 1 ELSE 0]

(* The server ends the session or the network loses it; what the session   *)
(* did not commit is undone.                                               *)
SessionEnds ==
  /\ session.alive
  /\ session' = Dead
  /\ UNCHANGED <<handle, bConnect_, pending, effects, calls, current, result,
                 txn, closed, wrong>>

ExecuteLate ==
  \E p \in pending :
    /\ pending' = pending \ {p}
    /\ Add(p.does)
    /\ UNCHANGED <<handle, bConnect_, session, calls, current, result, txn,
                   closed, wrong>>

-----------------------------------------------------------------------------
(* mysql_real_query(): statement s is sent, and its outcome is "ok", "lost" *)
(* (CR_SERVER_GONE_ERROR, CR_SERVER_LOST or CR_CONN_HOST_ERROR) or "error". *)

OutOfSync == handle.vio /\ handle.unread > 0
Broken == ~handle.vio \/ ~session.alive
CanReconnect == handle.host /\ ~handle.inTrans
KnownInTrans == ~Broken /\ handle.inTrans

Unreached(outcome) ==
  /\ session' = Dead
  /\ UNCHANGED <<pending, effects>>
  /\ \/ /\ ~CanReconnect
        /\ outcome = "lost"
        /\ handle' = [handle EXCEPT !.vio = FALSE, !.unread = 0, !.inTrans = FALSE]
     \/ /\ CanReconnect
        /\ outcome \in {"lost", "error"}
        /\ handle' = [handle EXCEPT !.vio = FALSE, !.unread = 0]
     \/ /\ handle.vio                   \* written, and no one reads it
        /\ outcome = "lost"
        /\ handle' = [handle EXCEPT !.vio = FALSE, !.unread = 0]

(* Session c has the statement: the one of the handle h, or a new one. *)
Answered(s, c, outcome) ==
  /\ UNCHANGED pending
  /\ \/ /\ outcome = "ok"
        /\ session' = After(s, c)
        /\ Add(Does(s, c))
        /\ \E k \in 0..IF s.n \in Calling THEN MaxResults ELSE 0 :
             handle' = [Opened EXCEPT !.inTrans = After(s, c).tx # {}, !.unread = k]
     \/ /\ outcome = "error"            \* a deadlock also rolls back
        /\ session' \in {c, [c EXCEPT !.tx = {}]}
        /\ handle' = [Opened EXCEPT !.inTrans = KnownInTrans]
        /\ UNCHANGED effects

Lost(s, c, outcome) ==
  /\ outcome = "lost"
  /\ session' = Dead
  /\ handle' = [Opened EXCEPT !.vio = FALSE, !.inTrans = KnownInTrans]
  /\ \/ UNCHANGED <<pending, effects>>
     \/ Add(Does(s, c)) /\ UNCHANGED pending
     \/ /\ Does(s, c) # {}
        /\ pending' = pending \cup {[by |-> s, does |-> Does(s, c)]}
        /\ UNCHANGED effects

mysql_real_query(s, outcome) ==
  IF OutOfSync
    THEN /\ outcome = "error"
         /\ wrong' = "out of sync"
         /\ UNCHANGED <<handle, session, pending, effects>>
    ELSE /\ UNCHANGED wrong
         /\ \/ Broken /\ Unreached(outcome)
            \/ \E c \in IF ~Broken THEN {session} ELSE IF CanReconnect THEN {Fresh} ELSE {} :
                 Answered(s, c, outcome) \/ Lost(s, c, outcome)

-----------------------------------------------------------------------------
(* MysqlProxyConn *)

(* The application makes an AutoMysqlRes after every statement that leaves *)
(* results, and destroys it before the next call.                          *)
Ready ==
  /\ current = Idle
  /\ \/ result.state = "none"
     \/ result.state = "owed" /\ handle.unread = 0

Moved == txn.moved \/ Broken \/ ~session'.alive
Failed == [txn EXCEPT !.clean = FALSE, !.moved = Moved]

Return(n, ok) ==
  /\ current' = Idle
  /\ txn' = IF ok THEN [txn EXCEPT !.ids = @ \cup {n}, !.moved = Moved] ELSE Failed
  /\ result' = IF ok THEN [NoResult EXCEPT !.state = "owed"] ELSE NoResult

Write(n, attempt) == [verb |-> "write", n |-> n, attempt |-> attempt]
Other(verb) == [verb |-> verb, n |-> 0, attempt |-> 1]

\* fault: query() also opens a new connection and repeats.
query_Repeat ==
  \E outcome \in {"ok", "lost", "error"} :
    LET n == Len(calls) + 1 IN
    /\ Ready /\ n \in Ids
    /\ mysql_real_query(Write(n, 1), outcome)
    /\ IF outcome = "lost"
         THEN /\ current' = [n |-> n, step |-> "reopen"]
              /\ txn' = [txn EXCEPT !.moved = TRUE]
              /\ result' = NoResult
         ELSE Return(n, outcome = "ok")
    /\ calls' = Append(calls, "query")
    /\ closed' = NewTxn
    /\ UNCHANGED bConnect_

query ==
  \E outcome \in {"ok", "lost", "error"} :
    LET n == Len(calls) + 1 IN
    /\ Ready /\ n \in Ids
    /\ mysql_real_query(Write(n, 1), outcome)
    /\ Return(n, outcome = "ok")
    /\ calls' = Append(calls, "query")
    /\ closed' = NewTxn
    /\ UNCHANGED bConnect_

command ==
  \E outcome \in {"ok", "lost", "error"} :
    LET n == Len(calls) + 1 IN
    /\ Ready /\ n \in Ids
    /\ mysql_real_query(Write(n, 1), outcome)
    /\ IF outcome = "lost"
         THEN /\ current' = [n |-> n, step |-> "reopen"]
              /\ txn' = [txn EXCEPT !.moved = TRUE]
              /\ result' = NoResult
         ELSE Return(n, outcome = "ok")
    /\ calls' = Append(calls, "command")
    /\ closed' = NewTxn
    /\ UNCHANGED bConnect_

(* MysqlInit(): a new session, or a closed handle. *)
MysqlInit(connected) ==
  IF connected
    THEN handle' = Opened /\ session' = Fresh /\ bConnect_' = TRUE
    ELSE handle' = Closed /\ session' = Dead /\ bConnect_' = FALSE

(* command(): release(), and MysqlInit(). *)
Reopen ==
  /\ current.step = "reopen"
  /\ \/ /\ MysqlInit(TRUE)
        /\ current' = [current EXCEPT !.step = "repeat"]
        /\ UNCHANGED <<txn, result>>
     \/ MysqlInit(FALSE) /\ Return(current.n, FALSE)
  /\ UNCHANGED <<pending, effects, calls, closed, wrong>>

(* command(): the second mysql_real_query(). *)
Repeat ==
  /\ current.step = "repeat"
  /\ \E outcome \in {"ok", "lost", "error"} :
       /\ mysql_real_query(Write(current.n, 2), outcome)
       /\ Return(current.n, outcome = "ok")
  /\ UNCHANGED <<bConnect_, calls, closed>>

(* autocommit(on): when it fails, the handle is closed. *)
autocommit ==
  \E verb \in {"autocommit on", "autocommit off"}, outcome \in {"ok", "lost", "error"} :
    /\ Ready
    /\ mysql_real_query(Other(verb), outcome)
    /\ current' = IF outcome = "ok" THEN Idle ELSE [n |-> 0, step |-> "release"]
    /\ closed' = IF outcome = "ok" /\ verb = "autocommit on"
                   THEN [txn EXCEPT !.moved = Moved] ELSE NewTxn
    /\ txn' = NewTxn
    /\ result' = NoResult
    /\ UNCHANGED <<bConnect_, calls>>

release ==
  /\ current.step = "release"
  /\ IF bConnect_ THEN handle' = Closed /\ session' = Dead
                  ELSE UNCHANGED <<handle, session>>
  /\ bConnect_' = FALSE
  /\ current' = Idle
  /\ UNCHANGED <<pending, effects, calls, result, txn, closed, wrong>>

\* fault: what mysql_commit() returns is not looked at.
commit_Unchecked ==
  \E outcome \in {"ok", "lost", "error"} :
    /\ Ready
    /\ mysql_real_query(Other("commit"), outcome)
    /\ txn' = NewTxn /\ closed' = [txn EXCEPT !.moved = Moved]
    /\ result' = NoResult
    /\ UNCHANGED <<bConnect_, calls, current>>

commit ==
  \E outcome \in {"ok", "lost", "error"} :
    /\ Ready
    /\ mysql_real_query(Other("commit"), outcome)
    /\ IF outcome = "ok"
         THEN txn' = NewTxn /\ closed' = [txn EXCEPT !.moved = Moved]
         ELSE txn' = Failed /\ closed' = NewTxn
    /\ result' = NoResult
    /\ UNCHANGED <<bConnect_, calls, current>>

-----------------------------------------------------------------------------
(* AutoMysqlRes *)

others == <<bConnect_, pending, effects, calls, current, txn, closed>>

(* The library reads the next result whole, or loses the connection. *)
StoreNext(got) ==
  \/ /\ got = (handle.vio /\ handle.unread > 0)
     /\ handle' = [handle EXCEPT !.unread = IF got THEN @ - 1 ELSE @]
     /\ UNCHANGED session
  \/ /\ handle.vio /\ handle.unread > 0
     /\ got = FALSE
     /\ handle' = [handle EXCEPT !.vio = FALSE, !.unread = 0]
     /\ session' = Dead

AutoMysqlRes ==
  \E got \in BOOLEAN :
    /\ result.state = "owed"
    /\ StoreNext(got)
    /\ result' = [state |-> "open", res_ |-> got, row_ |-> "garbage", fetched |-> FALSE]
    /\ UNCHANGED <<wrong, others>>

(* The row that row_ points to goes with its result. *)
Freed == IF result.row_ = "live" THEN "dead" ELSE result.row_

next ==
  \E got \in BOOLEAN :
    /\ result.state = "open"
    /\ StoreNext(got)
    /\ result' = [result EXCEPT !.res_ = got, !.row_ = Freed, !.fetched = FALSE]
    /\ UNCHANGED <<wrong, others>>

fetch_row ==
  \E row \in {"live", "null"} :
    /\ result.state = "open"
    /\ result' = IF result.res_
                   THEN [result EXCEPT !.row_ = row, !.fetched = row = "live"]
                   ELSE [result EXCEPT !.fetched = FALSE]
    /\ UNCHANGED <<handle, session, wrong, others>>

fetch_next_row ==
  \E got \in BOOLEAN, row \in {"live", "null"} :
    /\ result.state = "open"
    /\ StoreNext(got)
    /\ result' = [result EXCEPT !.res_ = got,
                                !.row_ = IF got THEN row ELSE Freed,
                                !.fetched = got /\ row = "live"]
    /\ UNCHANGED <<wrong, others>>

(* str_row() and the like, of an application that looks at a row when it   *)
(* was told that there is one.                                             *)
str_row ==
  /\ result.state = "open" /\ result.fetched
  /\ wrong' = IF result.row_ \in {"live", "null"} THEN wrong ELSE "dead row"
  /\ UNCHANGED <<handle, session, result, others>>

\* fault: only the result at hand is freed.
DestroyRes_KeepRest ==
  /\ result.state = "open"
  /\ result' = NoResult
  /\ UNCHANGED <<handle, session, wrong, others>>

(* ~AutoMysqlRes(): the results that are left are read and dropped. *)
DestroyRes ==
  /\ result.state = "open"
  /\ result' = NoResult
  /\ \/ /\ handle' = [handle EXCEPT !.unread = 0]
        /\ UNCHANGED session
     \/ /\ handle.vio /\ handle.unread > 0
        /\ handle' = [handle EXCEPT !.vio = FALSE, !.unread = 0]
        /\ session' = Dead
  /\ UNCHANGED <<wrong, others>>

-----------------------------------------------------------------------------
Next ==
  \/ SessionEnds \/ ExecuteLate
  \/ query \/ command \/ Reopen \/ Repeat \/ autocommit \/ release \/ commit
  \/ AutoMysqlRes \/ next \/ fetch_row \/ fetch_next_row \/ str_row \/ DestroyRes

Spec == Init /\ [][Next]_vars

-----------------------------------------------------------------------------
TypeOK ==
  /\ handle \in [vio : BOOLEAN, host : BOOLEAN, inTrans : BOOLEAN, unread : 0..MaxResults]
  /\ session \in [alive : BOOLEAN, autocommit : BOOLEAN, tx : SUBSET Ids]
  /\ calls \in Seq({"command", "query"})
  /\ effects \in [Ids -> Nat]
  /\ bConnect_ \in BOOLEAN

(* However often the connection is lost, the statement of one call of      *)
(* command() takes effect at most twice, and that of query() at most once, *)
(* counting what sessions given up may still do.                           *)
EffectsBounded ==
  \A n \in DOMAIN calls :
    effects[n] + Cardinality({p \in pending : n \in p.does})
      <= IF calls[n] = "query" THEN 1 ELSE 2

(* When mysql_commit() or autocommit(true) says that the transaction is    *)
(* committed, the statements of it that were successful and are lost come  *)
(* before all that are kept.  The last one is kept when no call of the     *)
(* transaction failed, and all are when its session was the same all along. *)
CommitKeepsTheEnd ==
  LET lost == {n \in closed.ids : effects[n] = 0} IN
  /\ \A m \in lost, n \in closed.ids \ lost : m < n
  /\ closed.clean /\ closed.ids # {} => Max(closed.ids) \notin lost
  /\ closed.clean /\ ~closed.moved => lost = {}

(* An application that makes an AutoMysqlRes after every statement, and    *)
(* looks at a row only when it is told that there is one, is never refused *)
(* a call because of results that were not read, and reads no row of a     *)
(* result that is gone.                                                    *)
ResultsAreRead == wrong = "none"
=============================================================================
