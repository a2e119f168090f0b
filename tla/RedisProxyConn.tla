---------------------------- MODULE RedisProxyConn ----------------------------
(***************************************************************************)
(* dbproxy/RedisProxyConn.{h,cpp}: a blocking client of a Redis cluster.   *)
(* Each object keeps one connection, made when it is needed and dropped    *)
(* after an error, and is used by one thread; several of them, in this     *)
(* process or in others, share the data.                                   *)
(*                                                                         *)
(* External: hiredis-vip and the servers.  A request is sent once, is      *)
(* executed or refused by a server, and its reply travels back.  The       *)
(* library may give up on a reply at any time and return a null pointer; a *)
(* request that was written by then may still be executed, much later and  *)
(* after requests that were made after it.  What a connection holds when   *)
(* the library gives up would be read by the next call on that connection. *)
(*                                                                         *)
(* The data are one counter, one hash whose items also stand for the       *)
(* members of a set, and whether the hash is to expire (at any time).      *)
(* get(), hincrby() and sismember() do with their keys what hget(),        *)
(* incrby() and hexists() do.  mget() is left out: the library may split   *)
(* it over several servers.                                                *)
(***************************************************************************)
EXTENDS Integers, Sequences, SequencesExt

CONSTANTS
  Proxies,      \* the RedisProxyConn objects
  Items,        \* the items of the hash
  Values,       \* their values
  ValueMaps,    \* the maps hmset() is called with
  ItemLists,    \* the lists of items hmget() and hdel() are called with
  Increments,   \* the amounts incrby() and hincrby() are called with
  Width,        \* one more than the largest unsigned long
  MaxCalls,     \* how many calls are made
  none          \* no value: "" to the callers, nil in a reply

ASSUME NoneAssumption == none \notin Items \cup Values
ASSUME InputAssumption ==
  /\ ItemLists \subseteq {s \in SeqOf(Items, Cardinality(Items)) : IsInjective(s)}
  /\ \A m \in ValueMaps : DOMAIN m \subseteq Items /\ Range(m) \subseteq Values
ASSUME WidthAssumption == Width \in Nat /\ Width >= 4 /\ Increments \subseteq Int

MaxLong == Width \div 2 - 1     \* the largest number of the servers

VARIABLES
  data,         \* what the servers hold
  context_,     \* context_[c]: "null" or "live"
  conn,         \* conn[c]: requests and replies on their way on its connection
  late,         \* late[c]: requests left on connections it has dropped
  call,         \* call[c]: the request of the call it is in, and the answers
                \* that are right so far, of which there is always one
  returned,     \* the call that returned in this very step, and its answer
  acked, tried, \* the sum of their amounts, and that of all counting calls
  calls         \* calls so far

vars == <<data, context_, conn, late, call, returned, acked,
          tried, calls>>

NoTraffic == [requests |-> <<>>, replies |-> <<>>]
NoCall == [request |-> none, right |-> {}]
Pending(c) == call[c].right # {}

Init ==
  /\ data \in [number : {0}, expires : {FALSE},
               fields : {[i \in Items |-> v] : v \in Values \cup {none}}]
  /\ context_ \in [Proxies -> {"null", "live"}]    \* the constructor calls init()
  /\ conn = [c \in Proxies |-> NoTraffic]
  /\ late = [c \in Proxies |-> <<>>]
  /\ call = [c \in Proxies |-> NoCall]
  /\ returned = none
  /\ acked = 0 /\ tried = 0
  /\ calls = 0

TypeOK ==
  /\ data.number \in 0..MaxLong /\ data.expires \in BOOLEAN
  /\ data.fields \in [Items -> Values \cup {none}]
  /\ context_ \in [Proxies -> {"null", "live"}]
  /\ DOMAIN conn = Proxies /\ DOMAIN late = Proxies /\ DOMAIN call = Proxies
  /\ {acked, tried} \subseteq Nat /\ calls \in 0..MaxCalls

-----------------------------------------------------------------------------
(* Replies, as hiredis builds them: what a reply of its type does not have *)
(* is zero or empty.  Null is the null pointer.                            *)

Reply(type, integer, str, element) ==
  [type |-> type, integer |-> integer, str |-> str, element |-> element]

Null == Reply("null", 0, none, <<>>)
Error == Reply("error", 0, none, <<>>)
Status == Reply("status", 0, none, <<>>)
Integer(n) == Reply("integer", n, none, <<>>)
String(v) == Reply(IF v = none THEN "nil" ELSE "string", 0, v, <<>>)
Array(s) == Reply("array", 0, none, s)

-----------------------------------------------------------------------------
(* What a request does                                                     *)

Present(d) == {i \in Items : d.fields[i] # none}
OneIf(b) == IF b THEN 1 ELSE 0

Put(d, m) ==
  [d EXCEPT !.fields = [i \in Items |-> IF i \in DOMAIN m THEN m[i] ELSE @[i]]]

(* A hash without items does not exist, and does not expire. *)
Drop(d, s) ==
  [d EXCEPT !.fields = [i \in Items |-> IF i \in s THEN none ELSE @[i]],
            !.expires = @ /\ ~(Present(d) \subseteq s)]

(* The data after request q, and its reply. *)
Execute(q, d) ==
  CASE q.verb = "INCRBY" ->
         IF q.arg <= MaxLong /\ d.number + q.arg <= MaxLong
           THEN <<[d EXCEPT !.number = @ + q.arg], Integer(d.number + q.arg)>>
           ELSE <<d, Error>>
    [] q.verb = "HMSET" -> <<Put(d, q.arg), Status>>
    [] q.verb = "HDEL" ->
         <<Drop(d, q.arg), Integer(Cardinality(q.arg \cap Present(d)))>>
    [] q.verb = "HGET" -> <<d, String(d.fields[q.arg])>>
    [] q.verb = "HEXISTS" -> <<d, Integer(OneIf(q.arg \in Present(d)))>>
    [] q.verb = "EXISTS" -> <<d, Integer(OneIf(Present(d) # {}))>>
    [] q.verb = "HMGET" ->
         <<d, Array([k \in DOMAIN q.arg |-> d.fields[q.arg[k]]])>>
    [] q.verb = "HGETALL" ->
         <<d, Array(FlattenSeq([k \in 1..Cardinality(Present(d)) |->
                LET i == SetToSeq(Present(d))[k] IN <<i, d.fields[i]>>]))>>
    [] q.verb = "SMEMBERS" -> <<d, Array(SetToSeq(Present(d)))>>
    [] q.verb = "SCARD" -> <<d, Integer(Cardinality(Present(d)))>>
    [] q.verb = "EXPIRE" ->
         <<[d EXCEPT !.expires = Present(d) # {}], Integer(OneIf(Present(d) # {}))>>
    [] q.verb = "PERSIST" ->
         <<[d EXCEPT !.expires = FALSE], Integer(OneIf(d.expires))>>

-----------------------------------------------------------------------------
(* What the wrappers make of a reply                                       *)

Replied(r) == r.type # "null"
NotZero(r) == r.integer # 0
Text(r) == IF r.type = "string" THEN r.str ELSE none
Number(r, failed) == IF Replied(r) THEN r.integer ELSE failed

(* retValue[items[i]] = child_reply->str *)
Selected(items, r) ==
  LET hits == {k \in DOMAIN r.element : r.element[k] # none} IN
    [i \in {items[k] : k \in hits} |->
       r.element[CHOOSE k \in hits : items[k] = i]]

(* The elements 2k and 2k + 1 of HGETALL are an item and its value. *)
Half(r) == 1..(Len(r.element) \div 2)
Pairs(r) ==
  [i \in {r.element[2 * k - 1] : k \in Half(r)} |->
     r.element[2 * (CHOOSE k \in Half(r) : r.element[2 * k - 1] = i)]]
Column(r, nPos) == [k \in Half(r) |-> r.element[2 * k - 1 + nPos]]

(* What the caller gets, from reply r or from a null pointer; a container  *)
(* it passes is empty before the call.                                     *)
Result(q, r) ==
  CASE q.as = "bool" -> NotZero(r)
    [] q.as = "done" -> Replied(r)
    [] q.as = "text" -> Text(r)
    [] q.as = "long" -> Number(r, -1)
    [] q.as = "size" -> Number(r, 0)
    [] q.as = "selected" -> <<Replied(r), Selected(q.arg, r)>>
    [] q.as = "pairs" -> <<Replied(r), Pairs(r)>>
    [] q.as = "keys" -> <<Replied(r), Column(r, 0)>>
    [] q.as = "values" -> <<Replied(r), Column(r, 1)>>
    [] q.as = "members" -> <<Replied(r), r.element>>

-----------------------------------------------------------------------------
(* The servers at work                                                     *)

(* The answer to q on data d. *)
Told(q, d) == Result(q, Execute(q, d)[2])

(* The data become d: every call that is being made may be answered so. *)
Update(d) ==
  /\ data' = d
  /\ call' = [c \in Proxies |->
                IF Pending(c)
                  THEN [call[c] EXCEPT !.right = @ \cup {Told(call[c].request, d)}]
                  ELSE call[c]]
  /\ returned' = none

(* The next request on a live connection is executed, or refused. *)
Serve(c) ==
  /\ conn[c].requests # <<>>
  /\ LET q == Head(conn[c].requests) IN
       \E outcome \in {Execute(q, data), <<data, Error>>} :
         /\ Update(outcome[1])
         /\ conn' = [conn EXCEPT ![c].requests = Tail(@),
                                 ![c].replies = Append(@, outcome[2])]
  /\ UNCHANGED <<context_, late, acked, tried, calls>>

(* A request that was left behind is executed, in whatever order, and its  *)
(* reply is lost.                                                          *)
ServeLate(c) ==
  /\ \E k \in DOMAIN late[c] :
       /\ Update(Execute(late[c][k], data)[1])
       /\ late' = [late EXCEPT ![c] = RemoveAt(@, k)]
  /\ UNCHANGED <<context_, conn, acked, tried, calls>>

Expire ==
  /\ data.expires
  /\ Update(Drop(data, Items))
  /\ UNCHANGED <<context_, conn, late, acked, tried, calls>>

-----------------------------------------------------------------------------
(* A call                                                                  *)

Counts(q) == q.verb = "INCRBY" /\ q.arg <= MaxLong

(* A connection is kept, or made; one that cannot be made is freed.        *)
init(c, connects) ==
  /\ connects \/ context_[c] = "null"
  /\ context_' = [context_ EXCEPT ![c] = IF connects THEN "live" ELSE "null"]

(* The request is written, or there is no connection and the call fails.   *)
Ask(c, q) ==
  /\ ~Pending(c)
  /\ calls < MaxCalls /\ calls' = calls + 1
  /\ \/ /\ init(c, TRUE)
        /\ conn' = [conn EXCEPT ![c].requests = Append(@, q)]
        /\ call' = [call EXCEPT ![c] = [request |-> q, right |-> {Told(q, data)}]]
        /\ returned' = none
        /\ tried' = IF Counts(q) THEN tried + q.arg ELSE tried
     \/ /\ init(c, FALSE)
        /\ returned' = [request |-> q, right |-> {}, answer |-> Result(q, Null)]
        /\ UNCHANGED <<conn, call, tried>>
  /\ UNCHANGED <<data, late, acked>>

(* The call of c returns what it makes of r. *)
Answer(c, r) ==
  LET q == call[c].request
      a == Result(q, r) IN
    /\ call' = [call EXCEPT ![c] = NoCall]
    /\ returned' = [request |-> q, right |-> call[c].right, answer |-> a]
    /\ IF Counts(q) /\ a > 0
         THEN acked' = acked + q.arg
         ELSE UNCHANGED acked

(* The library returns a reply. *)
Return(c) ==
  /\ Pending(c)
  /\ conn[c].replies # <<>>
  /\ Answer(c, Head(conn[c].replies))
  /\ conn' = [conn EXCEPT ![c].replies = Tail(@)]
  /\ UNCHANGED <<data, context_, late, tried, calls>>

\* fault: the context is not given up with the call
release_Keep(c) == UNCHANGED <<context_, conn, late>>

(* release() closes the connection.  The first few of the requests on it   *)
(* may still arrive.                                                       *)
release(c) ==
  /\ context_' = [context_ EXCEPT ![c] = "null"]
  /\ conn' = [conn EXCEPT ![c] = NoTraffic]
  /\ \E k \in 0..Len(conn[c].requests) :
       late' = [late EXCEPT ![c] = @ \o SubSeq(conn[c].requests, 1, k)]

\* fault: the request is repeated on a new connection
GiveUp_Retry(c) ==
  /\ Pending(c)
  /\ late' = [late EXCEPT ![c] = @ \o conn[c].requests]
  /\ conn' = [conn EXCEPT ![c] = [requests |-> <<call[c].request>>,
                                  replies |-> <<>>]]
  /\ UNCHANGED <<data, context_, call, returned, acked, tried, calls>>

(* The library returns a null pointer. *)
GiveUp(c) ==
  /\ Pending(c)
  /\ Answer(c, Null)
  /\ release(c)
  /\ UNCHANGED <<data, tried, calls>>

Request(verb, arg, as) == [verb |-> verb, arg |-> arg, as |-> as]

(* "%lu": a negative amount is sent as a large unsigned one. *)
incr(c) == Ask(c, Request("INCRBY", 1, "long"))
incrby(c, value) == Ask(c, Request("INCRBY", value % Width, "long"))

(* Redis answers HMSET with a status, whose integer is 0. *)
hmset(c, valueMap) == Ask(c, Request("HMSET", valueMap, "bool"))
command(c, valueMap) == Ask(c, Request("HMSET", valueMap, "done"))
hdel(c, items) == Ask(c, Request("HDEL", items, "bool"))
(* The number of days decides only when Expire happens.  It is passed as   *)
(* an int for "%lu"; what the server cannot accept it refuses.             *)
expire_day(c) == Ask(c, Request("EXPIRE", none, "bool"))
persist(c) == Ask(c, Request("PERSIST", none, "bool"))

exists(c) == Ask(c, Request("EXISTS", none, "bool"))
hexists(c, item) == Ask(c, Request("HEXISTS", item, "bool"))
hget(c, item) == Ask(c, Request("HGET", item, "text"))
hmget(c, items) == Ask(c, Request("HMGET", items, "selected"))
(* The three overloads: a map, its keys, its values.                       *)
hgetall(c, as) == Ask(c, Request("HGETALL", none, as))
smembers(c) == Ask(c, Request("SMEMBERS", none, "members"))
scard(c) == Ask(c, Request("SCARD", none, "size"))

-----------------------------------------------------------------------------

Write(c) ==
  \/ incr(c)
  \/ \E n \in Increments : incrby(c, n)
  \/ \E m \in ValueMaps : hmset(c, m) \/ command(c, m)
  \/ \E s \in ItemLists : hdel(c, ToSet(s))
  \/ expire_day(c) \/ persist(c)

Read(c) ==
  \/ exists(c) \/ scard(c) \/ smembers(c)
  \/ \E i \in Items : hexists(c, i) \/ hget(c, i)
  \/ \E s \in ItemLists : hmget(c, s)
  \/ \E as \in {"pairs", "keys", "values"} : hgetall(c, as)

Next ==
  \/ \E c \in Proxies :
       \/ Write(c) \/ Read(c)
       \/ Serve(c) \/ ServeLate(c)
       \/ Return(c) \/ GiveUp(c)
  \/ Expire

Spec == Init /\ [][Next]_vars

-----------------------------------------------------------------------------
(* Properties                                                              *)

(* Whatever a call returns, unless it is also what the call returns when   *)
(* it fails or is refused, is the answer to this very call: what it would  *)
(* be told by the servers on data they held during the call.  No reply to  *)
(* an earlier call, that was given up, is ever taken for it.               *)
AnswersAreCurrent ==
  returned # none =>
    returned.answer \in returned.right
      \cup {Result(returned.request, r) : r \in {Null, Error}}

(* A counting call counts at most once, and once when it says so: also a   *)
(* call that was given up, whose request may be executed much later.       *)
CountedAtMostOnce == acked <= data.number /\ data.number <= tried

=============================================================================
