------------------------- MODULE RedisProxyConnProofs -------------------------
(* What the callers of RedisProxyConn can rely on, proved for every set of  *)
(* proxies, items and values, every number of calls and every width of      *)
(* numbers.                                                                  *)
EXTENDS RedisProxyConn, SequenceTheorems, TLAPS

(* The requests the calls of the class make. *)
Requests ==
  [verb : {"INCRBY"}, arg : Nat, as : {"long"}]
    \cup [verb : {"HMSET"}, arg : ValueMaps, as : {"bool", "done"}]
    \cup [verb : {"HDEL"}, arg : SUBSET Items, as : {"bool"}]
    \cup [verb : {"HEXISTS", "HGET"}, arg : Items, as : {"bool", "text"}]
    \cup [verb : {"HMGET"}, arg : ItemLists, as : {"selected"}]
    \cup [verb : {"EXPIRE", "PERSIST", "EXISTS", "HGETALL", "SMEMBERS", "SCARD"},
          arg : {none},
          as : {"bool", "pairs", "keys", "values", "members", "size"}]

(* A list of items is a sequence of items. *)
LEMMA ListsAreItems ==
  ASSUME NEW s \in ItemLists
  PROVE  ToSet(s) \subseteq Items
<1>1. s \in SeqOf(Items, Cardinality(Items))
  BY InputAssumption
<1>2. PICK n \in 0..Cardinality(Items) : s \in [1..n -> Items]
  BY <1>1 DEF SeqOf
<1>3. QED
  BY <1>2 DEF ToSet

(* Every call asks for one of them. *)
LEMMA WhatIsAsked ==
  ASSUME NEW c, Write(c) \/ Read(c)
  PROVE  \E q \in Requests : Ask(c, q)
<1>1. CASE incr(c)
  <2>1. Request("INCRBY", 1, "long") \in Requests
    BY DEF Request, Requests
  <2>2. QED
    BY <1>1, <2>1 DEF incr
<1>2. ASSUME NEW n \in Increments, incrby(c, n)
      PROVE  \E q \in Requests : Ask(c, q)
  <2>1. n % Width \in Nat
    BY WidthAssumption
  <2>2. Request("INCRBY", n % Width, "long") \in Requests
    BY <2>1 DEF Request, Requests
  <2>3. QED
    BY <1>2, <2>2 DEF incrby
<1>3. ASSUME NEW m \in ValueMaps, hmset(c, m) \/ command(c, m)
      PROVE  \E q \in Requests : Ask(c, q)
  <2>1. /\ Request("HMSET", m, "bool") \in Requests
        /\ Request("HMSET", m, "done") \in Requests
    BY DEF Request, Requests
  <2>2. QED
    BY <1>3, <2>1 DEF hmset, command
<1>4. ASSUME NEW s \in ItemLists, hdel(c, ToSet(s))
      PROVE  \E q \in Requests : Ask(c, q)
  <2>1. ToSet(s) \in SUBSET Items
    BY ListsAreItems
  <2>2. Request("HDEL", ToSet(s), "bool") \in Requests
    BY <2>1 DEF Request, Requests
  <2>3. QED
    BY <1>4, <2>2 DEF hdel
<1>5. CASE expire_day(c) \/ persist(c) \/ exists(c) \/ scard(c) \/ smembers(c)
  <2>1. /\ Request("EXPIRE", none, "bool") \in Requests
        /\ Request("PERSIST", none, "bool") \in Requests
        /\ Request("EXISTS", none, "bool") \in Requests
        /\ Request("SCARD", none, "size") \in Requests
        /\ Request("SMEMBERS", none, "members") \in Requests
    BY DEF Request, Requests
  <2>2. QED
    BY <1>5, <2>1 DEF expire_day, persist, exists, scard, smembers
<1>6. ASSUME NEW i \in Items, hexists(c, i) \/ hget(c, i)
      PROVE  \E q \in Requests : Ask(c, q)
  <2>1. /\ Request("HEXISTS", i, "bool") \in Requests
        /\ Request("HGET", i, "text") \in Requests
    BY DEF Request, Requests
  <2>2. QED
    BY <1>6, <2>1 DEF hexists, hget
<1>7. ASSUME NEW s \in ItemLists, hmget(c, s)
      PROVE  \E q \in Requests : Ask(c, q)
  <2>1. Request("HMGET", s, "selected") \in Requests
    BY DEF Request, Requests
  <2>2. QED
    BY <1>7, <2>1 DEF hmget
<1>8. ASSUME NEW as \in {"pairs", "keys", "values"}, hgetall(c, as)
      PROVE  \E q \in Requests : Ask(c, q)
  <2>1. Request("HGETALL", none, as) \in Requests
    BY DEF Request, Requests
  <2>2. QED
    BY <1>8, <2>1 DEF hgetall
<1>9. QED
  BY <1>1, <1>2, <1>3, <1>4, <1>5, <1>6, <1>7, <1>8 DEF Write, Read

-----------------------------------------------------------------------------
(* One request at a time                                                   *)

(* Call cl asks q, its answers right so far include the one the data d     *)
(* give, and connection cn holds its request or its reply and nothing else.*)
Asking(cl, cn, d, q, right) ==
  /\ cl = [request |-> q, right |-> right]
  /\ Told(q, d) \in right
  /\ \/ cn = [requests |-> <<q>>, replies |-> <<>>]
     \/ \E r : /\ cn = [requests |-> <<>>, replies |-> <<r>>]
               /\ Result(q, r) \in right \cup {Result(q, Error)}

(* What is on the way on a connection belongs to the call that is made. *)
InFlight(cl, cn, d) ==
  \/ cl = NoCall /\ cn = NoTraffic
  \/ \E q \in Requests : \E right : Asking(cl, cn, d, q, right)

OneAtATime ==
  /\ DOMAIN call = Proxies /\ DOMAIN conn = Proxies
  /\ \A c \in Proxies : InFlight(call[c], conn[c], data)


(* In the call of c that is made, q is asked for. *)
LEMMA ItIsAsked ==
  ASSUME OneAtATime, NEW c \in Proxies, Pending(c)
  PROVE  \E q \in Requests : \E right : Asking(call[c], conn[c], data, q, right)
BY DEF OneAtATime, InFlight, Pending, NoCall

(* What the servers do for one call is right for the others. *)
LEMMA OthersAreTold ==
  ASSUME NEW cl, NEW cn, NEW d, InFlight(cl, cn, d), NEW e,
         NEW cl2,
         cl2 = IF cl.right # {}
                 THEN [cl EXCEPT !.right = @ \cup {Told(cl.request, e)}]
                 ELSE cl
  PROVE  InFlight(cl2, cn, e)
<1>1. CASE cl = NoCall /\ cn = NoTraffic
  BY <1>1 DEF NoCall, InFlight
<1>2. ASSUME NEW q \in Requests, NEW right, Asking(cl, cn, d, q, right)
      PROVE  InFlight(cl2, cn, e)
  <2> DEFINE more == right \cup {Told(q, e)}
  <2>1. cl = [request |-> q, right |-> right] /\ right # {}
    BY <1>2 DEF Asking
  <2>2. cl2 = [request |-> q, right |-> more]
    BY <2>1
  <2>3. Asking(cl2, cn, e, q, more)
    BY <1>2, <2>2 DEF Asking
  <2>4. QED
    BY <2>3 DEF InFlight
<1>3. QED
  BY <1>1, <1>2 DEF InFlight

(* A step of the servers that leaves the connections alone. *)
LEMMA UpdateKeeps ==
  ASSUME OneAtATime, NEW d, Update(d), conn' = conn
  PROVE  OneAtATime' /\ AnswersAreCurrent'
<1>1. DOMAIN call' = Proxies /\ DOMAIN conn' = Proxies
  BY DEF OneAtATime, Update
<1>2. ASSUME NEW c \in Proxies PROVE InFlight(call'[c], conn'[c], data')
  <2>1. InFlight(call[c], conn[c], data)
    BY DEF OneAtATime
  <2>2. call'[c] = IF call[c].right # {}
                     THEN [call[c] EXCEPT !.right = @ \cup {Told(call[c].request, d)}]
                     ELSE call[c]
    BY DEF Update, Pending
  <2>3. InFlight(call'[c], conn[c], d)
    BY <2>1, <2>2, OthersAreTold
  <2>4. QED
    BY <2>3 DEF Update
<1>3. QED
  BY <1>1, <1>2 DEF OneAtATime, AnswersAreCurrent, Update

(* A request that is served leaves its reply on the connection. *)
LEMMA ServeKeeps ==
  ASSUME OneAtATime, NEW c \in Proxies, Serve(c)
  PROVE  OneAtATime' /\ AnswersAreCurrent'
<1> DEFINE q0 == Head(conn[c].requests)
<1>1. PICK outcome \in {Execute(q0, data), <<data, Error>>} :
        /\ Update(outcome[1])
        /\ conn' = [conn EXCEPT ![c].requests = Tail(@),
                                ![c].replies = Append(@, outcome[2])]
  BY DEF Serve
<1> DEFINE d == outcome[1]
<1> DEFINE r == outcome[2]
<1>2. DOMAIN call' = Proxies /\ DOMAIN conn' = Proxies
  BY <1>1 DEF OneAtATime, Update
<1>3. ASSUME NEW p \in Proxies PROVE InFlight(call'[p], conn'[p], data')
  <2>1. InFlight(call[p], conn[p], data)
    BY DEF OneAtATime
  <2>2. call'[p] = IF call[p].right # {}
                     THEN [call[p] EXCEPT !.right = @ \cup {Told(call[p].request, d)}]
                     ELSE call[p]
    BY <1>1 DEF Update, Pending
  <2>3. data' = d
    BY <1>1 DEF Update
  <2>4. CASE p # c
    <3>1. conn'[p] = conn[p]
      BY <1>1, <2>4 DEF OneAtATime
    <3>2. InFlight(call'[p], conn[p], d)
      BY <2>1, <2>2, OthersAreTold
    <3>3. QED
      BY <3>1, <3>2, <2>3
  <2>5. CASE p = c
    <3>1. conn[c].requests # <<>>
      BY DEF Serve
    <3>2. PICK q \in Requests : \E right : Asking(call[c], conn[c], data, q, right)
      BY <2>1, <2>5, <3>1 DEF InFlight, NoTraffic
    <3>3. PICK right : Asking(call[c], conn[c], data, q, right)
      BY <3>2
    <3>4. /\ call[c] = [request |-> q, right |-> right]
          /\ Told(q, data) \in right
          /\ conn[c] = [requests |-> <<q>>, replies |-> <<>>]
      <4>1. call[c] = [request |-> q, right |-> right] /\ Told(q, data) \in right
        BY <3>3 DEF Asking
      <4>2. ASSUME NEW x, conn[c] = [requests |-> <<>>, replies |-> <<x>>]
            PROVE  FALSE
        <5>1. conn[c].requests = <<>>
          BY ONLY <4>2
        <5>2. QED
          BY <3>1, <5>1
      <4>3. conn[c] = [requests |-> <<q>>, replies |-> <<>>]
        BY <3>3, <4>2, Zenon DEF Asking
      <4>4. QED
        BY <4>1, <4>3
    <3>5. q0 = q /\ Tail(conn[c].requests) = <<>> /\ Append(conn[c].replies, r) = <<r>>
      BY <3>4
    <3> DEFINE more == right \cup {Told(q, d)}
    <3>6. call'[c] = [request |-> q, right |-> more]
      <4>1. call[c] = [request |-> q, right |-> right] /\ right # {}
        BY <3>4
      <4>2. call'[c] = [call[c] EXCEPT !.right = @ \cup {Told(call[c].request, d)}]
        BY <2>2, <2>5, <4>1
      <4>3. QED
        BY ONLY <4>1, <4>2
    <3>7. conn'[c] = [requests |-> <<>>, replies |-> <<r>>]
      BY <1>1, <3>4, <3>5 DEF OneAtATime
    <3>8. r = Execute(q, data)[2] \/ r = Error
      BY <1>1, <3>5
    <3>9. Result(q, r) \in more \cup {Result(q, Error)}
      BY <3>4, <3>8 DEF Told
    <3>10. Asking(call'[c], conn'[c], d, q, more)
      BY <3>6, <3>7, <3>9 DEF Asking
    <3>11. InFlight(call'[c], conn'[c], d)
      BY <3>10 DEF InFlight
    <3>12. QED
      BY <2>3, <2>5, <3>11
  <2>6. QED
    BY <2>4, <2>5
<1>4. returned' = none
  BY <1>1 DEF Update
<1>5. QED
  BY <1>2, <1>3, <1>4 DEF OneAtATime, AnswersAreCurrent

(* A call that is asked for has the connection for itself. *)
LEMMA AskKeeps ==
  ASSUME OneAtATime, NEW c \in Proxies, NEW q \in Requests, Ask(c, q)
  PROVE  OneAtATime' /\ AnswersAreCurrent'
<1>1. data' = data
  BY DEF Ask
<1>2. CASE /\ init(c, FALSE)
           /\ returned' = [request |-> q, right |-> {}, answer |-> Result(q, Null)]
           /\ UNCHANGED <<conn, call, tried>>
  BY <1>1, <1>2 DEF OneAtATime, AnswersAreCurrent
<1>3. CASE /\ conn' = [conn EXCEPT ![c].requests = Append(@, q)]
           /\ call' = [call EXCEPT ![c] = [request |-> q, right |-> {Told(q, data)}]]
           /\ returned' = none
  <2>1. call[c] = NoCall /\ conn[c] = NoTraffic
    <3>1. ~Pending(c) /\ InFlight(call[c], conn[c], data)
      BY DEF Ask, OneAtATime
    <3>2. ASSUME NEW x \in Requests, NEW right, Asking(call[c], conn[c], data, x, right)
          PROVE  FALSE
      <4>1. call[c].right # {}
        BY <3>2 DEF Asking
      <4>2. QED
        BY <3>1, <4>1 DEF Pending
    <3>3. QED
      BY <3>1, <3>2, Zenon DEF InFlight
  <2>2. conn'[c] = [requests |-> <<q>>, replies |-> <<>>]
    BY <1>3, <2>1 DEF OneAtATime, NoTraffic
  <2>3. call'[c] = [request |-> q, right |-> {Told(q, data)}]
    BY <1>3 DEF OneAtATime
  <2>4. Asking(call'[c], conn'[c], data, q, {Told(q, data)})
    BY <2>2, <2>3 DEF Asking
  <2>5. InFlight(call'[c], conn'[c], data')
    BY <1>1, <2>4 DEF InFlight
  <2>6. \A p \in Proxies \ {c} : call'[p] = call[p] /\ conn'[p] = conn[p]
    BY <1>3 DEF OneAtATime
  <2>7. DOMAIN call' = Proxies /\ DOMAIN conn' = Proxies
    BY <1>3 DEF OneAtATime
  <2>8. \A p \in Proxies : InFlight(call'[p], conn'[p], data')
    BY <1>1, <2>5, <2>6 DEF OneAtATime
  <2>9. QED
    BY <1>3, <2>7, <2>8 DEF OneAtATime, AnswersAreCurrent
<1>4. QED
  BY <1>2, <1>3 DEF Ask

(* A call that returns leaves nothing on the connection. *)
LEMMA NothingIsLeft ==
  ASSUME OneAtATime, NEW c \in Proxies, NEW r, Answer(c, r), data' = data,
         conn' = [conn EXCEPT ![c] = NoTraffic]
  PROVE  OneAtATime'
<1>1. call' = [call EXCEPT ![c] = NoCall]
  BY DEF Answer
<1>2. call'[c] = NoCall /\ conn'[c] = NoTraffic
  BY <1>1 DEF OneAtATime
<1>3. InFlight(call'[c], conn'[c], data')
  BY <1>2 DEF InFlight
<1>4. \A p \in Proxies \ {c} : call'[p] = call[p] /\ conn'[p] = conn[p]
  BY <1>1 DEF OneAtATime
<1>5. DOMAIN call' = Proxies /\ DOMAIN conn' = Proxies
  BY <1>1 DEF OneAtATime
<1>6. \A p \in Proxies : InFlight(call'[p], conn'[p], data')
  BY <1>3, <1>4 DEF OneAtATime
<1>7. QED
  BY <1>5, <1>6 DEF OneAtATime

(* The reply that is returned is the one to this very call. *)
LEMMA ReturnKeeps ==
  ASSUME OneAtATime, NEW c \in Proxies, Return(c)
  PROVE  /\ OneAtATime' /\ AnswersAreCurrent'
         /\ conn' = [conn EXCEPT ![c] = NoTraffic]
<1>1. PICK q \in Requests : \E right : Asking(call[c], conn[c], data, q, right)
  BY ItIsAsked DEF Return
<1>2. PICK right : Asking(call[c], conn[c], data, q, right)
  BY <1>1
<1>3. PICK r : /\ conn[c] = [requests |-> <<>>, replies |-> <<r>>]
               /\ Result(q, r) \in right \cup {Result(q, Error)}
  <2>1. conn[c].replies # <<>>
    BY DEF Return
  <2>2. ASSUME conn[c] = [requests |-> <<q>>, replies |-> <<>>] PROVE FALSE
    <3>1. conn[c].replies = <<>>
      BY ONLY <2>2
    <3>2. QED
      BY <2>1, <3>1
  <2>3. QED
    BY <1>2, <2>2, Zenon DEF Asking
<1>4. Head(conn[c].replies) = r /\ Tail(conn[c].replies) = <<>>
  BY <1>3
<1>5. Answer(c, r) /\ data' = data
  BY <1>4 DEF Return
<1>6. [conn[c] EXCEPT !.replies = <<>>] = NoTraffic
  BY <1>3 DEF NoTraffic
<1>7. conn' = [conn EXCEPT ![c] = NoTraffic]
  BY <1>4, <1>6 DEF Return
<1>8. OneAtATime'
  BY <1>5, <1>7, NothingIsLeft
<1>9. returned' = [request |-> q, right |-> right, answer |-> Result(q, r)]
  BY <1>2, <1>5 DEF Answer, Asking
<1>10. AnswersAreCurrent'
  BY <1>3, <1>9 DEF AnswersAreCurrent
<1>11. QED
  BY <1>7, <1>8, <1>10

(* A call that is given up takes its connection with it. *)
LEMMA GiveUpKeeps ==
  ASSUME OneAtATime, NEW c \in Proxies, GiveUp(c)
  PROVE  OneAtATime' /\ AnswersAreCurrent'
<1>1. Answer(c, Null) /\ data' = data /\ conn' = [conn EXCEPT ![c] = NoTraffic]
  BY DEF GiveUp, release
<1>2. OneAtATime'
  BY <1>1, NothingIsLeft
<1>3. returned' = [request |-> call[c].request, right |-> call[c].right,
                   answer |-> Result(call[c].request, Null)]
  BY <1>1 DEF Answer
<1>4. AnswersAreCurrent'
  BY <1>3 DEF AnswersAreCurrent
<1>5. QED
  BY <1>2, <1>4

LEMMA EveryStepKeepsCalls ==
  ASSUME OneAtATime, AnswersAreCurrent, [Next]_vars
  PROVE  OneAtATime' /\ AnswersAreCurrent'
<1>1. ASSUME NEW c \in Proxies, Write(c) \/ Read(c)
      PROVE  OneAtATime' /\ AnswersAreCurrent'
  BY <1>1, WhatIsAsked, AskKeeps
<1>2. ASSUME NEW c \in Proxies, ServeLate(c)
      PROVE  OneAtATime' /\ AnswersAreCurrent'
  BY <1>2, UpdateKeeps DEF ServeLate
<1>3. ASSUME Expire PROVE OneAtATime' /\ AnswersAreCurrent'
  BY <1>3, UpdateKeeps DEF Expire
<1>4. CASE UNCHANGED vars
  BY <1>4 DEF vars, OneAtATime, AnswersAreCurrent
<1>5. QED
  BY <1>1, <1>2, <1>3, <1>4, ServeKeeps, ReturnKeeps, GiveUpKeeps DEF Next

LEMMA CallsAtFirst == Init => OneAtATime /\ AnswersAreCurrent
BY DEF Init, OneAtATime, InFlight, AnswersAreCurrent

(* Whatever a call returns, unless it is also what the call returns when it *)
(* fails or is refused, is the answer to this very call: a connection never *)
(* holds anything but the request, or the reply, of the call that is made   *)
(* on it, because release() drops it with every call that is given up.      *)
THEOREM EveryAnswerIsCurrent == Spec => []AnswersAreCurrent
<1>1. Init => OneAtATime /\ AnswersAreCurrent
  BY CallsAtFirst
<1>2. OneAtATime /\ AnswersAreCurrent /\ [Next]_vars => OneAtATime' /\ AnswersAreCurrent'
  BY EveryStepKeepsCalls
<1>3. QED
  BY <1>1, <1>2, PTL DEF Spec

-----------------------------------------------------------------------------
(* Accounts.  What the counter may still grow by is written down in a book  *)
(* with one entry for each call: book[i] is a balance, lo before the first  *)
(* entry and hi after the last, and Entry(book, i) what entry i holds.      *)

Entry(book, i) == book[i] - book[i - 1]

IsBook(book, n, lo, hi) ==
  /\ book \in [0..n -> Int]
  /\ book[0] = lo /\ book[n] = hi
  /\ \A i, j \in 0..n : i <= j => book[i] <= book[j]

(* A new entry is added at the end. *)
LEMMA NewEntry ==
  ASSUME NEW n \in Nat, NEW lo \in Int, NEW hi \in Int, NEW b, IsBook(b, n, lo, hi),
         NEW a \in Nat
  PROVE  \E b2 : /\ IsBook(b2, n + 1, lo, hi + a)
                 /\ \A i \in 1..n : Entry(b2, i) = Entry(b, i)
                 /\ Entry(b2, n + 1) = a
<1> DEFINE b2 == [i \in 0..(n + 1) |-> IF i = n + 1 THEN hi + a ELSE b[i]]
<1>1. b2 \in [0..(n + 1) -> Int]
  BY DEF IsBook
<1>2. \A i \in 0..n : b2[i] = b[i]
  OBVIOUS
<1>3. b2[n + 1] = hi + a
  OBVIOUS
<1>4. \A i, j \in 0..(n + 1) : i <= j => b2[i] <= b2[j]
  <2> SUFFICES ASSUME NEW i \in 0..(n + 1), NEW j \in 0..(n + 1), i <= j
               PROVE  b2[i] <= b2[j]
    OBVIOUS
  <2>1. b \in [0..n -> Int] /\ b[n] = hi
        /\ \A k, m \in 0..n : k <= m => b[k] <= b[m]
    BY DEF IsBook
  <2>2. CASE j = n + 1 /\ i # n + 1
    <3>1. i \in 0..n /\ n \in 0..n
      BY <2>2
    <3>2. b[i] <= b[n] /\ b[i] \in Int
      BY <2>1, <3>1
    <3>3. QED
      BY <1>2, <1>3, <2>1, <2>2, <3>1, <3>2
  <2>3. CASE j = n + 1 /\ i = n + 1
    BY <1>3, <2>3
  <2>4. CASE j # n + 1
    <3>1. i \in 0..n /\ j \in 0..n
      BY <2>4
    <3>2. QED
      BY <1>2, <2>1, <3>1
  <2>5. QED
    BY <2>2, <2>3, <2>4
<1>5. b2[0] = lo
  BY <1>2 DEF IsBook
<1>6. \A i \in 1..n : Entry(b2, i) = Entry(b, i)
  BY <1>2 DEF Entry
<1>7. Entry(b2, n + 1) = a
  <2>1. b2[n] = hi
    BY <1>2 DEF IsBook
  <2>2. (n + 1) - 1 = n
    OBVIOUS
  <2>3. QED
    BY <1>3, <2>1, <2>2 DEF Entry
<1> HIDE DEF b2
<1>8. IsBook(b2, n + 1, lo, hi + a)
  BY <1>1, <1>3, <1>4, <1>5 DEF IsBook
<1>9. QED
  BY <1>6, <1>7, <1>8

(* An entry is spent: the first balance grows by what it loses. *)
LEMMA Spend ==
  ASSUME NEW n \in Nat, NEW lo \in Int, NEW hi \in Int, NEW b, IsBook(b, n, lo, hi),
         NEW i \in 1..n, NEW a \in Nat, a <= Entry(b, i)
  PROVE  \E b2 : /\ IsBook(b2, n, lo + a, hi)
                 /\ \A j \in 1..n : j # i => Entry(b2, j) = Entry(b, j)
<1> DEFINE b2 == [j \in 0..n |-> IF j < i THEN b[j] + a ELSE b[j]]
<1>1. b \in [0..n -> Int] /\ b[0] = lo /\ b[n] = hi
      /\ \A k, m \in 0..n : k <= m => b[k] <= b[m]
  BY DEF IsBook
<1>2. b2 \in [0..n -> Int] /\ b2[0] = lo + a /\ b2[n] = hi
  BY <1>1
<1>3. \A k, m \in 0..n : k <= m => b2[k] <= b2[m]
  <2> SUFFICES ASSUME NEW k \in 0..n, NEW m \in 0..n, k <= m PROVE b2[k] <= b2[m]
    OBVIOUS
  <2>1. b[k] <= b[m] /\ b[k] \in Int /\ b[m] \in Int
    BY <1>1
  <2>2. CASE k < i /\ ~(m < i)
    <3>1. i \in 0..n /\ i - 1 \in 0..n
      OBVIOUS
    <3>2. b[k] <= b[i - 1] /\ b[i] <= b[m] /\ b[i] \in Int /\ b[i - 1] \in Int
      BY <1>1, <2>2, <3>1
    <3>3. b[i - 1] + a <= b[i]
      BY <3>2 DEF Entry
    <3>4. b2[k] = b[k] + a /\ b2[m] = b[m]
      BY <2>2
    <3>5. QED
      BY <2>1, <3>2, <3>3, <3>4
  <2>3. CASE ~(k < i /\ ~(m < i))
    BY <2>1, <2>3
  <2>4. QED
    BY <2>2, <2>3
<1>4. \A j \in 1..n : j # i => Entry(b2, j) = Entry(b, j)
  <2> SUFFICES ASSUME NEW j \in 1..n, j # i PROVE Entry(b2, j) = Entry(b, j)
    OBVIOUS
  <2>1. j \in 0..n /\ j - 1 \in 0..n /\ (j < i <=> j - 1 < i)
    OBVIOUS
  <2>2. b[j] \in Int /\ b[j - 1] \in Int
    BY <1>1, <2>1
  <2>3. QED
    BY <2>1, <2>2 DEF Entry
<1> HIDE DEF b2
<1>5. IsBook(b2, n, lo + a, hi)
  BY <1>2, <1>3 DEF IsBook
<1>6. QED
  BY <1>4, <1>5

(* An entry is filled up: the last balance grows by what it gains. *)
LEMMA Fill ==
  ASSUME NEW n \in Nat, NEW lo \in Int, NEW hi \in Int, NEW b, IsBook(b, n, lo, hi),
         NEW i \in 1..n, NEW a \in Nat
  PROVE  \E b2 : /\ IsBook(b2, n, lo, hi + a)
                 /\ \A j \in 1..n : j # i => Entry(b2, j) = Entry(b, j)
                 /\ a <= Entry(b2, i)
<1> DEFINE b2 == [j \in 0..n |-> IF j < i THEN b[j] ELSE b[j] + a]
<1>1. b \in [0..n -> Int] /\ b[0] = lo /\ b[n] = hi
      /\ \A k, m \in 0..n : k <= m => b[k] <= b[m]
  BY DEF IsBook
<1>2. b2 \in [0..n -> Int] /\ b2[0] = lo /\ b2[n] = hi + a
  BY <1>1
<1>3. \A k, m \in 0..n : k <= m => b2[k] <= b2[m]
  <2> SUFFICES ASSUME NEW k \in 0..n, NEW m \in 0..n, k <= m PROVE b2[k] <= b2[m]
    OBVIOUS
  <2>1. b[k] <= b[m] /\ b[k] \in Int /\ b[m] \in Int
    BY <1>1
  <2>2. QED
    BY <2>1
<1>4. \A j \in 1..n : j # i => Entry(b2, j) = Entry(b, j)
  <2> SUFFICES ASSUME NEW j \in 1..n, j # i PROVE Entry(b2, j) = Entry(b, j)
    OBVIOUS
  <2>1. j \in 0..n /\ j - 1 \in 0..n /\ (j < i <=> j - 1 < i)
    OBVIOUS
  <2>2. b[j] \in Int /\ b[j - 1] \in Int
    BY <1>1, <2>1
  <2>3. QED
    BY <2>1, <2>2 DEF Entry
<1>5. a <= Entry(b2, i)
  <2>1. i \in 0..n /\ i - 1 \in 0..n
    OBVIOUS
  <2>2. b[i - 1] <= b[i] /\ b[i] \in Int /\ b[i - 1] \in Int
    BY <1>1, <2>1
  <2>3. b2[i] = b[i] + a /\ b2[i - 1] = b[i - 1]
    BY <2>1
  <2>4. QED
    BY <2>2, <2>3 DEF Entry
<1> HIDE DEF b2
<1>6. IsBook(b2, n, lo, hi + a)
  BY <1>2, <1>3 DEF IsBook
<1>7. QED
  BY <1>4, <1>5, <1>6

(* No entry is negative. *)
LEMMA EntriesArePositive ==
  ASSUME NEW n \in Nat, NEW lo \in Int, NEW hi \in Int, NEW b, IsBook(b, n, lo, hi)
  PROVE  lo <= hi /\ \A i \in 1..n : Entry(b, i) \in Nat
<1>1. b \in [0..n -> Int] /\ b[0] = lo /\ b[n] = hi
      /\ \A k, m \in 0..n : k <= m => b[k] <= b[m]
  BY DEF IsBook
<1>2. lo <= hi
  BY <1>1
<1>3. ASSUME NEW i \in 1..n PROVE Entry(b, i) \in Nat
  <2>1. i \in 0..n /\ i - 1 \in 0..n
    OBVIOUS
  <2>2. b[i - 1] <= b[i] /\ b[i] \in Int /\ b[i - 1] \in Int
    BY <1>1, <2>1
  <2>3. QED
    BY <2>2 DEF Entry
<1>4. QED
  BY <1>2, <1>3

-----------------------------------------------------------------------------
(* What requests add to the counter, and replies to what is acknowledged    *)

Amount(q) == IF Counts(q) THEN q.arg ELSE 0
Earned(q, a) == IF Counts(q) /\ a > 0 THEN q.arg ELSE 0

LEMMA AmountIsPositive ==
  ASSUME NEW q \in Requests
  PROVE  Amount(q) \in Nat
BY DEF Amount, Counts, Requests

(* A reply that is a number acknowledges at most what was asked for. *)
LEMMA EarnedIsBounded ==
  ASSUME NEW q \in Requests, NEW a
  PROVE  Earned(q, a) \in Nat /\ Earned(q, a) <= Amount(q)
BY AmountIsPositive DEF Amount, Earned

(* A counting call that fails or is refused acknowledges nothing. *)
LEMMA FailuresEarnNothing ==
  ASSUME NEW q \in Requests
  PROVE  Earned(q, Result(q, Null)) = 0 /\ Earned(q, Result(q, Error)) = 0
<1>1. CASE Counts(q)
  <2>1. q.as = "long"
    BY <1>1 DEF Counts, Requests
  <2>2. Result(q, Null) = Number(Null, -1) /\ Result(q, Error) = Number(Error, -1)
    BY <2>1 DEF Result
  <2>3. Number(Null, -1) = -1 /\ Number(Error, -1) = 0
    BY DEF Number, Replied, Null, Error, Reply
  <2>4. QED
    BY <2>2, <2>3 DEF Earned
<1>2. CASE ~Counts(q)
  BY <1>2 DEF Earned
<1>3. QED
  BY <1>1, <1>2

(* A request adds its amount to the counter, or nothing. *)
LEMMA WhatIsCounted ==
  ASSUME NEW q \in Requests, NEW d, "number" \in DOMAIN d, d.number \in Nat
  PROVE  LET e == Execute(q, d)[1] IN
           /\ "number" \in DOMAIN e
           /\ \/ e.number = d.number + Amount(q)
              \/ /\ e.number = d.number
                 /\ Earned(q, Result(q, Execute(q, d)[2])) = 0
<1> DEFINE e == Execute(q, d)[1]
<1>1. CASE q.verb = "INCRBY"
  <2>1. Execute(q, d) = IF q.arg <= MaxLong /\ d.number + q.arg <= MaxLong
                          THEN <<[d EXCEPT !.number = @ + q.arg], Integer(d.number + q.arg)>>
                          ELSE <<d, Error>>
    BY <1>1 DEF Execute
  <2>2. CASE q.arg <= MaxLong /\ d.number + q.arg <= MaxLong
    <3>1. e = [d EXCEPT !.number = @ + q.arg]
      BY <2>1, <2>2
    <3>2. "number" \in DOMAIN e /\ e.number = d.number + q.arg
      BY <3>1
    <3>3. Amount(q) = q.arg
      BY <1>1, <2>2 DEF Amount, Counts
    <3>4. QED
      BY <3>2, <3>3
  <2>3. CASE ~(q.arg <= MaxLong /\ d.number + q.arg <= MaxLong)
    <3>1. Execute(q, d) = <<d, Error>>
      BY <2>1, <2>3
    <3>2. e = d /\ Execute(q, d)[2] = Error
      BY <3>1
    <3>3. QED
      BY <3>2, FailuresEarnNothing
  <2>4. QED
    BY <2>2, <2>3
<1>2. CASE q.verb # "INCRBY"
  <2>1. ~Counts(q)
    BY <1>2 DEF Counts
  <2>2. \A a : Earned(q, a) = 0
    BY <2>1 DEF Earned
  <2>3. "number" \in DOMAIN e /\ e.number = d.number
    <3>1. CASE q.verb = "HMSET"
      <4>1. e = Put(d, q.arg)
        BY <3>1 DEF Execute
      <4>2. QED
        BY <4>1 DEF Put
    <3>2. CASE q.verb = "HDEL"
      <4>1. e = Drop(d, q.arg)
        BY <3>2 DEF Execute
      <4>2. QED
        BY <4>1 DEF Drop
    <3>3. CASE q.verb = "HEXISTS" \/ q.verb = "HGET" \/ q.verb = "HMGET"
      <4>1. e = d
        BY <3>3 DEF Execute
      <4>2. QED
        BY <4>1
    <3>4. CASE q.verb = "EXISTS" \/ q.verb = "HGETALL" \/ q.verb = "SMEMBERS"
               \/ q.verb = "SCARD"
      <4>1. e = d
        BY <3>4 DEF Execute
      <4>2. QED
        BY <4>1
    <3>5. CASE q.verb = "EXPIRE"
      <4>1. e = [d EXCEPT !.expires = Present(d) # {}]
        BY <3>5 DEF Execute
      <4>2. QED
        BY <4>1
    <3>6. CASE q.verb = "PERSIST"
      <4>1. e = [d EXCEPT !.expires = FALSE]
        BY <3>6 DEF Execute
      <4>2. QED
        BY <4>1
    <3>7. QED
      BY <1>2, <3>1, <3>2, <3>3, <3>4, <3>5, <3>6 DEF Requests
  <2>4. QED
    BY <2>2, <2>3
<1>3. QED
  BY <1>1, <1>2

-----------------------------------------------------------------------------
(* The invariant of the counter: there are two books with an entry for      *)
(* each call.  The first leads from the counter to what was tried, the      *)
(* second from what is acknowledged to no more than the counter.  Request   *)
(* k of those left behind by c, and the call that c makes (k = 0), own an   *)
(* entry: owner[i] = <<c, k>>.  What the request may still add is in the    *)
(* first book, what the reply may still acknowledge is in the second.       *)

CallIsBooked(c, cl, cn, n, open, due, owner) ==
  cl.right # {} =>
    \E i \in 1..n :
      /\ owner[i] = <<c, 0>>
      /\ cn.requests # <<>> => Amount(cl.request) <= Entry(open, i)
      /\ cn.replies # <<>> =>
           Earned(cl.request, Result(cl.request, Head(cn.replies))) <= Entry(due, i)

LateAreBooked(c, lt, n, open, owner) ==
  \A k \in 1..Len(lt) : \E i \in 1..n :
    owner[i] = <<c, k>> /\ Amount(lt[k]) <= Entry(open, i)

Booked(open, due, owner, hi) ==
  /\ IsBook(open, calls, data.number, tried)
  /\ IsBook(due, calls, acked, hi) /\ hi <= data.number
  /\ \A c \in Proxies :
       /\ CallIsBooked(c, call[c], conn[c], calls, open, due, owner)
       /\ LateAreBooked(c, late[c], calls, open, owner)

Counted ==
  /\ late \in [Proxies -> Seq(Requests)]
  /\ "number" \in DOMAIN data /\ data.number \in Nat
  /\ calls \in Nat /\ acked \in Int /\ tried \in Int
  /\ \E open, due, owner : \E hi \in Int : Booked(open, due, owner, hi)

(* What the books promise implies the property. *)
LEMMA CountedImplies == Counted => CountedAtMostOnce
BY EntriesArePositive DEF Counted, Booked, CountedAtMostOnce

(* A booked call stays booked while its entries stay as they are. *)
LEMMA CallSame ==
  ASSUME NEW c, NEW cl, NEW cn, NEW n \in Nat, NEW open, NEW due, NEW owner,
         CallIsBooked(c, cl, cn, n, open, due, owner),
         NEW n2 \in Nat, n <= n2, NEW open2, NEW due2, NEW owner2, NEW cl2,
         cl2.right # {} => cl.right # {} /\ cl2.request = cl.request,
         \A i \in 1..n : owner[i] = <<c, 0>> =>
           /\ owner2[i] = owner[i]
           /\ Entry(open2, i) = Entry(open, i) /\ Entry(due2, i) = Entry(due, i)
  PROVE  CallIsBooked(c, cl2, cn, n2, open2, due2, owner2)
<1> SUFFICES ASSUME cl2.right # {}
             PROVE  CallIsBooked(c, cl2, cn, n2, open2, due2, owner2)
  BY DEF CallIsBooked
<1>1. PICK i \in 1..n :
        /\ owner[i] = <<c, 0>>
        /\ cn.requests # <<>> => Amount(cl.request) <= Entry(open, i)
        /\ cn.replies # <<>> =>
             Earned(cl.request, Result(cl.request, Head(cn.replies))) <= Entry(due, i)
  BY DEF CallIsBooked
<1>2. i \in 1..n2
  OBVIOUS
<1>3. owner2[i] = <<c, 0>> /\ Entry(open2, i) = Entry(open, i) /\ Entry(due2, i) = Entry(due, i)
  BY <1>1
<1>4. cl2.request = cl.request
  OBVIOUS
<1>5. QED
  BY <1>1, <1>2, <1>3, <1>4 DEF CallIsBooked

LEMMA LateSame ==
  ASSUME NEW c, NEW lt, NEW n \in Nat, NEW open, NEW owner,
         LateAreBooked(c, lt, n, open, owner),
         NEW n2 \in Nat, n <= n2, NEW open2, NEW owner2,
         \A i \in 1..n : \A k \in 1..Len(lt) : owner[i] = <<c, k>> =>
           owner2[i] = owner[i] /\ Entry(open2, i) = Entry(open, i)
  PROVE  LateAreBooked(c, lt, n2, open2, owner2)
<1> SUFFICES ASSUME NEW k \in 1..Len(lt)
             PROVE  \E i \in 1..n2 : owner2[i] = <<c, k>> /\ Amount(lt[k]) <= Entry(open2, i)
  BY DEF LateAreBooked
<1>1. PICK i \in 1..n : owner[i] = <<c, k>> /\ Amount(lt[k]) <= Entry(open, i)
  BY DEF LateAreBooked
<1>2. i \in 1..n2
  OBVIOUS
<1>3. owner2[i] = owner[i] /\ Entry(open2, i) = Entry(open, i)
  BY <1>1
<1>4. QED
  BY <1>1, <1>2, <1>3

LEMMA CountedAtFirst == Init => Counted
<1> SUFFICES ASSUME Init PROVE Counted
  OBVIOUS
<1>1. /\ late \in [Proxies -> Seq(Requests)]
      /\ "number" \in DOMAIN data /\ data.number = 0
      /\ calls = 0 /\ acked = 0 /\ tried = 0
  BY DEF Init
<1> DEFINE book == [i \in 0..0 |-> 0]
<1>2. IsBook(book, 0, 0, 0)
  BY DEF IsBook
<1> HIDE DEF book
<1>3. \A c \in Proxies : call[c].right = {} /\ late[c] = <<>>
  BY DEF Init, NoCall
<1>4. \A c \in Proxies : CallIsBooked(c, call[c], conn[c], calls, book, book, book)
  BY <1>3 DEF CallIsBooked
<1>5. \A c \in Proxies : LateAreBooked(c, late[c], calls, book, book)
  BY <1>3 DEF LateAreBooked
<1>6. Booked(book, book, book, 0)
  BY <1>1, <1>2, <1>4, <1>5 DEF Booked
<1>7. QED
  BY <1>1, <1>6 DEF Counted

(* A call that is made gets an entry in each book.  If it fails at once     *)
(* these stay empty.                                                        *)
LEMMA AskKeepsBooks ==
  ASSUME OneAtATime, Counted, NEW c \in Proxies, NEW q \in Requests, Ask(c, q)
  PROVE  Counted'
<1>1. PICK open, due, owner : \E hi \in Int : Booked(open, due, owner, hi)
  BY DEF Counted
<1>2. PICK hi \in Int : Booked(open, due, owner, hi)
  BY <1>1
<1>3. /\ data' = data /\ late' = late /\ acked' = acked /\ calls' = calls + 1
      /\ ~Pending(c)
      /\ calls \in Nat /\ acked \in Int /\ tried \in Int /\ data.number \in Int
  BY DEF Ask, Counted
<1>4. PICK a \in {0, Amount(q)} :
        /\ tried' = tried + a
        /\ \/ UNCHANGED <<conn, call>>
           \/ /\ a = Amount(q)
              /\ conn' = [conn EXCEPT ![c].requests = Append(@, q)]
              /\ call' = [call EXCEPT ![c] = [request |-> q, right |-> {Told(q, data)}]]
  <2>1. CASE UNCHANGED <<conn, call, tried>>
    BY <1>3, <2>1
  <2>2. CASE /\ conn' = [conn EXCEPT ![c].requests = Append(@, q)]
             /\ call' = [call EXCEPT ![c] = [request |-> q, right |-> {Told(q, data)}]]
             /\ tried' = IF Counts(q) THEN tried + q.arg ELSE tried
    <3>1. tried' = tried + Amount(q)
      BY <1>3, <2>2 DEF Amount
    <3>2. QED
      BY <2>2, <3>1
  <2>3. QED
    BY <2>1, <2>2 DEF Ask
<1>5. a \in Nat
  BY AmountIsPositive
<1>6. PICK open2 : /\ IsBook(open2, calls + 1, data.number, tried + a)
                   /\ \A i \in 1..calls : Entry(open2, i) = Entry(open, i)
                   /\ Entry(open2, calls + 1) = a
  BY <1>2, <1>3, <1>5, NewEntry DEF Booked
<1>7. PICK due2 : /\ IsBook(due2, calls + 1, acked, hi + 0)
                  /\ \A i \in 1..calls : Entry(due2, i) = Entry(due, i)
                  /\ Entry(due2, calls + 1) = 0
  BY <1>2, <1>3, NewEntry DEF Booked
<1>8. PICK owner2 : owner2[calls + 1] = <<c, 0>> /\ \A i \in 1..calls : owner2[i] = owner[i]
  <2> DEFINE o == [i \in 1..(calls + 1) |-> IF i = calls + 1 THEN <<c, 0>> ELSE owner[i]]
  <2>1. o[calls + 1] = <<c, 0>> /\ \A i \in 1..calls : o[i] = owner[i]
    BY <1>3
  <2>2. QED
    BY <2>1
<1>9. ASSUME NEW p \in Proxies
      PROVE  LateAreBooked(p, late[p], calls + 1, open2, owner2)
  <2>1. LateAreBooked(p, late[p], calls, open, owner)
    BY <1>2 DEF Booked
  <2>2. calls + 1 \in Nat /\ calls <= calls + 1
    BY <1>3
  <2>3. QED
    BY <1>3, <1>6, <1>8, <2>1, <2>2, LateSame, ZenonT(30)
<1>10. ASSUME NEW p \in Proxies, call'[p] = call[p], conn'[p] = conn[p]
       PROVE  CallIsBooked(p, call'[p], conn'[p], calls + 1, open2, due2, owner2)
  <2>1. CallIsBooked(p, call[p], conn[p], calls, open, due, owner)
    BY <1>2 DEF Booked
  <2>2. CallIsBooked(p, call[p], conn[p], calls + 1, open2, due2, owner2)
    BY <1>3, <1>6, <1>7, <1>8, <2>1, CallSame
  <2>3. QED
    BY <1>10, <2>2
<1>11. ASSUME /\ a = Amount(q)
              /\ conn' = [conn EXCEPT ![c].requests = Append(@, q)]
              /\ call' = [call EXCEPT ![c] = [request |-> q, right |-> {Told(q, data)}]]
       PROVE  CallIsBooked(c, call'[c], conn'[c], calls + 1, open2, due2, owner2)
  <2>1. call'[c].request = q
    BY <1>11 DEF OneAtATime
  <2>2. conn'[c].replies = <<>>
    <3>1. InFlight(call[c], conn[c], data) /\ call[c].right = {}
      BY <1>3 DEF OneAtATime, Pending
    <3>2. ASSUME NEW x \in Requests, NEW right, Asking(call[c], conn[c], data, x, right)
          PROVE  FALSE
      <4>1. call[c].right # {}
        BY <3>2 DEF Asking
      <4>2. QED
        BY <3>1, <4>1
    <3>3. conn[c] = NoTraffic
      BY <3>1, <3>2, Zenon DEF InFlight
    <3>4. QED
      BY <1>11, <3>3 DEF OneAtATime, NoTraffic
  <2>3. calls + 1 \in 1..(calls + 1)
    BY <1>3
  <2>4. Amount(q) <= Entry(open2, calls + 1)
    BY <1>6, <1>11, AmountIsPositive
  <2>5. QED
    BY <1>8, <2>1, <2>2, <2>3, <2>4 DEF CallIsBooked
<1>12. ASSUME NEW p \in Proxies
       PROVE  CallIsBooked(p, call'[p], conn'[p], calls + 1, open2, due2, owner2)
  <2>1. CASE UNCHANGED <<conn, call>>
    BY <1>10, <2>1
  <2>2. CASE /\ a = Amount(q)
             /\ conn' = [conn EXCEPT ![c].requests = Append(@, q)]
             /\ call' = [call EXCEPT ![c] = [request |-> q, right |-> {Told(q, data)}]]
    <3>1. p # c => call'[p] = call[p] /\ conn'[p] = conn[p]
      BY <2>2 DEF OneAtATime
    <3>2. QED
      BY <1>10, <1>11, <2>2, <3>1
  <2>3. QED
    BY <1>4, <2>1, <2>2
<1>13. /\ IsBook(open2, calls', data'.number, tried')
       /\ IsBook(due2, calls', acked', hi) /\ hi <= data'.number
  BY <1>2, <1>3, <1>4, <1>6, <1>7 DEF Booked
<1>14. \A p \in Proxies :
         /\ CallIsBooked(p, call'[p], conn'[p], calls', open2, due2, owner2)
         /\ LateAreBooked(p, late'[p], calls', open2, owner2)
  BY <1>3, <1>9, <1>12
<1>15. /\ late' \in [Proxies -> Seq(Requests)]
       /\ "number" \in DOMAIN data' /\ data'.number \in Nat
       /\ calls' \in Nat /\ acked' \in Int /\ tried' \in Int
  BY <1>3, <1>4, <1>5 DEF Counted
<1>16. Booked(open2, due2, owner2, hi)'
  BY <1>13, <1>14 DEF Booked
<1>17. QED
  BY <1>15, <1>16 DEF Counted

(* A step of the servers changes no call but adds to what is right for it. *)
LEMMA UpdateKeepsRequests ==
  ASSUME NEW d, Update(d), NEW p \in Proxies
  PROVE  /\ call'[p].request = call[p].request \/ call'[p].right = {}
         /\ call'[p].right # {} => call[p].right # {} /\ call'[p].request = call[p].request
<1>1. call'[p] = IF Pending(p)
                   THEN [call[p] EXCEPT !.right = @ \cup {Told(call[p].request, d)}]
                   ELSE call[p]
  BY DEF Update
<1>2. CASE Pending(p)
  <2>1. call'[p] = [call[p] EXCEPT !.right = @ \cup {Told(call[p].request, d)}]
    BY <1>1, <1>2
  <2>2. call'[p].request = call[p].request
    BY <2>1
  <2>3. QED
    BY <1>2, <2>2 DEF Pending
<1>3. CASE ~Pending(p)
  BY <1>1, <1>3
<1>4. QED
  BY <1>2, <1>3

(* A key that expires is not the counter. *)
LEMMA ExpireKeepsBooks ==
  ASSUME Counted, Expire
  PROVE  Counted'
<1>1. PICK open, due, owner : \E hi \in Int : Booked(open, due, owner, hi)
  BY DEF Counted
<1>2. PICK hi \in Int : Booked(open, due, owner, hi)
  BY <1>1
<1>3. "number" \in DOMAIN data' /\ data'.number = data.number
  BY DEF Expire, Update, Drop, Counted
<1>4. Update(Drop(data, Items)) /\ conn' = conn /\ late' = late /\ calls' = calls
      /\ acked' = acked /\ tried' = tried /\ calls \in Nat
  BY DEF Expire, Counted
<1>5. ASSUME NEW p \in Proxies
      PROVE  CallIsBooked(p, call'[p], conn'[p], calls', open, due, owner)
  <2>1. CallIsBooked(p, call[p], conn[p], calls, open, due, owner)
    BY <1>2 DEF Booked
  <2>2. call'[p].right # {} => call[p].right # {} /\ call'[p].request = call[p].request
    BY <1>4, UpdateKeepsRequests
  <2>3. calls <= calls
    BY <1>4
  <2>4. CallIsBooked(p, call'[p], conn[p], calls, open, due, owner)
    BY <1>4, <2>1, <2>2, <2>3, CallSame
  <2>5. QED
    BY <1>4, <2>4
<1>6. Booked(open, due, owner, hi)'
  BY <1>2, <1>3, <1>4, <1>5 DEF Booked
<1>7. QED
  BY <1>3, <1>4, <1>6 DEF Counted

(* A request is executed: of its entry in the first book, i, what it adds  *)
(* to the counter is spent, or nothing is.  `earned' is what its caller    *)
(* would acknowledge for the reply; it is due from now on.                 *)
LEMMA Executed ==
  ASSUME NEW n \in Nat, NEW number \in Nat, NEW paid \in Int, NEW sum \in Int,
         NEW open, IsBook(open, n, number, sum),
         NEW due, NEW hi \in Int, IsBook(due, n, paid, hi), hi <= number,
         NEW i \in 1..n, NEW a \in Nat, NEW earned \in Nat, earned <= a,
         a <= Entry(open, i), NEW number2 \in Int,
         number2 = number + a \/ (number2 = number /\ earned = 0)
  PROVE  \E open2, due2 : \E hi2 \in Int :
           /\ IsBook(open2, n, number2, sum)
           /\ IsBook(due2, n, paid, hi2) /\ hi2 <= number2
           /\ \A j \in 1..n : j # i => /\ Entry(open2, j) = Entry(open, j)
                                       /\ Entry(due2, j) = Entry(due, j)
           /\ earned <= Entry(due2, i)
<1>1. CASE number2 = number /\ earned = 0
  <2>1. 0 <= Entry(due, i)
    BY EntriesArePositive
  <2>2. QED
    BY <1>1, <2>1
<1>2. CASE number2 = number + a
  <2>1. PICK open2 : /\ IsBook(open2, n, number + a, sum)
                     /\ \A j \in 1..n : j # i => Entry(open2, j) = Entry(open, j)
    BY Spend
  <2>2. PICK due2 : /\ IsBook(due2, n, paid, hi + earned)
                    /\ \A j \in 1..n : j # i => Entry(due2, j) = Entry(due, j)
                    /\ earned <= Entry(due2, i)
    BY Fill
  <2>3. hi + earned \in Int /\ hi + earned <= number2
    BY <1>2
  <2>4. QED
    BY <1>2, <2>1, <2>2, <2>3
<1>3. QED
  BY <1>1, <1>2

(* The counter is a natural number after every request. *)
LEMMA CounterStays ==
  ASSUME Counted, NEW q \in Requests
  PROVE  LET d == Execute(q, data)[1] IN "number" \in DOMAIN d /\ d.number \in Nat
BY WhatIsCounted, AmountIsPositive DEF Counted

LEMMA ServeKeepsBooks ==
  ASSUME OneAtATime, Counted, NEW c \in Proxies, Serve(c)
  PROVE  Counted'
<1>1. PICK open, due, owner : \E hi \in Int : Booked(open, due, owner, hi)
  BY DEF Counted
<1>2. PICK hi \in Int : Booked(open, due, owner, hi)
  BY <1>1
<1> DEFINE q0 == Head(conn[c].requests)
<1>3. PICK outcome \in {Execute(q0, data), <<data, Error>>} :
        /\ Update(outcome[1])
        /\ conn' = [conn EXCEPT ![c].requests = Tail(@),
                                ![c].replies = Append(@, outcome[2])]
  BY DEF Serve
<1>4. PICK q \in Requests : /\ call[c].request = q /\ call[c].right # {}
                            /\ conn[c] = [requests |-> <<q>>, replies |-> <<>>]
  <2>1. InFlight(call[c], conn[c], data) /\ conn[c].requests # <<>>
    BY DEF OneAtATime, Serve
  <2>2. PICK q \in Requests : \E right : Asking(call[c], conn[c], data, q, right)
    BY <2>1 DEF InFlight, NoTraffic
  <2>3. PICK right : Asking(call[c], conn[c], data, q, right)
    BY <2>2
  <2>4. call[c].request = q /\ call[c].right # {}
    BY <2>3 DEF Asking
  <2>5. ASSUME NEW x, conn[c] = [requests |-> <<>>, replies |-> <<x>>]
        PROVE  FALSE
    <3>1. conn[c].requests = <<>>
      BY ONLY <2>5
    <3>2. QED
      BY <2>1, <3>1
  <2>6. conn[c] = [requests |-> <<q>>, replies |-> <<>>]
    BY <2>3, <2>5, Zenon DEF Asking
  <2>7. QED
    BY <2>4, <2>6
<1> DEFINE d == outcome[1]
<1> DEFINE r == outcome[2]
<1> DEFINE earned == Earned(q, Result(q, r))
<1>5. q0 = q /\ Tail(conn[c].requests) = <<>> /\ Append(conn[c].replies, r) = <<r>>
  BY <1>4
<1>6. conn'[c] = [requests |-> <<>>, replies |-> <<r>>]
  BY <1>3, <1>4, <1>5 DEF OneAtATime
<1>7. /\ data' = d /\ late' = late /\ calls' = calls /\ acked' = acked /\ tried' = tried
      /\ calls \in Nat /\ acked \in Int /\ tried \in Int /\ data.number \in Nat
      /\ "number" \in DOMAIN data
  BY <1>3 DEF Serve, Update, Counted
<1>8. PICK i \in 1..calls : owner[i] = <<c, 0>> /\ Amount(q) <= Entry(open, i)
  <2>1. CallIsBooked(c, call[c], conn[c], calls, open, due, owner)
    BY <1>2 DEF Booked
  <2>2. conn[c].requests # <<>>
    BY DEF Serve
  <2>3. QED
    BY <1>4, <2>1, <2>2 DEF CallIsBooked
<1>9. /\ "number" \in DOMAIN d
      /\ d.number = data.number + Amount(q) \/ (d.number = data.number /\ earned = 0)
  <2>1. CASE outcome = Execute(q, data)
    BY <1>7, <2>1, WhatIsCounted
  <2>2. CASE outcome = <<data, Error>>
    <3>1. d = data /\ r = Error
      BY <2>2
    <3>2. earned = 0
      BY <3>1, FailuresEarnNothing
    <3>3. QED
      BY <1>7, <3>1, <3>2
  <2>3. QED
    BY <1>3, <1>5, <2>1, <2>2
<1>10. Amount(q) \in Nat /\ earned \in Nat /\ earned <= Amount(q)
  BY AmountIsPositive, EarnedIsBounded
<1>11. d.number \in Nat
  BY <1>7, <1>9, <1>10
<1> HIDE DEF d, earned
<1>12. IsBook(open, calls, data.number, tried) /\ IsBook(due, calls, acked, hi)
       /\ hi <= data.number
  BY <1>2 DEF Booked
<1>13. calls \in Nat /\ data.number \in Nat /\ acked \in Int /\ tried \in Int /\ d.number \in Int
  BY <1>7, <1>11
<1>14. PICK open2, due2 : \E hi2 \in Int :
         /\ IsBook(open2, calls, d.number, tried)
         /\ IsBook(due2, calls, acked, hi2) /\ hi2 <= d.number
         /\ \A j \in 1..calls : j # i => /\ Entry(open2, j) = Entry(open, j)
                                         /\ Entry(due2, j) = Entry(due, j)
         /\ earned <= Entry(due2, i)
  BY <1>8, <1>9, <1>10, <1>12, <1>13, Executed, SMTT(30)
<1>15. PICK hi2 \in Int :
         /\ IsBook(open2, calls, d.number, tried)
         /\ IsBook(due2, calls, acked, hi2) /\ hi2 <= d.number
         /\ \A j \in 1..calls : j # i => /\ Entry(open2, j) = Entry(open, j)
                                         /\ Entry(due2, j) = Entry(due, j)
         /\ earned <= Entry(due2, i)
  BY <1>14
<1>16. ASSUME NEW p \in Proxies
       PROVE  LateAreBooked(p, late[p], calls, open2, owner)
  <2>1. LateAreBooked(p, late[p], calls, open, owner)
    BY <1>2 DEF Booked
  <2>2. \A j \in 1..calls : \A k \in 1..Len(late[p]) : owner[j] = <<p, k>> =>
          owner[j] = owner[j] /\ Entry(open2, j) = Entry(open, j)
    BY <1>8, <1>15
  <2>3. calls \in Nat /\ calls <= calls
    BY <1>7
  <2>4. QED
    BY <2>1, <2>2, <2>3, LateSame, ZenonT(30)
<1>17. ASSUME NEW p \in Proxies
       PROVE  CallIsBooked(p, call'[p], conn'[p], calls, open2, due2, owner)
  <2>1. call'[p].right # {} => call[p].right # {} /\ call'[p].request = call[p].request
    BY <1>3, UpdateKeepsRequests
  <2>2. CASE p = c
    <3>1. conn'[c].requests = <<>> /\ Head(conn'[c].replies) = r
      BY <1>6
    <3>2. call'[c].right # {} => call'[c].request = q
      BY <1>4, <2>1, <2>2
    <3>3. QED
      BY <1>8, <1>15, <2>2, <3>1, <3>2 DEF CallIsBooked, earned
  <2>3. CASE p # c
    <3>1. conn'[p] = conn[p]
      BY <1>3, <2>3 DEF OneAtATime
    <3>2. CallIsBooked(p, call[p], conn[p], calls, open, due, owner)
      BY <1>2 DEF Booked
    <3>3. \A j \in 1..calls : owner[j] = <<p, 0>> =>
            owner[j] = owner[j] /\ Entry(open2, j) = Entry(open, j) /\ Entry(due2, j) = Entry(due, j)
      BY <1>8, <1>15, <2>3
    <3>4. calls \in Nat /\ calls <= calls
      BY <1>7
    <3>5. CallIsBooked(p, call'[p], conn[p], calls, open2, due2, owner)
      <4>1. PICK cl, cn, cl2 : cl = call[p] /\ cn = conn[p] /\ cl2 = call'[p]
        OBVIOUS
      <4>2. cl2.right # {} => cl.right # {} /\ cl2.request = cl.request
        BY <2>1, <4>1
      <4>3. CallIsBooked(p, cl, cn, calls, open, due, owner)
        BY <3>2, <4>1
      <4>4. CallIsBooked(p, cl2, cn, calls, open2, due2, owner)
        BY <3>3, <3>4, <4>2, <4>3, CallSame
      <4>5. QED
        BY <4>1, <4>4
    <3>6. QED
      BY <3>1, <3>5
  <2>4. QED
    BY <2>2, <2>3
<1>18. Booked(open2, due2, owner, hi2)'
  BY <1>7, <1>15, <1>16, <1>17 DEF Booked
<1>19. QED
  BY <1>7, <1>9, <1>11, <1>18 DEF Counted

(* What RemoveAt leaves. *)
LEMMA AtRemoved ==
  ASSUME NEW S, NEW s \in Seq(S), NEW i \in 1..Len(s)
  PROVE  /\ RemoveAt(s, i) \in Seq(S)
         /\ Len(RemoveAt(s, i)) = Len(s) - 1
         /\ \A j \in 1..(Len(s) - 1) :
              RemoveAt(s, i)[j] = IF j < i THEN s[j] ELSE s[j + 1]
<1> DEFINE front == SubSeq(s, 1, i - 1)
           back == SubSeq(s, i + 1, Len(s))
<1>1. Len(s) \in Nat /\ i \in Int /\ \A j \in 1..Len(s) : s[j] \in S
  BY LenProperties
<1>2. /\ front \in Seq(S) /\ Len(front) = i - 1
      /\ \A j \in 1..(i - 1) : front[j] = s[j]
  <2>1. \A j \in 1..(i - 1) : s[j] \in S
    BY <1>1
  <2>2. /\ front \in Seq(S) /\ Len(front) = (IF 1 <= i - 1 THEN i - 1 - 1 + 1 ELSE 0)
        /\ \A j \in 1..(i - 1 - 1 + 1) : front[j] = s[1 + j - 1]
    BY <1>1, <2>1, SubSeqProperties
  <2> HIDE DEF front
  <2>3. QED
    BY <1>1, <2>2
<1>3. /\ back \in Seq(S) /\ Len(back) = Len(s) - i
      /\ \A j \in 1..(Len(s) - i) : back[j] = s[i + j]
  <2>1. \A j \in (i + 1)..Len(s) : s[j] \in S
    BY <1>1
  <2>2. /\ back \in Seq(S)
        /\ Len(back) = (IF i + 1 <= Len(s) THEN Len(s) - (i + 1) + 1 ELSE 0)
        /\ \A j \in 1..(Len(s) - (i + 1) + 1) : back[j] = s[i + 1 + j - 1]
    BY <1>1, <2>1, SubSeqProperties
  <2> HIDE DEF back
  <2>3. QED
    BY <1>1, <2>2
<1>4. RemoveAt(s, i) = front \o back
  BY DEF RemoveAt
<1> HIDE DEF front, back
<1>5. /\ front \o back \in Seq(S) /\ Len(front \o back) = Len(front) + Len(back)
      /\ \A j \in 1..(Len(front) + Len(back)) :
           (front \o back)[j] = IF j <= Len(front) THEN front[j] ELSE back[j - Len(front)]
  BY <1>2, <1>3, ConcatProperties
<1>6. Len(front) + Len(back) = Len(s) - 1
  BY <1>1, <1>2, <1>3
<1>7. ASSUME NEW j \in 1..(Len(s) - 1)
      PROVE  (front \o back)[j] = IF j < i THEN s[j] ELSE s[j + 1]
  <2>1. CASE j < i
    BY <1>1, <1>2, <1>5, <1>6, <2>1
  <2>2. CASE ~(j < i)
    <3>1. j - Len(front) \in 1..(Len(s) - i) /\ i + (j - Len(front)) = j + 1 /\ ~(j <= Len(front))
      BY <1>1, <1>2, <2>2
    <3>2. (front \o back)[j] = back[j - Len(front)]
      BY <1>5, <1>6, <3>1
    <3>3. QED
      BY <1>3, <2>2, <3>1, <3>2
  <2>3. QED
    BY <2>1, <2>2
<1>8. QED
  BY <1>4, <1>5, <1>6, <1>7

(* The requests left behind keep their entries when one of them is gone. *)
LEMMA LateWithout ==
  ASSUME NEW c, NEW lt \in Seq(Requests), NEW n \in Nat, NEW open, NEW owner,
         LateAreBooked(c, lt, n, open, owner), NEW k \in 1..Len(lt),
         NEW i \in 1..n, owner[i] = <<c, k>>, NEW open2, NEW owner2,
         \A j \in 1..n : j # i => Entry(open2, j) = Entry(open, j),
         \A j \in 1..n : \A m \in 1..Len(lt) : owner[j] = <<c, m>> =>
           owner2[j] = IF m > k THEN <<c, m - 1>> ELSE owner[j]
  PROVE  LateAreBooked(c, RemoveAt(lt, k), n, open2, owner2)
<1> DEFINE lt2 == RemoveAt(lt, k)
<1>1. Len(lt) \in Nat /\ Len(lt2) = Len(lt) - 1
      /\ \A j \in 1..(Len(lt) - 1) : lt2[j] = IF j < k THEN lt[j] ELSE lt[j + 1]
  BY AtRemoved, LenProperties
<1> HIDE DEF lt2
<1>2. ASSUME NEW m \in 1..Len(lt2)
      PROVE  \E j \in 1..n : owner2[j] = <<c, m>> /\ Amount(lt2[m]) <= Entry(open2, j)
  <2>1. PICK old \in 1..Len(lt) : /\ old # k /\ lt2[m] = lt[old]
                                  /\ m = IF old > k THEN old - 1 ELSE old
    <3>1. CASE m < k
      <4>1. m \in 1..Len(lt) /\ lt2[m] = lt[m]
        BY <1>1, <3>1
      <4>2. QED
        BY <3>1, <4>1
    <3>2. CASE ~(m < k)
      <4>1. m + 1 \in 1..Len(lt) /\ lt2[m] = lt[m + 1]
        BY <1>1, <3>2
      <4>2. QED
        BY <3>2, <4>1
    <3>3. QED
      BY <3>1, <3>2
  <2>2. PICK j \in 1..n : owner[j] = <<c, old>> /\ Amount(lt[old]) <= Entry(open, j)
    BY DEF LateAreBooked
  <2>3. j # i
    BY <2>1, <2>2
  <2>4. owner2[j] = <<c, m>>
    BY <2>1, <2>2
  <2>5. QED
    BY <2>1, <2>2, <2>3, <2>4
<1>3. LateAreBooked(c, lt2, n, open2, owner2)
  BY <1>2 DEF LateAreBooked
<1>4. QED
  BY <1>3 DEF lt2

LEMMA ServeLateKeepsBooks ==
  ASSUME Counted, NEW c \in Proxies, ServeLate(c)
  PROVE  Counted'
<1>1. PICK open, due, owner : \E hi \in Int : Booked(open, due, owner, hi)
  BY DEF Counted
<1>2. PICK hi \in Int : Booked(open, due, owner, hi)
  BY <1>1
<1>3. PICK k \in DOMAIN late[c] : /\ Update(Execute(late[c][k], data)[1])
                                  /\ late' = [late EXCEPT ![c] = RemoveAt(@, k)]
  BY DEF ServeLate
<1>4. PICK lt : lt = late[c]
  OBVIOUS
<1>5. lt \in Seq(Requests) /\ k \in 1..Len(lt)
  BY <1>3, <1>4 DEF Counted
<1>6. PICK q \in Requests : q = lt[k]
  BY <1>5, ElementOfSeq
<1> DEFINE d == Execute(q, data)[1]
<1>7. Update(d)
  BY <1>3, <1>4, <1>6
<1>8. /\ data' = d /\ conn' = conn /\ calls' = calls /\ acked' = acked /\ tried' = tried
      /\ calls \in Nat /\ acked \in Int /\ tried \in Int /\ data.number \in Nat
      /\ "number" \in DOMAIN data
  BY <1>7 DEF ServeLate, Update, Counted
<1>9. /\ "number" \in DOMAIN d /\ d.number \in Nat
      /\ d.number = data.number + Amount(q) \/ (d.number = data.number /\ 0 = 0)
  BY <1>8, WhatIsCounted, AmountIsPositive
<1>10. PICK i \in 1..calls : owner[i] = <<c, k>> /\ Amount(q) <= Entry(open, i)
  <2>1. LateAreBooked(c, lt, calls, open, owner)
    BY <1>2, <1>4 DEF Booked
  <2>2. QED
    BY <1>5, <1>6, <2>1 DEF LateAreBooked
<1> HIDE DEF d
<1>11. IsBook(open, calls, data.number, tried) /\ IsBook(due, calls, acked, hi)
       /\ hi <= data.number
  BY <1>2 DEF Booked
<1>12. /\ calls \in Nat /\ data.number \in Nat /\ acked \in Int /\ tried \in Int
       /\ d.number \in Int /\ Amount(q) \in Nat /\ 0 \in Nat /\ 0 <= Amount(q)
  BY <1>8, <1>9, AmountIsPositive
<1>13. PICK open2, due2 : \E hi2 \in Int :
         /\ IsBook(open2, calls, d.number, tried)
         /\ IsBook(due2, calls, acked, hi2) /\ hi2 <= d.number
         /\ \A j \in 1..calls : j # i => /\ Entry(open2, j) = Entry(open, j)
                                         /\ Entry(due2, j) = Entry(due, j)
         /\ 0 <= Entry(due2, i)
  BY <1>9, <1>10, <1>11, <1>12, Executed, SMTT(30)
<1>14. PICK hi2 \in Int :
         /\ IsBook(open2, calls, d.number, tried)
         /\ IsBook(due2, calls, acked, hi2) /\ hi2 <= d.number
         /\ \A j \in 1..calls : j # i => /\ Entry(open2, j) = Entry(open, j)
                                         /\ Entry(due2, j) = Entry(due, j)
  BY <1>13
<1>15. PICK owner2 :
         \A j \in 1..calls : owner2[j] = IF \E m \in (k + 1)..Len(lt) : owner[j] = <<c, m>>
                                           THEN <<c, owner[j][2] - 1>> ELSE owner[j]
  <2> DEFINE o == [j \in 1..calls |-> IF \E m \in (k + 1)..Len(lt) : owner[j] = <<c, m>>
                                        THEN <<c, owner[j][2] - 1>> ELSE owner[j]]
  <2>1. \A j \in 1..calls : o[j] = IF \E m \in (k + 1)..Len(lt) : owner[j] = <<c, m>>
                                     THEN <<c, owner[j][2] - 1>> ELSE owner[j]
    OBVIOUS
  <2>2. QED
    BY <2>1
<1>16. \A j \in 1..calls : \A m \in 1..Len(lt) : owner[j] = <<c, m>> =>
         owner2[j] = IF m > k THEN <<c, m - 1>> ELSE owner[j]
  <2> SUFFICES ASSUME NEW j \in 1..calls, NEW m \in 1..Len(lt), owner[j] = <<c, m>>
               PROVE  owner2[j] = IF m > k THEN <<c, m - 1>> ELSE owner[j]
    OBVIOUS
  <2>1. owner[j][2] = m
    OBVIOUS
  <2>2. (\E x \in (k + 1)..Len(lt) : owner[j] = <<c, x>>) <=> m > k
    <3>1. Len(lt) \in Nat
      BY <1>5, LenProperties
    <3>2. \A x : owner[j] = <<c, x>> => x = m
      BY <2>1
    <3>3. QED
      BY <1>5, <3>1, <3>2
  <2>3. QED
    BY <1>15, <2>1, <2>2
<1>17. \A j \in 1..calls : \A p, m : owner[j] = <<p, m>> /\ (p # c \/ m = 0) =>
         owner2[j] = owner[j] /\ j # i
  <2> SUFFICES ASSUME NEW j \in 1..calls, NEW p, NEW m, owner[j] = <<p, m>>,
                      p # c \/ m = 0
               PROVE  owner2[j] = owner[j] /\ j # i
    OBVIOUS
  <2>1. \A x \in 1..Len(lt) : owner[j] # <<c, x>>
    OBVIOUS
  <2>2. (k + 1)..Len(lt) \subseteq 1..Len(lt)
    BY <1>5, LenProperties
  <2>3. QED
    BY <1>5, <1>10, <1>15, <2>1, <2>2
<1>18. ASSUME NEW p \in Proxies
       PROVE  LateAreBooked(p, late'[p], calls, open2, owner2)
  <2>1. LateAreBooked(p, late[p], calls, open, owner)
    BY <1>2 DEF Booked
  <2>2. CASE p = c
    <3>1. LateAreBooked(c, lt, calls, open, owner)
      BY <1>4, <2>1, <2>2
    <3>2. \A j \in 1..calls : j # i => Entry(open2, j) = Entry(open, j)
      BY <1>14
    <3>3. LateAreBooked(c, RemoveAt(lt, k), calls, open2, owner2)
      BY <1>5, <1>10, <1>12, <1>16, <3>1, <3>2, LateWithout
    <3>4. late'[c] = RemoveAt(lt, k)
      BY <1>3, <1>4 DEF Counted
    <3>5. QED
      BY <2>2, <3>3, <3>4
  <2>3. CASE p # c
    <3>1. PICK other : other = late[p]
      OBVIOUS
    <3>2. late'[p] = other
      BY <1>3, <2>3, <3>1 DEF Counted
    <3>3. \A j \in 1..calls : \A m \in 1..Len(other) : owner[j] = <<p, m>> =>
            owner2[j] = owner[j] /\ Entry(open2, j) = Entry(open, j)
      BY <1>14, <1>17, <2>3
    <3>4. LateAreBooked(p, other, calls, open, owner)
      BY <2>1, <3>1
    <3>5. LateAreBooked(p, other, calls, open2, owner2)
      <4> SUFFICES ASSUME NEW m \in 1..Len(other)
                   PROVE  \E j \in 1..calls : /\ owner2[j] = <<p, m>>
                                              /\ Amount(other[m]) <= Entry(open2, j)
        BY DEF LateAreBooked
      <4>1. PICK j \in 1..calls : owner[j] = <<p, m>> /\ Amount(other[m]) <= Entry(open, j)
        BY <3>4 DEF LateAreBooked
      <4>2. owner2[j] = owner[j] /\ Entry(open2, j) = Entry(open, j)
        BY <3>3, <4>1
      <4>3. QED
        BY <4>1, <4>2
    <3>6. QED
      BY <3>2, <3>5
  <2>4. QED
    BY <2>2, <2>3
<1>19. ASSUME NEW p \in Proxies
       PROVE  CallIsBooked(p, call'[p], conn'[p], calls, open2, due2, owner2)
  <2>1. PICK cl, cn, cl2 : cl = call[p] /\ cn = conn[p] /\ cl2 = call'[p]
    OBVIOUS
  <2>2. cl2.right # {} => cl.right # {} /\ cl2.request = cl.request
    BY <1>7, <2>1, UpdateKeepsRequests
  <2>3. CallIsBooked(p, cl, cn, calls, open, due, owner)
    BY <1>2, <2>1 DEF Booked
  <2>4. \A j \in 1..calls : owner[j] = <<p, 0>> =>
          owner2[j] = owner[j] /\ Entry(open2, j) = Entry(open, j) /\ Entry(due2, j) = Entry(due, j)
    BY <1>14, <1>17
  <2>5. calls \in Nat /\ calls <= calls
    BY <1>12
  <2>6. CallIsBooked(p, cl2, cn, calls, open2, due2, owner2)
    BY <2>2, <2>3, <2>4, <2>5, CallSame
  <2>7. QED
    BY <1>8, <2>1, <2>6
<1>20. Booked(open2, due2, owner2, hi2)'
  BY <1>8, <1>14, <1>18, <1>19 DEF Booked
<1>21. late' \in [Proxies -> Seq(Requests)]
  <2>1. RemoveAt(lt, k) \in Seq(Requests)
    BY <1>5, AtRemoved
  <2>2. QED
    BY <1>3, <1>4, <2>1 DEF Counted
<1>22. QED
  BY <1>8, <1>9, <1>20, <1>21 DEF Counted

(* A call that ends owns nothing any more; the others own what they owned. *)
LEMMA OthersStayBooked ==
  ASSUME OneAtATime, NEW c \in Proxies, NEW r, Answer(c, r),
         conn' = [conn EXCEPT ![c] = NoTraffic],
         NEW n \in Nat, NEW open, NEW due, NEW owner, NEW due2, NEW owner2,
         NEW p \in Proxies, CallIsBooked(p, call[p], conn[p], n, open, due, owner),
         p # c => \A j \in 1..n : owner[j] = <<p, 0>> =>
                    owner2[j] = owner[j] /\ Entry(due2, j) = Entry(due, j)
  PROVE  CallIsBooked(p, call'[p], conn'[p], n, open, due2, owner2)
<1>1. call' = [call EXCEPT ![c] = NoCall]
  BY DEF Answer
<1>2. CASE p = c
  <2>1. call'[p].right = {}
    BY <1>1, <1>2 DEF OneAtATime, NoCall
  <2>2. QED
    BY <2>1 DEF CallIsBooked
<1>3. CASE p # c
  <2>1. call'[p] = call[p] /\ conn'[p] = conn[p]
    BY <1>1, <1>3 DEF OneAtATime
  <2>2. PICK cl, cn : cl = call[p] /\ cn = conn[p]
    OBVIOUS
  <2>3. CallIsBooked(p, cl, cn, n, open, due, owner)
    BY <2>2
  <2>4. n <= n
    OBVIOUS
  <2>5. \A j \in 1..n : owner[j] = <<p, 0>> =>
          owner2[j] = owner[j] /\ Entry(open, j) = Entry(open, j) /\ Entry(due2, j) = Entry(due, j)
    BY <1>3
  <2>6. CallIsBooked(p, cl, cn, n, open, due2, owner2)
    BY <2>3, <2>4, <2>5, CallSame, SMTT(60)
  <2>7. QED
    BY <2>1, <2>2, <2>6
<1>4. QED
  BY <1>2, <1>3

(* What an answer acknowledges is what it earned. *)
LEMMA WhatIsAcknowledged ==
  ASSUME Counted, NEW c, NEW r, Answer(c, r), NEW q \in Requests, call[c].request = q
  PROVE  acked' = acked + Earned(q, Result(q, r))
BY DEF Answer, Earned, Counted

LEMMA ReturnKeepsBooks ==
  ASSUME OneAtATime, Counted, NEW c \in Proxies, Return(c)
  PROVE  Counted'
<1>1. PICK open, due, owner : \E hi \in Int : Booked(open, due, owner, hi)
  BY DEF Counted
<1>2. PICK hi \in Int : Booked(open, due, owner, hi)
  BY <1>1
<1>3. PICK r : r = Head(conn[c].replies)
  OBVIOUS
<1>4. Answer(c, r) /\ Pending(c) /\ conn[c].replies # <<>>
  BY <1>3 DEF Return
<1>5. conn' = [conn EXCEPT ![c] = NoTraffic]
  BY ReturnKeeps
<1>6. PICK q \in Requests : q = call[c].request
  <2>1. PICK q \in Requests : \E right : Asking(call[c], conn[c], data, q, right)
    BY <1>4, ItIsAsked
  <2>2. QED
    BY <2>1 DEF Asking
<1>7. PICK earned \in Nat : earned = Earned(q, Result(q, r))
  BY EarnedIsBounded
<1>8. /\ data' = data /\ late' = late /\ calls' = calls /\ tried' = tried
      /\ acked' = acked + earned
      /\ calls \in Nat /\ acked \in Int /\ tried \in Int /\ data.number \in Int
  <2>1. acked' = acked + earned
    BY <1>4, <1>6, <1>7, WhatIsAcknowledged
  <2>2. QED
    BY <2>1 DEF Return, Counted
<1>9. PICK i \in 1..calls : owner[i] = <<c, 0>> /\ earned <= Entry(due, i)
  <2>1. CallIsBooked(c, call[c], conn[c], calls, open, due, owner)
    BY <1>2 DEF Booked
  <2>2. QED
    BY <1>3, <1>4, <1>6, <1>7, <2>1 DEF CallIsBooked, Pending
<1>10. IsBook(open, calls, data.number, tried) /\ IsBook(due, calls, acked, hi)
       /\ hi <= data.number
  BY <1>2 DEF Booked
<1>11. PICK due2 : /\ IsBook(due2, calls, acked + earned, hi)
                   /\ \A j \in 1..calls : j # i => Entry(due2, j) = Entry(due, j)
  BY <1>8, <1>9, <1>10, Spend
<1>12. ASSUME NEW p \in Proxies
       PROVE  CallIsBooked(p, call'[p], conn'[p], calls, open, due2, owner)
  <2>1. CallIsBooked(p, call[p], conn[p], calls, open, due, owner)
    BY <1>2 DEF Booked
  <2>2. p # c => \A j \in 1..calls : owner[j] = <<p, 0>> =>
                   owner[j] = owner[j] /\ Entry(due2, j) = Entry(due, j)
    BY <1>9, <1>11
  <2>3. QED
    BY <1>4, <1>5, <1>8, <2>1, <2>2, OthersStayBooked
<1>13. Booked(open, due2, owner, hi)'
  BY <1>2, <1>8, <1>10, <1>11, <1>12 DEF Booked
<1>14. QED
  BY <1>8, <1>13 DEF Counted

(* A request that is left behind takes over the entry of its call. *)
LEMMA LateWithOneMore ==
  ASSUME NEW c, NEW lt \in Seq(Requests), NEW n \in Nat, NEW open, NEW owner,
         LateAreBooked(c, lt, n, open, owner), NEW q \in Requests,
         NEW i \in 1..n, owner[i] = <<c, 0>>, Amount(q) <= Entry(open, i), NEW owner2,
         \A j \in 1..n : owner2[j] = IF j = i THEN <<c, Len(lt) + 1>> ELSE owner[j]
  PROVE  LateAreBooked(c, Append(lt, q), n, open, owner2)
<1> DEFINE lt2 == Append(lt, q)
<1>1. Len(lt) \in Nat /\ Len(lt2) = Len(lt) + 1 /\ lt2[Len(lt) + 1] = q
      /\ \A k \in 1..Len(lt) : lt2[k] = lt[k]
  BY AppendProperties, LenProperties
<1> HIDE DEF lt2
<1>2. ASSUME NEW k \in 1..Len(lt2)
      PROVE  \E j \in 1..n : owner2[j] = <<c, k>> /\ Amount(lt2[k]) <= Entry(open, j)
  <2>1. CASE k = Len(lt) + 1
    BY <1>1, <2>1
  <2>2. CASE k # Len(lt) + 1
    <3>1. k \in 1..Len(lt)
      BY <1>1, <2>2
    <3>2. PICK j \in 1..n : owner[j] = <<c, k>> /\ Amount(lt[k]) <= Entry(open, j)
      BY <3>1 DEF LateAreBooked
    <3>3. j # i
      BY <3>1, <3>2
    <3>4. QED
      BY <1>1, <3>1, <3>2, <3>3
  <2>3. QED
    BY <2>1, <2>2
<1>3. LateAreBooked(c, lt2, n, open, owner2)
  BY <1>2 DEF LateAreBooked
<1>4. QED
  BY <1>3 DEF lt2

(* Of a call that is given up, the request is left behind, if it is still   *)
(* on the connection, and may arrive; or nothing is.                        *)
LEMMA WhatIsLeftBehind ==
  ASSUME OneAtATime, Counted, NEW c \in Proxies, GiveUp(c), NEW q, q = call[c].request
  PROVE  \/ late' = late
         \/ /\ conn[c].requests # <<>>
            /\ late' = [late EXCEPT ![c] = Append(@, q)]
<1>1. PICK x \in Requests : \E right : Asking(call[c], conn[c], data, x, right)
  BY ItIsAsked DEF GiveUp
<1>2. x = q
  BY <1>1 DEF Asking
<1>3. PICK reqs : reqs = conn[c].requests /\ reqs \in {<<>>, <<q>>}
  <2>1. CASE conn[c] = [requests |-> <<q>>, replies |-> <<>>]
    BY <2>1
  <2>2. ASSUME NEW r, conn[c] = [requests |-> <<>>, replies |-> <<r>>]
        PROVE  conn[c].requests = <<>>
    BY ONLY <2>2
  <2>3. QED
    BY <1>1, <1>2, <2>1, <2>2, Zenon DEF Asking
<1>4. PICK k \in 0..Len(reqs) : late' = [late EXCEPT ![c] = @ \o SubSeq(reqs, 1, k)]
  BY <1>3 DEF GiveUp, release
<1>5. late \in [Proxies -> Seq(Requests)] /\ late[c] \in Seq(Requests)
  BY DEF Counted
<1>6. CASE k = 0
  <2>1. SubSeq(reqs, 1, k) = <<>>
    BY <1>3, <1>6
  <2>2. late[c] \o <<>> = late[c]
    BY <1>5, ConcatEmptySeq
  <2>3. late' = [late EXCEPT ![c] = late[c]]
    BY <1>4, <2>1, <2>2
  <2>4. QED
    BY <1>5, <2>3
<1>7. CASE k # 0
  <2>1. reqs # <<>>
    BY <1>7
  <2>2. reqs = <<q>>
    BY <1>3, <2>1
  <2>3. Len(<<q>>) = 1
    OBVIOUS
  <2>4. k = 1
    BY <1>7, <2>2, <2>3
  <2>5. SubSeq(reqs, 1, k) = <<q>>
    <3>1. <<q>> \in Seq({q})
      OBVIOUS
    <3>2. QED
      BY <2>2, <2>3, <2>4, <3>1, SubSeqFull
  <2>6. late[c] \o <<q>> = Append(late[c], q)
    BY <1>1, <1>2, <1>5, AppendIsConcat
  <2>7. late' = [late EXCEPT ![c] = Append(@, q)]
    BY <1>4, <2>5, <2>6
  <2>8. QED
    BY <1>3, <2>1, <2>7
<1>8. QED
  BY <1>6, <1>7

LEMMA GiveUpKeepsBooks ==
  ASSUME OneAtATime, Counted, NEW c \in Proxies, GiveUp(c)
  PROVE  Counted'
<1>1. PICK open, due, owner : \E hi \in Int : Booked(open, due, owner, hi)
  BY DEF Counted
<1>2. PICK hi \in Int : Booked(open, due, owner, hi)
  BY <1>1
<1>3. Answer(c, Null) /\ Pending(c) /\ conn' = [conn EXCEPT ![c] = NoTraffic]
  BY DEF GiveUp, release
<1>4. PICK q \in Requests : q = call[c].request
  <2>1. PICK q \in Requests : \E right : Asking(call[c], conn[c], data, q, right)
    BY <1>3, ItIsAsked
  <2>2. QED
    BY <2>1 DEF Asking
<1>5. /\ data' = data /\ calls' = calls /\ tried' = tried /\ acked' = acked
      /\ calls \in Nat /\ acked \in Int /\ tried \in Int /\ data.number \in Int
  <2>1. acked' = acked + 0
    BY <1>3, <1>4, WhatIsAcknowledged, FailuresEarnNothing
  <2>2. QED
    BY <2>1 DEF GiveUp, Counted
<1>6. PICK i \in 1..calls :
        owner[i] = <<c, 0>> /\ (conn[c].requests # <<>> => Amount(q) <= Entry(open, i))
  <2>1. CallIsBooked(c, call[c], conn[c], calls, open, due, owner)
    BY <1>2 DEF Booked
  <2>2. QED
    BY <1>3, <1>4, <2>1 DEF CallIsBooked, Pending
<1>7. CASE late' = late
  <2>1. ASSUME NEW p \in Proxies
        PROVE  CallIsBooked(p, call'[p], conn'[p], calls, open, due, owner)
    <3>1. CallIsBooked(p, call[p], conn[p], calls, open, due, owner)
      BY <1>2 DEF Booked
    <3>2. p # c => \A j \in 1..calls : owner[j] = <<p, 0>> =>
                     owner[j] = owner[j] /\ Entry(due, j) = Entry(due, j)
      OBVIOUS
    <3>3. QED
      BY <1>3, <1>5, <3>1, <3>2, OthersStayBooked
  <2>2. Booked(open, due, owner, hi)'
    BY <1>2, <1>5, <1>7, <2>1 DEF Booked
  <2>3. QED
    BY <1>5, <1>7, <2>2 DEF Counted, GiveUp
<1>8. CASE /\ conn[c].requests # <<>>
           /\ late' = [late EXCEPT ![c] = Append(@, q)]
  <2>1. PICK lt : lt = late[c] /\ lt \in Seq(Requests)
    BY DEF Counted
  <2>2. PICK owner2 :
          \A j \in 1..calls : owner2[j] = IF j = i THEN <<c, Len(lt) + 1>> ELSE owner[j]
    <3> DEFINE o == [j \in 1..calls |-> IF j = i THEN <<c, Len(lt) + 1>> ELSE owner[j]]
    <3>1. \A j \in 1..calls : o[j] = IF j = i THEN <<c, Len(lt) + 1>> ELSE owner[j]
      OBVIOUS
    <3>2. QED
      BY <3>1
  <2>3. ASSUME NEW p \in Proxies
        PROVE  CallIsBooked(p, call'[p], conn'[p], calls, open, due, owner2)
    <3>1. CallIsBooked(p, call[p], conn[p], calls, open, due, owner)
      BY <1>2 DEF Booked
    <3>2. p # c => \A j \in 1..calls : owner[j] = <<p, 0>> =>
                     owner2[j] = owner[j] /\ Entry(due, j) = Entry(due, j)
      BY <1>6, <2>2
    <3>3. QED
      BY <1>3, <1>5, <3>1, <3>2, OthersStayBooked
  <2>4. ASSUME NEW p \in Proxies
        PROVE  LateAreBooked(p, late'[p], calls, open, owner2)
    <3>1. LateAreBooked(p, late[p], calls, open, owner)
      BY <1>2 DEF Booked
    <3>2. CASE p = c
      <4>1. late'[c] = Append(lt, q)
        BY <1>8, <2>1 DEF Counted
      <4>2. LateAreBooked(c, lt, calls, open, owner)
        BY <2>1, <3>1, <3>2
      <4>3. owner[i] = <<c, 0>> /\ Amount(q) <= Entry(open, i)
        BY <1>6, <1>8
      <4>4. LateAreBooked(c, Append(lt, q), calls, open, owner2)
        BY <1>5, <2>1, <2>2, <4>2, <4>3, LateWithOneMore
      <4>5. QED
        BY <3>2, <4>1, <4>4
    <3>3. CASE p # c
      <4>1. PICK other : other = late[p]
        OBVIOUS
      <4>2. late'[p] = other
        BY <1>8, <3>3, <4>1 DEF Counted
      <4>3. \A j \in 1..calls : \A m \in 1..Len(other) : owner[j] = <<p, m>> =>
              owner2[j] = owner[j] /\ Entry(open, j) = Entry(open, j)
        BY <1>6, <2>2, <3>3
      <4>4. calls \in Nat /\ calls <= calls
        BY <1>5
      <4>5. LateAreBooked(p, other, calls, open, owner)
        BY <3>1, <4>1
      <4>6. LateAreBooked(p, other, calls, open, owner2)
        BY <4>3, <4>4, <4>5, LateSame
      <4>7. QED
        BY <4>2, <4>6
    <3>4. QED
      BY <3>2, <3>3
  <2>5. Booked(open, due, owner2, hi)'
    BY <1>2, <1>5, <2>3, <2>4 DEF Booked
  <2>6. late' \in [Proxies -> Seq(Requests)]
    <3>1. Append(lt, q) \in Seq(Requests)
      BY <2>1, AppendProperties
    <3>2. QED
      BY <1>8, <2>1, <3>1 DEF Counted
  <2>7. QED
    BY <1>5, <2>5, <2>6 DEF Counted
<1>9. QED
  BY <1>4, <1>7, <1>8, WhatIsLeftBehind

LEMMA EveryStepKeepsBooks ==
  ASSUME OneAtATime, Counted, [Next]_vars
  PROVE  Counted'
<1>1. ASSUME NEW c \in Proxies, Write(c) \/ Read(c)
      PROVE  Counted'
  BY <1>1, WhatIsAsked, AskKeepsBooks
<1>2. CASE UNCHANGED vars
  BY <1>2 DEF vars, Counted, Booked
<1>3. QED
  BY <1>1, <1>2, ServeKeepsBooks, ServeLateKeepsBooks, ReturnKeepsBooks,
     GiveUpKeepsBooks, ExpireKeepsBooks DEF Next

(* A counting call counts at most once, and once when it says so: what is   *)
(* acknowledged is never more than the counter, and the counter never more  *)
(* than what was tried, however many requests are still on their way from   *)
(* calls that were given up.                                                *)
THEOREM NoneCountsTwice == Spec => []CountedAtMostOnce
<1> DEFINE IInv == OneAtATime /\ AnswersAreCurrent /\ Counted
<1>1. Init => IInv
  BY CallsAtFirst, CountedAtFirst
<1>2. IInv /\ [Next]_vars => IInv'
  BY EveryStepKeepsCalls, EveryStepKeepsBooks
<1>3. IInv => CountedAtMostOnce
  BY CountedImplies
<1>4. QED
  BY <1>1, <1>2, <1>3, PTL DEF Spec

=============================================================================
