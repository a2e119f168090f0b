------------------------------- MODULE TcpProofs -------------------------------
(***************************************************************************)
(* A thread that walks through the map of connections does not wait for    *)
(* its mutex, at rest each connection is served or gone, and what a thread *)
(* sends is written in order and without holes, for any connections, loops *)
(* and threads.                                                            *)
(*                                                                         *)
(* The second is about every call that is on its way.  The life of one     *)
(* connection p is told by its fields, its place in the map, the stack of  *)
(* its loop and the queue of its loop; Life() relates these four, and the  *)
(* lemmas about it are about values, so that each action is a few changes  *)
(* of one of them.  The third is about what is sent on p, which is in a    *)
(* line of three parts: written, in the hands of its loop, queued.         *)
(*                                                                         *)
(* Of TcpClient: what libevent refers to is kept by its tie, and a client  *)
(* that is wanted stays registered, if the application uses it with care;  *)
(* the list that is served holds just the registered connection that is    *)
(* up, however it is used.                                                 *)
(***************************************************************************)
EXTENDS Tcp, SequenceTheorems, WellFoundedInduction, TLAPS

(* The fields of a connection, in the order in which it gets them. *)
Accepted == [fd |-> "open", bufev_ |-> FALSE, bConnected_ |-> FALSE,
             bClosed_ |-> FALSE, callbacks |-> TRUE, tie_ |-> TRUE]
HalfUp == [Accepted EXCEPT !.bufev_ = TRUE]
Up == [HalfUp EXCEPT !.bConnected_ = TRUE]
Closed == [NewConn EXCEPT !.fd = "closed", !.bClosed_ = TRUE]
Phases == {NewConn, Accepted, HalfUp, Up, Closed}

(* The calls a thread can be in, and those that are queued on a loop. *)
ConnOps == {"BuildAccept", "onConnect", "closeInLoop", "onClose", "finish"}
ServerOps == {"addServer", "delServer", "addServerInLoop", "delServerInLoop"}

ConnCalls(ops, t) == {Call(op, p) : op \in ops, p \in {c \in Conns : LoopOf[c] = t}}
ServerCalls(ops) == {Call(op, none) : op \in ops}
Writes(t) == {Write(p, m) : p \in {c \in Conns : LoopOf[c] = t}, m \in Pdu}
Walks(m) == {Walk("sendPdu", d, todo) : d \in Pdu, todo \in SUBSET m}
            \cup {Walk("stopConn", none, todo) : todo \in SUBSET m}

Frames(t) == ConnCalls(ConnOps, t) \cup ServerCalls(ServerOps) \cup Writes(t)
Functors(l) ==
  ConnCalls({"BuildAccept", "closeInLoop"}, l) \cup Writes(l)
  \cup ServerCalls({"addServerInLoop", "delServerInLoop"})

(* Thread t is in one call; or it walks through the map, and then it has    *)
(* the mutex, and may write on a connection of its own when it sends.       *)
StackOK(t, s, mutex, m) ==
  \/ s = <<>> /\ mutex # t
  \/ mutex # t /\ \E f \in Frames(t) : s = <<f>>
  \/ mutex = t /\ \E w \in Walks(m) : s = <<w>>
  \/ mutex = t /\ \E f \in Writes(t), w \in Walks(m) : w.op = "sendPdu" /\ s = <<f, w>>

Types ==
  /\ conn \in [Conns -> Phases] /\ connMap_ \subseteq Conns
  /\ mutex_ \in Threads \cup {none}
  /\ DOMAIN queue = Loops /\ \A l \in Loops : queue[l] \in Seq(Functors(l))
  /\ DOMAIN stack = Threads
  /\ left \in [calls : Nat, pdus : SUBSET Pdus]

Stacks == \A t \in Threads : StackOK(t, stack[t], mutex_, connMap_)

-----------------------------------------------------------------------------
(* The life of connection p, with its fields c and the map m, s the stack   *)
(* and q the queue of its loop.                                             *)
Has(q, f) == \E i \in 1..Len(q) : q[i] = f
Once(q, f) == \A i, j \in 1..Len(q) : q[i] = f /\ q[j] = f => i = j
In(s, op, p) == s = <<Call(op, p)>>

Closes(s, p) == In(s, "closeInLoop", p) \/ In(s, "onClose", p) \/ In(s, "finish", p)
Ends(p, s, q) == Closes(s, p) \/ Has(q, Call("closeInLoop", p))

Life(p, c, m, s, q) ==
  /\ c = Accepted <=> In(s, "BuildAccept", p) \/ Has(q, Call("BuildAccept", p))
  /\ In(s, "BuildAccept", p) => ~Has(q, Call("BuildAccept", p))
  /\ Once(q, Call("BuildAccept", p))
  /\ c = HalfUp => Closes(s, p)
  /\ c = Up /\ p \notin m => In(s, "onConnect", p) \/ Ends(p, s, q)
  /\ p \in m \/ In(s, "onConnect", p) => c = Up
  /\ In(s, "finish", p) => p \notin m
  /\ Ends(p, s, q) => c # NewConn /\ c # Accepted

Lives ==
  \A p \in Conns : Life(p, conn[p], connMap_, stack[LoopOf[p]], queue[LoopOf[p]])

(* While a thread stops the connections of the map, those it has come to    *)
(* are on their way to their end.                                           *)
Stopping ==
  \A t \in Threads, todo \in SUBSET Conns :
    stack[t] = <<Walk("stopConn", none, todo)>> =>
      \A p \in connMap_ \ todo : Ends(p, stack[LoopOf[p]], queue[LoopOf[p]])

IInv == Types /\ Stacks /\ Lives /\ Stopping

-----------------------------------------------------------------------------
LEMMA CallFields ==
  /\ \A op, p : Call(op, p).op = op /\ Call(op, p).conn = p
  /\ \A p, d : Write(p, d).op = "onWrite" /\ Write(p, d).conn = p
  /\ \A op, d, todo : Walk(op, d, todo).op = op /\ Walk(op, d, todo).todo = todo
  /\ \A op, p, op2, p2 : Call(op, p) = Call(op2, p2) => op = op2 /\ p = p2
BY DEF Call, Write, Walk

LEMMA Stacked1 ==
  /\ \A f : <<f>> # <<>> /\ Head(<<f>>) = f /\ Tail(<<f>>) = <<>>
  /\ \A f, g : <<f>> = <<g>> => f = g
  /\ \A f : <<f>> \o <<>> = <<f>>
OBVIOUS

LEMMA Stacked2 ==
  /\ \A f, w : <<f, w>> # <<>> /\ Head(<<f, w>>) = f /\ Tail(<<f, w>>) = <<w>>
  /\ \A f, w, g : <<f, w>> # <<g>>
  /\ \A f, w, g, x : <<f, w>> = <<g, x>> => f = g /\ w = x
  /\ \A f, w : <<f>> \o <<w>> = <<f, w>>
<1>1. ASSUME NEW f, NEW w PROVE <<f>> \o <<w>> = <<f, w>>
  <2>1. <<f>> \in Seq({f, w}) /\ <<w>> \in Seq({f, w}) /\ <<f, w>> \in Seq({f, w})
    OBVIOUS
  <2>2. /\ <<f>> \o <<w>> \in Seq({f, w}) /\ Len(<<f>> \o <<w>>) = 2
        /\ \A i \in 1..2 : (<<f>> \o <<w>>)[i] = IF i <= 1 THEN <<f>>[i] ELSE <<w>>[i - 1]
    BY <2>1, ConcatProperties
  <2>3. Len(<<f, w>>) = 2 /\ <<f, w>>[1] = f /\ <<f, w>>[2] = w
    OBVIOUS
  <2>4. \A i \in 1..2 : (<<f>> \o <<w>>)[i] = <<f, w>>[i]
    BY <2>2, <2>3
  <2> QED
    BY <2>1, <2>2, <2>3, <2>4, SeqEqual
<1> QED
  BY <1>1

LEMMA PhasesDiffer ==
  /\ NewConn # Accepted /\ NewConn # HalfUp /\ NewConn # Up /\ NewConn # Closed
  /\ Accepted # HalfUp /\ Accepted # Up /\ Accepted # Closed
  /\ HalfUp # Up /\ HalfUp # Closed /\ Up # Closed
BY DEF NewConn, Accepted, HalfUp, Up, Closed

(* What the code reads of a connection. *)
LEMMA PhaseFields ==
  ASSUME NEW c \in Phases
  PROVE  /\ c.bufev_ <=> c = HalfUp \/ c = Up
         /\ c.bConnected_ <=> c = Up
         /\ c.bClosed_ <=> c = Closed
         /\ c.fd = "none" <=> c = NewConn
         /\ c = Closed => c.fd = "closed" /\ ~c.tie_ /\ ~c.callbacks
<1>1. CASE c = NewConn
  BY <1>1, PhasesDiffer DEF NewConn
<1>2. CASE c = Accepted
  BY <1>2, PhasesDiffer DEF Accepted
<1>3. CASE c = HalfUp
  BY <1>3, PhasesDiffer DEF HalfUp, Accepted
<1>4. CASE c = Up
  BY <1>4, PhasesDiffer DEF Up, HalfUp, Accepted
<1>5. CASE c = Closed
  BY <1>5, PhasesDiffer DEF Closed, NewConn
<1> QED
  BY <1>1, <1>2, <1>3, <1>4, <1>5 DEF Phases

(* Queues *)
LEMMA AppendHas ==
  ASSUME NEW S, NEW q \in Seq(S), NEW f \in S
  PROVE  /\ Append(q, f) \in Seq(S)
         /\ \A g : Has(Append(q, f), g) <=> Has(q, g) \/ g = f
         /\ \A g : Once(q, g) /\ (g = f => ~Has(q, g)) => Once(Append(q, f), g)
<1>1. /\ Append(q, f) \in Seq(S) /\ Len(q) \in Nat /\ Len(Append(q, f)) = Len(q) + 1
      /\ Append(q, f)[Len(q) + 1] = f
      /\ \A i \in 1..Len(q) : Append(q, f)[i] = q[i]
  BY AppendProperties, LenProperties
<1>2. \A i : i \in 1..Len(Append(q, f)) <=> i \in 1..Len(q) \/ i = Len(q) + 1
  BY <1>1
<1>3. ASSUME NEW g PROVE Has(Append(q, f), g) <=> Has(q, g) \/ g = f
  BY <1>1, <1>2 DEF Has
<1>4. ASSUME NEW g, Once(q, g), g = f => ~Has(q, g) PROVE Once(Append(q, f), g)
  BY <1>1, <1>2, <1>4 DEF Has, Once
<1> QED
  BY <1>1, <1>3, <1>4

LEMMA TailHas ==
  ASSUME NEW S, NEW q \in Seq(S), q # <<>>
  PROVE  /\ Tail(q) \in Seq(S) /\ Head(q) \in S
         /\ \A g : Has(q, g) <=> g = Head(q) \/ Has(Tail(q), g)
         /\ \A g : Once(q, g) => Once(Tail(q), g)
         /\ \A g : Once(q, g) /\ g = Head(q) => ~Has(Tail(q), g)
<1>1. /\ Tail(q) \in Seq(S) /\ Head(q) \in S /\ Len(q) \in Nat /\ Len(q) >= 1
      /\ Len(Tail(q)) = Len(q) - 1 /\ Head(q) = q[1]
      /\ \A i \in 1..(Len(q) - 1) : Tail(q)[i] = q[i + 1]
  BY HeadTailProperties, LenProperties, EmptySeq, ElementOfSeq
<1>2. \A i \in 1..Len(q) : i = 1 \/ (i - 1 \in 1..Len(Tail(q)) /\ Tail(q)[i - 1] = q[i])
  BY <1>1
<1>3. \A i \in 1..Len(Tail(q)) : i + 1 \in 1..Len(q) /\ Tail(q)[i] = q[i + 1] /\ i + 1 # 1
  BY <1>1
<1>4. 1 \in 1..Len(q)
  BY <1>1
<1>5. ASSUME NEW g PROVE Has(q, g) <=> g = Head(q) \/ Has(Tail(q), g)
  BY <1>1, <1>2, <1>3, <1>4, SMTT(30) DEF Has
<1>6. ASSUME NEW g, Once(q, g) PROVE Once(Tail(q), g)
  <2> SUFFICES ASSUME NEW i \in 1..Len(Tail(q)), NEW j \in 1..Len(Tail(q)),
                      Tail(q)[i] = g, Tail(q)[j] = g
               PROVE  i = j
    BY DEF Once
  <2>1. i + 1 = j + 1
    BY <1>3, <1>6 DEF Once
  <2> QED
    BY <1>1, <2>1
<1>7. ASSUME NEW g, Once(q, g), g = Head(q) PROVE ~Has(Tail(q), g)
  BY <1>1, <1>3, <1>4, <1>7 DEF Has, Once
<1> QED
  BY <1>1, <1>5, <1>6, <1>7

-----------------------------------------------------------------------------
(* What leaves the life of p as it is: another call on the stack...         *)
Elsewhere(s, p) == \A op \in ConnOps : ~In(s, op, p)

LEMMA StackKeepsLife ==
  ASSUME NEW p, NEW c, NEW m, NEW s, NEW q, Life(p, c, m, s, q), Elsewhere(s, p),
         NEW s2, Elsewhere(s2, p)
  PROVE  Life(p, c, m, s2, q)
BY DEF Life, Elsewhere, ConnOps, Closes, Ends

(* ... a functor queued, if it closes p only when p is there ...            *)
LEMMA QueueKeepsLife ==
  ASSUME NEW p, NEW c, NEW m, NEW s, NEW S, NEW q \in Seq(S), Life(p, c, m, s, q),
         NEW f \in S, f # Call("BuildAccept", p),
         f = Call("closeInLoop", p) => c # NewConn /\ c # Accepted
  PROVE  Life(p, c, m, s, Append(q, f))
<1>1. \A g : Has(Append(q, f), g) <=> Has(q, g) \/ g = f
  BY AppendHas
<1>2. Once(q, Call("BuildAccept", p)) => Once(Append(q, f), Call("BuildAccept", p))
  BY AppendHas
<1> QED
  BY <1>1, <1>2 DEF Life, Ends

(* ... a functor that is taken ...                                          *)
LEMMA TakenKeepsLife ==
  ASSUME NEW p, NEW c, NEW m, NEW S, NEW q \in Seq(S), q # <<>>,
         \A op \in ConnOps \ {"BuildAccept", "closeInLoop"} : Head(q) # Call(op, p),
         Life(p, c, m, <<>>, q)
  PROVE  Life(p, c, m, <<Head(q)>>, Tail(q))
<1>1. \A g : Has(q, g) <=> g = Head(q) \/ Has(Tail(q), g)
  BY TailHas
<1>2. /\ Once(q, Call("BuildAccept", p)) => Once(Tail(q), Call("BuildAccept", p))
      /\ Once(q, Call("BuildAccept", p)) /\ Call("BuildAccept", p) = Head(q)
           => ~Has(Tail(q), Call("BuildAccept", p))
  BY TailHas
<1>3. \A op : ~In(<<>>, op, p) /\ (In(<<Head(q)>>, op, p) <=> Head(q) = Call(op, p))
  BY Stacked1 DEF In
<1> QED
  BY <1>1, <1>2, <1>3 DEF Life, Closes, Ends, ConnOps

(* ... and a change of the map that is about others.                        *)
LEMMA MapKeepsLife ==
  ASSUME NEW p, NEW c, NEW m, NEW m2, NEW s, NEW q, Life(p, c, m, s, q),
         p \in m2 <=> p \in m
  PROVE  Life(p, c, m2, s, q)
BY DEF Life

-----------------------------------------------------------------------------
(* What is on a stack *)

LEMMA FrameOps ==
  /\ \A t, f : f \in Frames(t) => f.op \notin {"sendPdu", "stopConn"}
  /\ \A t, f : f \in Frames(t) /\ f.op \in ConnOps =>
       f.conn \in Conns /\ LoopOf[f.conn] = t /\ f = Call(f.op, f.conn)
  /\ \A t, f : f \in Frames(t) /\ f.op \in ServerOps => f = Call(f.op, none)
  /\ \A t, f : f \in Frames(t) /\ f.op = "onWrite" => f \in Writes(t)
  /\ \A m, w : w \in Walks(m) => w.op \in {"sendPdu", "stopConn"}
  /\ \A t, f : f \in Writes(t) => f.op = "onWrite" /\ f.conn \in Conns /\ LoopOf[f.conn] = t
  /\ \A l, f : f \in Functors(l) => f \in Frames(l)
<1>1. ASSUME NEW t, NEW f \in Frames(t)
      PROVE  \/ \E op \in ConnOps, p \in Conns : f = Call(op, p) /\ LoopOf[p] = t
             \/ \E op \in ServerOps : f = Call(op, none)
             \/ f \in Writes(t)
  BY <1>1 DEF Frames, ConnCalls, ServerCalls
<1>2. ASSUME NEW t, NEW f \in Writes(t)
      PROVE  f.op = "onWrite" /\ f.conn \in Conns /\ LoopOf[f.conn] = t
  BY <1>2, CallFields DEF Writes
<1>3. ASSUME NEW t, NEW f \in Frames(t)
      PROVE  /\ f.op \notin {"sendPdu", "stopConn"}
             /\ f.op \in ConnOps =>
                  f.conn \in Conns /\ LoopOf[f.conn] = t /\ f = Call(f.op, f.conn)
             /\ f.op \in ServerOps => f = Call(f.op, none)
             /\ f.op = "onWrite" => f \in Writes(t)
  <2>1. CASE f \in Writes(t)
    BY <1>2, <2>1 DEF ConnOps, ServerOps
  <2>2. ASSUME NEW op \in ConnOps, NEW p \in Conns, f = Call(op, p), LoopOf[p] = t
        PROVE  f.op = op /\ f.conn = p
    BY <2>2, CallFields
  <2>3. ASSUME NEW op \in ServerOps, f = Call(op, none)
        PROVE  f.op = op
    BY <2>3, CallFields
  <2> QED
    BY <1>1, <2>1, <2>2, <2>3 DEF ConnOps, ServerOps
<1>4. ASSUME NEW m, NEW w \in Walks(m) PROVE w.op \in {"sendPdu", "stopConn"}
  BY <1>4, CallFields DEF Walks
<1>5. ASSUME NEW l, NEW f \in Functors(l) PROVE f \in Frames(l)
  BY <1>5 DEF Functors, Frames, ConnCalls, ServerCalls, ConnOps, ServerOps
<1> QED
  BY <1>2, <1>3, <1>4, <1>5

LEMMA InnerCall ==
  ASSUME Stacks, NEW t \in Threads, NEW op, At(t, op)
  PROVE  /\ op \in ConnOps =>
              /\ Top(t).conn \in Conns /\ LoopOf[Top(t).conn] = t
              /\ In(stack[t], op, Top(t).conn) /\ mutex_ # t
         /\ op \in ServerOps => stack[t] = <<Call(op, none)>> /\ mutex_ # t
         /\ op \in {"sendPdu", "stopConn"} =>
              Top(t) \in Walks(connMap_) /\ stack[t] = <<Top(t)>> /\ mutex_ = t
         /\ op = "onWrite" =>
              /\ Top(t) \in Writes(t)
              /\ \/ stack[t] = <<Top(t)>> /\ mutex_ # t
                 \/ mutex_ = t /\ \E w \in Walks(connMap_) :
                                    w.op = "sendPdu" /\ stack[t] = <<Top(t), w>>
<1>1. stack[t] # <<>> /\ Top(t).op = op
  BY DEF At
<1>2. StackOK(t, stack[t], mutex_, connMap_)
  BY DEF Stacks
<1>3. ASSUME NEW f \in Frames(t), stack[t] = <<f>> PROVE f = Top(t) /\ f.op = op
  BY <1>1, <1>3, Stacked1 DEF Top
<1>4. ASSUME NEW w \in Walks(connMap_), stack[t] = <<w>>
      PROVE  w = Top(t) /\ op \in {"sendPdu", "stopConn"}
  BY <1>1, <1>4, Stacked1, FrameOps DEF Top
<1>5. ASSUME NEW f \in Writes(t), NEW w \in Walks(connMap_), stack[t] = <<f, w>>
      PROVE  f = Top(t) /\ op = "onWrite"
  BY <1>1, <1>5, Stacked2, FrameOps DEF Top
<1>6. ("onWrite" \notin ConnOps) /\ ("onWrite" \notin ServerOps)
      /\ ("sendPdu" \notin ConnOps) /\ ("sendPdu" \notin ServerOps)
      /\ ("stopConn" \notin ConnOps) /\ ("stopConn" \notin ServerOps)
  BY DEF ConnOps, ServerOps
<1>7. CASE mutex_ # t /\ \E f \in Frames(t) : stack[t] = <<f>>
  BY <1>3, <1>6, <1>7, FrameOps DEF In
<1>8. CASE mutex_ = t /\ \E w \in Walks(connMap_) : stack[t] = <<w>>
  BY <1>4, <1>6, <1>8
<1>9. CASE mutex_ = t /\ \E f \in Writes(t), w \in Walks(connMap_) :
                         w.op = "sendPdu" /\ stack[t] = <<f, w>>
  BY <1>5, <1>6, <1>9
<1> QED
  BY <1>1, <1>2, <1>7, <1>8, <1>9 DEF StackOK

LEMMA AtRest ==
  ASSUME Stacks, NEW t \in Threads, stack[t] = <<>> PROVE mutex_ # t
BY Stacked1, Stacked2 DEF Stacks, StackOK

LEMMA OnlyWalkersWalk ==
  ASSUME Stacks, NEW t \in Threads, NEW op \in {"sendPdu", "stopConn"}, NEW d, NEW todo,
         stack[t] = <<Walk(op, d, todo)>>
  PROVE  mutex_ = t
<1>1. Walk(op, d, todo).op = op
  BY CallFields
<1>2. \A f \in Frames(t) : f # Walk(op, d, todo)
  BY <1>1, FrameOps
<1>3. stack[t] # <<>> /\ \A f \in Frames(t) : stack[t] # <<f>>
  BY <1>2, Stacked1
<1> QED
  BY <1>3 DEF Stacks, StackOK

(* A call that is about nobody, or about another connection. *)
LEMMA Elsewheres ==
  /\ \A p : Elsewhere(<<>>, p)
  /\ \A p, f, w : Elsewhere(<<f, w>>, p)
  /\ \A p, f : f.op \notin ConnOps \/ f.conn # p => Elsewhere(<<f>>, p)
<1>1. ASSUME NEW p PROVE Elsewhere(<<>>, p)
  BY Stacked1 DEF Elsewhere, In
<1>2. ASSUME NEW p, NEW f, NEW w PROVE Elsewhere(<<f, w>>, p)
  BY Stacked2 DEF Elsewhere, In
<1>3. ASSUME NEW p, NEW f, f.op \notin ConnOps \/ f.conn # p PROVE Elsewhere(<<f>>, p)
  <2> SUFFICES ASSUME NEW op \in ConnOps, <<f>> = <<Call(op, p)>> PROVE FALSE
    BY DEF Elsewhere, In
  <2>1. f = Call(op, p)
    BY Stacked1
  <2>2. f.op = op /\ f.conn = p
    BY <2>1, CallFields
  <2> QED
    BY <1>3, <2>2
<1> QED
  BY <1>1, <1>2, <1>3

-----------------------------------------------------------------------------
(* Steps of one thread *)

LEMMA StacksChange ==
  ASSUME Stacks, NEW t \in Threads,
         \A u \in Threads \ {t} : stack'[u] = stack[u],
         StackOK(t, stack'[t], mutex_', connMap_'),
         \A u \in Threads \ {t} : /\ mutex_ = u <=> mutex_' = u
                                  /\ mutex_ = u => connMap_' = connMap_
  PROVE  Stacks'
<1> SUFFICES ASSUME NEW u \in Threads \ {t} PROVE StackOK(u, stack[u], mutex_', connMap_')
  BY DEF Stacks
<1>1. StackOK(u, stack[u], mutex_, connMap_)
  BY DEF Stacks
<1>2. CASE mutex_ = u
  BY <1>1, <1>2
<1>3. CASE mutex_ # u
  BY <1>1, <1>3 DEF StackOK
<1> QED
  BY <1>2, <1>3

(* A thread goes from one call that is about no connection to another, and  *)
(* a functor may be queued.                                                 *)
LEMMA MovesOn ==
  ASSUME Types, Lives, NEW t \in Threads, UNCHANGED <<conn, connMap_>>,
         \A u \in Threads \ {t} : stack'[u] = stack[u],
         \A p \in Conns : LoopOf[p] = t => Elsewhere(stack[t], p) /\ Elsewhere(stack'[t], p),
         \/ queue' = queue
         \/ \E l \in Loops : \E f \in Functors(l) :
              /\ queue' = [queue EXCEPT ![l] = Append(@, f)]
              /\ \A p \in Conns : f # Call("BuildAccept", p)
              /\ \A p \in Conns : f = Call("closeInLoop", p) =>
                   conn[p] # NewConn /\ conn[p] # Accepted
  PROVE  /\ Lives'
         /\ DOMAIN queue' = Loops /\ \A l \in Loops : queue'[l] \in Seq(Functors(l))
         /\ \A p \in Conns : Ends(p, stack[LoopOf[p]], queue[LoopOf[p]])
                               => Ends(p, stack'[LoopOf[p]], queue'[LoopOf[p]])
<1>1. /\ DOMAIN queue = Loops /\ \A l \in Loops : queue[l] \in Seq(Functors(l))
      /\ \A p \in Conns : LoopOf[p] \in Loops /\ LoopOf[p] \in Threads
  BY LoopsAssumption DEF Types, Threads
<1>2. DOMAIN queue' = Loops
  BY <1>1
<1>8. ASSUME NEW l \in Loops
      PROVE  /\ queue'[l] \in Seq(Functors(l))
             /\ \A g : Has(queue[l], g) => Has(queue'[l], g)
  <2>1. CASE queue'[l] = queue[l]
    BY <1>1, <2>1
  <2>2. ASSUME NEW f \in Functors(l), queue'[l] = Append(queue[l], f)
        PROVE  /\ queue'[l] \in Seq(Functors(l))
               /\ \A g : Has(queue[l], g) => Has(queue'[l], g)
    <3>1. queue[l] \in Seq(Functors(l))
      BY <1>1
    <3> QED
      BY <2>2, <3>1, AppendHas
  <2> QED
    BY <1>1, <2>1, <2>2
<1>3. \A l \in Loops : queue'[l] \in Seq(Functors(l))
  BY <1>8
<1>4. \A l \in Loops : \A g : Has(queue[l], g) => Has(queue'[l], g)
  BY <1>8
<1>5. ASSUME NEW p \in Conns
      PROVE  Life(p, conn[p], connMap_, stack[LoopOf[p]], queue'[LoopOf[p]])
  <2>1. Life(p, conn[p], connMap_, stack[LoopOf[p]], queue[LoopOf[p]])
    BY DEF Lives
  <2>2. CASE queue'[LoopOf[p]] = queue[LoopOf[p]]
    BY <2>1, <2>2
  <2>3. ASSUME NEW f \in Functors(LoopOf[p]),
               queue'[LoopOf[p]] = Append(queue[LoopOf[p]], f),
               f # Call("BuildAccept", p),
               f = Call("closeInLoop", p) => conn[p] # NewConn /\ conn[p] # Accepted
        PROVE  Life(p, conn[p], connMap_, stack[LoopOf[p]], queue'[LoopOf[p]])
    BY <1>1, <2>1, <2>3, QueueKeepsLife
  <2> QED
    BY <1>1, <2>2, <2>3
<1>6. ASSUME NEW p \in Conns
      PROVE  /\ Life(p, conn[p], connMap_, stack'[LoopOf[p]], queue'[LoopOf[p]])
             /\ Ends(p, stack[LoopOf[p]], queue[LoopOf[p]])
                  => Ends(p, stack'[LoopOf[p]], queue'[LoopOf[p]])
  <2>1. Has(queue[LoopOf[p]], Call("closeInLoop", p))
          => Has(queue'[LoopOf[p]], Call("closeInLoop", p))
    BY <1>1, <1>4
  <2>2. CASE LoopOf[p] = t
    <3>1. Elsewhere(stack[t], p) /\ Elsewhere(stack'[t], p)
      BY <2>2
    <3>2. ~Closes(stack[t], p)
      BY <3>1 DEF Elsewhere, ConnOps, Closes
    <3> QED
      BY <1>5, <2>1, <2>2, <3>1, <3>2, StackKeepsLife DEF Ends
  <2>3. CASE LoopOf[p] # t
    <3>1. stack'[LoopOf[p]] = stack[LoopOf[p]]
      BY <1>1, <2>3
    <3> QED
      BY <1>5, <2>1, <3>1 DEF Ends
  <2> QED
    BY <2>2, <2>3
<1>7. Lives'
  BY <1>6 DEF Lives
<1> QED
  BY <1>2, <1>3, <1>6, <1>7

(* A step in the life of one connection, on its loop. *)
LEMMA OneLife ==
  ASSUME Types, Lives, NEW p0 \in Conns, queue' = queue,
         \A u \in Threads \ {LoopOf[p0]} : stack'[u] = stack[u],
         \A p \in Conns \ {p0} :
           /\ conn'[p] = conn[p] /\ (p \in connMap_' <=> p \in connMap_)
           /\ Elsewhere(stack[LoopOf[p0]], p) /\ Elsewhere(stack'[LoopOf[p0]], p),
         Life(p0, conn'[p0], connMap_', stack'[LoopOf[p0]], queue[LoopOf[p0]])
  PROVE  Lives'
<1> SUFFICES ASSUME NEW p \in Conns \ {p0}
             PROVE  Life(p, conn'[p], connMap_', stack'[LoopOf[p]], queue[LoopOf[p]])
  BY DEF Lives
<1>1. Life(p, conn[p], connMap_', stack[LoopOf[p]], queue[LoopOf[p]])
  BY MapKeepsLife DEF Lives
<1>2. LoopOf[p] \in Threads
  BY LoopsAssumption DEF Threads
<1>3. CASE LoopOf[p] = LoopOf[p0]
  BY <1>1, <1>3, StackKeepsLife
<1>4. CASE LoopOf[p] # LoopOf[p0]
  BY <1>1, <1>2, <1>4
<1> QED
  BY <1>3, <1>4

LEMMA StoppingStays ==
  ASSUME Types, Stopping, connMap_' = connMap_,
         \A p \in connMap_ : Ends(p, stack[LoopOf[p]], queue[LoopOf[p]])
                               => Ends(p, stack'[LoopOf[p]], queue'[LoopOf[p]]),
         \A t \in Threads, todo \in SUBSET Conns :
           stack'[t] = <<Walk("stopConn", none, todo)>>
             => stack[t] = <<Walk("stopConn", none, todo)>>
  PROVE  Stopping'
<1> SUFFICES ASSUME NEW t \in Threads, NEW todo \in SUBSET Conns,
                    stack'[t] = <<Walk("stopConn", none, todo)>>,
                    NEW p \in connMap_ \ todo
             PROVE  Ends(p, stack'[LoopOf[p]], queue'[LoopOf[p]])
  BY DEF Stopping
<1> QED
  BY DEF Stopping

LEMMA NobodyStops ==
  ASSUME Stacks', \A t \in Threads : mutex_' # t
  PROVE  Stopping'
<1> SUFFICES ASSUME NEW t \in Threads, NEW todo \in SUBSET Conns,
                    stack'[t] = <<Walk("stopConn", none, todo)>>
             PROVE  FALSE
  BY DEF Stopping
<1>1. Walk("stopConn", none, todo).op = "stopConn"
  BY CallFields
<1>2. \A f \in Frames(t) : f # Walk("stopConn", none, todo)
  BY <1>1, FrameOps
<1>3. stack'[t] # <<>> /\ \A f \in Frames(t) : stack'[t] # <<f>>
  BY <1>2, Stacked1
<1> QED
  BY <1>3 DEF Stacks, StackOK

LEMMA Moved ==
  ASSUME DOMAIN stack = Threads, NEW t \in Threads, NEW e,
         stack' = [stack EXCEPT ![t] = e]
  PROVE  /\ DOMAIN stack' = Threads /\ stack'[t] = e
         /\ \A u \in Threads \ {t} : stack'[u] = stack[u]
OBVIOUS

LEMMA LoopsAreThreads ==
  /\ none \notin Threads /\ ServerLoop \in Loops /\ Loops \subseteq Threads
  /\ Callers \subseteq Threads
  /\ \A p \in Conns : LoopOf[p] \in Loops /\ LoopOf[p] \in Threads
BY LoopsAssumption DEF Threads

(* The invariant after a step that is about no connection. *)
LEMMA CallStep ==
  ASSUME IInv, NEW t \in Threads, UNCHANGED <<conn, connMap_>>,
         DOMAIN stack' = Threads, \A u \in Threads \ {t} : stack'[u] = stack[u],
         \A p \in Conns : LoopOf[p] = t => Elsewhere(stack[t], p) /\ Elsewhere(stack'[t], p),
         \/ queue' = queue
         \/ \E l \in Loops : \E f \in Functors(l) :
              /\ queue' = [queue EXCEPT ![l] = Append(@, f)]
              /\ \A p \in Conns : f # Call("BuildAccept", p)
              /\ \A p \in Conns : f = Call("closeInLoop", p) =>
                   conn[p] # NewConn /\ conn[p] # Accepted,
         mutex_' \in Threads \cup {none},
         \A u \in Threads \ {t} : mutex_ = u <=> mutex_' = u,
         StackOK(t, stack'[t], mutex_', connMap_),
         left' \in [calls : Nat, pdus : SUBSET Pdus],
         \A todo \in SUBSET Conns : stack'[t] # <<Walk("stopConn", none, todo)>>
  PROVE  IInv'
<1>1. Types /\ Lives /\ Stacks /\ Stopping
  BY DEF IInv
<1>2. /\ Lives'
      /\ DOMAIN queue' = Loops /\ \A l \in Loops : queue'[l] \in Seq(Functors(l))
      /\ \A p \in Conns : Ends(p, stack[LoopOf[p]], queue[LoopOf[p]])
                            => Ends(p, stack'[LoopOf[p]], queue'[LoopOf[p]])
  BY <1>1, MovesOn
<1>3. Types'
  BY <1>1, <1>2 DEF Types
<1>4. Stacks'
  BY <1>1, StacksChange
<1>5. Stopping'
  <2>1. \A u \in Threads, todo \in SUBSET Conns :
          stack'[u] = <<Walk("stopConn", none, todo)>>
            => stack[u] = <<Walk("stopConn", none, todo)>>
    OBVIOUS
  <2>2. connMap_ \subseteq Conns
    BY <1>1 DEF Types
  <2> QED
    BY <1>1, <1>2, <2>1, <2>2, StoppingStays
<1> QED
  BY <1>2, <1>3, <1>4, <1>5 DEF IInv

(* A call that stands alone on a stack, and is about no connection. *)
LEMMA AloneOnStack ==
  ASSUME NEW t \in Threads, NEW f \in Frames(t), f.op \notin ConnOps, NEW m, NEW x, x # t
  PROVE  /\ StackOK(t, <<f>>, x, m) /\ StackOK(t, <<>>, x, m)
         /\ \A p : Elsewhere(<<f>>, p) /\ Elsewhere(<<>>, p)
         /\ \A todo : <<f>> # <<Walk("stopConn", none, todo)>>
         /\ \A todo : <<>> # <<Walk("stopConn", none, todo)>>
<1>1. \A todo : f # Walk("stopConn", none, todo)
  BY CallFields, FrameOps
<1> QED
  BY <1>1, Stacked1, Elsewheres DEF StackOK

LEMMA ServerCallsAreFrames ==
  ASSUME NEW op \in ServerOps
  PROVE  /\ \A t : Call(op, none) \in Frames(t) /\ Call(op, none).op \notin ConnOps
         /\ op \in {"addServerInLoop", "delServerInLoop"} =>
              \A l : Call(op, none) \in Functors(l)
         /\ \A p : \A op2 \in ConnOps : Call(op, none) # Call(op2, p)
<1>1. Call(op, none).op = op
  BY CallFields
<1> QED
  BY <1>1, CallFields DEF Frames, Functors, ServerCalls, ServerOps, ConnOps

(* A thread goes on with the hand-over of a server. *)
LEMMA ServerStep ==
  ASSUME IInv, NEW t \in Threads, mutex_ # t, UNCHANGED <<conn, connMap_, mutex_>>,
         stack[t] = <<>> \/ \E op \in ServerOps : stack[t] = <<Call(op, none)>>,
         NEW s, stack' = [stack EXCEPT ![t] = s],
         s = <<>> \/ \E op \in ServerOps : s = <<Call(op, none)>>,
         \/ queue' = queue
         \/ \E op \in {"addServerInLoop", "delServerInLoop"} :
              queueInLoop(ServerLoop, Call(op, none)),
         left' \in [calls : Nat, pdus : SUBSET Pdus]
  PROVE  IInv'
<1>1. DOMAIN stack' = Threads /\ stack'[t] = s
      /\ \A u \in Threads \ {t} : stack'[u] = stack[u]
  BY Moved DEF IInv, Types
<1>2. ASSUME NEW op \in ServerOps
      PROVE  /\ StackOK(t, <<Call(op, none)>>, mutex_, connMap_)
             /\ StackOK(t, <<>>, mutex_, connMap_)
             /\ \A p : Elsewhere(<<Call(op, none)>>, p) /\ Elsewhere(<<>>, p)
             /\ \A todo : <<Call(op, none)>> # <<Walk("stopConn", none, todo)>>
             /\ \A todo : <<>> # <<Walk("stopConn", none, todo)>>
  <2>1. Call(op, none) \in Frames(t) /\ Call(op, none).op \notin ConnOps
    BY ServerCallsAreFrames
  <2> QED
    BY <2>1, AloneOnStack
<1>3. "addServer" \in ServerOps
  BY DEF ServerOps
<1>4. /\ StackOK(t, s, mutex_, connMap_)
      /\ \A p : Elsewhere(stack[t], p) /\ Elsewhere(s, p)
      /\ \A todo : s # <<Walk("stopConn", none, todo)>>
  BY <1>2, <1>3
<1>5. ASSUME NEW op \in {"addServerInLoop", "delServerInLoop"},
             queueInLoop(ServerLoop, Call(op, none))
      PROVE  \E l \in Loops : \E f \in Functors(l) :
               /\ queue' = [queue EXCEPT ![l] = Append(@, f)]
               /\ \A p \in Conns : f # Call("BuildAccept", p)
               /\ \A p \in Conns : f = Call("closeInLoop", p) =>
                    conn[p] # NewConn /\ conn[p] # Accepted
  <2>1. op \in ServerOps
    BY <1>5 DEF ServerOps
  <2>2. ServerLoop \in Loops /\ Call(op, none) \in Functors(ServerLoop)
    BY <2>1, LoopsAreThreads, ServerCallsAreFrames
  <2>3. \A p : Call(op, none) # Call("BuildAccept", p) /\ Call(op, none) # Call("closeInLoop", p)
    BY <1>5, CallFields
  <2>4. queue' = [queue EXCEPT ![ServerLoop] = Append(@, Call(op, none))]
    BY <1>5 DEF queueInLoop
  <2> QED
    BY <2>2, <2>3, <2>4
<1>6. mutex_ \in Threads \cup {none}
  BY DEF IInv, Types
<1> QED
  BY <1>1, <1>4, <1>5, <1>6, CallStep

LEMMA SetServerIInv ==
  ASSUME IInv, NEW t \in Threads, NEW add \in BOOLEAN, SetServer(t, add)
  PROVE  IInv'
<1> DEFINE op == IF add THEN "addServer" ELSE "delServer"
<1>1. op \in ServerOps
  BY DEF ServerOps
<1> HIDE DEF op
<1>2. stack[t] = <<>> /\ mutex_ # t
  BY AtRest DEF SetServer, Free, IInv
<1>3. stack' = [stack EXCEPT ![t] = <<Call(op, none)>>]
  BY <1>2, Stacked1 DEF SetServer, Enter, op
<1>5. left' \in [calls : Nat, pdus : SUBSET Pdus]
  BY DEF SetServer, IInv, Types
<1>6. UNCHANGED <<conn, connMap_, mutex_, queue>>
  BY DEF SetServer, mapVars
<1> QED
  BY <1>1, <1>2, <1>3, <1>5, <1>6, ServerStep

LEMMA HandOverIInv ==
  ASSUME IInv, NEW t \in Threads, HandOver(t)
  PROVE  IInv'
<1>1. PICK op \in {"addServer", "delServer"} : At(t, op)
  BY DEF HandOver
<1> DEFINE op2 == IF At(t, "addServer") THEN "addServerInLoop" ELSE "delServerInLoop"
<1>2. op \in ServerOps /\ op2 \in ServerOps /\ op2 \in {"addServerInLoop", "delServerInLoop"}
  BY <1>1 DEF ServerOps
<1>3. stack[t] = <<Call(op, none)>> /\ mutex_ # t
  BY <1>1, <1>2, InnerCall DEF IInv
<1>4. \/ GoOn(t, Call(op2, none)) /\ UNCHANGED queue
      \/ Return(t) /\ queueInLoop(ServerLoop, Call(op2, none))
  BY DEF HandOver
<1> HIDE DEF op2
<1>5. UNCHANGED <<conn, connMap_, mutex_, left>>
  BY DEF HandOver, mapVars
<1>6. left \in [calls : Nat, pdus : SUBSET Pdus]
  BY DEF IInv, Types
<1>7. CASE GoOn(t, Call(op2, none)) /\ UNCHANGED queue
  <2>1. stack' = [stack EXCEPT ![t] = <<Call(op2, none)>>]
    BY <1>3, <1>7, Stacked1 DEF GoOn
  <2> QED
    BY <1>2, <1>3, <1>5, <1>6, <1>7, <2>1, ServerStep
<1>8. CASE Return(t) /\ queueInLoop(ServerLoop, Call(op2, none))
  <2>1. stack' = [stack EXCEPT ![t] = <<>>]
    BY <1>3, <1>8, Stacked1 DEF Return
  <2> QED
    BY <1>2, <1>3, <1>5, <1>6, <1>8, <2>1, ServerStep
<1> QED
  BY <1>4, <1>7, <1>8

LEMMA ServerInLoopIInv ==
  ASSUME IInv, addServerInLoop \/ delServerInLoop
  PROVE  IInv'
<1>1. PICK op \in {"addServerInLoop", "delServerInLoop"} : At(ServerLoop, op)
  BY DEF addServerInLoop, delServerInLoop
<1>2. op \in ServerOps
  BY <1>1 DEF ServerOps
<1>3. stack[ServerLoop] = <<Call(op, none)>> /\ mutex_ # ServerLoop /\ ServerLoop \in Threads
  BY <1>1, <1>2, InnerCall, LoopsAreThreads DEF IInv
<1>4. Return(ServerLoop) /\ UNCHANGED <<conn, connMap_, mutex_, left, queue>>
  BY DEF addServerInLoop, delServerInLoop, mapVars
<1>5. left \in [calls : Nat, pdus : SUBSET Pdus]
  BY DEF IInv, Types
<1>6. stack' = [stack EXCEPT ![ServerLoop] = <<>>]
  BY <1>3, <1>4, Stacked1 DEF Return
<1> QED
  BY <1>2, <1>3, <1>4, <1>5, <1>6, ServerStep

LEMMA Stacked3 == \A f, w : <<f, w>> \o <<>> = <<f, w>>
OBVIOUS

(* A walk, and what is left of it. *)
LEMMA WalkFields ==
  ASSUME NEW m, NEW w \in Walks(m), NEW p
  PROVE  /\ w.todo \in SUBSET m
         /\ w.op = "sendPdu" => w.pdu \in Pdu
         /\ w.op = "stopConn" => w = Walk("stopConn", none, w.todo)
         /\ [w EXCEPT !.todo = @ \ {p}] \in Walks(m)
         /\ [w EXCEPT !.todo = @ \ {p}].op = w.op
         /\ w.op = "stopConn" =>
              [w EXCEPT !.todo = @ \ {p}] = Walk("stopConn", none, w.todo \ {p})
<1>1. CASE \E d \in Pdu, todo \in SUBSET m : w = Walk("sendPdu", d, todo)
  <2>1. PICK d \in Pdu, todo \in SUBSET m : w = Walk("sendPdu", d, todo)
    BY <1>1
  <2>2. /\ w.todo = todo /\ w.op = "sendPdu" /\ w.pdu = d
        /\ [w EXCEPT !.todo = @ \ {p}] = Walk("sendPdu", d, todo \ {p})
    BY <2>1 DEF Walk
  <2>3. todo \ {p} \in SUBSET m
    OBVIOUS
  <2>4. Walk("sendPdu", d, todo \ {p}) \in Walks(m)
    BY <2>3 DEF Walks
  <2>5. Walk("sendPdu", d, todo \ {p}).op = "sendPdu"
    BY DEF Walk
  <2> QED
    BY <2>2, <2>4, <2>5
<1>2. CASE \E todo \in SUBSET m : w = Walk("stopConn", none, todo)
  <2>1. PICK todo \in SUBSET m : w = Walk("stopConn", none, todo)
    BY <1>2
  <2>2. /\ w.todo = todo /\ w.op = "stopConn"
        /\ [w EXCEPT !.todo = @ \ {p}] = Walk("stopConn", none, todo \ {p})
    BY <2>1 DEF Walk
  <2>3. todo \ {p} \in SUBSET m
    OBVIOUS
  <2>4. Walk("stopConn", none, todo \ {p}) \in Walks(m)
    BY <2>3 DEF Walks
  <2>5. Walk("stopConn", none, todo \ {p}).op = "stopConn"
    BY DEF Walk
  <2> QED
    BY <2>1, <2>2, <2>4, <2>5
<1> QED
  BY <1>1, <1>2 DEF Walks

LEMMA onWriteIInv ==
  ASSUME IInv, NEW l \in Loops, onWrite(l)
  PROVE  IInv'
<1> DEFINE f == Top(l)
           p == f.conn
<1>1. l \in Threads /\ Stacks /\ Types
  BY LoopsAreThreads DEF IInv
<1>2. /\ f \in Writes(l)
      /\ \/ stack[l] = <<f>> /\ mutex_ # l
         \/ mutex_ = l /\ \E w \in Walks(connMap_) : w.op = "sendPdu" /\ stack[l] = <<f, w>>
  BY <1>1, InnerCall DEF onWrite
<1>3. p \in Conns /\ LoopOf[p] = l /\ f.op = "onWrite"
  BY <1>2, FrameOps
<1>4. /\ Return(l)
      /\ UNCHANGED <<conn, connMap_, mutex_, left>>
      /\ queue' = queue \/ (conn[p].bConnected_ /\ queueInLoop(l, Call("closeInLoop", p)))
  BY DEF onWrite, mapVars
<1> HIDE DEF f, p
<1>5. \/ queue' = queue
      \/ \E l2 \in Loops : \E g \in Functors(l2) :
           /\ queue' = [queue EXCEPT ![l2] = Append(@, g)]
           /\ \A p2 \in Conns : g # Call("BuildAccept", p2)
           /\ \A p2 \in Conns : g = Call("closeInLoop", p2) =>
                conn[p2] # NewConn /\ conn[p2] # Accepted
  <2>1. CASE conn[p].bConnected_ /\ queueInLoop(l, Call("closeInLoop", p))
    <3>1. conn[p] = Up
      BY <1>1, <1>3, <2>1, PhaseFields DEF Types
    <3>2. Call("closeInLoop", p) \in Functors(l)
      BY <1>3 DEF Functors, ConnCalls
    <3>3. queue' = [queue EXCEPT ![l] = Append(@, Call("closeInLoop", p))]
      BY <2>1 DEF queueInLoop
    <3>4. \A p2 : /\ Call("closeInLoop", p) # Call("BuildAccept", p2)
                  /\ Call("closeInLoop", p) = Call("closeInLoop", p2) => p = p2
      BY CallFields
    <3> QED
      BY <3>1, <3>2, <3>3, <3>4, PhasesDiffer
  <2> QED
    BY <1>4, <2>1
<1>6. mutex_ \in Threads \cup {none} /\ left \in [calls : Nat, pdus : SUBSET Pdus]
      /\ DOMAIN stack = Threads
  BY <1>1 DEF Types
<1>7. f.op \notin ConnOps
  BY <1>3 DEF ConnOps
<1>8. CASE stack[l] = <<f>> /\ mutex_ # l
  <2>1. stack' = [stack EXCEPT ![l] = <<>>]
    BY <1>4, <1>8, Stacked1 DEF Return
  <2>2. DOMAIN stack' = Threads /\ stack'[l] = <<>>
        /\ \A u \in Threads \ {l} : stack'[u] = stack[u]
    BY <1>1, <1>6, <2>1, Moved
  <2>3. f \in Frames(l)
    BY <1>2 DEF Frames
  <2>4. /\ StackOK(l, <<>>, mutex_, connMap_)
        /\ \A p2 : Elsewhere(<<f>>, p2) /\ Elsewhere(<<>>, p2)
        /\ \A todo : <<>> # <<Walk("stopConn", none, todo)>>
    BY <1>1, <1>7, <1>8, <2>3, AloneOnStack
  <2>5. \A p2 \in Conns : LoopOf[p2] = l => Elsewhere(stack[l], p2) /\ Elsewhere(stack'[l], p2)
    BY <1>8, <2>2, <2>4
  <2>6. \A todo \in SUBSET Conns : stack'[l] # <<Walk("stopConn", none, todo)>>
    BY <2>2, <2>4
  <2>7. StackOK(l, stack'[l], mutex_', connMap_) /\ mutex_' = mutex_
    BY <1>4, <2>2, <2>4
  <2>8. mutex_' \in Threads \cup {none} /\ left' \in [calls : Nat, pdus : SUBSET Pdus]
        /\ UNCHANGED <<conn, connMap_>> /\ \A u \in Threads \ {l} : mutex_ = u <=> mutex_' = u
    BY <1>4, <1>6
  <2> QED
    BY <1>1, <1>5, <2>2, <2>5, <2>6, <2>7, <2>8, CallStep
<1>9. ASSUME NEW w \in Walks(connMap_), w.op = "sendPdu", stack[l] = <<f, w>>, mutex_ = l
      PROVE  IInv'
  <2>1. stack' = [stack EXCEPT ![l] = <<w>>]
    BY <1>4, <1>9, Stacked2 DEF Return
  <2>2. DOMAIN stack' = Threads /\ stack'[l] = <<w>>
        /\ \A u \in Threads \ {l} : stack'[u] = stack[u]
    BY <1>1, <1>6, <2>1, Moved
  <2>3. StackOK(l, <<w>>, mutex_, connMap_)
    BY <1>9 DEF StackOK
  <2>4. w.op \notin ConnOps /\ \A todo : w # Walk("stopConn", none, todo)
    BY <1>9, CallFields DEF ConnOps
  <2>5. /\ \A p2 : Elsewhere(<<f, w>>, p2) /\ Elsewhere(<<w>>, p2)
        /\ \A todo : <<w>> # <<Walk("stopConn", none, todo)>>
    BY <2>4, Elsewheres, Stacked1
  <2>6. \A p2 \in Conns : LoopOf[p2] = l => Elsewhere(stack[l], p2) /\ Elsewhere(stack'[l], p2)
    BY <1>9, <2>2, <2>5
  <2>7. \A todo \in SUBSET Conns : stack'[l] # <<Walk("stopConn", none, todo)>>
    BY <2>2, <2>5
  <2>8. StackOK(l, stack'[l], mutex_', connMap_) /\ mutex_' = mutex_
    BY <1>4, <2>2, <2>3
  <2>9. mutex_' \in Threads \cup {none} /\ left' \in [calls : Nat, pdus : SUBSET Pdus]
        /\ UNCHANGED <<conn, connMap_>> /\ \A u \in Threads \ {l} : mutex_ = u <=> mutex_' = u
    BY <1>4, <1>6
  <2> QED
    BY <1>1, <1>5, <2>2, <2>6, <2>7, <2>8, <2>9, CallStep
<1> QED
  BY <1>2, <1>8, <1>9

LEMMA BeginSendIInv ==
  ASSUME IInv, NEW t \in Threads, NEW d \in Pdus, BeginSend(t, d)
  PROVE  IInv'
<1> DEFINE w == Walk("sendPdu", [by |-> t, pdu |-> d], connMap_)
<1>1. w \in Walks(connMap_) /\ w.op = "sendPdu"
  <2>1. [by |-> t, pdu |-> d] \in Pdu
    BY DEF Pdu
  <2> QED
    BY <2>1, CallFields DEF Walks
<1>2. stack[t] = <<>> /\ mutex_ = none /\ mutex_' = t
      /\ UNCHANGED <<conn, connMap_, queue>> /\ Enter(t, w)
  BY DEF BeginSend, Free
<1> HIDE DEF w
<1>3. stack' = [stack EXCEPT ![t] = <<w>>]
  BY <1>2, Stacked1 DEF Enter
<1>4. DOMAIN stack' = Threads /\ stack'[t] = <<w>>
      /\ \A u \in Threads \ {t} : stack'[u] = stack[u]
  BY <1>3, Moved DEF IInv, Types
<1>5. w.op \notin ConnOps /\ \A todo : w # Walk("stopConn", none, todo)
  BY <1>1, CallFields DEF ConnOps
<1>6. /\ \A p : Elsewhere(<<>>, p) /\ Elsewhere(<<w>>, p)
      /\ \A todo : <<w>> # <<Walk("stopConn", none, todo)>>
  BY <1>5, Elsewheres, Stacked1
<1>7. StackOK(t, <<w>>, mutex_', connMap_)
  BY <1>1, <1>2 DEF StackOK
<1>8. left' \in [calls : Nat, pdus : SUBSET Pdus]
  BY DEF BeginSend, IInv, Types
<1>9. \A u \in Threads \ {t} : mutex_ = u <=> mutex_' = u
  BY <1>2, LoopsAreThreads
<1> QED
  BY <1>2, <1>4, <1>6, <1>7, <1>8, <1>9, CallStep

LEMMA sendPduIInv ==
  ASSUME IInv, NEW t \in Threads, sendPdu(t)
  PROVE  IInv'
<1> DEFINE w == Top(t)
<1>1. Stacks /\ Types /\ At(t, "sendPdu")
  BY DEF IInv, sendPdu
<1>2. w \in Walks(connMap_) /\ stack[t] = <<w>> /\ mutex_ = t /\ w.op = "sendPdu"
  BY <1>1, InnerCall DEF At
<1>3. PICK p \in w.todo :
        LET rest == [w EXCEPT !.todo = @ \ {p}]
            write == Write(p, w.pdu)
        IN  IF t = LoopOf[p]
              THEN /\ stack' = [stack EXCEPT ![t] = <<write, rest>> \o Tail(@)]
                   /\ UNCHANGED queue
              ELSE GoOn(t, rest) /\ queueInLoop(LoopOf[p], write)
  BY DEF sendPdu
<1> DEFINE rest == [w EXCEPT !.todo = @ \ {p}]
           write == Write(p, w.pdu)
<1>4. IF t = LoopOf[p]
        THEN /\ stack' = [stack EXCEPT ![t] = <<write, rest>> \o Tail(@)]
             /\ UNCHANGED queue
        ELSE GoOn(t, rest) /\ queueInLoop(LoopOf[p], write)
  BY <1>3
<1>5. /\ rest \in Walks(connMap_) /\ rest.op = "sendPdu" /\ w.pdu \in Pdu /\ p \in connMap_
      /\ p \in Conns
  <2>1. w.todo \in SUBSET connMap_ /\ w.pdu \in Pdu
        /\ rest \in Walks(connMap_) /\ rest.op = w.op
    <3> HIDE DEF w
    <3> QED
      BY <1>2, WalkFields
  <2> QED
    BY <1>1, <1>2, <2>1 DEF Types
<1>6. write \in Writes(LoopOf[p]) /\ LoopOf[p] \in Loops /\ write.op = "onWrite"
  BY <1>5, LoopsAreThreads, CallFields DEF Writes
<1> HIDE DEF w, rest, write
<1>7. UNCHANGED <<conn, connMap_, mutex_, left>>
  BY DEF sendPdu, mapVars
<1>8. mutex_ \in Threads \cup {none} /\ left \in [calls : Nat, pdus : SUBSET Pdus]
      /\ DOMAIN stack = Threads
  BY <1>1 DEF Types
<1>9. /\ \A p2 : Elsewhere(<<w>>, p2) /\ Elsewhere(<<rest>>, p2) /\ Elsewhere(<<write, rest>>, p2)
      /\ \A todo : /\ <<rest>> # <<Walk("stopConn", none, todo)>>
                   /\ <<write, rest>> # <<Walk("stopConn", none, todo)>>
  <2>1. w.op \notin ConnOps /\ rest.op \notin ConnOps
        /\ \A todo : rest # Walk("stopConn", none, todo)
    BY <1>2, <1>5, CallFields DEF ConnOps
  <2> QED
    BY <2>1, Elsewheres, Stacked1, Stacked2
<1>10. CASE t = LoopOf[p]
  <2>1. stack' = [stack EXCEPT ![t] = <<write, rest>>]
    BY <1>2, <1>4, <1>10, Stacked1, Stacked3
  <2>2. DOMAIN stack' = Threads /\ stack'[t] = <<write, rest>>
        /\ \A u \in Threads \ {t} : stack'[u] = stack[u]
    BY <1>8, <2>1, Moved
  <2>3. StackOK(t, <<write, rest>>, mutex_, connMap_)
    BY <1>2, <1>5, <1>6, <1>10 DEF StackOK
  <2>4. queue' = queue
    BY <1>4, <1>10
  <2>5. \A p2 \in Conns : LoopOf[p2] = t => Elsewhere(stack[t], p2) /\ Elsewhere(stack'[t], p2)
    BY <1>2, <1>9, <2>2
  <2>6. \A todo \in SUBSET Conns : stack'[t] # <<Walk("stopConn", none, todo)>>
    BY <1>9, <2>2
  <2>7. StackOK(t, stack'[t], mutex_', connMap_) /\ mutex_' = mutex_
    BY <1>7, <2>2, <2>3
  <2>8. mutex_' \in Threads \cup {none} /\ left' \in [calls : Nat, pdus : SUBSET Pdus]
        /\ UNCHANGED <<conn, connMap_>> /\ \A u \in Threads \ {t} : mutex_ = u <=> mutex_' = u
    BY <1>7, <1>8
  <2> QED
    BY <2>2, <2>4, <2>5, <2>6, <2>7, <2>8, CallStep
<1>11. CASE t # LoopOf[p]
  <2>1. stack' = [stack EXCEPT ![t] = <<rest>>]
    BY <1>2, <1>4, <1>11, Stacked1 DEF GoOn
  <2>2. DOMAIN stack' = Threads /\ stack'[t] = <<rest>>
        /\ \A u \in Threads \ {t} : stack'[u] = stack[u]
    BY <1>8, <2>1, Moved
  <2>3. StackOK(t, <<rest>>, mutex_, connMap_)
    BY <1>2, <1>5 DEF StackOK
  <2>4. \E l2 \in Loops : \E g \in Functors(l2) :
           /\ queue' = [queue EXCEPT ![l2] = Append(@, g)]
           /\ \A p2 \in Conns : g # Call("BuildAccept", p2)
           /\ \A p2 \in Conns : g = Call("closeInLoop", p2) =>
                conn[p2] # NewConn /\ conn[p2] # Accepted
    <3>1. write \in Functors(LoopOf[p])
      BY <1>6 DEF Functors
    <3>2. queue' = [queue EXCEPT ![LoopOf[p]] = Append(@, write)]
      BY <1>4, <1>11 DEF queueInLoop
    <3>3. \A p2 : write # Call("BuildAccept", p2) /\ write # Call("closeInLoop", p2)
      BY <1>6, CallFields
    <3> QED
      BY <1>6, <3>1, <3>2, <3>3
  <2>5. \A p2 \in Conns : LoopOf[p2] = t => Elsewhere(stack[t], p2) /\ Elsewhere(stack'[t], p2)
    BY <1>2, <1>9, <2>2
  <2>6. \A todo \in SUBSET Conns : stack'[t] # <<Walk("stopConn", none, todo)>>
    BY <1>9, <2>2
  <2>7. StackOK(t, stack'[t], mutex_', connMap_) /\ mutex_' = mutex_
    BY <1>7, <2>2, <2>3
  <2>8. mutex_' \in Threads \cup {none} /\ left' \in [calls : Nat, pdus : SUBSET Pdus]
        /\ UNCHANGED <<conn, connMap_>> /\ \A u \in Threads \ {t} : mutex_ = u <=> mutex_' = u
    BY <1>7, <1>8
  <2> QED
    BY <2>2, <2>4, <2>5, <2>6, <2>7, <2>8, CallStep
<1> QED
  BY <1>10, <1>11

LEMMA InOne ==
  ASSUME NEW p
  PROVE  /\ \A op : ~In(<<>>, op, p)
         /\ \A op, op2 : In(<<Call(op, p)>>, op2, p) <=> op = op2
BY Stacked1, CallFields DEF In

(* A functor that is queued and gives no connection its start. *)
Queued(q, q2) ==
  \/ q2 = q
  \/ \E l \in Loops : \E f \in Functors(l) :
       /\ q2 = [q EXCEPT ![l] = Append(@, f)]
       /\ \A p \in Conns : f # Call("BuildAccept", p)
       /\ \A p \in Conns : f = Call("closeInLoop", p) =>
            conn[p] # NewConn /\ conn[p] # Accepted

(* A thread begins a walk, or comes to the next connection of it. *)
LEMMA WalkStep ==
  ASSUME IInv, NEW t \in Threads, UNCHANGED <<conn, connMap_>>,
         mutex_ = none \/ mutex_ = t, mutex_' = t,
         stack[t] = <<>> \/ \E v \in Walks(connMap_) : stack[t] = <<v>>,
         NEW w \in Walks(connMap_), stack' = [stack EXCEPT ![t] = <<w>>],
         Queued(queue, queue'),
         left' \in [calls : Nat, pdus : SUBSET Pdus],
         w.op = "stopConn" => \A p \in connMap_ \ w.todo : 
                                Ends(p, stack'[LoopOf[p]], queue'[LoopOf[p]])
  PROVE  IInv'
<1>1. Types /\ Lives /\ Stacks /\ Stopping
  BY DEF IInv
<1>2. DOMAIN stack' = Threads /\ stack'[t] = <<w>>
      /\ \A u \in Threads \ {t} : stack'[u] = stack[u]
  BY <1>1, Moved DEF Types
<1>3. \A v \in Walks(connMap_) : v.op \notin ConnOps
  BY FrameOps DEF ConnOps
<1>4. \A p \in Conns : LoopOf[p] = t => Elsewhere(stack[t], p) /\ Elsewhere(stack'[t], p)
  BY <1>2, <1>3, Elsewheres
<1>5. \/ queue' = queue
      \/ \E l \in Loops : \E f \in Functors(l) :
           /\ queue' = [queue EXCEPT ![l] = Append(@, f)]
           /\ \A p \in Conns : f # Call("BuildAccept", p)
           /\ \A p \in Conns : f = Call("closeInLoop", p) =>
                conn[p] # NewConn /\ conn[p] # Accepted
  BY DEF Queued
<1>6. /\ Lives'
      /\ DOMAIN queue' = Loops /\ \A l \in Loops : queue'[l] \in Seq(Functors(l))
  BY <1>1, <1>2, <1>4, <1>5, MovesOn
<1>7. Types'
  BY <1>1, <1>2, <1>6 DEF Types
<1>8. StackOK(t, stack'[t], mutex_', connMap_')
  BY <1>2 DEF StackOK
<1>9. Stacks'
  BY <1>1, <1>2, <1>8, StacksChange, LoopsAreThreads
<1>10. Stopping'
  <2> SUFFICES ASSUME NEW u \in Threads, NEW todo \in SUBSET Conns,
                      stack'[u] = <<Walk("stopConn", none, todo)>>,
                      NEW p \in connMap_ \ todo
               PROVE  Ends(p, stack'[LoopOf[p]], queue'[LoopOf[p]])
    BY DEF Stopping
  <2>1. CASE u = t
    <3>1. w = Walk("stopConn", none, todo)
      BY <1>2, <2>1, Stacked1
    <3>2. w.op = "stopConn" /\ w.todo = todo
      BY <3>1, CallFields
    <3> QED
      BY <3>2
  <2>2. CASE u # t
    <3>1. stack[u] = <<Walk("stopConn", none, todo)>>
      BY <1>2, <2>2
    <3>2. mutex_ = u
      BY <1>1, <3>1, OnlyWalkersWalk
    <3> QED
      BY <2>2, <3>2, LoopsAreThreads
  <2> QED
    BY <2>1, <2>2
<1> QED
  BY <1>6, <1>7, <1>9, <1>10 DEF IInv

LEMMA BeginStopIInv ==
  ASSUME IInv, NEW t \in Threads, BeginStop(t)
  PROVE  IInv'
<1> DEFINE w == Walk("stopConn", none, connMap_)
<1>1. w \in Walks(connMap_) /\ w.todo = connMap_
  BY CallFields DEF Walks
<1>2. stack[t] = <<>> /\ mutex_ = none /\ mutex_' = t
      /\ UNCHANGED <<conn, connMap_, queue>> /\ Enter(t, w)
  BY DEF BeginStop, Free
<1> HIDE DEF w
<1>3. stack' = [stack EXCEPT ![t] = <<w>>]
  BY <1>2, Stacked1 DEF Enter
<1>4. left' \in [calls : Nat, pdus : SUBSET Pdus]
  BY DEF BeginStop, IInv, Types
<1>5. Queued(queue, queue')
  BY <1>2 DEF Queued
<1>6. \A p \in connMap_ \ w.todo : Ends(p, stack'[LoopOf[p]], queue'[LoopOf[p]])
  BY <1>1
<1> QED
  BY <1>1, <1>2, <1>3, <1>4, <1>5, <1>6, WalkStep

LEMMA shutdownIInv ==
  ASSUME IInv, NEW t \in Threads, shutdown(t)
  PROVE  IInv'
<1> DEFINE w == Top(t)
<1>1. Types /\ Lives /\ Stacks /\ Stopping /\ At(t, "stopConn")
  BY DEF IInv, shutdown
<1>2. w \in Walks(connMap_) /\ stack[t] = <<w>> /\ mutex_ = t /\ w.op = "stopConn"
  BY <1>1, InnerCall DEF At
<1>3. PICK p \in w.todo : /\ GoOn(t, [w EXCEPT !.todo = @ \ {p}])
                          /\ queueInLoop(LoopOf[p], Call("closeInLoop", p))
  BY DEF shutdown
<1> DEFINE rest == [w EXCEPT !.todo = @ \ {p}]
<1>4. stack' = [stack EXCEPT ![t] = <<rest>>]
  BY <1>2, <1>3, Stacked1 DEF GoOn
<1>5. queue' = [queue EXCEPT ![LoopOf[p]] = Append(@, Call("closeInLoop", p))]
  BY <1>3 DEF queueInLoop
<1> HIDE DEF w
<1>6. /\ w.todo \in SUBSET connMap_ /\ w = Walk("stopConn", none, w.todo)
      /\ rest \in Walks(connMap_) /\ rest = Walk("stopConn", none, w.todo \ {p})
  BY <1>2, WalkFields
<1> HIDE DEF rest
<1>7. rest.op = "stopConn" /\ rest.todo = w.todo \ {p}
  BY <1>6, CallFields
<1>8. p \in connMap_ /\ p \in Conns /\ LoopOf[p] \in Loops /\ connMap_ \subseteq Conns
  BY <1>1, <1>3, <1>6, LoopsAreThreads DEF Types
<1>9. conn[p] = Up
  BY <1>1, <1>8 DEF Lives, Life
<1>10. UNCHANGED <<conn, connMap_, mutex_, left>>
  BY DEF shutdown, mapVars
<1>11. Queued(queue, queue')
  <2>1. Call("closeInLoop", p) \in Functors(LoopOf[p])
    BY <1>8 DEF Functors, ConnCalls
  <2>2. \A p2 : /\ Call("closeInLoop", p) # Call("BuildAccept", p2)
                /\ Call("closeInLoop", p) = Call("closeInLoop", p2) => p = p2
    BY CallFields
  <2> QED
    BY <1>5, <1>8, <1>9, <2>1, <2>2, PhasesDiffer DEF Queued
<1>12. DOMAIN stack' = Threads /\ stack'[t] = <<rest>>
      /\ \A u \in Threads \ {t} : stack'[u] = stack[u]
  BY <1>1, <1>4, Moved DEF Types
<1>13. ASSUME NEW p2 \in connMap_ \ rest.todo
       PROVE  Ends(p2, stack'[LoopOf[p2]], queue'[LoopOf[p2]])
  <2>1. /\ p2 \in Conns /\ LoopOf[p2] \in Loops /\ LoopOf[p2] \in Threads
    BY <1>8, LoopsAreThreads
  <2>2. queue[LoopOf[p2]] \in Seq(Functors(LoopOf[p2])) /\ DOMAIN queue = Loops
    BY <1>1, <2>1 DEF Types
  <2>3. CASE p2 = p
    <3>1. queue'[LoopOf[p]] = Append(queue[LoopOf[p]], Call("closeInLoop", p))
      BY <1>5, <1>8, <2>2
    <3>2. Call("closeInLoop", p) \in Functors(LoopOf[p])
      BY <1>8 DEF Functors, ConnCalls
    <3>3. Has(queue'[LoopOf[p]], Call("closeInLoop", p))
      BY <2>2, <2>3, <3>1, <3>2, AppendHas
    <3> QED
      BY <2>3, <3>3 DEF Ends
  <2>4. CASE p2 # p
    <3>1. stack[t] = <<Walk("stopConn", none, w.todo)>> /\ w.todo \in SUBSET Conns
          /\ p2 \in connMap_ \ w.todo
      BY <1>2, <1>6, <1>7, <1>8, <2>4
    <3>2. Ends(p2, stack[LoopOf[p2]], queue[LoopOf[p2]])
      BY <1>1, <3>1 DEF Stopping
    <3>3. Has(queue[LoopOf[p2]], Call("closeInLoop", p2))
            => Has(queue'[LoopOf[p2]], Call("closeInLoop", p2))
      <4>1. CASE LoopOf[p2] = LoopOf[p]
        <5>1. queue'[LoopOf[p2]] = Append(queue[LoopOf[p2]], Call("closeInLoop", p))
          BY <1>5, <1>8, <2>2, <4>1
        <5>2. Call("closeInLoop", p) \in Functors(LoopOf[p2])
          BY <1>8, <4>1 DEF Functors, ConnCalls
        <5> QED
          BY <2>2, <5>1, <5>2, AppendHas
      <4>2. CASE LoopOf[p2] # LoopOf[p]
        BY <1>5, <2>1, <2>2, <4>2
      <4> QED
        BY <4>1, <4>2
    <3>4. Closes(stack[LoopOf[p2]], p2) => Closes(stack'[LoopOf[p2]], p2)
      <4>1. CASE LoopOf[p2] = t
        <5>1. w.op \notin ConnOps
          BY <1>2 DEF ConnOps
        <5>2. Elsewhere(stack[t], p2)
          BY <1>2, <5>1, Elsewheres
        <5> QED
          BY <4>1, <5>2 DEF Elsewhere, Closes, ConnOps
      <4>2. CASE LoopOf[p2] # t
        BY <1>12, <2>1, <4>2
      <4> QED
        BY <4>1, <4>2
    <3> QED
      BY <3>2, <3>3, <3>4 DEF Ends
  <2> QED
    BY <2>3, <2>4
<1>14. left' \in [calls : Nat, pdus : SUBSET Pdus]
  BY <1>1, <1>10 DEF Types
<1> QED
  BY <1>2, <1>4, <1>6, <1>10, <1>11, <1>13, <1>14, WalkStep

LEMMA EndWalkIInv ==
  ASSUME IInv, NEW t \in Threads, EndWalk(t)
  PROVE  IInv'
<1> DEFINE w == Top(t)
<1>1. Types /\ Lives /\ Stacks /\ Stopping
  BY DEF IInv
<1>2. PICK op \in {"sendPdu", "stopConn"} : At(t, op)
  BY DEF EndWalk
<1>3. w \in Walks(connMap_) /\ stack[t] = <<w>> /\ mutex_ = t /\ w.op = op
  BY <1>1, <1>2, InnerCall DEF At
<1>4. /\ w.todo = {} /\ mutex_' = none /\ Return(t)
      /\ connMap_' = IF w.op = "stopConn" THEN {} ELSE connMap_
      /\ UNCHANGED <<conn, queue, left>>
  BY <1>2 DEF EndWalk, At
<1> HIDE DEF w
<1>5. stack' = [stack EXCEPT ![t] = <<>>]
  BY <1>3, <1>4, Stacked1 DEF Return
<1>6. DOMAIN stack' = Threads /\ stack'[t] = <<>>
      /\ \A u \in Threads \ {t} : stack'[u] = stack[u]
  BY <1>1, <1>5, Moved DEF Types
<1>7. StackOK(t, stack'[t], mutex_', connMap_')
  BY <1>4, <1>6, LoopsAreThreads DEF StackOK
<1>8. connMap_' \subseteq Conns
  BY <1>1, <1>4 DEF Types
<1>9. Types'
  BY <1>1, <1>4, <1>6, <1>8 DEF Types
<1>10. Stacks'
  <2>1. \A u \in Threads \ {t} : mutex_ # u /\ mutex_' # u
    BY <1>3, <1>4, LoopsAreThreads
  <2> QED
    BY <1>1, <1>6, <1>7, <2>1, StacksChange
<1>11. Stopping'
  BY <1>4, <1>10, LoopsAreThreads, NobodyStops
<1>12. w.op = "stopConn" => stack[t] = <<Walk("stopConn", none, {})>>
  BY <1>3, <1>4, WalkFields
<1>13. ASSUME NEW p \in Conns
       PROVE  Life(p, conn[p], connMap_', stack'[LoopOf[p]], queue[LoopOf[p]])
  <2>1. Life(p, conn[p], connMap_, stack[LoopOf[p]], queue[LoopOf[p]])
        /\ LoopOf[p] \in Threads
    BY <1>1, LoopsAreThreads DEF Lives
  <2>2. w.op \notin ConnOps
    BY <1>2, <1>3 DEF ConnOps
  <2>3. Elsewhere(<<w>>, p) /\ Elsewhere(<<>>, p)
    BY <2>2, Elsewheres
  <2>4. Life(p, conn[p], connMap_, stack'[LoopOf[p]], queue[LoopOf[p]])
    <3>1. CASE LoopOf[p] = t
      BY <1>3, <1>6, <2>1, <2>3, <3>1, StackKeepsLife
    <3>2. CASE LoopOf[p] # t
      BY <1>6, <2>1, <3>2
    <3> QED
      BY <3>1, <3>2
  <2>5. CASE connMap_' = connMap_
    BY <2>4, <2>5
  <2>6. CASE connMap_' # connMap_
    <3>1. w.op = "stopConn" /\ connMap_' = {}
      BY <1>4, <2>6
    <3>2. p \in connMap_ => Ends(p, stack[LoopOf[p]], queue[LoopOf[p]])
      <4>1. stack[t] = <<Walk("stopConn", none, {})>>
        BY <1>12, <3>1
      <4>2. {} \in SUBSET Conns /\ (p \in connMap_ => p \in connMap_ \ {})
        OBVIOUS
      <4> QED
        BY <1>1, <4>1, <4>2 DEF Stopping
    <3>3. Ends(p, stack[LoopOf[p]], queue[LoopOf[p]])
            => Ends(p, stack'[LoopOf[p]], queue[LoopOf[p]])
      <4>1. CASE LoopOf[p] = t
        BY <1>3, <2>3, <4>1 DEF Elsewhere, ConnOps, Ends, Closes
      <4>2. CASE LoopOf[p] # t
        BY <1>6, <2>1, <4>2
      <4> QED
        BY <4>1, <4>2
    <3> QED
      BY <2>4, <3>1, <3>2, <3>3 DEF Life
  <2> QED
    BY <2>5, <2>6
<1>14. Lives'
  BY <1>4, <1>13 DEF Lives
<1> QED
  BY <1>9, <1>10, <1>11, <1>14 DEF IInv

LEMMA closeIInv ==
  ASSUME IInv, NEW t \in Threads, NEW p \in Conns, close(t, p)
  PROVE  IInv'
<1>1. /\ stack[t] = <<>> /\ (conn[p].bConnected_ \/ conn[p].bClosed_)
      /\ queueInLoop(LoopOf[p], Call("closeInLoop", p))
      /\ UNCHANGED <<conn, connMap_, mutex_, stack>>
  BY DEF close, Free, mapVars
<1>2. Types /\ Stacks
  BY DEF IInv
<1>3. conn[p] # NewConn /\ conn[p] # Accepted
  BY <1>1, <1>2, PhaseFields, PhasesDiffer DEF Types
<1>4. \/ queue' = queue
      \/ \E l2 \in Loops : \E g \in Functors(l2) :
           /\ queue' = [queue EXCEPT ![l2] = Append(@, g)]
           /\ \A p2 \in Conns : g # Call("BuildAccept", p2)
           /\ \A p2 \in Conns : g = Call("closeInLoop", p2) =>
                conn[p2] # NewConn /\ conn[p2] # Accepted
  <2>1. Call("closeInLoop", p) \in Functors(LoopOf[p]) /\ LoopOf[p] \in Loops
    BY LoopsAreThreads DEF Functors, ConnCalls
  <2>2. \A p2 : /\ Call("closeInLoop", p) # Call("BuildAccept", p2)
                /\ Call("closeInLoop", p) = Call("closeInLoop", p2) => p = p2
    BY CallFields
  <2> QED
    BY <1>1, <1>3, <2>1, <2>2 DEF queueInLoop
<1>5. left' \in [calls : Nat, pdus : SUBSET Pdus]
  BY <1>2 DEF close, Types
<1>6. mutex_' = mutex_ /\ mutex_ # t /\ mutex_' \in Threads \cup {none}
      /\ DOMAIN stack' = Threads /\ stack' = stack
  BY <1>1, <1>2, AtRest DEF Types
<1>7. StackOK(t, stack'[t], mutex_', connMap_)
  BY <1>1, <1>6 DEF StackOK
<1>8. \A todo \in SUBSET Conns : stack'[t] # <<Walk("stopConn", none, todo)>>
  BY <1>1, Stacked1
<1>9. \A p2 \in Conns : LoopOf[p2] = t => Elsewhere(stack[t], p2) /\ Elsewhere(stack'[t], p2)
  BY <1>1, Elsewheres
<1>10. /\ UNCHANGED <<conn, connMap_>> /\ \A u \in Threads \ {t} : stack'[u] = stack[u]
       /\ \A u \in Threads \ {t} : mutex_ = u <=> mutex_' = u
  BY <1>1, <1>6
<1> QED
  BY <1>4, <1>5, <1>6, <1>7, <1>8, <1>9, <1>10, CallStep

LEMMA NextFunctorIInv ==
  ASSUME IInv, NEW l \in Loops, NextFunctor(l)
  PROVE  IInv'
<1> DEFINE f == Head(queue[l])
<1>1. Types /\ Lives /\ Stacks /\ Stopping
  BY DEF IInv
<1>2. l \in Threads /\ queue[l] \in Seq(Functors(l)) /\ queue[l] # <<>> /\ stack[l] = <<>>
      /\ mutex_ # l
  BY <1>1, LoopsAreThreads, AtRest DEF NextFunctor, Free, Types
<1>3. f \in Functors(l) /\ f \in Frames(l) /\ Tail(queue[l]) \in Seq(Functors(l))
  BY <1>2, TailHas, FrameOps
<1>4. /\ stack' = [stack EXCEPT ![l] = <<f>>]
      /\ queue' = [queue EXCEPT ![l] = Tail(queue[l])]
      /\ UNCHANGED <<conn, connMap_, mutex_, left>>
  BY <1>2, Stacked1 DEF NextFunctor, Enter, mapVars
<1>5. DOMAIN stack' = Threads /\ stack'[l] = <<f>>
      /\ \A u \in Threads \ {l} : stack'[u] = stack[u]
  BY <1>1, <1>2, <1>4, Moved DEF Types
<1>6. DOMAIN queue' = Loops /\ queue'[l] = Tail(queue[l])
      /\ \A u \in Loops \ {l} : queue'[u] = queue[u]
  BY <1>1, <1>4 DEF Types
<1>7. Types'
  <2>1. \A u \in Loops : queue'[u] \in Seq(Functors(u))
    BY <1>1, <1>3, <1>6 DEF Types
  <2> QED
    BY <1>1, <1>4, <1>5, <1>6, <2>1 DEF Types
<1>8. Stacks'
  <2>1. StackOK(l, stack'[l], mutex_', connMap_')
    BY <1>2, <1>3, <1>4, <1>5 DEF StackOK
  <2> QED
    BY <1>1, <1>2, <1>4, <1>5, <2>1, StacksChange
<1>9. \A op \in ConnOps \ {"BuildAccept", "closeInLoop"} : \A p : f # Call(op, p)
  <2> SUFFICES ASSUME NEW op \in ConnOps \ {"BuildAccept", "closeInLoop"}, NEW p,
                      f = Call(op, p)
               PROVE  FALSE
    OBVIOUS
  <2>1. f.op = op
    BY CallFields
  <2>2. \A op2, p2 : Call(op2, p2).op = op2
    BY CallFields
  <2>3. \A g \in Writes(l) : g.op = "onWrite"
    BY FrameOps
  <2> HIDE DEF f
  <2> QED
    BY <1>3, <2>1, <2>2, <2>3 DEF Functors, ConnCalls, ServerCalls, ConnOps
<1>10. ASSUME NEW p \in Conns
       PROVE  /\ Life(p, conn[p], connMap_, stack'[LoopOf[p]], queue'[LoopOf[p]])
              /\ Ends(p, stack[LoopOf[p]], queue[LoopOf[p]])
                   => Ends(p, stack'[LoopOf[p]], queue'[LoopOf[p]])
  <2>1. Life(p, conn[p], connMap_, stack[LoopOf[p]], queue[LoopOf[p]])
        /\ LoopOf[p] \in Threads /\ LoopOf[p] \in Loops
    BY <1>1, LoopsAreThreads DEF Lives
  <2>2. CASE LoopOf[p] = l
    <3>1. Life(p, conn[p], connMap_, <<f>>, Tail(queue[l]))
      BY <1>2, <1>9, <2>1, <2>2, TakenKeepsLife
    <3>2. Ends(p, <<>>, queue[l]) => Ends(p, <<f>>, Tail(queue[l]))
      <4>1. ~Closes(<<>>, p)
        BY InOne DEF Closes
      <4>2. Has(queue[l], Call("closeInLoop", p))
              <=> Call("closeInLoop", p) = f \/ Has(Tail(queue[l]), Call("closeInLoop", p))
        BY <1>2, TailHas
      <4>3. Call("closeInLoop", p) = f => Closes(<<f>>, p)
        BY DEF Closes, In
      <4> QED
        BY <4>1, <4>2, <4>3 DEF Ends
    <3> QED
      BY <1>2, <1>5, <1>6, <2>2, <3>1, <3>2
  <2>3. CASE LoopOf[p] # l
    BY <1>5, <1>6, <2>1, <2>3
  <2> QED
    BY <2>2, <2>3
<1>11. Lives'
  BY <1>4, <1>10 DEF Lives
<1>12. Stopping'
  <2>1. \A todo : f # Walk("stopConn", none, todo)
    BY <1>3, FrameOps, CallFields
  <2>2. \A u \in Threads, todo \in SUBSET Conns :
          stack'[u] = <<Walk("stopConn", none, todo)>>
            => stack[u] = <<Walk("stopConn", none, todo)>>
    BY <1>5, <2>1, Stacked1
  <2>3. connMap_' = connMap_ /\ connMap_ \subseteq Conns
    BY <1>1, <1>4 DEF Types
  <2> QED
    BY <1>1, <1>10, <2>2, <2>3, StoppingStays
<1> QED
  BY <1>7, <1>8, <1>11, <1>12 DEF IInv

(* A step in the life of one connection leaves the invariant. *)
LEMMA ConnStep ==
  ASSUME IInv, NEW l \in Loops, NEW p0 \in Conns, LoopOf[p0] = l, mutex_ # l,
         UNCHANGED <<queue, mutex_, left>>,
         stack[l] = <<>> \/ \E op \in ConnOps : stack[l] = <<Call(op, p0)>>,
         NEW s, stack' = [stack EXCEPT ![l] = s],
         s = <<>> \/ \E op \in ConnOps : s = <<Call(op, p0)>>,
         NEW c \in Phases, conn' = [conn EXCEPT ![p0] = c],
         connMap_' \subseteq Conns,
         \A p \in Conns \ {p0} : p \in connMap_' <=> p \in connMap_,
         \/ mutex_ = none
         \/ /\ connMap_' = connMap_
            /\ p0 \in connMap_ /\ Ends(p0, stack[l], queue[l]) => Ends(p0, s, queue[l]),
         Life(p0, c, connMap_', s, queue[l])
  PROVE  IInv'
<1>1. Types /\ Lives /\ Stacks /\ Stopping /\ l \in Threads
  BY LoopsAreThreads DEF IInv
<1>2. DOMAIN stack' = Threads /\ stack'[l] = s
      /\ \A u \in Threads \ {l} : stack'[u] = stack[u]
  BY <1>1, Moved DEF Types
<1>3. /\ conn' \in [Conns -> Phases] /\ conn'[p0] = c
      /\ \A p \in Conns \ {p0} : conn'[p] = conn[p]
  BY <1>1 DEF Types
<1>4. Types'
  BY <1>1, <1>2, <1>3 DEF Types
<1>5. \A op \in ConnOps : Call(op, p0) \in Frames(l)
  BY DEF Frames, ConnCalls
<1>6. Stacks'
  <2>1. StackOK(l, stack'[l], mutex_', connMap_')
    BY <1>2, <1>5 DEF StackOK
  <2>2. \A u \in Threads \ {l} : /\ mutex_ = u <=> mutex_' = u
                                 /\ mutex_ = u => connMap_' = connMap_
    BY LoopsAreThreads
  <2> QED
    BY <1>1, <1>2, <2>1, <2>2, StacksChange
<1>7. \A p \in Conns \ {p0} : Elsewhere(stack[l], p) /\ Elsewhere(s, p)
  <2>1. \A op : Call(op, p0).conn = p0
    BY CallFields
  <2>2. \A p \in Conns \ {p0} : \A op : Elsewhere(<<Call(op, p0)>>, p)
    BY <2>1, Elsewheres
  <2> QED
    BY <2>2, Elsewheres
<1>8. Lives'
  <2>1. \A p \in Conns \ {p0} :
          /\ conn'[p] = conn[p] /\ (p \in connMap_' <=> p \in connMap_)
          /\ Elsewhere(stack[LoopOf[p0]], p) /\ Elsewhere(stack'[LoopOf[p0]], p)
    BY <1>2, <1>3, <1>7
  <2>2. Life(p0, conn'[p0], connMap_', stack'[LoopOf[p0]], queue[LoopOf[p0]])
    BY <1>2, <1>3
  <2>3. queue' = queue /\ \A u \in Threads \ {LoopOf[p0]} : stack'[u] = stack[u]
    BY <1>2
  <2> QED
    BY <1>1, <2>1, <2>2, <2>3, OneLife
<1>9. Stopping'
  <2>1. CASE mutex_ = none
    BY <1>6, <2>1, LoopsAreThreads, NobodyStops
  <2>2. CASE /\ connMap_' = connMap_
             /\ p0 \in connMap_ /\ Ends(p0, stack[l], queue[l]) => Ends(p0, s, queue[l])
    <3>1. ASSUME NEW p \in connMap_
          PROVE  Ends(p, stack[LoopOf[p]], queue[LoopOf[p]])
                   => Ends(p, stack'[LoopOf[p]], queue'[LoopOf[p]])
      <4>1. p \in Conns /\ LoopOf[p] \in Threads
        BY <1>1, LoopsAreThreads DEF Types
      <4>2. CASE p = p0
        BY <1>2, <2>2, <3>1, <4>2
      <4>3. CASE p # p0 /\ LoopOf[p] = l
        <5>1. Elsewhere(stack[l], p)
          BY <1>7, <4>1, <4>3
        <5>2. ~Closes(stack[l], p)
          BY <5>1 DEF Elsewhere, ConnOps, Closes
        <5> QED
          BY <4>3, <5>2 DEF Ends
      <4>4. CASE LoopOf[p] # l
        BY <1>2, <4>1, <4>4
      <4> QED
        BY <4>2, <4>3, <4>4
    <3>2. \A todo : s # <<Walk("stopConn", none, todo)>>
      <4>1. \A op \in ConnOps : \A todo : Call(op, p0) # Walk("stopConn", none, todo)
        BY CallFields DEF ConnOps
      <4> QED
        BY <4>1, Stacked1
    <3>3. \A u \in Threads, todo \in SUBSET Conns :
            stack'[u] = <<Walk("stopConn", none, todo)>>
              => stack[u] = <<Walk("stopConn", none, todo)>>
      BY <1>2, <3>2
    <3> QED
      BY <1>1, <2>2, <3>1, <3>3, StoppingStays
  <2> QED
    BY <2>1, <2>2
<1> QED
  BY <1>4, <1>6, <1>8, <1>9 DEF IInv

(* What the innermost call of a loop says when it is about a connection. *)
LEMMA ConnTop ==
  ASSUME IInv, NEW l \in Loops, NEW op \in ConnOps, At(l, op), NEW p, p = Top(l).conn
  PROVE  /\ p \in Conns /\ LoopOf[p] = l /\ mutex_ # l
         /\ stack[l] = <<Call(op, p)>>
         /\ conn[p] \in Phases
         /\ Life(p, conn[p], connMap_, <<Call(op, p)>>, queue[l])
         /\ connMap_ \subseteq Conns
<1>1. l \in Threads /\ Stacks /\ Types /\ Lives
  BY LoopsAreThreads DEF IInv
<1>2. p \in Conns /\ LoopOf[p] = l /\ mutex_ # l /\ In(stack[l], op, p)
  BY <1>1, InnerCall
<1> QED
  BY <1>1, <1>2 DEF In, Types, Lives

LEMMA Leaves ==
  ASSUME DOMAIN stack = Threads, NEW l \in Threads, NEW f, stack[l] = <<f>>
  PROVE  /\ Return(l) => stack' = [stack EXCEPT ![l] = <<>>]
         /\ \A g : GoOn(l, g) => stack' = [stack EXCEPT ![l] = <<g>>]
BY Stacked1 DEF Return, GoOn

(* The changes of fields in onAccept() and BuildAccept(). *)
Fields == [fd : {"none", "open", "closed"}, bufev_ : BOOLEAN, bConnected_ : BOOLEAN,
           bClosed_ : BOOLEAN, callbacks : BOOLEAN, tie_ : BOOLEAN]

LEMMA SameFields ==
  ASSUME NEW a \in Fields, NEW b \in Fields, a.fd = b.fd, a.bufev_ = b.bufev_,
         a.bConnected_ = b.bConnected_, a.bClosed_ = b.bClosed_,
         a.callbacks = b.callbacks, a.tie_ = b.tie_
  PROVE  a = b
BY DEF Fields

LEMMA AcceptSets ==
  [NewConn EXCEPT !.fd = "open", !.callbacks = TRUE, !.tie_ = TRUE] = Accepted
<1> DEFINE c == [NewConn EXCEPT !.fd = "open", !.callbacks = TRUE, !.tie_ = TRUE]
<1>1. NewConn \in Fields /\ Accepted \in Fields
  BY DEF NewConn, Accepted, Fields
<1>2. ASSUME NEW a \in Fields, NEW b,
             b = [a EXCEPT !.fd = "open", !.callbacks = TRUE, !.tie_ = TRUE]
      PROVE  /\ b \in Fields /\ b.fd = "open" /\ b.bufev_ = a.bufev_
             /\ b.bConnected_ = a.bConnected_ /\ b.bClosed_ = a.bClosed_
             /\ b.callbacks = TRUE /\ b.tie_ = TRUE
  BY <1>2 DEF Fields
<1>3. NewConn.bufev_ = FALSE /\ NewConn.bConnected_ = FALSE /\ NewConn.bClosed_ = FALSE
  BY DEF NewConn
<1>4. /\ Accepted.fd = "open" /\ Accepted.bufev_ = FALSE /\ Accepted.bConnected_ = FALSE
      /\ Accepted.bClosed_ = FALSE /\ Accepted.callbacks = TRUE /\ Accepted.tie_ = TRUE
  BY DEF Accepted
<1>5. /\ c \in Fields /\ c.fd = "open" /\ c.bufev_ = NewConn.bufev_
      /\ c.bConnected_ = NewConn.bConnected_ /\ c.bClosed_ = NewConn.bClosed_
      /\ c.callbacks = TRUE /\ c.tie_ = TRUE
  BY <1>1, <1>2
<1>6. c = Accepted
  <2> HIDE DEF c
  <2> QED
    BY <1>1, <1>3, <1>4, <1>5, SameFields
<1> QED
  BY <1>6

LEMMA BuildSets ==
  ASSUME NEW enabled \in BOOLEAN
  PROVE  [Accepted EXCEPT !.bufev_ = TRUE, !.bConnected_ = enabled]
           = IF enabled THEN Up ELSE HalfUp
<1> DEFINE c == [Accepted EXCEPT !.bufev_ = TRUE, !.bConnected_ = enabled]
<1>1. Accepted \in Fields /\ Up \in Fields /\ HalfUp \in Fields
  BY DEF Accepted, HalfUp, Up, Fields
<1>2. ASSUME NEW a \in Fields, NEW b,
             b = [a EXCEPT !.bufev_ = TRUE, !.bConnected_ = enabled]
      PROVE  /\ b \in Fields /\ b.fd = a.fd /\ b.bufev_ = TRUE
             /\ b.bConnected_ = enabled /\ b.bClosed_ = a.bClosed_
             /\ b.callbacks = a.callbacks /\ b.tie_ = a.tie_
  BY <1>2 DEF Fields
<1>3. /\ Accepted.bConnected_ = FALSE /\ HalfUp.bConnected_ = FALSE /\ HalfUp.bufev_ = TRUE
      /\ HalfUp.fd = Accepted.fd /\ HalfUp.bClosed_ = Accepted.bClosed_
      /\ HalfUp.callbacks = Accepted.callbacks /\ HalfUp.tie_ = Accepted.tie_
  BY DEF HalfUp, Accepted
<1>4. /\ Up.bConnected_ = TRUE /\ Up.bufev_ = TRUE
      /\ Up.fd = Accepted.fd /\ Up.bClosed_ = Accepted.bClosed_
      /\ Up.callbacks = Accepted.callbacks /\ Up.tie_ = Accepted.tie_
  BY DEF Up, HalfUp, Accepted
<1>5. /\ c \in Fields /\ c.fd = Accepted.fd /\ c.bufev_ = TRUE
      /\ c.bConnected_ = enabled /\ c.bClosed_ = Accepted.bClosed_
      /\ c.callbacks = Accepted.callbacks /\ c.tie_ = Accepted.tie_
  BY <1>1, <1>2
<1>6. c = IF enabled THEN Up ELSE HalfUp
  <2> HIDE DEF c
  <2>1. CASE enabled = TRUE
    BY <1>1, <1>4, <1>5, <2>1, SameFields
  <2>2. CASE enabled = FALSE
    BY <1>1, <1>3, <1>5, <2>2, SameFields, ZenonT(30)
  <2> QED
    BY <2>1, <2>2
<1> QED
  BY <1>6

LEMMA BuildAcceptIInv ==
  ASSUME IInv, NEW l \in Loops, BuildAccept(l)
  PROVE  IInv'
<1> DEFINE p == Top(l).conn
<1>1. At(l, "BuildAccept") /\ "BuildAccept" \in ConnOps
  BY DEF BuildAccept, ConnOps
<1>2. PICK enabled \in BOOLEAN :
        /\ conn' = [conn EXCEPT ![p].bufev_ = TRUE, ![p].bConnected_ = enabled]
        /\ GoOn(l, Call(IF enabled THEN "onConnect" ELSE "closeInLoop", p))
  BY DEF BuildAccept
<1> HIDE DEF p
<1>3. /\ p \in Conns /\ LoopOf[p] = l /\ mutex_ # l /\ stack[l] = <<Call("BuildAccept", p)>>
      /\ Life(p, conn[p], connMap_, <<Call("BuildAccept", p)>>, queue[l])
      /\ connMap_ \subseteq Conns
  BY <1>1, ConnTop DEF p
<1> DEFINE op2 == IF enabled THEN "onConnect" ELSE "closeInLoop"
           c == IF enabled THEN Up ELSE HalfUp
<1>4. op2 \in ConnOps /\ c \in Phases
  BY DEF ConnOps, Phases
<1>5. l \in Threads /\ DOMAIN stack = Threads /\ conn \in [Conns -> Phases]
  BY LoopsAreThreads DEF IInv, Types
<1>6. stack' = [stack EXCEPT ![l] = <<Call(op2, p)>>]
  <2> DEFINE g == Call(op2, p)
  <2>1. GoOn(l, g)
    BY <1>2
  <2> HIDE DEF g
  <2> QED
    BY <1>3, <1>5, <2>1, Leaves DEF g
<1>7. conn[p] = Accepted
  BY <1>3, InOne DEF Life
<1>8. conn' = [conn EXCEPT ![p] = c]
  <2>1. [Accepted EXCEPT !.bufev_ = TRUE, !.bConnected_ = enabled] = c
    BY BuildSets
  <2> QED
    BY <1>2, <1>3, <1>5, <1>7, <2>1
<1>9. Life(p, c, connMap_, <<Call(op2, p)>>, queue[l])
  BY <1>3, <1>7, InOne, PhasesDiffer DEF Life, Ends, Closes
<1>10. UNCHANGED <<queue, mutex_, left, connMap_>>
  BY DEF BuildAccept, mapVars
<1>11. Ends(p, stack[l], queue[l]) => Ends(p, <<Call(op2, p)>>, queue[l])
  BY <1>3, InOne DEF Ends, Closes
<1> HIDE DEF op2, c
<1>12. \E op \in ConnOps : stack[l] = <<Call(op, p)>>
  BY <1>1, <1>3
<1> DEFINE s == <<Call(op2, p)>>
<1>13. \E op \in ConnOps : s = <<Call(op, p)>>
  BY <1>4
<1> HIDE DEF s
<1> QED
  BY <1>3, <1>4, <1>6, <1>8, <1>9, <1>10, <1>11, <1>12, <1>13, ConnStep DEF s

LEMMA onConnectIInv ==
  ASSUME IInv, NEW l \in Loops, onConnect(l)
  PROVE  IInv'
<1> DEFINE p == Top(l).conn
<1>1. At(l, "onConnect") /\ "onConnect" \in ConnOps
  BY DEF onConnect, ConnOps
<1>2. /\ mutex_ = none /\ connMap_' = connMap_ \cup {p} /\ Return(l)
      /\ UNCHANGED <<conn, mutex_, queue, left>>
  BY DEF onConnect
<1> HIDE DEF p
<1>3. /\ p \in Conns /\ LoopOf[p] = l /\ mutex_ # l /\ stack[l] = <<Call("onConnect", p)>>
      /\ conn[p] \in Phases
      /\ Life(p, conn[p], connMap_, <<Call("onConnect", p)>>, queue[l])
      /\ connMap_ \subseteq Conns
  BY <1>1, ConnTop DEF p
<1>4. l \in Threads /\ DOMAIN stack = Threads /\ conn \in [Conns -> Phases]
  BY LoopsAreThreads DEF IInv, Types
<1>5. stack' = [stack EXCEPT ![l] = <<>>]
  BY <1>2, <1>3, <1>4, Leaves
<1>6. conn' = [conn EXCEPT ![p] = conn[p]]
  BY <1>2, <1>4
<1>7. conn[p] = Up /\ p \in connMap_'
  BY <1>2, <1>3, InOne DEF Life
<1>8. Life(p, conn[p], connMap_', <<>>, queue[l])
  BY <1>3, <1>7, InOne, PhasesDiffer DEF Life, Ends, Closes
<1>9. connMap_' \subseteq Conns /\ \A p2 \in Conns \ {p} : p2 \in connMap_' <=> p2 \in connMap_
  BY <1>2, <1>3
<1>10. \E op \in ConnOps : stack[l] = <<Call(op, p)>>
  BY <1>1, <1>3
<1> QED
  BY <1>2, <1>3, <1>5, <1>6, <1>8, <1>9, <1>10, ConnStep

LEMMA closeInLoopIInv ==
  ASSUME IInv, NEW l \in Loops, closeInLoop(l)
  PROVE  IInv'
<1> DEFINE p == Top(l).conn
<1>1. At(l, "closeInLoop") /\ "closeInLoop" \in ConnOps /\ "onClose" \in ConnOps
  BY DEF closeInLoop, ConnOps
<1>2. /\ IF conn[p].bClosed_ THEN Return(l) ELSE GoOn(l, Call("onClose", p))
      /\ UNCHANGED <<conn, connMap_, mutex_, queue, left>>
  BY DEF closeInLoop, mapVars
<1> HIDE DEF p
<1>3. /\ p \in Conns /\ LoopOf[p] = l /\ mutex_ # l /\ stack[l] = <<Call("closeInLoop", p)>>
      /\ conn[p] \in Phases
      /\ Life(p, conn[p], connMap_, <<Call("closeInLoop", p)>>, queue[l])
      /\ connMap_ \subseteq Conns
  BY <1>1, ConnTop DEF p
<1>4. l \in Threads /\ DOMAIN stack = Threads /\ conn \in [Conns -> Phases]
  BY LoopsAreThreads DEF IInv, Types
<1>5. conn' = [conn EXCEPT ![p] = conn[p]]
  BY <1>2, <1>4
<1>6. \E op \in ConnOps : stack[l] = <<Call(op, p)>>
  BY <1>1, <1>3
<1>7. connMap_' \subseteq Conns /\ \A p2 \in Conns \ {p} : p2 \in connMap_' <=> p2 \in connMap_
  BY <1>2, <1>3
<1>8. CASE conn[p].bClosed_
  <2>1. conn[p] = Closed
    BY <1>3, <1>8, PhaseFields
  <2>2. stack' = [stack EXCEPT ![l] = <<>>]
    BY <1>2, <1>3, <1>4, <1>8, Leaves
  <2>3. p \notin connMap_ /\ connMap_' = connMap_
    BY <1>2, <1>3, <2>1, PhasesDiffer DEF Life
  <2>4. Life(p, conn[p], connMap_', <<>>, queue[l])
    BY <1>3, <2>1, <2>3, InOne, PhasesDiffer DEF Life, Ends, Closes
  <2>5. UNCHANGED <<queue, mutex_, left>>
    BY <1>2
  <2> QED
    BY <1>3, <1>5, <1>6, <1>7, <2>2, <2>3, <2>4, <2>5, ConnStep
<1>9. CASE ~conn[p].bClosed_
  <2> DEFINE g == Call("onClose", p)
             s == <<g>>
  <2>1. conn[p] # Closed
    BY <1>3, <1>9, PhaseFields
  <2>2. stack' = [stack EXCEPT ![l] = s]
    <3> HIDE DEF g
    <3> QED
      BY <1>2, <1>3, <1>4, <1>9, Leaves DEF g
  <2>3. Life(p, conn[p], connMap_', s, queue[l])
    BY <1>2, <1>3, InOne, PhasesDiffer DEF Life, Ends, Closes
  <2>4. Ends(p, stack[l], queue[l]) => Ends(p, s, queue[l])
    BY InOne DEF Ends, Closes
  <2>5. \E op \in ConnOps : s = <<Call(op, p)>>
    BY <1>1
  <2>6. UNCHANGED <<queue, mutex_, left, connMap_>>
    BY <1>2
  <2> HIDE DEF s
  <2> QED
    BY <1>3, <1>5, <1>6, <1>7, <2>2, <2>3, <2>4, <2>5, <2>6, ConnStep
<1> QED
  BY <1>8, <1>9

LEMMA onCloseIInv ==
  ASSUME IInv, NEW l \in Loops, onClose(l)
  PROVE  IInv'
<1> DEFINE p == Top(l).conn
           g == Call("finish", p)
           s == <<g>>
<1>1. At(l, "onClose") /\ "onClose" \in ConnOps /\ "finish" \in ConnOps
  BY DEF onClose, ConnOps
<1>2. /\ mutex_ = none /\ connMap_' = connMap_ \ {p} /\ GoOn(l, g)
      /\ UNCHANGED <<conn, mutex_, queue, left>>
  BY DEF onClose
<1> HIDE DEF p
<1>3. /\ p \in Conns /\ LoopOf[p] = l /\ mutex_ # l /\ stack[l] = <<Call("onClose", p)>>
      /\ conn[p] \in Phases
      /\ Life(p, conn[p], connMap_, <<Call("onClose", p)>>, queue[l])
      /\ connMap_ \subseteq Conns
  BY <1>1, ConnTop DEF p
<1>4. l \in Threads /\ DOMAIN stack = Threads /\ conn \in [Conns -> Phases]
  BY LoopsAreThreads DEF IInv, Types
<1>5. stack' = [stack EXCEPT ![l] = s]
  <2> HIDE DEF g
  <2> QED
    BY <1>2, <1>3, <1>4, Leaves
<1>6. conn' = [conn EXCEPT ![p] = conn[p]]
  BY <1>2, <1>4
<1>7. Life(p, conn[p], connMap_', s, queue[l])
  BY <1>2, <1>3, InOne, PhasesDiffer DEF Life, Ends, Closes
<1>8. connMap_' \subseteq Conns /\ \A p2 \in Conns \ {p} : p2 \in connMap_' <=> p2 \in connMap_
  BY <1>2, <1>3
<1>9. /\ \E op \in ConnOps : stack[l] = <<Call(op, p)>>
      /\ \E op \in ConnOps : s = <<Call(op, p)>>
  BY <1>1, <1>3
<1> HIDE DEF s
<1> QED
  BY <1>2, <1>3, <1>5, <1>6, <1>7, <1>8, <1>9, ConnStep

LEMMA finishIInv ==
  ASSUME IInv, NEW l \in Loops, finish(l)
  PROVE  IInv'
<1> DEFINE p == Top(l).conn
<1>1. At(l, "finish") /\ "finish" \in ConnOps
  BY DEF finish, ConnOps
<1>2. /\ conn' = [conn EXCEPT ![p] = Closed] /\ Return(l)
      /\ UNCHANGED <<connMap_, mutex_, queue, left>>
  BY DEF finish, mapVars, Closed, NewConn
<1> HIDE DEF p
<1>3. /\ p \in Conns /\ LoopOf[p] = l /\ mutex_ # l /\ stack[l] = <<Call("finish", p)>>
      /\ conn[p] \in Phases
      /\ Life(p, conn[p], connMap_, <<Call("finish", p)>>, queue[l])
      /\ connMap_ \subseteq Conns
  BY <1>1, ConnTop DEF p
<1>4. l \in Threads /\ DOMAIN stack = Threads
  BY LoopsAreThreads DEF IInv, Types
<1>5. stack' = [stack EXCEPT ![l] = <<>>]
  BY <1>2, <1>3, <1>4, Leaves
<1>6. p \notin connMap_
  BY <1>3, InOne DEF Life
<1>7. Life(p, Closed, connMap_', <<>>, queue[l])
  BY <1>2, <1>3, <1>6, InOne, PhasesDiffer DEF Life, Ends, Closes
<1>8. /\ connMap_' \subseteq Conns /\ \A p2 \in Conns \ {p} : p2 \in connMap_' <=> p2 \in connMap_
      /\ Closed \in Phases
  BY <1>2, <1>3 DEF Phases
<1>9. \E op \in ConnOps : stack[l] = <<Call(op, p)>>
  BY <1>1, <1>3
<1> QED
  BY <1>2, <1>3, <1>5, <1>6, <1>7, <1>8, <1>9, ConnStep

LEMMA onEventIInv ==
  ASSUME IInv, NEW p \in Conns, onEvent(p)
  PROVE  IInv'
<1> DEFINE l == LoopOf[p]
           g == Call("closeInLoop", p)
           s == <<g>>
<1>1. /\ stack[l] = <<>> /\ conn[p].bufev_ /\ Enter(l, g)
      /\ UNCHANGED <<conn, connMap_, mutex_, queue, left>>
  BY DEF onEvent, Free, mapVars
<1>2. l \in Loops /\ l \in Threads
  BY LoopsAreThreads
<1>3. Stacks /\ Types /\ Lives
  BY DEF IInv
<1>4. mutex_ # l /\ conn \in [Conns -> Phases] /\ connMap_ \subseteq Conns
  BY <1>1, <1>2, <1>3, AtRest DEF Types
<1>5. stack' = [stack EXCEPT ![l] = s]
  <2> HIDE DEF g
  <2> QED
    BY <1>1, Stacked1 DEF Enter
<1>6. Life(p, conn[p], connMap_, <<>>, queue[l])
  BY <1>1, <1>3 DEF Lives
<1>7. conn[p] = HalfUp \/ conn[p] = Up
  BY <1>1, <1>4, PhaseFields
<1>8. Life(p, conn[p], connMap_', s, queue[l])
  BY <1>1, <1>6, <1>7, InOne, PhasesDiffer DEF Life, Ends, Closes
<1>9. Ends(p, s, queue[l])
  BY InOne DEF Ends, Closes
<1>10. \E op \in ConnOps : s = <<Call(op, p)>>
  BY DEF ConnOps
<1>11. conn' = [conn EXCEPT ![p] = conn[p]] /\ conn[p] \in Phases
  BY <1>1, <1>4
<1> HIDE DEF s, l
<1>12. l = LoopOf[p]
  BY DEF l
<1> QED
  BY <1>1, <1>2, <1>4, <1>5, <1>8, <1>9, <1>10, <1>11, <1>12, ConnStep

LEMMA onAcceptIInv ==
  ASSUME IInv, NEW p \in Conns, onAccept(p)
  PROVE  IInv'
<1> DEFINE l == LoopOf[p]
           g == Call("BuildAccept", p)
           s == <<g>>
<1>1. /\ stack[ServerLoop] = <<>> /\ conn[p].fd = "none"
      /\ conn' = [conn EXCEPT ![p].fd = "open", ![p].callbacks = TRUE, ![p].tie_ = TRUE]
      /\ UNCHANGED <<connMap_, mutex_, left>>
      /\ IF l = ServerLoop THEN Enter(ServerLoop, g) /\ UNCHANGED queue
                           ELSE queueInLoop(l, g) /\ UNCHANGED stack
  BY DEF onAccept, Free, mapVars
<1>2. l \in Loops /\ l \in Threads /\ ServerLoop \in Threads
  BY LoopsAreThreads
<1>3. Stacks /\ Types /\ Lives /\ Stopping
  BY DEF IInv
<1>4. conn \in [Conns -> Phases] /\ connMap_ \subseteq Conns
  BY <1>3 DEF Types
<1>5. conn[p] = NewConn
  BY <1>1, <1>4, PhaseFields
<1>6. conn' = [conn EXCEPT ![p] = Accepted] /\ Accepted \in Phases
  BY <1>1, <1>4, <1>5, AcceptSets DEF Phases
<1>7. Life(p, NewConn, connMap_, stack[l], queue[l])
  BY <1>3, <1>5 DEF Lives
<1>8. CASE l = ServerLoop
  <2>1. mutex_ # l /\ stack[l] = <<>> /\ queue' = queue
    BY <1>1, <1>2, <1>3, <1>8, AtRest
  <2>2. stack' = [stack EXCEPT ![l] = s]
    <3> HIDE DEF g
    <3> QED
      BY <1>1, <1>8, Stacked1 DEF Enter
  <2>3. Life(p, Accepted, connMap_', s, queue[l])
    BY <1>1, <1>7, <2>1, InOne, PhasesDiffer DEF Life, Ends, Closes
  <2>4. \E op \in ConnOps : s = <<Call(op, p)>>
    BY DEF ConnOps
  <2>5. p \notin connMap_
    BY <1>7, PhasesDiffer DEF Life
  <2> HIDE DEF s, l
  <2>6. l = LoopOf[p]
    BY DEF l
  <2> QED
    BY <1>1, <1>2, <1>4, <1>6, <2>1, <2>2, <2>3, <2>4, <2>5, <2>6, ConnStep, ZenonT(30)
<1>9. CASE l # ServerLoop
  <2>1. stack' = stack /\ queue' = [queue EXCEPT ![l] = Append(@, g)]
    BY <1>1, <1>9 DEF queueInLoop
  <2>2. queue[l] \in Seq(Functors(l)) /\ DOMAIN queue = Loops
        /\ \A u \in Loops : queue[u] \in Seq(Functors(u))
    BY <1>2, <1>3 DEF Types
  <2>3. g \in Functors(l)
    BY DEF Functors, ConnCalls
  <2>4. /\ Append(queue[l], g) \in Seq(Functors(l))
        /\ \A f : Has(Append(queue[l], g), f) <=> Has(queue[l], f) \/ f = g
        /\ Once(queue[l], g) /\ ~Has(queue[l], g) => Once(Append(queue[l], g), g)
    BY <2>2, <2>3, AppendHas
  <2>5. /\ DOMAIN queue' = Loops /\ queue'[l] = Append(queue[l], g)
        /\ \A u \in Loops \ {l} : queue'[u] = queue[u]
    BY <1>2, <2>1, <2>2
  <2>6. Types'
    <3>1. \A u \in Loops : queue'[u] \in Seq(Functors(u))
      BY <2>2, <2>4, <2>5
    <3>2. conn' \in [Conns -> Phases]
      BY <1>4, <1>6
    <3> QED
      BY <1>1, <1>3, <2>1, <2>5, <3>1, <3>2 DEF Types
  <2>7. Stacks'
    BY <1>1, <1>3, <2>1 DEF Stacks
  <2>8. Life(p, Accepted, connMap_, stack[l], Append(queue[l], g))
    <3>1. g # Call("closeInLoop", p)
      BY CallFields
    <3> QED
      BY <1>7, <2>4, <3>1, PhasesDiffer DEF Life, Ends
  <2>9. ASSUME NEW p2 \in Conns \ {p}
        PROVE  Life(p2, conn[p2], connMap_, stack[LoopOf[p2]], queue'[LoopOf[p2]])
    <3>1. Life(p2, conn[p2], connMap_, stack[LoopOf[p2]], queue[LoopOf[p2]])
          /\ LoopOf[p2] \in Loops
      BY <1>3, LoopsAreThreads DEF Lives
    <3>2. g # Call("BuildAccept", p2) /\ g # Call("closeInLoop", p2)
      BY CallFields
    <3>3. CASE LoopOf[p2] = l
      <4> HIDE DEF g, l
      <4>1. Life(p2, conn[p2], connMap_, stack[LoopOf[p2]], queue[l])
        BY <3>1, <3>3
      <4>2. Life(p2, conn[p2], connMap_, stack[LoopOf[p2]], Append(queue[l], g))
        BY <2>2, <2>3, <3>2, <4>1, QueueKeepsLife
      <4> QED
        BY <2>5, <3>3, <4>2
    <3>4. CASE LoopOf[p2] # l
      BY <2>5, <3>1, <3>4
    <3> QED
      BY <3>3, <3>4
  <2>10. Lives'
    <3>1. conn'[p] = Accepted /\ \A p2 \in Conns \ {p} : conn'[p2] = conn[p2]
      BY <1>4, <1>6
    <3> QED
      BY <1>1, <2>1, <2>5, <2>8, <2>9, <3>1, ZenonT(30) DEF Lives
  <2>11. Stopping'
    <3>1. ASSUME NEW p2 \in connMap_
          PROVE  Ends(p2, stack[LoopOf[p2]], queue[LoopOf[p2]])
                   => Ends(p2, stack'[LoopOf[p2]], queue'[LoopOf[p2]])
      <4>1. LoopOf[p2] \in Loops
        BY <1>4, LoopsAreThreads
      <4>2. CASE LoopOf[p2] = l
        BY <2>1, <2>4, <2>5, <4>2 DEF Ends
      <4>3. CASE LoopOf[p2] # l
        BY <2>1, <2>5, <4>1, <4>3
      <4> QED
        BY <4>2, <4>3
    <3> QED
      BY <1>1, <1>3, <2>1, <3>1, StoppingStays
  <2> QED
    BY <2>6, <2>7, <2>10, <2>11 DEF IInv
<1> QED
  BY <1>8, <1>9

-----------------------------------------------------------------------------
LEMMA InitIInv == Init => IInv
<1> SUFFICES ASSUME Init PROVE IInv
  OBVIOUS
<1>1. Types
  BY MaxCallsAssumption DEF Init, Types, Phases
<1>2. Stacks
  BY LoopsAreThreads DEF Init, Stacks, StackOK
<1>3. \A f : ~Has(<<>>, f)
  BY DEF Has
<1>4. ASSUME NEW p \in Conns PROVE Life(p, NewConn, {}, <<>>, <<>>)
  BY <1>3, InOne, PhasesDiffer DEF Life, Ends, Closes, Once
<1>5. Lives
  BY <1>4, LoopsAreThreads DEF Init, Lives
<1>6. Stopping
  BY DEF Init, Stopping
<1> QED
  BY <1>1, <1>2, <1>5, <1>6 DEF IInv

LEMMA NextIInv == IInv /\ [Next]_vars => IInv'
<1> SUFFICES ASSUME IInv, [Next]_vars PROVE IInv'
  OBVIOUS
<1>1. ASSUME NEW t \in Callers, Application(t) PROVE IInv'
  <2>1. t \in Threads
    BY LoopsAreThreads
  <2>2. CASE \E add \in BOOLEAN : SetServer(t, add)
    BY <2>1, <2>2, SetServerIInv
  <2>3. CASE \E d \in Pdus : BeginSend(t, d)
    BY <2>1, <2>3, BeginSendIInv
  <2>4. CASE BeginStop(t)
    BY <2>1, <2>4, BeginStopIInv
  <2>5. CASE \E p \in Conns : close(t, p)
    BY <2>1, <2>5, closeIInv
  <2> QED
    BY <1>1, <2>2, <2>3, <2>4, <2>5 DEF Application
<1>2. ASSUME NEW t \in Callers, GoesOn(t) PROVE IInv'
  BY <1>2, LoopsAreThreads, HandOverIInv, sendPduIInv, shutdownIInv, EndWalkIInv DEF GoesOn
<1>3. ASSUME NEW p \in Conns, onAccept(p) \/ onEvent(p) PROVE IInv'
  BY <1>3, onAcceptIInv, onEventIInv
<1>4. ASSUME NEW l \in Loops, LoopStep(l) PROVE IInv'
  BY <1>4, NextFunctorIInv, BuildAcceptIInv, onConnectIInv, closeInLoopIInv, onCloseIInv,
     finishIInv, onWriteIInv DEF LoopStep
<1>5. CASE addServerInLoop \/ delServerInLoop
  BY <1>5, ServerInLoopIInv
<1>6. CASE UNCHANGED vars
  BY <1>6 DEF vars, IInv, Types, Stacks, Lives, Stopping
<1> QED
  BY <1>1, <1>2, <1>3, <1>4, <1>5, <1>6 DEF Next

(* Between any two steps of any threads the stacks hold what the handlers  *)
(* push and the four parts of every connection's life agree.               *)
THEOREM LivesAgree == Spec => []IInv
BY InitIInv, NextIInv, PTL DEF Spec

(* BaseConn::shutdown() and close() always queue, so that a thread inside   *)
(* stopConn() or sendPdu(), which hold the mutex of the map, is never in a  *)
(* callback that locks it: of a connection of its own loop it can at most   *)
(* be in onWrite().                                                         *)
THEOREM NobodyLocksTwice == Spec => []NoSelfLock
<1>1. IInv => NoSelfLock
  <2> SUFFICES ASSUME IInv, NEW t \in Threads, NEW op \in {"onConnect", "onClose"}, At(t, op)
               PROVE  mutex_ # t
    BY DEF NoSelfLock
  <2> QED
    BY InnerCall DEF IInv, ConnOps
<1> QED
  BY <1>1, LivesAgree, PTL

(* However accepting, closing, hanging up and stopConn() overlap, a         *)
(* connection is served or gone once nothing is on its way.                 *)
THEOREM NoneIsForgotten == Spec => []ServedOrGone
<1>1. IInv => ServedOrGone
  <2> SUFFICES ASSUME IInv, Resting, NEW p \in Conns, conn[p].fd # "none"
               PROVE  Served(p) \/ Gone(p)
    BY DEF ServedOrGone
  <2>1. /\ conn[p] \in Phases /\ LoopOf[p] \in Loops /\ LoopOf[p] \in Threads
        /\ Life(p, conn[p], connMap_, stack[LoopOf[p]], queue[LoopOf[p]])
    BY LoopsAreThreads DEF IInv, Types, Lives
  <2>2. stack[LoopOf[p]] = <<>> /\ queue[LoopOf[p]] = <<>>
    BY <2>1 DEF Resting
  <2>3. Life(p, conn[p], connMap_, <<>>, <<>>)
    BY <2>1, <2>2
  <2>4. \A f : ~Has(<<>>, f)
    BY DEF Has
  <2>5. /\ conn[p] # Accepted /\ conn[p] # HalfUp
        /\ conn[p] = Up => p \in connMap_
        /\ p \in connMap_ => conn[p] = Up
    BY <2>3, <2>4, InOne DEF Life, Ends, Closes
  <2>6. conn[p] # NewConn
    BY <2>1, PhaseFields
  <2>7. conn[p] = Up \/ conn[p] = Closed
    BY <2>1, <2>5, <2>6 DEF Phases
  <2> QED
    BY <2>1, <2>5, <2>7, PhaseFields, PhasesDiffer DEF Served, Gone
<1> QED
  BY <1>1, LivesAgree, PTL

-----------------------------------------------------------------------------
(* What is sent on connection p is on its way in a line: what is written,   *)
(* then the call of onWrite() its loop is in, then those queued on it.  The *)
(* line of p is told by its fields c, the connections t on which a write    *)
(* failed, what was sent and written, and the stack and queue of its loop;  *)
(* again the lemmas about it are about values.                              *)
Hand(s, f) == s # <<>> /\ Head(s) = f

Sound(p, snt, wr, s, q) ==
  /\ \A m : Has(wr, m) \/ Hand(s, Write(p, m)) \/ Has(q, Write(p, m)) => Has(snt, m)
  /\ \A m : Once(wr, m) /\ Once(q, Write(p, m))
  /\ \A m : Hand(s, Write(p, m)) => ~Has(wr, m) /\ ~Has(q, Write(p, m))
  /\ \A m : Has(q, Write(p, m)) => ~Has(wr, m) /\ m.by # LoopOf[p]

(* What is written has what its sender sent before it in front of it...     *)
Ordered(snt, wr) ==
  \A m, n : m.by = n.by /\ Before(snt, m, n) /\ Has(wr, n) => Before(wr, m, n)

(* ... and so has all that is in the line of a connection that is up.       *)
InLine(p, snt, wr, s, q) ==
  /\ \A m : Has(snt, m) => Has(wr, m) \/ Hand(s, Write(p, m)) \/ Has(q, Write(p, m))
  /\ \A m, n : m.by = n.by /\ Before(snt, m, n) =>
       /\ Hand(s, Write(p, n)) => Has(wr, m)
       /\ Has(q, Write(p, n)) => \/ Has(wr, m)
                                 \/ Hand(s, Write(p, m))
                                 \/ Before(q, Write(p, m), Write(p, n))

Line(p, c, t, snt, wr, s, q) ==
  /\ Sound(p, snt, wr, s, q)
  /\ p \notin t => Ordered(snt, wr)
  /\ p \notin t /\ c = Up => InLine(p, snt, wr, s, q)
  /\ c \in {NewConn, Accepted} => \A m : ~Has(snt, m)

Lines ==
  \A p \in Conns : Line(p, conn[p], torn, sent[p], written[p],
                        stack[LoopOf[p]], queue[LoopOf[p]])

Streams == sent \in [Conns -> Seq(Pdu)] /\ written \in [Conns -> Seq(Pdu)]

(* Nothing is sent twice: a thread that sends d has not come to the         *)
(* connections that are left in its walk.                                   *)
Carries(s, w) == s = <<w>> \/ \E f : s = <<f, w>>
Sending(t, s, d, todo, pdus, snt) ==
  Carries(s, Walk("sendPdu", d, todo)) =>
    d.by = t /\ d.pdu \notin pdus /\ \A p \in todo : ~Has(snt[p], d)
Senders ==
  \A t \in Threads, todo \in SUBSET Conns : \A d :
    Sending(t, stack[t], d, todo, left.pdus, sent)
Unsent == \A p \in Conns : \A m : Has(sent[p], m) => m.pdu \notin left.pdus

LInv == Lines /\ Streams /\ Senders /\ Unsent

LEMMA AppendBefore ==
  ASSUME NEW S, NEW q \in Seq(S), NEW f \in S
  PROVE  \A a, b : Before(Append(q, f), a, b) <=> Before(q, a, b) \/ (b = f /\ Has(q, a))
<1>1. /\ Len(q) \in Nat /\ Len(Append(q, f)) = Len(q) + 1
      /\ Append(q, f)[Len(q) + 1] = f
      /\ \A i \in 1..Len(q) : Append(q, f)[i] = q[i]
  BY AppendProperties, LenProperties
<1>2. \A i : i \in 1..Len(Append(q, f)) <=> i \in 1..Len(q) \/ i = Len(q) + 1
  BY <1>1
<1>3. \A i \in 1..Len(q) : i < Len(q) + 1
  BY <1>1
<1>4. \A i, j : i \in 1..Len(q) \/ i = Len(q) + 1 =>
                (j \in 1..Len(q) /\ i < j => i \in 1..Len(q)) /\ (j = Len(q) + 1 /\ i < j => i \in 1..Len(q))
  BY <1>1
<1>5. ASSUME NEW a, NEW b, Before(Append(q, f), a, b)
      PROVE  Before(q, a, b) \/ (b = f /\ Has(q, a))
  <2>1. PICK i, j \in 1..Len(Append(q, f)) :
          i < j /\ Append(q, f)[i] = a /\ Append(q, f)[j] = b
    BY <1>5 DEF Before
  <2>2. i \in 1..Len(q)
    BY <1>2, <1>4, <2>1
  <2>3. q[i] = a
    BY <1>1, <2>1, <2>2
  <2>4. CASE j \in 1..Len(q)
    BY <1>1, <2>1, <2>2, <2>3, <2>4 DEF Before
  <2>5. CASE j = Len(q) + 1
    BY <1>1, <2>1, <2>2, <2>3, <2>5 DEF Has
  <2> QED
    BY <1>2, <2>4, <2>5
<1>6. ASSUME NEW a, NEW b, Before(q, a, b) PROVE Before(Append(q, f), a, b)
  BY <1>1, <1>2, <1>6 DEF Before
<1>7. ASSUME NEW a, Has(q, a) PROVE Before(Append(q, f), a, f)
  BY <1>1, <1>2, <1>3, <1>7 DEF Before, Has
<1> QED
  BY <1>5, <1>6, <1>7

LEMMA TailBefore ==
  ASSUME NEW S, NEW q \in Seq(S), q # <<>>, NEW a, NEW b, Before(q, a, b)
  PROVE  Before(Tail(q), a, b) \/ (a = Head(q) /\ Has(Tail(q), b))
<1>1. /\ Len(q) \in Nat /\ Len(q) >= 1
      /\ Len(Tail(q)) = Len(q) - 1 /\ Head(q) = q[1]
      /\ \A i \in 1..(Len(q) - 1) : Tail(q)[i] = q[i + 1]
  BY HeadTailProperties, LenProperties, EmptySeq
<1>2. \A i \in 1..Len(q) : i = 1 \/ (i - 1 \in 1..Len(Tail(q)) /\ Tail(q)[i - 1] = q[i])
  BY <1>1
<1>3. PICK i, j \in 1..Len(q) : i < j /\ q[i] = a /\ q[j] = b
  BY DEF Before
<1>4. j - 1 \in 1..Len(Tail(q)) /\ Tail(q)[j - 1] = b
  <2>1. j # 1
    BY <1>1, <1>3
  <2> QED
    BY <1>2, <1>3, <2>1
<1>5. CASE i = 1
  BY <1>1, <1>3, <1>4, <1>5 DEF Has
<1>6. CASE i # 1
  <2>1. i - 1 \in 1..Len(Tail(q)) /\ Tail(q)[i - 1] = a
    BY <1>2, <1>3, <1>6
  <2>2. i - 1 < j - 1
    BY <1>1, <1>3
  <2> QED
    BY <1>4, <2>1, <2>2 DEF Before
<1> QED
  BY <1>5, <1>6

LEMMA BothHad == ASSUME NEW q, NEW a, NEW b, Before(q, a, b) PROVE Has(q, a) /\ Has(q, b)
BY DEF Before, Has

LEMMA WriteFields ==
  /\ \A p, m : Write(p, m).op = "onWrite" /\ Write(p, m).conn = p /\ Write(p, m).pdu = m
  /\ \A p, m, p2, m2 : Write(p, m) = Write(p2, m2) => p = p2 /\ m = m2
BY DEF Write

LEMMA Hands ==
  /\ \A f : ~Hand(<<>>, f)
  /\ \A f, g : Hand(<<f>>, g) <=> f = g
  /\ \A f, w, g : Hand(<<f, w>>, g) <=> f = g
BY Stacked1, Stacked2 DEF Hand

-----------------------------------------------------------------------------
(* What leaves the line of p as it is: a call that is not a write on p, on  *)
(* the stack or queued, and every change of p but its coming up.            *)
LEMMA LineStays ==
  ASSUME NEW p, NEW c, NEW t, NEW snt, NEW wr, NEW s, NEW S, NEW q \in Seq(S),
         Line(p, c, t, snt, wr, s, q), NEW c2, NEW s2, NEW q2,
         c2 = c \/ c \in {NewConn, Accepted} \/ c2 \in {HalfUp, Closed},
         \A m : Hand(s2, Write(p, m)) <=> Hand(s, Write(p, m)),
         q2 = q \/ \E f \in S : q2 = Append(q, f) /\ \A m : f # Write(p, m)
  PROVE  Line(p, c2, t, snt, wr, s2, q2)
<1>1. /\ \A m : Has(q2, Write(p, m)) <=> Has(q, Write(p, m))
      /\ \A m : Once(q, Write(p, m)) => Once(q2, Write(p, m))
      /\ \A m, n : Before(q, Write(p, m), Write(p, n)) => Before(q2, Write(p, m), Write(p, n))
  <2>1. ASSUME NEW f \in S, q2 = Append(q, f), \A m : f # Write(p, m)
        PROVE  /\ \A m : Has(q2, Write(p, m)) <=> Has(q, Write(p, m))
               /\ \A m : Once(q, Write(p, m)) => Once(q2, Write(p, m))
               /\ \A m, n : Before(q, Write(p, m), Write(p, n))
                              => Before(q2, Write(p, m), Write(p, n))
    <3>1. /\ \A g : Has(q2, g) <=> Has(q, g) \/ g = f
          /\ \A g : Once(q, g) /\ (g = f => ~Has(q, g)) => Once(q2, g)
      BY <2>1, AppendHas
    <3>2. \A a, b : Before(q2, a, b) <=> Before(q, a, b) \/ (b = f /\ Has(q, a))
      BY <2>1, AppendBefore
    <3> QED
      BY <2>1, <3>1, <3>2
  <2> QED
    BY <2>1
<1>2. Sound(p, snt, wr, s2, q2)
  BY <1>1 DEF Line, Sound
<1>3. ASSUME c = c2 \/ c \in {NewConn, Accepted}, p \notin t, c2 = Up
      PROVE  InLine(p, snt, wr, s2, q2)
  <2>1. CASE c = c2
    BY <1>1, <1>3, <2>1 DEF Line, InLine
  <2>2. CASE c \in {NewConn, Accepted}
    <3>1. \A m : ~Has(snt, m)
      BY <2>2 DEF Line
    <3>2. \A m, n : ~Before(snt, m, n)
      BY <3>1, BothHad
    <3> QED
      BY <3>1, <3>2 DEF InLine
  <2> QED
    BY <1>3, <2>1, <2>2
<1>4. c2 \in {NewConn, Accepted} => \A m : ~Has(snt, m)
  BY PhasesDiffer DEF Line
<1>5. p \notin t => Ordered(snt, wr)
  BY DEF Line
<1>6. c2 = Up => c2 = c \/ c \in {NewConn, Accepted}
  BY PhasesDiffer
<1> QED
  BY <1>2, <1>3, <1>4, <1>5, <1>6 DEF Line

(* A loop takes the next functor. *)
LEMMA LineTaken ==
  ASSUME NEW p, NEW c, NEW t, NEW snt, NEW wr, NEW S, NEW q \in Seq(S), q # <<>>,
         Line(p, c, t, snt, wr, <<>>, q)
  PROVE  Line(p, c, t, snt, wr, <<Head(q)>>, Tail(q))
<1> DEFINE h == Head(q)
           r == Tail(q)
<1>1. /\ \A g : Has(q, g) <=> g = h \/ Has(r, g)
      /\ \A g : Once(q, g) => Once(r, g)
      /\ \A g : Once(q, g) /\ g = h => ~Has(r, g)
  BY TailHas
<1>2. \A a, b : Before(q, a, b) => Before(r, a, b) \/ (a = h /\ Has(r, b))
  BY TailBefore
<1>3. \A g : ~Hand(<<>>, g) /\ (Hand(<<h>>, g) <=> h = g)
  BY Hands
<1>4. \A a, b : Before(r, a, b) => Has(r, b)
  BY BothHad
<1> HIDE DEF h, r
<1>5. \A m : Once(q, Write(p, m))
  BY DEF Line, Sound
<1>6. Sound(p, snt, wr, <<h>>, r)
  BY <1>1, <1>3 DEF Line, Sound
<1>7. ASSUME InLine(p, snt, wr, <<>>, q) PROVE InLine(p, snt, wr, <<h>>, r)
  <2>1. \A m : Has(snt, m) => Has(wr, m) \/ Hand(<<h>>, Write(p, m)) \/ Has(r, Write(p, m))
    BY <1>1, <1>3, <1>7 DEF InLine
  <2>2. ASSUME NEW m, NEW n, m.by = n.by, Before(snt, m, n), Hand(<<h>>, Write(p, n))
        PROVE  Has(wr, m)
    <3>1. Write(p, n) = h /\ Has(q, Write(p, n)) /\ ~Has(r, Write(p, n))
      BY <1>1, <1>3, <1>5, <2>2
    <3>2. ~Before(q, Write(p, m), Write(p, n))
      BY <1>2, <1>4, <3>1
    <3> QED
      BY <1>3, <1>7, <2>2, <3>1, <3>2 DEF InLine
  <2>3. ASSUME NEW m, NEW n, m.by = n.by, Before(snt, m, n), Has(r, Write(p, n))
        PROVE  Has(wr, m) \/ Hand(<<h>>, Write(p, m)) \/ Before(r, Write(p, m), Write(p, n))
    <3>1. Has(q, Write(p, n))
      BY <1>1, <2>3
    <3>2. Has(wr, m) \/ Before(q, Write(p, m), Write(p, n))
      BY <1>3, <1>7, <2>3, <3>1 DEF InLine
    <3> QED
      BY <1>2, <1>3, <3>2
  <2> QED
    BY <2>1, <2>2, <2>3 DEF InLine
<1> QED
  BY <1>6, <1>7 DEF Line, h, r

(* The bufferevent takes what is in hand. *)
LEMMA LineWritten ==
  ASSUME NEW p, NEW t, NEW snt, NEW S, NEW wr \in Seq(S), NEW s, NEW q, NEW m \in S,
         Line(p, Up, t, snt, wr, s, q), \A g : Hand(s, g) <=> g = Write(p, m),
         NEW s2, \A n : ~Hand(s2, Write(p, n))
  PROVE  Line(p, Up, t, snt, Append(wr, m), s2, q)
<1> DEFINE w2 == Append(wr, m)
<1>1. /\ \A g : Has(w2, g) <=> Has(wr, g) \/ g = m
      /\ \A g : Once(wr, g) /\ (g = m => ~Has(wr, g)) => Once(w2, g)
  BY AppendHas
<1>2. \A a, b : Before(w2, a, b) <=> Before(wr, a, b) \/ (b = m /\ Has(wr, a))
  BY AppendBefore
<1> HIDE DEF w2
<1>3. /\ Has(snt, m) /\ ~Has(wr, m) /\ ~Has(q, Write(p, m))
  BY DEF Line, Sound
<1>4. Sound(p, snt, w2, s2, q)
  BY <1>1, <1>3 DEF Line, Sound
<1>5. ASSUME p \notin t PROVE Ordered(snt, w2) /\ InLine(p, snt, w2, s2, q)
  <2>1. Ordered(snt, wr) /\ InLine(p, snt, wr, s, q)
    BY <1>5 DEF Line
  <2>2. Ordered(snt, w2)
    BY <1>1, <1>2, <2>1 DEF Ordered, InLine
  <2>3. \A n : Hand(s, Write(p, n)) <=> n = m
    BY WriteFields
  <2>4. \A n : Has(snt, n) => Has(w2, n) \/ Hand(s2, Write(p, n)) \/ Has(q, Write(p, n))
    BY <1>1, <2>1, <2>3 DEF InLine
  <2>5. ASSUME NEW n, NEW k, n.by = k.by, Before(snt, n, k), Has(q, Write(p, k))
        PROVE  Has(w2, n) \/ Before(q, Write(p, n), Write(p, k))
    BY <1>1, <2>1, <2>3, <2>5 DEF InLine
  <2> QED
    BY <2>2, <2>4, <2>5 DEF InLine
<1> QED
  BY <1>4, <1>5, PhasesDiffer DEF Line, w2

(* What is in hand is not written: on a connection that is not up, or       *)
(* because the bufferevent refuses it.                                      *)
LEMMA LineDropped ==
  ASSUME NEW p, NEW c, NEW t, NEW snt, NEW wr, NEW s, NEW q,
         Line(p, c, t, snt, wr, s, q), NEW s2, \A n : ~Hand(s2, Write(p, n)),
         NEW t2, p \notin t2 => p \notin t /\ c # Up
  PROVE  Line(p, c, t2, snt, wr, s2, q)
<1>1. Sound(p, snt, wr, s2, q)
  BY DEF Line, Sound
<1> QED
  BY <1>1 DEF Line

(* Something new is sent and queued... *)
LEMMA LineQueued ==
  ASSUME NEW p, NEW t, NEW P, NEW snt \in Seq(P), NEW wr, NEW s, NEW S, NEW q \in Seq(S),
         NEW d \in P, Write(p, d) \in S, d.by # LoopOf[p], ~Has(snt, d),
         Line(p, Up, t, snt, wr, s, q)
  PROVE  Line(p, Up, t, Append(snt, d), wr, s, Append(q, Write(p, d)))
<1> DEFINE snt2 == Append(snt, d)
           q2 == Append(q, Write(p, d))
<1>1. /\ \A g : Has(snt2, g) <=> Has(snt, g) \/ g = d
      /\ \A a, b : Before(snt2, a, b) <=> Before(snt, a, b) \/ (b = d /\ Has(snt, a))
  BY AppendHas, AppendBefore
<1>2. /\ \A g : Has(q2, g) <=> Has(q, g) \/ g = Write(p, d)
      /\ \A g : Once(q, g) /\ (g = Write(p, d) => ~Has(q, g)) => Once(q2, g)
      /\ \A a, b : Before(q2, a, b) <=> Before(q, a, b) \/ (b = Write(p, d) /\ Has(q, a))
  BY AppendHas, AppendBefore
<1>3. \A m : Write(p, m) = Write(p, d) <=> m = d
  BY WriteFields
<1> HIDE DEF snt2, q2
<1>4. ~Has(wr, d) /\ ~Hand(s, Write(p, d)) /\ ~Has(q, Write(p, d))
  BY DEF Line, Sound
<1>5. Sound(p, snt2, wr, s, q2)
  BY <1>1, <1>2, <1>3, <1>4 DEF Line, Sound
<1>6. ASSUME p \notin t PROVE Ordered(snt2, wr) /\ InLine(p, snt2, wr, s, q2)
  <2>1. Ordered(snt, wr) /\ InLine(p, snt, wr, s, q)
    BY <1>6 DEF Line
  <2>2. Ordered(snt2, wr)
    BY <1>1, <1>4, <2>1 DEF Ordered
  <2>3. \A m : Has(snt2, m) => Has(wr, m) \/ Hand(s, Write(p, m)) \/ Has(q2, Write(p, m))
    BY <1>1, <1>2, <2>1 DEF InLine
  <2>4. ASSUME NEW m, NEW n, m.by = n.by, Before(snt2, m, n), Hand(s, Write(p, n))
        PROVE  Has(wr, m)
    BY <1>1, <1>4, <2>1, <2>4 DEF InLine
  <2>5. ASSUME NEW m, NEW n, m.by = n.by, Before(snt2, m, n), Has(q2, Write(p, n))
        PROVE  Has(wr, m) \/ Hand(s, Write(p, m)) \/ Before(q2, Write(p, m), Write(p, n))
    <3>1. CASE Before(snt, m, n)
      <4>1. n # d
        BY <3>1, BothHad
      <4>2. Has(q, Write(p, n))
        BY <1>2, <1>3, <2>5, <4>1
      <4> QED
        BY <1>2, <2>1, <2>5, <3>1, <4>2 DEF InLine
    <3>2. CASE n = d /\ Has(snt, m)
      BY <1>2, <2>1, <3>2 DEF InLine
    <3> QED
      BY <1>1, <2>5, <3>1, <3>2
  <2> QED
    BY <2>2, <2>3, <2>4, <2>5 DEF InLine
<1> QED
  BY <1>5, <1>6, PhasesDiffer DEF Line, snt2, q2

(* ... or is sent on the connection's own loop, and taken in hand at once.  *)
LEMMA LineInHand ==
  ASSUME NEW p, NEW t, NEW P, NEW snt \in Seq(P), NEW wr, NEW s, NEW q,
         NEW d \in P, d.by = LoopOf[p], ~Has(snt, d),
         \A m : ~Hand(s, Write(p, m)), NEW s2, \A g : Hand(s2, g) <=> g = Write(p, d),
         Line(p, Up, t, snt, wr, s, q)
  PROVE  Line(p, Up, t, Append(snt, d), wr, s2, q)
<1> DEFINE snt2 == Append(snt, d)
<1>1. /\ \A g : Has(snt2, g) <=> Has(snt, g) \/ g = d
      /\ \A a, b : Before(snt2, a, b) <=> Before(snt, a, b) \/ (b = d /\ Has(snt, a))
  BY AppendHas, AppendBefore
<1>2. \A m : Hand(s2, Write(p, m)) <=> m = d
  BY WriteFields
<1> HIDE DEF snt2
<1>3. ~Has(wr, d) /\ ~Has(q, Write(p, d))
  BY DEF Line, Sound
<1>4. Sound(p, snt2, wr, s2, q)
  BY <1>1, <1>2, <1>3 DEF Line, Sound
<1>5. ASSUME p \notin t PROVE Ordered(snt2, wr) /\ InLine(p, snt2, wr, s2, q)
  <2>1. Ordered(snt, wr) /\ InLine(p, snt, wr, s, q) /\ Sound(p, snt, wr, s, q)
    BY <1>5 DEF Line
  <2>2. Ordered(snt2, wr)
    BY <1>1, <1>3, <2>1 DEF Ordered
  <2>3. \A m : Has(snt2, m) => Has(wr, m) \/ Hand(s2, Write(p, m)) \/ Has(q, Write(p, m))
    BY <1>1, <1>2, <2>1 DEF InLine
  <2>4. ASSUME NEW m, NEW n, m.by = n.by, Before(snt2, m, n), Hand(s2, Write(p, n))
        PROVE  Has(wr, m)
    <3>1. n = d
      BY <1>2, <2>4
    <3>2. Has(snt, m)
      BY <1>1, <2>4, <3>1, BothHad
    <3>3. ~Has(q, Write(p, m))
      BY <2>1, <2>4, <3>1 DEF Sound
    <3> QED
      BY <2>1, <3>2, <3>3 DEF InLine
  <2>5. ASSUME NEW m, NEW n, m.by = n.by, Before(snt2, m, n), Has(q, Write(p, n))
        PROVE  Has(wr, m) \/ Before(q, Write(p, m), Write(p, n))
    <3>1. Before(snt, m, n)
      BY <1>1, <1>3, <2>5
    <3> QED
      BY <2>1, <2>5, <3>1 DEF InLine
  <2> QED
    BY <2>2, <2>3, <2>4, <2>5 DEF InLine
<1> QED
  BY <1>4, <1>5, PhasesDiffer DEF Line, snt2

-----------------------------------------------------------------------------
(* Steps that send nothing and write nothing. *)

LEMMA LinesStay ==
  ASSUME Types, Lines, UNCHANGED <<sent, written, torn>>,
         \A p \in Conns : \/ conn'[p] = conn[p]
                          \/ conn[p] \in {NewConn, Accepted}
                          \/ conn'[p] \in {HalfUp, Closed},
         \A l \in Loops : \A p, m : Hand(stack'[l], Write(p, m)) <=> Hand(stack[l], Write(p, m)),
         \A l \in Loops : \/ queue'[l] = queue[l]
                          \/ \E f \in Functors(l) : /\ f.op # "onWrite"
                                                    /\ queue'[l] = Append(queue[l], f)
  PROVE  Lines'
<1> SUFFICES ASSUME NEW p \in Conns
             PROVE  Line(p, conn'[p], torn, sent[p], written[p],
                         stack'[LoopOf[p]], queue'[LoopOf[p]])
  BY DEF Lines
<1>1. PICK l : l = LoopOf[p]
  OBVIOUS
<1>2. l \in Loops /\ queue[l] \in Seq(Functors(l))
  BY <1>1, LoopsAreThreads DEF Types
<1>3. PICK c : c = conn[p]
  OBVIOUS
<1>4. PICK s : s = stack[l]
  OBVIOUS
<1>5. PICK q : q = queue[l]
  OBVIOUS
<1>6. PICK c2 : c2 = conn'[p]
  OBVIOUS
<1>7. PICK s2 : s2 = stack'[l]
  OBVIOUS
<1>8. PICK q2 : q2 = queue'[l]
  OBVIOUS
<1>9. Line(p, c, torn, sent[p], written[p], s, q)
  BY <1>1, <1>3, <1>4, <1>5 DEF Lines
<1>10. \A m : Hand(s2, Write(p, m)) <=> Hand(s, Write(p, m))
  BY <1>2, <1>4, <1>7
<1>11. q2 = q \/ \E f \in Functors(l) : q2 = Append(q, f) /\ \A m : f # Write(p, m)
  BY <1>2, <1>5, <1>8, WriteFields
<1>12. c2 = c \/ c \in {NewConn, Accepted} \/ c2 \in {HalfUp, Closed}
  BY <1>3, <1>6
<1>13. q \in Seq(Functors(l))
  BY <1>2, <1>5
<1>14. Line(p, c2, torn, sent[p], written[p], s2, q2)
  BY <1>9, <1>10, <1>11, <1>12, <1>13, LineStays
<1> QED
  BY <1>1, <1>6, <1>7, <1>8, <1>14

LEMMA SendersStay ==
  ASSUME Senders, Unsent, left'.pdus \subseteq left.pdus, sent' = sent,
         \A t \in Threads : \A d, todo :
           Carries(stack'[t], Walk("sendPdu", d, todo))
             => Carries(stack[t], Walk("sendPdu", d, todo))
  PROVE  Senders' /\ Unsent'
BY DEF Senders, Sending, Unsent

LEMMA Carried ==
  /\ \A w : ~Carries(<<>>, w)
  /\ \A f, w : Carries(<<f>>, w) <=> f = w
  /\ \A f, v, w : Carries(<<f, v>>, w) <=> v = w
BY Stacked1, Stacked2 DEF Carries

LEMMA OneChange ==
  ASSUME Types, NEW l \in Loops, NEW f \in Functors(l),
         queue' = [queue EXCEPT ![l] = Append(@, f)]
  PROVE  queue'[l] = Append(queue[l], f) /\ \A u \in Loops \ {l} : queue'[u] = queue[u]
BY DEF Types

LEMMA QuietStep ==
  ASSUME IInv, LInv, UNCHANGED <<sent, written, torn>>, left'.pdus \subseteq left.pdus,
         NEW t \in Threads, \A u \in Threads \ {t} : stack'[u] = stack[u],
         stack[t] = <<>> \/ \E f : f.op # "onWrite" /\ stack[t] = <<f>>,
         stack'[t] = <<>> \/ \E f : f.op \notin {"onWrite", "sendPdu"} /\ stack'[t] = <<f>>,
         \/ queue' = queue
         \/ \E l \in Loops : \E f \in Functors(l) :
              f.op # "onWrite" /\ queue' = [queue EXCEPT ![l] = Append(@, f)],
         \A p \in Conns : \/ conn'[p] = conn[p]
                          \/ conn[p] \in {NewConn, Accepted}
                          \/ conn'[p] \in {HalfUp, Closed}
  PROVE  LInv'
<1>1. Types /\ Lines /\ Streams /\ Senders /\ Unsent
  BY DEF IInv, LInv
<1>2. ASSUME NEW s, s = <<>> \/ \E f : f.op # "onWrite" /\ s = <<f>>
      PROVE  \A p, m : ~Hand(s, Write(p, m))
  BY <1>2, Hands, WriteFields
<1>3. \A p, m : ~Hand(stack[t], Write(p, m)) /\ ~Hand(stack'[t], Write(p, m))
  <2>1. PICK s : s = stack[t]
    OBVIOUS
  <2>2. PICK s2 : s2 = stack'[t]
    OBVIOUS
  <2>3. \A p, m : ~Hand(s, Write(p, m))
    BY <1>2, <2>1
  <2>4. \A p, m : ~Hand(s2, Write(p, m))
    BY <1>2, <2>2
  <2> QED
    BY <2>1, <2>2, <2>3, <2>4
<1>4. \A l \in Loops : \A p, m : Hand(stack'[l], Write(p, m)) <=> Hand(stack[l], Write(p, m))
  BY <1>3, LoopsAreThreads
<1>5. \A l \in Loops : \/ queue'[l] = queue[l]
                       \/ \E f \in Functors(l) : /\ f.op # "onWrite"
                                                 /\ queue'[l] = Append(queue[l], f)
  BY <1>1, OneChange
<1>6. Lines'
  BY <1>1, <1>4, <1>5, LinesStay
<1>7. ASSUME NEW u \in Threads, NEW d, NEW todo, Carries(stack'[u], Walk("sendPdu", d, todo))
      PROVE  Carries(stack[u], Walk("sendPdu", d, todo))
  <2>1. CASE u = t
    <3>1. Walk("sendPdu", d, todo).op = "sendPdu"
      BY CallFields
    <3>2. PICK s2 : s2 = stack'[t]
      OBVIOUS
    <3>3. s2 = <<>> \/ \E f : f.op \notin {"onWrite", "sendPdu"} /\ s2 = <<f>>
      BY <3>2
    <3>4. ~Carries(s2, Walk("sendPdu", d, todo))
      BY <3>1, <3>3, Carried
    <3> QED
      BY <1>7, <2>1, <3>2, <3>4
  <2>2. CASE u # t
    BY <1>7, <2>2
  <2> QED
    BY <2>1, <2>2
<1>8. Senders' /\ Unsent'
  BY <1>1, <1>7, SendersStay
<1> QED
  BY <1>1, <1>6, <1>8 DEF LInv, Streams

LEMMA SetServerLInv ==
  ASSUME IInv, LInv, NEW t \in Threads, NEW add \in BOOLEAN, SetServer(t, add)
  PROVE  LInv'
<1> DEFINE f == Call(IF add THEN "addServer" ELSE "delServer", none)
<1>1. stack[t] = <<>> /\ DOMAIN stack = Threads
  BY DEF SetServer, Free, IInv, Types
<1>2. f.op \notin {"onWrite", "sendPdu"}
  BY CallFields
<1>3. Enter(t, f)
  BY DEF SetServer
<1> HIDE DEF f
<1>4. stack'[t] = <<f>> /\ \A u \in Threads \ {t} : stack'[u] = stack[u]
  BY <1>1, <1>3, Stacked1 DEF Enter
<1>5. UNCHANGED <<sent, written, torn, queue, conn>> /\ left'.pdus \subseteq left.pdus
  BY DEF SetServer, sendVars, IInv, Types
<1> QED
  BY <1>1, <1>2, <1>4, <1>5, QuietStep

LEMMA HandOverLInv ==
  ASSUME IInv, LInv, NEW t \in Threads, HandOver(t)
  PROVE  LInv'
<1>1. PICK op \in {"addServer", "delServer"} : At(t, op)
  BY DEF HandOver
<1>2. op \in ServerOps
  BY DEF ServerOps
<1>3. stack[t] = <<Call(op, none)>> /\ DOMAIN stack = Threads /\ Call(op, none).op # "onWrite"
  BY <1>1, <1>2, InnerCall, CallFields DEF IInv, Types
<1>4. PICK f : /\ \E op2 \in {"addServerInLoop", "delServerInLoop"} : f = Call(op2, none)
               /\ \/ GoOn(t, f) /\ UNCHANGED queue
                  \/ Return(t) /\ queueInLoop(ServerLoop, f)
  BY DEF HandOver
<1>5. f.op \notin {"onWrite", "sendPdu"} /\ f \in Functors(ServerLoop)
  BY <1>4, CallFields DEF Functors, ServerCalls
<1>6. UNCHANGED <<sent, written, torn, conn, left>>
  BY DEF HandOver, sendVars
<1>7. \A u \in Threads \ {t} : stack'[u] = stack[u]
  BY <1>3, <1>4 DEF GoOn, Return
<1>8. stack'[t] = <<>> \/ stack'[t] = <<f>>
  BY <1>3, <1>4, Stacked1 DEF GoOn, Return
<1>9. queue' = queue \/ queue' = [queue EXCEPT ![ServerLoop] = Append(@, f)]
  BY <1>4 DEF queueInLoop
<1> QED
  BY <1>3, <1>5, <1>6, <1>7, <1>8, <1>9, LoopsAreThreads, QuietStep

LEMMA ServerInLoopLInv ==
  ASSUME IInv, LInv, addServerInLoop \/ delServerInLoop
  PROVE  LInv'
<1>1. PICK op \in {"addServerInLoop", "delServerInLoop"} : At(ServerLoop, op)
  BY DEF addServerInLoop, delServerInLoop
<1>2. op \in ServerOps /\ ServerLoop \in Threads
  BY LoopsAreThreads DEF ServerOps
<1>3. /\ stack[ServerLoop] = <<Call(op, none)>> /\ DOMAIN stack = Threads
      /\ Call(op, none).op # "onWrite"
  BY <1>1, <1>2, InnerCall, CallFields DEF IInv, Types
<1>4. Return(ServerLoop) /\ UNCHANGED <<sent, written, torn, conn, left, queue>>
  BY DEF addServerInLoop, delServerInLoop, sendVars
<1>5. stack'[ServerLoop] = <<>> /\ \A u \in Threads \ {ServerLoop} : stack'[u] = stack[u]
  BY <1>2, <1>3, <1>4, Stacked1 DEF Return
<1> QED
  BY <1>2, <1>3, <1>4, <1>5, QuietStep

(* A connection is accepted... *)
LEMMA onAcceptLInv ==
  ASSUME IInv, LInv, NEW p \in Conns, onAccept(p)
  PROVE  LInv'
<1> DEFINE f == Call("BuildAccept", p)
<1>1. /\ stack[ServerLoop] = <<>> /\ DOMAIN stack = Threads /\ conn \in [Conns -> Phases]
      /\ ServerLoop \in Threads /\ LoopOf[p] \in Loops
  BY LoopsAreThreads DEF onAccept, Free, IInv, Types
<1>2. f.op \notin {"onWrite", "sendPdu"} /\ f \in Functors(LoopOf[p])
  BY CallFields DEF Functors, ConnCalls
<1>3. \/ Enter(ServerLoop, f) /\ UNCHANGED queue
      \/ queueInLoop(LoopOf[p], f) /\ UNCHANGED stack
  BY DEF onAccept
<1> HIDE DEF f
<1>4. UNCHANGED <<sent, written, torn, left>> /\ conn[p].fd = "none"
      /\ \A p2 \in Conns \ {p} : conn'[p2] = conn[p2]
  BY <1>1 DEF onAccept, sendVars
<1>5. conn[p] = NewConn
  BY <1>1, <1>4, PhaseFields
<1>6. \A u \in Threads \ {ServerLoop} : stack'[u] = stack[u]
  BY <1>1, <1>3 DEF Enter
<1>7. stack'[ServerLoop] = <<>> \/ stack'[ServerLoop] = <<f>>
  BY <1>1, <1>3, Stacked1 DEF Enter
<1>8. queue' = queue \/ queue' = [queue EXCEPT ![LoopOf[p]] = Append(@, f)]
  BY <1>3 DEF queueInLoop
<1>9. \A p2 \in Conns : conn'[p2] = conn[p2] \/ conn[p2] \in {NewConn, Accepted}
  BY <1>4, <1>5
<1> QED
  BY <1>1, <1>2, <1>4, <1>6, <1>7, <1>8, <1>9, QuietStep

LEMMA TopConn ==
  ASSUME IInv, NEW l \in Loops, NEW op \in ConnOps, At(l, op)
  PROVE  \E p \in Conns : stack[l] = <<Call(op, p)>>
<1> DEFINE p == Top(l).conn
<1>1. p \in Conns /\ In(stack[l], op, p)
  BY InnerCall, LoopsAreThreads DEF IInv
<1> QED
  BY <1>1 DEF In

(* ... and taken through its life by its loop. *)
LEMMA LifeStep ==
  ASSUME IInv, LInv, NEW l \in Loops, NEW op \in ConnOps, At(l, op),
         UNCHANGED <<sent, written, torn, left, queue>>,
         Return(l) \/ \E op2 \in ConnOps, p \in Conns : GoOn(l, Call(op2, p)),
         \A p \in Conns : \/ conn'[p] = conn[p]
                          \/ conn[p] = Accepted
                          \/ conn'[p] = Closed
  PROVE  LInv'
<1>1. PICK p \in Conns : stack[l] = <<Call(op, p)>>
  BY TopConn
<1>2. l \in Threads /\ DOMAIN stack = Threads
  BY LoopsAreThreads DEF IInv, Types
<1>3. \A u \in Threads \ {l} : stack'[u] = stack[u]
  BY <1>2 DEF Return, GoOn
<1>4. \A op2 \in ConnOps : \A p2 : Call(op2, p2).op \notin {"onWrite", "sendPdu"}
  BY CallFields DEF ConnOps
<1>5. stack'[l] = <<>> \/ \E op2 \in ConnOps, p2 \in Conns : stack'[l] = <<Call(op2, p2)>>
  BY <1>1, <1>2, Stacked1 DEF Return, GoOn
<1>6. \A p2 \in Conns : \/ conn'[p2] = conn[p2]
                        \/ conn[p2] \in {NewConn, Accepted}
                        \/ conn'[p2] \in {HalfUp, Closed}
  OBVIOUS
<1>7. \E f : f.op # "onWrite" /\ stack[l] = <<f>>
  BY <1>1, <1>4
<1>8. stack'[l] = <<>> \/ \E f : f.op \notin {"onWrite", "sendPdu"} /\ stack'[l] = <<f>>
  BY <1>4, <1>5
<1> QED
  BY <1>2, <1>3, <1>6, <1>7, <1>8, QuietStep

LEMMA BuildAcceptLInv ==
  ASSUME IInv, LInv, NEW l \in Loops, BuildAccept(l)
  PROVE  LInv'
<1>1. At(l, "BuildAccept") /\ "BuildAccept" \in ConnOps
  BY DEF BuildAccept, ConnOps
<1>2. PICK p \in Conns : /\ p = Top(l).conn
                         /\ Life(p, conn[p], connMap_, <<Call("BuildAccept", p)>>, queue[l])
  BY <1>1, ConnTop
<1>3. conn[p] = Accepted
  BY <1>2, InOne DEF Life
<1>4. \E op2 \in ConnOps : GoOn(l, Call(op2, p))
  BY <1>2 DEF BuildAccept, ConnOps
<1>5. \A p2 \in Conns : conn'[p2] = conn[p2] \/ conn[p2] = Accepted
  BY <1>2, <1>3 DEF BuildAccept, IInv, Types
<1>6. UNCHANGED <<sent, written, torn, left, queue>>
  BY DEF BuildAccept, sendVars
<1> QED
  BY <1>1, <1>4, <1>5, <1>6, LifeStep

LEMMA CloseStepsLInv ==
  ASSUME IInv, LInv, NEW l \in Loops, onConnect(l) \/ closeInLoop(l) \/ onClose(l)
  PROVE  LInv'
<1>1. PICK op \in {"onConnect", "closeInLoop", "onClose"} : At(l, op)
  BY DEF onConnect, closeInLoop, onClose
<1>2. op \in ConnOps /\ "onClose" \in ConnOps /\ "finish" \in ConnOps
  BY DEF ConnOps
<1>3. Top(l).conn \in Conns
  BY <1>1, <1>2, ConnTop
<1>4. \/ Return(l)
      \/ GoOn(l, Call("onClose", Top(l).conn)) \/ GoOn(l, Call("finish", Top(l).conn))
  BY DEF onConnect, closeInLoop, onClose
<1>5. UNCHANGED <<sent, written, torn, left, queue, conn>>
  BY DEF onConnect, closeInLoop, onClose, sendVars
<1> QED
  BY <1>1, <1>2, <1>3, <1>4, <1>5, LifeStep

LEMMA finishLInv ==
  ASSUME IInv, LInv, NEW l \in Loops, finish(l)
  PROVE  LInv'
<1> DEFINE p == Top(l).conn
<1>1. At(l, "finish") /\ "finish" \in ConnOps
  BY DEF finish, ConnOps
<1>2. /\ conn' = [conn EXCEPT ![p] = Closed] /\ Return(l)
      /\ UNCHANGED <<sent, written, torn, left, queue>>
  BY DEF finish, sendVars, Closed, NewConn
<1> HIDE DEF p
<1>3. \A p2 \in Conns : conn'[p2] = conn[p2] \/ conn'[p2] = Closed
  BY <1>2 DEF IInv, Types
<1> QED
  BY <1>1, <1>2, <1>3, LifeStep

LEMMA onEventLInv ==
  ASSUME IInv, LInv, NEW p \in Conns, onEvent(p)
  PROVE  LInv'
<1> DEFINE f == Call("closeInLoop", p)
<1>1. /\ stack[LoopOf[p]] = <<>> /\ DOMAIN stack = Threads
      /\ LoopOf[p] \in Threads /\ f.op \notin {"onWrite", "sendPdu"}
  BY LoopsAreThreads, CallFields DEF onEvent, Free, IInv, Types
<1>2. Enter(LoopOf[p], f) /\ UNCHANGED <<sent, written, torn, left, queue, conn>>
  BY DEF onEvent, sendVars
<1> HIDE DEF f
<1>3. stack'[LoopOf[p]] = <<f>> /\ \A u \in Threads \ {LoopOf[p]} : stack'[u] = stack[u]
  BY <1>1, <1>2, Stacked1 DEF Enter
<1> QED
  BY <1>1, <1>2, <1>3, QuietStep

(* Stopping and closing *)
LEMMA BeginStopLInv ==
  ASSUME IInv, LInv, NEW t \in Threads, BeginStop(t)
  PROVE  LInv'
<1> DEFINE w == Walk("stopConn", none, connMap_)
<1>1. stack[t] = <<>> /\ DOMAIN stack = Threads /\ w.op \notin {"onWrite", "sendPdu"}
  BY CallFields DEF BeginStop, Free, IInv, Types
<1>2. /\ Enter(t, w) /\ UNCHANGED <<sent, written, torn, queue, conn>>
      /\ left'.pdus \subseteq left.pdus
  BY DEF BeginStop, sendVars, IInv, Types
<1> HIDE DEF w
<1>3. stack'[t] = <<w>> /\ \A u \in Threads \ {t} : stack'[u] = stack[u]
  BY <1>1, <1>2, Stacked1 DEF Enter
<1> QED
  BY <1>1, <1>2, <1>3, QuietStep

LEMMA shutdownLInv ==
  ASSUME IInv, LInv, NEW t \in Threads, shutdown(t)
  PROVE  LInv'
<1>1. At(t, "stopConn") /\ Stacks /\ DOMAIN stack = Threads /\ connMap_ \subseteq Conns
  BY DEF shutdown, IInv, Types
<1>2. PICK w \in Walks(connMap_) : w = Top(t) /\ w.op = "stopConn" /\ stack[t] = <<w>>
  BY <1>1, InnerCall DEF At
<1>3. PICK p \in w.todo : /\ GoOn(t, [w EXCEPT !.todo = @ \ {p}])
                          /\ queueInLoop(LoopOf[p], Call("closeInLoop", p))
  BY <1>2 DEF shutdown
<1>4. PICK rest : rest = [w EXCEPT !.todo = @ \ {p}]
  OBVIOUS
<1>5. rest.op = "stopConn" /\ p \in Conns
  <2>1. w.todo \in SUBSET connMap_ /\ [w EXCEPT !.todo = @ \ {p}].op = w.op
    BY WalkFields
  <2> QED
    BY <1>1, <1>2, <1>3, <1>4, <2>1
<1>6. stack'[t] = <<rest>> /\ \A u \in Threads \ {t} : stack'[u] = stack[u]
  BY <1>1, <1>2, <1>3, <1>4, Stacked1 DEF GoOn
<1>7. PICK f : f = Call("closeInLoop", p)
  OBVIOUS
<1>8. /\ f.op # "onWrite" /\ f \in Functors(LoopOf[p]) /\ LoopOf[p] \in Loops
      /\ queue' = [queue EXCEPT ![LoopOf[p]] = Append(@, f)]
  BY <1>3, <1>5, <1>7, CallFields, LoopsAreThreads DEF Functors, ConnCalls, queueInLoop
<1>9. UNCHANGED <<sent, written, torn, conn, left>>
  BY DEF shutdown, sendVars
<1>10. w.op # "onWrite" /\ rest.op \notin {"onWrite", "sendPdu"}
  BY <1>2, <1>5
<1> QED
  BY <1>2, <1>6, <1>8, <1>9, <1>10, QuietStep

LEMMA EndWalkLInv ==
  ASSUME IInv, LInv, NEW t \in Threads, EndWalk(t)
  PROVE  LInv'
<1>1. PICK op \in {"sendPdu", "stopConn"} : At(t, op)
  BY DEF EndWalk
<1>2. stack[t] = <<Top(t)>> /\ Top(t).op = op /\ DOMAIN stack = Threads
  BY <1>1, InnerCall DEF At, IInv, Types
<1>3. Return(t) /\ UNCHANGED <<sent, written, torn, conn, left, queue>>
  BY DEF EndWalk, sendVars
<1>4. stack'[t] = <<>> /\ \A u \in Threads \ {t} : stack'[u] = stack[u]
  BY <1>2, <1>3, Stacked1 DEF Return
<1>5. \E f : f.op # "onWrite" /\ stack[t] = <<f>>
  BY <1>1, <1>2
<1> QED
  BY <1>3, <1>4, <1>5, QuietStep

LEMMA closeLInv ==
  ASSUME IInv, LInv, NEW t \in Threads, NEW p \in Conns, close(t, p)
  PROVE  LInv'
<1>1. stack[t] = <<>> /\ stack' = stack
  BY DEF close, Free
<1>2. PICK f : f = Call("closeInLoop", p)
  OBVIOUS
<1>3. /\ f.op # "onWrite" /\ f \in Functors(LoopOf[p]) /\ LoopOf[p] \in Loops
      /\ queue' = [queue EXCEPT ![LoopOf[p]] = Append(@, f)]
  BY <1>2, CallFields, LoopsAreThreads DEF Functors, ConnCalls, queueInLoop, close
<1>4. UNCHANGED <<sent, written, torn, conn>> /\ left'.pdus \subseteq left.pdus
  BY DEF close, sendVars, IInv, Types
<1> QED
  BY <1>1, <1>3, <1>4, QuietStep

-----------------------------------------------------------------------------
(* Sending and writing *)

(* A step on the stack and the queue of one loop, or of one thread. *)
LEMMA NextFunctorLInv ==
  ASSUME IInv, LInv, NEW l \in Loops, NextFunctor(l)
  PROVE  LInv'
<1>1. /\ Types /\ Lines /\ Streams /\ Senders /\ Unsent
      /\ l \in Threads /\ stack[l] = <<>> /\ queue[l] # <<>> /\ queue[l] \in Seq(Functors(l))
  BY LoopsAreThreads DEF IInv, LInv, NextFunctor, Free, Types
<1>2. PICK f : f = Head(queue[l])
  OBVIOUS
<1>3. f \in Functors(l)
  BY <1>1, <1>2, TailHas
<1>4. /\ stack'[l] = <<f>> /\ \A u \in Threads \ {l} : stack'[u] = stack[u]
      /\ queue'[l] = Tail(queue[l]) /\ \A u \in Loops \ {l} : queue'[u] = queue[u]
      /\ UNCHANGED <<sent, written, torn, conn, left>>
  BY <1>1, <1>2, Stacked1 DEF NextFunctor, Enter, sendVars, Types
<1>5. ASSUME NEW p \in Conns
      PROVE  Line(p, conn[p], torn, sent[p], written[p], stack'[LoopOf[p]], queue'[LoopOf[p]])
  <2>1. Line(p, conn[p], torn, sent[p], written[p], stack[LoopOf[p]], queue[LoopOf[p]])
    BY <1>1 DEF Lines
  <2>2. CASE LoopOf[p] = l
    <3>1. PICK q \in Seq(Functors(l)) : q = queue[l]
      BY <1>1
    <3>2. Line(p, conn[p], torn, sent[p], written[p], <<>>, q)
      BY <1>1, <2>1, <2>2, <3>1
    <3>3. Line(p, conn[p], torn, sent[p], written[p], <<Head(q)>>, Tail(q))
      BY <1>1, <3>1, <3>2, LineTaken
    <3> QED
      BY <1>2, <1>4, <2>2, <3>1, <3>3
  <2>3. CASE LoopOf[p] # l
    <3>1. stack'[LoopOf[p]] = stack[LoopOf[p]] /\ queue'[LoopOf[p]] = queue[LoopOf[p]]
      BY <1>4, <2>3, LoopsAreThreads
    <3> QED
      BY <2>1, <3>1
  <2> QED
    BY <2>2, <2>3
<1>6. Lines'
  BY <1>4, <1>5 DEF Lines
<1>7. f.op # "sendPdu"
  BY <1>3, FrameOps
<1>8. ASSUME NEW u \in Threads, NEW d, NEW todo, Carries(stack'[u], Walk("sendPdu", d, todo))
      PROVE  Carries(stack[u], Walk("sendPdu", d, todo))
  <2>1. Walk("sendPdu", d, todo).op = "sendPdu"
    BY CallFields
  <2>2. ~Carries(<<f>>, Walk("sendPdu", d, todo))
    BY <1>7, <2>1, Carried
  <2> QED
    BY <1>4, <1>8, <2>2
<1>9. Senders' /\ Unsent'
  BY <1>1, <1>4, <1>8, SendersStay
<1> QED
  BY <1>1, <1>4, <1>6, <1>9 DEF LInv, Streams

LEMMA onWriteLInv ==
  ASSUME IInv, LInv, NEW l \in Loops, onWrite(l)
  PROVE  LInv'
<1>1. /\ Types /\ Stacks /\ Lines /\ Streams /\ Senders /\ Unsent
      /\ l \in Threads /\ At(l, "onWrite") /\ DOMAIN stack = Threads
  BY LoopsAreThreads DEF IInv, LInv, onWrite, Types
<1>2. PICK f \in Writes(l) :
        /\ f = Top(l)
        /\ \/ stack[l] = <<f>>
           \/ \E w \in Walks(connMap_) : w.op = "sendPdu" /\ stack[l] = <<f, w>>
  BY <1>1, InnerCall
<1>3. PICK p \in Conns, m \in Pdu : LoopOf[p] = l /\ f = Write(p, m)
  BY DEF Writes
<1>4. f.conn = p /\ f.pdu = m
  BY <1>3, WriteFields
<1>5. PICK s : s = stack[l]
  OBVIOUS
<1>6. \A g : Hand(s, g) <=> g = Write(p, m)
  <2>1. s = <<f>> \/ \E w : s = <<f, w>>
    BY <1>2, <1>5
  <2>2. \A g : Hand(s, g) <=> f = g
    BY ONLY <2>1, Hands
  <2> QED
    BY <1>3, <2>2
<1>7. /\ \A u \in Threads \ {l} : stack'[u] = stack[u]
      /\ \/ stack'[l] = <<>>
         \/ \E w \in Walks(connMap_) : /\ w.op = "sendPdu" /\ stack'[l] = <<w>>
                                       /\ stack[l] = <<f, w>>
  <2>1. stack' = [stack EXCEPT ![l] = Tail(@)]
    BY DEF onWrite, Return
  <2>2. stack'[l] = Tail(stack[l]) /\ \A u \in Threads \ {l} : stack'[u] = stack[u]
    BY <1>1, <2>1
  <2>3. stack[l] = <<f>> => Tail(stack[l]) = <<>>
    BY Stacked1
  <2>4. ASSUME NEW w, stack[l] = <<f, w>> PROVE Tail(stack[l]) = <<w>>
    <3>1. Tail(<<f, w>>) = <<w>>
      BY Stacked2
    <3> QED
      BY <2>4, <3>1
  <2> QED
    BY <1>2, <2>2, <2>3, <2>4
<1>8. PICK s2 : s2 = stack'[l]
  OBVIOUS
<1>9. \A p2, n : ~Hand(s2, Write(p2, n))
  <2>1. s2 = <<>> \/ \E w : w.op = "sendPdu" /\ s2 = <<w>>
    BY <1>7, <1>8
  <2>2. ASSUME NEW w, w.op = "sendPdu" PROVE \A p2, n : ~Hand(<<w>>, Write(p2, n))
    BY <2>2, Hands, WriteFields
  <2> QED
    BY <2>1, <2>2, Hands
<1>10. UNCHANGED <<conn, sent, left>>
  BY DEF onWrite
<1>11. ASSUME NEW p2 \in Conns \ {p}, NEW t2, t2 = torn \/ t2 = torn \cup {p}, NEW q2,
              \/ q2 = queue[LoopOf[p2]]
              \/ LoopOf[p2] = l /\ q2 = Append(queue[l], Call("closeInLoop", p))
       PROVE  Line(p2, conn[p2], t2, sent[p2], written[p2], stack'[LoopOf[p2]], q2)
  <2>1. PICK k : k = LoopOf[p2]
    OBVIOUS
  <2>2. PICK x : x = stack[k]
    OBVIOUS
  <2>3. PICK x2 : x2 = stack'[k]
    OBVIOUS
  <2>4. PICK q \in Seq(Functors(k)) : q = queue[k]
    BY <1>1, <2>1, LoopsAreThreads DEF Types
  <2>5. Line(p2, conn[p2], torn, sent[p2], written[p2], x, q)
    BY <1>1, <2>1, <2>2, <2>4 DEF Lines
  <2>6. Line(p2, conn[p2], t2, sent[p2], written[p2], x, q)
    BY <1>11, <2>5 DEF Line
  <2>7. \A n : Hand(x2, Write(p2, n)) <=> Hand(x, Write(p2, n))
    <3>1. CASE k = l
      <4>1. \A n : ~Hand(x, Write(p2, n))
        BY <1>5, <1>6, <2>2, <3>1, WriteFields
      <4> QED
        BY <1>8, <1>9, <2>3, <3>1, <4>1
    <3>2. CASE k # l
      BY <1>7, <2>1, <2>2, <2>3, <3>2, LoopsAreThreads
    <3> QED
      BY <3>1, <3>2
  <2>8. Call("closeInLoop", p) \in Functors(l) /\ \A n : Call("closeInLoop", p) # Write(p2, n)
    BY <1>3, CallFields DEF Functors, ConnCalls
  <2>9. q2 = q \/ \E g \in Functors(k) : q2 = Append(q, g) /\ \A n : g # Write(p2, n)
    BY <1>11, <2>1, <2>4, <2>8
  <2>10. Line(p2, conn[p2], t2, sent[p2], written[p2], x2, q2)
    BY <2>6, <2>7, <2>9, LineStays
  <2> QED
    BY <2>1, <2>3, <2>10
<1>12. PICK q \in Seq(Functors(l)) : q = queue[l]
  BY <1>1 DEF Types
<1>13. Line(p, conn[p], torn, sent[p], written[p], s, q)
  BY <1>1, <1>3, <1>5, <1>12 DEF Lines
<1>14. conn[p] \in Phases /\ written[p] \in Seq(Pdu) /\ LoopOf[p] \in Loops
  BY <1>1, LoopsAreThreads DEF Types, Streams
<1>15. ASSUME conn[p].bConnected_, written' = [written EXCEPT ![p] = Append(@, m)],
              UNCHANGED <<queue, torn>>
       PROVE  Lines' /\ Streams'
  <2>1. conn[p] = Up
    BY <1>14, <1>15, PhaseFields
  <2>2. Line(p, conn[p], torn, sent[p], Append(written[p], m), s2, q)
    BY <1>6, <1>9, <1>13, <1>14, <2>1, LineWritten
  <2>3. /\ written'[p] = Append(written[p], m) /\ written'[p] \in Seq(Pdu)
        /\ \A p2 \in Conns \ {p} : written'[p2] = written[p2]
    BY <1>1, <1>14, <1>15, AppendProperties DEF Streams
  <2>4. Line(p, conn[p], torn, sent[p], written'[p], stack'[LoopOf[p]], queue[LoopOf[p]])
    BY <1>3, <1>8, <1>12, <2>2, <2>3
  <2>5. ASSUME NEW p2 \in Conns \ {p}
        PROVE  Line(p2, conn[p2], torn, sent[p2], written'[p2], stack'[LoopOf[p2]],
                    queue[LoopOf[p2]])
    BY <1>11, <2>3
  <2>6. Lines'
    BY <1>10, <1>15, <2>4, <2>5 DEF Lines
  <2>7. Streams'
    BY <1>1, <1>10, <1>14, <1>15, <2>3 DEF Streams
  <2> QED
    BY <2>6, <2>7
<1>16. ASSUME conn[p].bConnected_, torn' = torn \cup {p},
              queueInLoop(l, Call("closeInLoop", p)), UNCHANGED written
       PROVE  Lines' /\ Streams'
  <2>1. PICK g : g = Call("closeInLoop", p)
    OBVIOUS
  <2>2. g \in Functors(l) /\ \A n : g # Write(p, n)
    BY <1>3, <2>1, CallFields DEF Functors, ConnCalls
  <2>3. queue'[l] = Append(queue[l], g) /\ \A k \in Loops \ {l} : queue'[k] = queue[k]
    BY <1>1, <1>16, <2>1 DEF Types, queueInLoop
  <2>4. PICK t2 : t2 = torn \cup {p}
    OBVIOUS
  <2>5. Line(p, conn[p], t2, sent[p], written[p], s2, q)
    BY <1>9, <1>13, <2>4, LineDropped
  <2>6. PICK q2 : q2 = Append(q, g)
    OBVIOUS
  <2>7. Line(p, conn[p], t2, sent[p], written[p], s2, q2)
    <3>1. PICK c, snt, wr : c = conn[p] /\ snt = sent[p] /\ wr = written[p]
      OBVIOUS
    <3>2. Line(p, c, t2, snt, wr, s2, q)
      BY <2>5, <3>1
    <3>3. \E h \in Functors(l) : q2 = Append(q, h) /\ \A n : h # Write(p, n)
      BY <2>2, <2>6
    <3>4. Line(p, c, t2, snt, wr, s2, q2)
      BY <3>2, <3>3, LineStays
    <3> QED
      BY <3>1, <3>4
  <2>8. Line(p, conn[p], t2, sent[p], written[p], stack'[LoopOf[p]], queue'[LoopOf[p]])
    BY <1>3, <1>8, <1>12, <2>3, <2>6, <2>7
  <2>9. ASSUME NEW p2 \in Conns \ {p}
        PROVE  Line(p2, conn[p2], t2, sent[p2], written[p2], stack'[LoopOf[p2]],
                    queue'[LoopOf[p2]])
    <3>1. PICK q3 : q3 = queue'[LoopOf[p2]]
      OBVIOUS
    <3>2. q3 = queue[LoopOf[p2]] \/ (LoopOf[p2] = l /\ q3 = Append(queue[l], g))
      BY <2>3, <3>1, LoopsAreThreads
    <3>3. Line(p2, conn[p2], t2, sent[p2], written[p2], stack'[LoopOf[p2]], q3)
      BY <1>11, <2>1, <2>4, <3>2
    <3> QED
      BY <3>1, <3>3
  <2>10. Lines'
    BY <1>10, <1>16, <2>4, <2>8, <2>9 DEF Lines
  <2> QED
    BY <1>1, <1>10, <1>16, <2>10 DEF Streams
<1>17. ASSUME ~conn[p].bConnected_, UNCHANGED <<queue, written, torn>>
       PROVE  Lines' /\ Streams'
  <2>1. conn[p] # Up
    BY <1>14, <1>17, PhaseFields
  <2>2. Line(p, conn[p], torn, sent[p], written[p], s2, q)
    BY <1>9, <1>13, <2>1, LineDropped
  <2>3. Line(p, conn[p], torn, sent[p], written[p], stack'[LoopOf[p]], queue[LoopOf[p]])
    BY <1>3, <1>8, <1>12, <2>2
  <2>4. ASSUME NEW p2 \in Conns \ {p}
        PROVE  Line(p2, conn[p2], torn, sent[p2], written[p2], stack'[LoopOf[p2]],
                    queue[LoopOf[p2]])
    BY <1>11
  <2>5. Lines'
    BY <1>10, <1>17, <2>3, <2>4 DEF Lines
  <2> QED
    BY <1>1, <1>10, <1>17, <2>5 DEF Streams
<1>18. Lines' /\ Streams'
  BY <1>2, <1>4, <1>15, <1>16, <1>17 DEF onWrite
<1>19. Senders' /\ Unsent'
  <2>1. \A u \in Threads : \A d, todo :
          Carries(stack'[u], Walk("sendPdu", d, todo))
            => Carries(stack[u], Walk("sendPdu", d, todo))
    <3> SUFFICES ASSUME NEW u \in Threads, NEW d, NEW todo,
                        Carries(stack'[u], Walk("sendPdu", d, todo))
                 PROVE  Carries(stack[u], Walk("sendPdu", d, todo))
      OBVIOUS
    <3>1. PICK x : x = Walk("sendPdu", d, todo)
      OBVIOUS
    <3>2. ASSUME NEW w, stack'[l] = <<w>>, stack[l] = <<f, w>>, u = l
          PROVE  Carries(stack[u], x)
      <4>1. Carries(<<w>>, x)
        BY <3>1, <3>2
      <4>2. Carries(<<f, w>>, x)
        BY <4>1, Carried
      <4> QED
        BY <3>2, <4>2
    <3>3. ~Carries(<<>>, x)
      BY Carried
    <3>4. CASE u # l
      BY <1>7, <3>4
    <3> QED
      BY <1>7, <3>1, <3>2, <3>3, <3>4
  <2> QED
    BY <1>1, <1>10, <2>1, SendersStay
<1> QED
  BY <1>18, <1>19 DEF LInv

(* A walk begins: what it sends was not sent before. *)
LEMMA BeginSendLInv ==
  ASSUME IInv, LInv, NEW t \in Threads, NEW d \in Pdus, BeginSend(t, d)
  PROVE  LInv'
<1>1. /\ Types /\ Lines /\ Streams /\ Senders /\ Unsent
      /\ stack[t] = <<>> /\ DOMAIN stack = Threads /\ connMap_ \subseteq Conns
  BY DEF IInv, LInv, BeginSend, Free, Types
<1>2. PICK e : e = [by |-> t, pdu |-> d]
  OBVIOUS
<1>3. e.by = t /\ e.pdu = d
  BY <1>2
<1>4. PICK w : w = Walk("sendPdu", e, connMap_)
  OBVIOUS
<1>5. Enter(t, w) /\ UNCHANGED <<sent, written, torn, queue, conn>>
  BY <1>2, <1>4 DEF BeginSend, sendVars
<1>6. stack'[t] = <<w>> /\ \A u \in Threads \ {t} : stack'[u] = stack[u]
  BY <1>1, <1>5, Stacked1 DEF Enter
<1>7. d \in left.pdus /\ left'.pdus = left.pdus \ {d}
  BY <1>1 DEF BeginSend, Types
<1>8. Lines'
  <2>1. w.op = "sendPdu"
    BY <1>4, CallFields
  <2>2. \A p, m : ~Hand(<<w>>, Write(p, m)) /\ ~Hand(<<>>, Write(p, m))
    BY <2>1, Hands, WriteFields
  <2>3. \A l \in Loops : \A p, m : Hand(stack'[l], Write(p, m)) <=> Hand(stack[l], Write(p, m))
    BY <1>1, <1>6, <2>2, LoopsAreThreads
  <2> QED
    BY <1>1, <1>5, <2>3, LinesStay
<1>9. Unsent'
  BY <1>1, <1>5, <1>7 DEF Unsent
<1>10. ASSUME NEW u \in Threads, NEW g, NEW todo \in SUBSET Conns,
              Carries(stack'[u], Walk("sendPdu", g, todo))
       PROVE  g.by = u /\ g.pdu \notin left'.pdus /\ \A p \in todo : ~Has(sent[p], g)
  <2>1. CASE u = t
    <3>1. w = Walk("sendPdu", g, todo)
      <4>1. PICK x : x = Walk("sendPdu", g, todo)
        OBVIOUS
      <4>2. Carries(<<w>>, x)
        BY <1>6, <1>10, <2>1, <4>1
      <4> QED
        BY <4>1, <4>2, Carried
    <3>2. g = e /\ todo = connMap_
      BY <1>4, <3>1 DEF Walk
    <3>3. \A p \in Conns : ~Has(sent[p], e)
      BY <1>1, <1>3, <1>7 DEF Unsent
    <3> QED
      BY <1>1, <1>3, <1>7, <2>1, <3>2, <3>3
  <2>2. CASE u # t
    <3>1. Carries(stack[u], Walk("sendPdu", g, todo))
      BY <1>6, <1>10, <2>2
    <3>2. g.by = u /\ g.pdu \notin left.pdus /\ \A p \in todo : ~Has(sent[p], g)
      BY <1>1, <3>1 DEF Senders, Sending
    <3> QED
      BY <1>7, <3>2
  <2> QED
    BY <2>1, <2>2
<1>11. Senders'
  BY <1>5, <1>10 DEF Senders, Sending
<1> QED
  BY <1>1, <1>5, <1>8, <1>9, <1>11 DEF LInv, Streams

LEMMA sendPduLInv ==
  ASSUME IInv, LInv, NEW t \in Threads, sendPdu(t)
  PROVE  LInv'
<1>1. /\ Types /\ Stacks /\ Lives /\ Lines /\ Streams /\ Senders /\ Unsent
      /\ At(t, "sendPdu") /\ DOMAIN stack = Threads /\ connMap_ \subseteq Conns
  BY DEF IInv, LInv, sendPdu, Types
<1>2. PICK w \in Walks(connMap_) : w = Top(t) /\ w.op = "sendPdu" /\ stack[t] = <<w>>
  BY <1>1, InnerCall DEF At
<1>3. PICK d \in Pdu, todo \in SUBSET connMap_ : w = Walk("sendPdu", d, todo)
  BY <1>2, CallFields DEF Walks
<1>4. w.pdu = d /\ w.todo = todo
  BY <1>3 DEF Walk
<1>5. /\ d.by = t /\ d.pdu \notin left.pdus
      /\ \A p \in todo : ~Has(sent[p], d)
  <2>1. Carries(stack[t], Walk("sendPdu", d, todo)) /\ todo \in SUBSET Conns
    BY <1>1, <1>2, <1>3, Carried
  <2> QED
    BY <1>1, <2>1 DEF Senders, Sending
<1>6. PICK p \in todo :
        /\ sent' = [sent EXCEPT ![p] = Append(@, d)]
        /\ IF t = LoopOf[p]
             THEN /\ stack' = [stack EXCEPT ![t] =
                                 <<Write(p, d), [w EXCEPT !.todo = @ \ {p}]>> \o Tail(@)]
                  /\ UNCHANGED queue
             ELSE /\ GoOn(t, [w EXCEPT !.todo = @ \ {p}])
                  /\ queueInLoop(LoopOf[p], Write(p, d))
  BY <1>2, <1>4 DEF sendPdu
<1>7. /\ p \in Conns /\ p \in connMap_ /\ LoopOf[p] \in Loops /\ LoopOf[p] \in Threads
      /\ ~Has(sent[p], d)
  BY <1>1, <1>5, LoopsAreThreads
<1>8. conn[p] = Up
  BY <1>1, <1>7 DEF Lives, Life
<1>9. PICK rest : rest = Walk("sendPdu", d, todo \ {p})
  OBVIOUS
<1>10. [w EXCEPT !.todo = @ \ {p}] = rest /\ rest.op = "sendPdu"
  BY <1>3, <1>9 DEF Walk
<1>11. UNCHANGED <<conn, written, torn, left>>
  BY DEF sendPdu
<1>12. /\ sent'[p] = Append(sent[p], d) /\ \A p2 \in Conns \ {p} : sent'[p2] = sent[p2]
       /\ Streams' /\ sent[p] \in Seq(Pdu)
  BY <1>1, <1>6, <1>7, <1>11, AppendProperties DEF Streams
<1>13. \/ /\ t = LoopOf[p] /\ queue' = queue
          /\ stack'[t] = <<Write(p, d), rest>>
       \/ /\ t # LoopOf[p]
          /\ queue'[LoopOf[p]] = Append(queue[LoopOf[p]], Write(p, d))
          /\ \A l \in Loops \ {LoopOf[p]} : queue'[l] = queue[l]
          /\ stack'[t] = <<rest>>
  <2>1. CASE t = LoopOf[p]
    <3>1. stack' = [stack EXCEPT ![t] = <<Write(p, d), rest>> \o Tail(@)] /\ queue' = queue
      BY <1>6, <1>10, <2>1
    <3>2. stack'[t] = <<Write(p, d), rest>> \o Tail(<<w>>)
      BY <1>1, <1>2, <3>1
    <3>3. stack'[t] = <<Write(p, d), rest>>
      BY <3>2, Stacked1, Stacked3
    <3> QED
      BY <2>1, <3>1, <3>3
  <2>2. CASE t # LoopOf[p]
    <3>1. stack' = [stack EXCEPT ![t] = <<rest>> \o Tail(@)]
      BY <1>6, <1>10, <2>2 DEF GoOn
    <3>2. stack'[t] = <<rest>> \o Tail(<<w>>)
      BY <1>1, <1>2, <3>1
    <3>3. stack'[t] = <<rest>>
      BY <3>2, Stacked1
    <3>4. queue' = [queue EXCEPT ![LoopOf[p]] = Append(@, Write(p, d))]
      BY <1>6, <2>2 DEF queueInLoop
    <3> QED
      BY <1>1, <1>7, <2>2, <3>3, <3>4 DEF Types
  <2> QED
    BY <2>1, <2>2
<1>14. \A u \in Threads \ {t} : stack'[u] = stack[u]
  BY <1>1, <1>6 DEF GoOn
<1>15. \A p2, m : ~Hand(<<w>>, Write(p2, m)) /\ ~Hand(<<rest>>, Write(p2, m))
  BY <1>2, <1>10, Hands, WriteFields
<1>16. \A p2, m : p2 # p => ~Hand(<<Write(p, d), rest>>, Write(p2, m))
  BY Hands, WriteFields
<1>17. Write(p, d) \in Functors(LoopOf[p])
  BY <1>7 DEF Functors, Writes
<1>18. ASSUME NEW p2 \in Conns \ {p}
       PROVE  Line(p2, conn[p2], torn, sent[p2], written[p2], stack'[LoopOf[p2]],
                   queue'[LoopOf[p2]])
  <2>1. PICK k \in Loops : k = LoopOf[p2]
    BY LoopsAreThreads
  <2>2. PICK q \in Seq(Functors(k)) : q = queue[k]
    BY <1>1 DEF Types
  <2>3. PICK q2 : q2 = queue'[k]
    OBVIOUS
  <2>4. PICK s, s2 : s = stack[k] /\ s2 = stack'[k]
    OBVIOUS
  <2>5. PICK c, snt, wr : c = conn[p2] /\ snt = sent[p2] /\ wr = written[p2]
    OBVIOUS
  <2>6. Line(p2, c, torn, snt, wr, s, q)
    BY <1>1, <2>1, <2>2, <2>4, <2>5 DEF Lines
  <2>7. \A m : Hand(s2, Write(p2, m)) <=> Hand(s, Write(p2, m))
    <3>1. CASE k = t
      <4>1. s2 = <<rest>> \/ s2 = <<Write(p, d), rest>>
        BY <1>13, <2>4, <3>1
      <4>2. s = <<w>>
        BY <1>2, <2>4, <3>1
      <4> QED
        BY <1>15, <1>16, <4>1, <4>2
    <3>2. CASE k # t
      BY <1>14, <2>4, <3>2, LoopsAreThreads
    <3> QED
      BY <3>1, <3>2
  <2>8. \A m : Write(p, d) # Write(p2, m)
    BY WriteFields
  <2>9. q2 = q \/ (k = LoopOf[p] /\ q2 = Append(q, Write(p, d)))
    BY <1>13, <2>2, <2>3
  <2>10. q2 = q \/ \E f \in Functors(k) : q2 = Append(q, f) /\ \A m : f # Write(p2, m)
    BY <1>17, <2>8, <2>9
  <2>11. Line(p2, c, torn, snt, wr, s2, q2)
    BY <2>6, <2>7, <2>10, LineStays
  <2> QED
    BY <2>1, <2>3, <2>4, <2>5, <2>11
<1>19. Line(p, conn[p], torn, sent'[p], written[p], stack'[LoopOf[p]], queue'[LoopOf[p]])
  <2>1. PICK k \in Loops : k = LoopOf[p]
    BY <1>7
  <2>2. PICK q \in Seq(Functors(k)) : q = queue[k]
    BY <1>1 DEF Types
  <2>3. PICK s : s = stack[k]
    OBVIOUS
  <2>4. PICK wr : wr = written[p]
    OBVIOUS
  <2>5. PICK snt \in Seq(Pdu) : snt = sent[p]
    BY <1>12
  <2>6. Line(p, Up, torn, snt, wr, s, q) /\ ~Has(snt, d)
    BY <1>1, <1>7, <1>8, <2>1, <2>2, <2>3, <2>4, <2>5 DEF Lines
  <2>7. CASE t = LoopOf[p]
    <3>1. \A m : ~Hand(s, Write(p, m))
      BY <1>2, <1>15, <2>1, <2>3, <2>7
    <3>2. PICK s2 : s2 = stack'[k]
      OBVIOUS
    <3>3. \A g : Hand(s2, g) <=> g = Write(p, d)
      <4>1. s2 = <<Write(p, d), rest>>
        BY <1>13, <2>1, <2>7, <3>2
      <4> QED
        BY <4>1, Hands
    <3>4. Line(p, Up, torn, Append(snt, d), wr, s2, q)
      BY <1>5, <2>6, <2>7, <3>1, <3>3, LineInHand
    <3>5. queue' = queue
      BY <1>13, <2>7
    <3> QED
      BY <1>8, <1>12, <2>1, <2>2, <2>4, <2>5, <3>2, <3>4, <3>5
  <2>8. CASE t # LoopOf[p]
    <3>1. stack'[k] = s
      BY <1>7, <1>14, <2>1, <2>3, <2>8
    <3>2. Line(p, Up, torn, Append(snt, d), wr, s, Append(q, Write(p, d)))
      <4>1. Write(p, d) \in Functors(k) /\ d.by # LoopOf[p]
        BY <1>5, <1>17, <2>1, <2>8
      <4> QED
        BY <2>6, <4>1, LineQueued
    <3>3. queue'[k] = Append(q, Write(p, d))
      BY <1>13, <2>1, <2>2, <2>8
    <3> QED
      BY <1>8, <1>12, <2>1, <2>4, <2>5, <3>1, <3>2, <3>3
  <2> QED
    BY <2>7, <2>8
<1>20. Lines'
  BY <1>11, <1>12, <1>18, <1>19 DEF Lines
<1>21. ASSUME NEW p2 \in Conns, NEW m
       PROVE  Has(sent'[p2], m) <=> Has(sent[p2], m) \/ (p2 = p /\ m = d)
  <2>1. PICK snt \in Seq(Pdu) : snt = sent[p]
    BY <1>12
  <2>2. Has(Append(snt, d), m) <=> Has(snt, m) \/ m = d
    BY AppendHas
  <2> QED
    BY <1>12, <2>1, <2>2
<1>22. Unsent'
  BY <1>1, <1>5, <1>11, <1>21 DEF Unsent
<1>23. ASSUME NEW u \in Threads, NEW g, NEW todo2 \in SUBSET Conns,
              Carries(stack'[u], Walk("sendPdu", g, todo2))
       PROVE  g.by = u /\ g.pdu \notin left.pdus /\ \A p2 \in todo2 : ~Has(sent'[p2], g)
  <2>1. CASE u = t
    <3>1. PICK x : x = Walk("sendPdu", g, todo2)
      OBVIOUS
    <3>2. Carries(<<rest>>, x) \/ Carries(<<Write(p, d), rest>>, x)
      BY <1>13, <1>23, <2>1, <3>1
    <3>3. rest = x
      BY <3>2, Carried
    <3>4. g = d /\ todo2 = todo \ {p}
      BY <1>9, <3>1, <3>3 DEF Walk
    <3>5. \A p2 \in todo \ {p} : ~Has(sent'[p2], d)
      BY <1>1, <1>5, <1>21
    <3> QED
      BY <1>5, <2>1, <3>4, <3>5
  <2>2. CASE u # t
    <3>1. Carries(stack[u], Walk("sendPdu", g, todo2))
      BY <1>14, <1>23, <2>2
    <3>2. g.by = u /\ g.pdu \notin left.pdus /\ \A p2 \in todo2 : ~Has(sent[p2], g)
      BY <1>1, <3>1 DEF Senders, Sending
    <3>3. g # d
      BY <1>5, <2>2, <3>2
    <3>4. \A p2 \in todo2 : ~Has(sent'[p2], g)
      BY <1>21, <3>2, <3>3
    <3> QED
      BY <3>2, <3>4
  <2> QED
    BY <2>1, <2>2
<1>24. Senders'
  BY <1>11, <1>23 DEF Senders, Sending
<1> QED
  BY <1>12, <1>20, <1>22, <1>24 DEF LInv

-----------------------------------------------------------------------------
LEMMA InitLInv == Init => LInv
<1> SUFFICES ASSUME Init PROVE LInv
  OBVIOUS
<1>1. \A f : ~Has(<<>>, f) /\ Once(<<>>, f)
  BY DEF Has, Once
<1>2. \A f, g : ~Before(<<>>, f, g)
  BY DEF Before
<1>3. /\ conn = [p \in Conns |-> NewConn]
      /\ \A p \in Conns : sent[p] = <<>> /\ written[p] = <<>>
      /\ \A l \in Loops : queue[l] = <<>>
      /\ \A t \in Threads : stack[t] = <<>>
  BY DEF Init
<1>4. ASSUME NEW p \in Conns
      PROVE  Line(p, conn[p], torn, sent[p], written[p], stack[LoopOf[p]], queue[LoopOf[p]])
  <2>1. Line(p, NewConn, torn, <<>>, <<>>, <<>>, <<>>)
    BY <1>1, <1>2, Hands DEF Line, Sound, Ordered, InLine
  <2> QED
    BY <1>3, <2>1, LoopsAreThreads
<1>5. Lines
  BY <1>4 DEF Lines
<1>6. Streams
  BY DEF Init, Streams
<1>7. Unsent
  BY <1>1, <1>3 DEF Unsent
<1>8. Senders
  BY <1>3, Carried DEF Senders, Sending
<1> QED
  BY <1>5, <1>6, <1>7, <1>8 DEF LInv

LEMMA NextLInv == IInv /\ LInv /\ [Next]_vars => LInv'
<1> SUFFICES ASSUME IInv, LInv, [Next]_vars PROVE LInv'
  OBVIOUS
<1>1. ASSUME NEW t \in Callers, Application(t) PROVE LInv'
  <2>1. t \in Threads
    BY LoopsAreThreads
  <2>2. CASE \E add \in BOOLEAN : SetServer(t, add)
    BY <2>1, <2>2, SetServerLInv
  <2>3. CASE \E d \in Pdus : BeginSend(t, d)
    BY <2>1, <2>3, BeginSendLInv
  <2>4. CASE BeginStop(t)
    BY <2>1, <2>4, BeginStopLInv
  <2>5. CASE \E p \in Conns : close(t, p)
    BY <2>1, <2>5, closeLInv
  <2> QED
    BY <1>1, <2>2, <2>3, <2>4, <2>5 DEF Application
<1>2. ASSUME NEW t \in Callers, GoesOn(t) PROVE LInv'
  BY <1>2, LoopsAreThreads, HandOverLInv, sendPduLInv, shutdownLInv, EndWalkLInv DEF GoesOn
<1>3. ASSUME NEW p \in Conns, onAccept(p) \/ onEvent(p) PROVE LInv'
  BY <1>3, onAcceptLInv, onEventLInv
<1>4. ASSUME NEW l \in Loops, LoopStep(l) PROVE LInv'
  BY <1>4, NextFunctorLInv, BuildAcceptLInv, CloseStepsLInv, finishLInv, onWriteLInv
     DEF LoopStep
<1>5. CASE addServerInLoop \/ delServerInLoop
  BY <1>5, ServerInLoopLInv
<1>6. CASE UNCHANGED vars
  BY <1>6 DEF vars, sendVars, LInv, Lines, Streams, Senders, Unsent
<1> QED
  BY <1>1, <1>2, <1>3, <1>4, <1>5, <1>6 DEF Next

(* BaseConn::sendPdu() writes at once on the connection's own loop and is   *)
(* queued from elsewhere, while callers, closes and hang-ups overlap: yet   *)
(* what one thread sends on a connection is written in its order, once and  *)
(* without a hole, unless the bufferevent refuses a write.                  *)
THEOREM StreamsAreWhole == Spec => []StreamHasNoHoles
<1>1. LInv => StreamHasNoHoles
  <2> SUFFICES ASSUME LInv, NEW p \in Conns, p \notin torn
               PROVE  /\ IsInjective(written[p])
                      /\ Range(written[p]) \subseteq Range(sent[p])
                      /\ \A m \in Range(sent[p]), n \in Range(written[p]) :
                           m.by = n.by /\ Before(sent[p], m, n) => Before(written[p], m, n)
    BY DEF StreamHasNoHoles
  <2>1. PICK snt \in Seq(Pdu), wr \in Seq(Pdu) : snt = sent[p] /\ wr = written[p]
    BY DEF LInv, Streams
  <2>2. /\ \A m : Has(wr, m) => Has(snt, m)
        /\ \A m : Once(wr, m)
        /\ Ordered(snt, wr)
    BY <2>1 DEF LInv, Lines, Line, Sound
  <2>3. DOMAIN snt = 1..Len(snt) /\ DOMAIN wr = 1..Len(wr)
    OBVIOUS
  <2>4. \A m : m \in Range(wr) => Has(wr, m)
    BY <2>3 DEF Range, Has
  <2>5. \A m : Has(snt, m) => m \in Range(snt)
    BY <2>3 DEF Range, Has
  <2>6. IsInjective(wr)
    BY <2>2, <2>3 DEF IsInjective, Once
  <2>7. Range(wr) \subseteq Range(snt)
    BY <2>2, <2>4, <2>5
  <2>8. \A m, n : n \in Range(wr) /\ m.by = n.by /\ Before(snt, m, n) => Before(wr, m, n)
    BY <2>2, <2>4 DEF Ordered
  <2> QED
    BY <2>1, <2>6, <2>7, <2>8
<1>2. IInv /\ LInv /\ [Next]_vars => LInv'
  BY NextLInv
<1> QED
  BY <1>1, <1>2, InitLInv, LivesAgree, PTL DEF Spec

-----------------------------------------------------------------------------
(***************************************************************************)
(* The client                                                              *)
(***************************************************************************)

(* What the application may do besides, when the connections are on a loop  *)
(* of their own.                                                            *)
Careful == Client!Apart => PatientRetry /\ ~AppCloses

(* The functors that are queued, and what a thread can go on with. *)
AppCalls == [op : {"addClientInLoop", "delClientInLoop"}, conn : {none}]
CloseCalls == [op : {"closeInLoop"}, conn : Conns]
BuildCalls == [op : {"BuildConnect"}, conn : Conns]
StartCalls == [op : {"startTimer"}, conn : Conns]
ClientFrames ==
  {Client!Idle} \cup AppCalls
  \cup [op : {"addConn", "delKey"}, conn : Conns \cup {none}]
  \cup [op : {"delOld", "startTimer", "onRetry", "reconnect"}, conn : Conns]
ConnFrames == {Client!Idle} \cup [op : Client!ConnSteps, conn : Conns]

MadeFields ==
  [bufev_ : Client!Buffers, tie_ : BOOLEAN, callbacks : BOOLEAN,
   bConnected_ : BOOLEAN, bClosed_ : BOOLEAN, bShutdownd_ : BOOLEAN,
   born : BOOLEAN, next_ : Nat]

LoopTypes(q, f) ==
  IF Client!Apart
    THEN /\ q[ClientLoop] \in Seq(AppCalls \cup StartCalls)
         /\ q[connLoop] \in Seq(CloseCalls \cup BuildCalls)
         /\ f[ClientLoop] \in ClientFrames
         /\ f[connLoop] \in ConnFrames
    ELSE /\ q[ClientLoop] \in Seq(AppCalls \cup CloseCalls)
         /\ f[ClientLoop] \in ClientFrames \cup ConnFrames

LoopsTyped ==
  /\ connLoop \in ConnLoops
  /\ DOMAIN functors = Client!ClientLoops /\ DOMAIN frame = Client!ClientLoops
  /\ LoopTypes(functors, frame)
  /\ \A l \in Client!ClientLoops \ {ClientLoop, connLoop} :
       functors[l] = <<>> /\ frame[l] = Client!Idle

ClientTypes ==
  /\ LoopsTyped
  /\ made \in [Conns -> MadeFields]
  /\ clientMap_ \in {"absent", "null"} \cup Conns
  /\ clientList_ \in Seq(Conns)
  /\ timers \in [Conns -> Nat]
  /\ wanted \in BOOLEAN /\ overlapped \in BOOLEAN

(* Every set of numbers has a least one.                                    *)
LEMMA LeastNatural ==
  ASSUME NEW T, T \subseteq Nat, T # {}
  PROVE  \E x \in T : \A y \in T : x <= y
<1> DEFINE Less == OpToRel(<, Nat)
<1>1. IsWellFoundedOn(Less, Nat)
  BY NatLessThanWellFounded
<1> HIDE DEF Less
<1>2. PICK x \in T : \A y \in T : <<y, x>> \notin Less
  BY <1>1, WFMin
<1>3. \A m, n \in Nat : m < n => <<m, n>> \in Less
  BY DEF Less, OpToRel
<1>4. ASSUME NEW y \in T
      PROVE  x <= y
  <2>1. ~(y < x)
    BY <1>2, <1>3
  <2> QED
    BY <2>1
<1> QED
  BY <1>4

(* RemoveFirst() leaves a sequence of what was in it; a sequence of one is  *)
(* empty after it.                                                          *)
LEMMA RemoveFirstFacts ==
  ASSUME NEW S, NEW s \in Seq(S), NEW e
  PROVE  /\ Client!RemoveFirst(s, e) \in Seq(S)
         /\ Client!ToSet(Client!RemoveFirst(s, e)) \subseteq Client!ToSet(s)
         /\ s = <<>> \/ s = <<e>> => Client!RemoveFirst(s, e) = <<>>
<1>1. CASE ~\E i \in 1..Len(s) : s[i] = e
  <2>1. Client!RemoveFirst(s, e) = s
    BY <1>1 DEF Client!RemoveFirst
  <2>2. s # <<e>>
    BY <1>1
  <2> QED BY <2>1, <2>2
<1>2. CASE \E i \in 1..Len(s) : s[i] = e
  <2> DEFINE I == {i \in 1..Len(s) : s[i] = e}
             k == Client!SelectInSeq(s, LAMBDA v : v = e)
  <2>1. Client!RemoveFirst(s, e) = Client!RemoveAt(s, k)
    BY <1>2 DEF Client!RemoveFirst
  <2>2. k = IF I # {} THEN Client!Min(I) ELSE 0
    BY DEF Client!SelectInSeq
  <2>3. I # {} /\ I \subseteq Nat
    BY <1>2
  <2>4. \E x \in I : \A y \in I : x <= y
    <3> HIDE DEF I
    <3> QED BY <2>3, LeastNatural
  <2>5. k \in I
    <3> HIDE DEF I, k
    <3> QED BY <2>2, <2>3, <2>4 DEF Client!Min
  <2>6. k \in 1..Len(s) /\ s[k] = e
    BY <2>5
  <2> HIDE DEF I, k
  <2> HIDE DEF I, k
  <2> DEFINE front == SubSeq(s, 1, k - 1)
             back == SubSeq(s, k + 1, Len(s))
  <2>7. Client!RemoveFirst(s, e) = front \o back
    BY <2>1 DEF Client!RemoveAt
  <2>8. /\ front \in Seq(S) /\ Len(front) = k - 1
        /\ \A i \in 1..k - 1 : front[i] = s[i]
    BY <2>6, SubSeqProperties
  <2>9. /\ back \in Seq(S) /\ Len(back) = Len(s) - k
        /\ \A i \in 1..Len(s) - k : back[i] = s[k + i]
    BY <2>6, SubSeqProperties
  <2> HIDE DEF front, back
  <2>10. /\ front \o back \in Seq(S) /\ Len(front \o back) = Len(s) - 1
         /\ \A i \in 1..Len(s) - 1 :
              (front \o back)[i] = IF i < k THEN front[i] ELSE back[i - (k - 1)]
    <3>1. Len(s) \in Nat
      BY LenProperties
    <3>2. /\ front \o back \in Seq(S) /\ Len(front \o back) = Len(front) + Len(back)
          /\ \A i \in 1..Len(front) + Len(back) :
               (front \o back)[i] = IF i <= Len(front) THEN front[i] ELSE back[i - Len(front)]
      BY <2>8, <2>9, ConcatProperties
    <3>3. Len(front) + Len(back) = Len(s) - 1
      BY <2>6, <2>8, <2>9, <3>1
    <3> QED
      BY <2>6, <2>8, <3>1, <3>2, <3>3
  <2>11. ASSUME NEW i \in 1..Len(s) - 1
         PROVE  \E j \in 1..Len(s) : (front \o back)[i] = s[j]
    <3>1. CASE i < k
      BY <2>6, <2>8, <2>10, <3>1
    <3>2. CASE ~(i < k)
      <4>1. i - (k - 1) \in 1..Len(s) - k /\ k + (i - (k - 1)) \in 1..Len(s)
        BY <2>6, <3>2
      <4> QED
        BY <2>9, <2>10, <3>2, <4>1
    <3> QED
      BY <3>1, <3>2
  <2>12. ASSUME s = <<>> \/ s = <<e>>
         PROVE  front \o back = <<>>
    <3>1. Len(s) = 1
      BY <2>6, <2>12
    <3> QED
      BY <2>10, <3>1, EmptySeq
  <2>13. Client!ToSet(front \o back) \subseteq Client!ToSet(s)
    <3>1. /\ DOMAIN s = 1..Len(s)
          /\ DOMAIN (front \o back) = 1..Len(s) - 1
      BY <2>10, LenProperties
    <3> QED
      BY <2>11, <3>1 DEF Client!ToSet
  <2> QED
    BY <2>7, <2>10, <2>12, <2>13
<1> QED BY <1>1, <1>2
-----------------------------------------------------------------------------
(* Types                                                                   *)

LEMMA ClientCallFields ==
  /\ \A op, p : Client!Call(op, p).op = op /\ Client!Call(op, p).conn = p
  /\ Client!Idle.op = "idle" /\ Client!Idle.conn = none
BY DEF Client!Call, Client!Idle

LEMMA NamesDiffer ==
  /\ none \notin Conns /\ "absent" \notin Conns /\ "null" \notin Conns
BY NoneAssumption

LEMMA TwoLoops ==
  ASSUME ClientTypes
  PROVE  ClientLoop \in Client!ClientLoops /\ connLoop \in Client!ClientLoops
BY DEF ClientTypes, LoopsTyped, Client!ClientLoops

(* What each thread can go on with. *)
LEMMA ClientFramesHave ==
  /\ Client!Idle \in ClientFrames
  /\ Client!Call("addClientInLoop", none) \in ClientFrames
  /\ Client!Call("delClientInLoop", none) \in ClientFrames
  /\ \A p \in Conns \cup {none} :
       /\ Client!Call("addConn", p) \in ClientFrames
       /\ Client!Call("delKey", p) \in ClientFrames
  /\ \A p \in Conns : \A op \in {"delOld", "startTimer", "onRetry", "reconnect"} :
       Client!Call(op, p) \in ClientFrames
BY DEF ClientFrames, AppCalls, Client!Call

LEMMA ConnFramesHave ==
  /\ Client!Idle \in ConnFrames
  /\ \A p \in Conns : \A op \in Client!ConnSteps : Client!Call(op, p) \in ConnFrames
BY DEF ConnFrames, Client!Call

MayGoOn(l, g) == (l = ClientLoop /\ g \in ClientFrames) \/ (l = connLoop /\ g \in ConnFrames)
MayQueue(l, g) ==
  \/ l = ClientLoop /\ g \in AppCalls
  \/ l = ClientLoop /\ Client!Apart /\ g \in StartCalls
  \/ l = connLoop /\ g \in CloseCalls
  \/ l = connLoop /\ Client!Apart /\ g \in BuildCalls

(* Thread l goes on with g. *)
LEMMA StepTypes ==
  ASSUME NEW q, NEW f, LoopTypes(q, f), DOMAIN f = Client!ClientLoops, NEW l \in Client!ClientLoops, NEW g,
         MayGoOn(l, g)
  PROVE  LoopTypes(q, [f EXCEPT ![l] = g])
BY DEF MayGoOn, LoopTypes, Client!Apart

(* Functor g is queued on loop l. *)
LEMMA PushTypes ==
  ASSUME NEW q, NEW f, LoopTypes(q, f), DOMAIN q = Client!ClientLoops, NEW l \in Client!ClientLoops, NEW g,
         MayQueue(l, g)
  PROVE  LoopTypes([q EXCEPT ![l] = Append(q[l], g)], f)
<1>1. \A S : \A s \in Seq(S) : \A x \in S : Append(s, x) \in Seq(S)
  BY AppendProperties
<1>2. CASE Client!Apart /\ l = ClientLoop
  BY <1>1, <1>2 DEF MayQueue, LoopTypes, Client!Apart
<1>3. CASE Client!Apart /\ l = connLoop
  BY <1>1, <1>3 DEF MayQueue, LoopTypes, Client!Apart
<1>4. CASE ~Client!Apart
  BY <1>1, <1>4 DEF MayQueue, LoopTypes, Client!Apart
<1> QED
  BY <1>2, <1>3, <1>4 DEF MayQueue

(* Loop l takes its next functor. *)
LEMMA TakeTypes ==
  ASSUME NEW q, NEW f, LoopTypes(q, f), DOMAIN q = Client!ClientLoops, DOMAIN f = Client!ClientLoops,
         NEW l \in {ClientLoop, connLoop}, l \in Client!ClientLoops, q[l] # <<>>
  PROVE  LoopTypes([q EXCEPT ![l] = Tail(q[l])], [f EXCEPT ![l] = Head(q[l])])
<1>1. \A S : \A s \in Seq(S) : s # <<>> => Tail(s) \in Seq(S) /\ Head(s) \in S
  BY HeadTailProperties
<1>2. /\ AppCalls \cup StartCalls \subseteq ClientFrames
      /\ CloseCalls \cup BuildCalls \subseteq ConnFrames
  BY DEF AppCalls, StartCalls, CloseCalls, BuildCalls, ClientFrames, ConnFrames,
         Client!ConnSteps
<1>3. CASE Client!Apart /\ l = ClientLoop
  <2>1. Head(q[l]) \in ClientFrames /\ Tail(q[l]) \in Seq(AppCalls \cup StartCalls)
    BY <1>1, <1>2, <1>3 DEF LoopTypes
  <2> QED
    BY <1>3, <2>1 DEF LoopTypes, Client!Apart
<1>4. CASE Client!Apart /\ l = connLoop
  <2>1. Head(q[l]) \in ConnFrames /\ Tail(q[l]) \in Seq(CloseCalls \cup BuildCalls)
    BY <1>1, <1>2, <1>4 DEF LoopTypes
  <2> QED
    BY <1>4, <2>1 DEF LoopTypes, Client!Apart
<1>5. CASE ~Client!Apart
  <2>1. /\ Head(q[l]) \in ClientFrames \cup ConnFrames
        /\ Tail(q[l]) \in Seq(AppCalls \cup CloseCalls)
    BY <1>1, <1>2, <1>5 DEF LoopTypes, Client!Apart
  <2> QED
    BY <1>5, <2>1 DEF LoopTypes, Client!Apart
<1> QED
  BY <1>3, <1>4, <1>5

(* What the handlers do to the fields of a connection. *)
Shut(c) == [c EXCEPT !.bShutdownd_ = TRUE]
Tries(c) == [c EXCEPT !.bufev_ = "connecting"]
Dials(c, b) == [Client!getNextAddrInfo(c).conn EXCEPT !.bufev_ = b]
ComesUp(c) == [c EXCEPT !.bufev_ = "up", !.bConnected_ = TRUE]
Finished(c) == [c EXCEPT !.bufev_ = "null", !.callbacks = FALSE, !.bClosed_ = TRUE,
                         !.bConnected_ = FALSE, !.tie_ = FALSE]

LEMMA MadeUpdates ==
  ASSUME NEW c \in MadeFields
  PROVE  /\ Shut(c) \in MadeFields /\ Shut(c).bShutdownd_
         /\ Shut(c).bufev_ = c.bufev_ /\ Shut(c).tie_ = c.tie_
         /\ Shut(c).callbacks = c.callbacks /\ Shut(c).born = c.born
         /\ Finished(c) \in MadeFields
         /\ Finished(c).bufev_ = "null" /\ ~Finished(c).tie_ /\ ~Finished(c).callbacks
         /\ Finished(c).born = c.born /\ Finished(c).bShutdownd_ = c.bShutdownd_
         /\ Client!doConnect(c) \in MadeFields
         /\ Client!doConnect(c).tie_ /\ Client!doConnect(c).callbacks
         /\ Client!doConnect(c).born /\ Client!doConnect(c).bufev_ = c.bufev_
         /\ Client!doConnect(c).bShutdownd_ = c.bShutdownd_
BY DEF MadeFields, Shut, Finished, Client!doConnect, Client!Buffers

LEMMA BufferUpdates ==
  ASSUME NEW c \in MadeFields
  PROVE  \A d \in {Tries(c), Dials(c, "connecting"), Dials(c, "dialing"), ComesUp(c)} :
           /\ d \in MadeFields
           /\ d.tie_ = c.tie_ /\ d.callbacks = c.callbacks
           /\ d.born = c.born /\ d.bShutdownd_ = c.bShutdownd_
<1>1. Tries(c) \in MadeFields /\ ComesUp(c) \in MadeFields
  BY DEF MadeFields, Tries, ComesUp, Client!Buffers
<1>2. PICK n \in Nat : Client!getNextAddrInfo(c).conn = [c EXCEPT !.next_ = n]
  BY AddrsAssumption DEF MadeFields, Client!getNextAddrInfo
<1>3. ASSUME NEW b \in {"connecting", "dialing"} PROVE Dials(c, b) \in MadeFields
  BY <1>2 DEF MadeFields, Dials, Client!Buffers
<1>4. ASSUME NEW b \in {"connecting", "dialing"}
      PROVE  /\ Dials(c, b).tie_ = c.tie_ /\ Dials(c, b).callbacks = c.callbacks
             /\ Dials(c, b).born = c.born /\ Dials(c, b).bShutdownd_ = c.bShutdownd_
  BY <1>2 DEF MadeFields, Dials
<1>5. ASSUME NEW d \in {Tries(c), ComesUp(c)}
      PROVE  /\ d.tie_ = c.tie_ /\ d.callbacks = c.callbacks
             /\ d.born = c.born /\ d.bShutdownd_ = c.bShutdownd_
  BY DEF MadeFields, Tries, ComesUp
<1> QED
  BY <1>1, <1>3, <1>4, <1>5

LEMMA BufferValues ==
  ASSUME NEW c \in MadeFields
  PROVE  /\ Tries(c).bufev_ = "connecting"
         /\ Dials(c, "connecting").bufev_ = "connecting"
         /\ Dials(c, "dialing").bufev_ = "dialing"
         /\ ComesUp(c).bufev_ = "up"
<1>1. PICK n \in Nat : Client!getNextAddrInfo(c).conn = [c EXCEPT !.next_ = n]
  BY AddrsAssumption DEF MadeFields, Client!getNextAddrInfo
<1> QED
  BY <1>1 DEF MadeFields, Tries, Dials, ComesUp

LEMMA InitClientTypes == Client!Init => ClientTypes
<1> SUFFICES ASSUME Client!Init PROVE ClientTypes
  OBVIOUS
<1>1. Client!NewConn \in MadeFields
  BY DEF Client!NewConn, MadeFields, Client!Buffers
<1>2. ClientLoop \in Client!ClientLoops /\ connLoop \in Client!ClientLoops
  BY DEF Client!Init, Client!ClientLoops
<1>3. LoopTypes(functors, frame)
  BY <1>2, EmptySeq, ClientFramesHave, ConnFramesHave DEF Client!Init, LoopTypes
<1> QED
  BY <1>1, <1>2, <1>3, EmptySeq DEF Client!Init, ClientTypes, LoopsTyped

(* What may change of the loops in a step: a thread goes on with g, functor *)
(* h is queued, or both.                                                    *)
LEMMA GoesOnTyped ==
  ASSUME LoopsTyped, connLoop' = connLoop, NEW l \in Client!ClientLoops, NEW g, MayGoOn(l, g),
         frame' = [frame EXCEPT ![l] = g], functors' = functors
  PROVE  LoopsTyped'
<1>1. LoopTypes(functors', frame')
  BY StepTypes DEF LoopsTyped
<1> QED
  BY <1>1 DEF LoopsTyped, LoopTypes, Client!Apart, MayGoOn

LEMMA QueuesTyped ==
  ASSUME LoopsTyped, connLoop' = connLoop, NEW k \in Client!ClientLoops, NEW h, MayQueue(k, h),
         functors' = Client!Push(k, h), frame' = frame
  PROVE  LoopsTyped'
<1>1. LoopTypes(functors', frame')
  BY PushTypes DEF LoopsTyped, Client!Push
<1> QED
  BY <1>1 DEF LoopsTyped, LoopTypes, Client!Apart, MayQueue, Client!Push

LEMMA BothTyped ==
  ASSUME LoopsTyped, connLoop' = connLoop,
         NEW l \in Client!ClientLoops, NEW g, MayGoOn(l, g), frame' = [frame EXCEPT ![l] = g],
         NEW k \in Client!ClientLoops, NEW h, MayQueue(k, h), functors' = Client!Push(k, h)
  PROVE  LoopsTyped'
<1>1. LoopTypes(functors, frame')
  BY StepTypes DEF LoopsTyped
<1>2. LoopTypes(functors', frame')
  BY <1>1, PushTypes DEF LoopsTyped, Client!Push
<1> QED
  BY <1>2 DEF LoopsTyped, LoopTypes, Client!Apart, MayQueue, MayGoOn, Client!Push

LEMMA TakeTyped ==
  ASSUME LoopsTyped, NEW l \in {ClientLoop, connLoop}, l \in Client!ClientLoops, Client!NextFunctor(l)
  PROVE  LoopsTyped'
<1>1. LoopTypes(functors', frame')
  BY TakeTypes DEF LoopsTyped, Client!NextFunctor
<1> QED
  BY <1>1 DEF LoopsTyped, LoopTypes, Client!Apart, Client!NextFunctor

LEMMA FramesTyped ==
  ASSUME ClientTypes
  PROVE  /\ ~Client!Apart => ClientLoop = connLoop
         /\ \A l \in {ClientLoop, connLoop} : frame[l] \in ClientFrames \cup ConnFrames
         /\ \A l \in {ClientLoop, connLoop} :
              frame[l].op \in Client!ConnSteps \cup {"delOld", "startTimer", "onRetry", "reconnect"}
                => frame[l].conn \in Conns
<1>1. \A l \in {ClientLoop, connLoop} : frame[l] \in ClientFrames \cup ConnFrames
  BY DEF ClientTypes, LoopsTyped, LoopTypes, Client!Apart
<1> QED
  BY <1>1
     DEF Client!Apart, ClientFrames, ConnFrames, AppCalls, Client!Idle,
         Client!ConnSteps

LEMMA ApplicationTypes ==
  ASSUME ClientTypes, Client!Application
  PROVE  ClientTypes'
<1>1. ASSUME NEW op \in {"addClientInLoop", "delClientInLoop"}, Client!ClientCall(op)
      PROVE  ClientTypes'
  <2>1. MayGoOn(ClientLoop, Client!Call(op, none)) /\ MayQueue(ClientLoop, Client!Call(op, none))
    BY ClientFramesHave DEF AppCalls, Client!Call, MayGoOn, MayQueue
  <2>2. LoopsTyped'
    BY <1>1, <2>1, TwoLoops, GoesOnTyped, QueuesTyped
       DEF ClientTypes, Client!ClientCall, Client!Continue
  <2> QED
    BY <1>1, <2>2 DEF ClientTypes, Client!ClientCall
<1>2. ASSUME NEW p \in Conns, Client!close(p) \/ Client!shutdown(p)
      PROVE  ClientTypes'
  <2>1. MayQueue(connLoop, Client!Call("closeInLoop", p))
    BY DEF CloseCalls, Client!Call, MayQueue
  <2>2. LoopsTyped'
    BY <1>2, <2>1, TwoLoops, QueuesTyped
       DEF ClientTypes, Client!close, Client!shutdown
  <2>3. made' = made \/ made' = [made EXCEPT ![p] = Shut(made[p])]
    BY <1>2 DEF Client!close, Client!shutdown, ClientTypes, Shut
  <2>4. made' \in [Conns -> MadeFields]
    BY <2>3, MadeUpdates DEF ClientTypes
  <2> QED
    BY <1>2, <2>2, <2>4 DEF ClientTypes, Client!close, Client!shutdown
<1> QED
  BY <1>1, <1>2 DEF Client!Application, Client!addClient, Client!delClient

LEMMA NetworkTypes ==
  ASSUME ClientTypes, NEW p \in Conns, Client!Connected(p) \/ Client!Failed(p)
  PROVE  ClientTypes'
<1>1. /\ MayGoOn(connLoop, Client!Call("onConnect", p))
      /\ MayGoOn(connLoop, Client!Call("closeInLoop", p))
  BY ConnFramesHave DEF MayGoOn, Client!ConnSteps
<1>2. LoopsTyped'
  <2>1. CASE frame' = frame
    BY <2>1
       DEF ClientTypes, LoopsTyped, LoopTypes, Client!Apart, Client!Connected,
           Client!Failed
  <2>2. CASE frame' # frame
    BY <1>1, <2>2, TwoLoops, GoesOnTyped
       DEF ClientTypes, Client!Connected, Client!Failed, Client!Continue
  <2> QED
    BY <2>1, <2>2
<1>3. made' = made \/ made' = [made EXCEPT ![p] = ComesUp(made[p])]
  BY DEF Client!Connected, Client!Failed, ClientTypes, ComesUp
<1>4. made' \in [Conns -> MadeFields]
  <2>1. ComesUp(made[p]) \in MadeFields
    BY BufferUpdates DEF ClientTypes
  <2> QED
    BY <1>3, <2>1 DEF ClientTypes
<1> QED
  BY <1>2, <1>4 DEF ClientTypes, Client!Connected, Client!Failed

LEMMA TimerTypes ==
  ASSUME ClientTypes, NEW p \in Conns, Client!RetryTimer(p)
  PROVE  ClientTypes'
<1>1. MayGoOn(ClientLoop, Client!Call("onRetry", p))
  BY ClientFramesHave DEF MayGoOn
<1>2. LoopsTyped'
  BY <1>1, TwoLoops, GoesOnTyped DEF ClientTypes, Client!RetryTimer, Client!Continue
<1>3. timers' \in [Conns -> Nat]
  BY DEF ClientTypes, Client!RetryTimer
<1> QED
  BY <1>2, <1>3 DEF ClientTypes, Client!RetryTimer

(* doConnect() of p: its BuildConnect() is run at once or queued. *)
LEMMA HandOverTyped ==
  ASSUME ClientTypes, connLoop' = connLoop, NEW p \in Conns,
         Client!HandOver(ClientLoop, connLoop, Client!Call("BuildConnect", p))
  PROVE  LoopsTyped'
<1>1. Client!Call("BuildConnect", p) \in ConnFrames /\ Client!Call("BuildConnect", p) \in BuildCalls
  BY ConnFramesHave DEF Client!ConnSteps, BuildCalls, Client!Call
<1>2. MayGoOn(ClientLoop, Client!Idle)
  BY ClientFramesHave DEF MayGoOn
<1>3. CASE ClientLoop = connLoop
  BY <1>1, <1>3, TwoLoops, GoesOnTyped DEF ClientTypes, Client!HandOver, MayGoOn
<1>4. CASE ClientLoop # connLoop
  BY <1>1, <1>2, <1>4, TwoLoops, BothTyped
     DEF ClientTypes, Client!HandOver, Client!Done, MayQueue, Client!Apart
<1> QED
  BY <1>3, <1>4

(* The loops in a step of the client's loop that only goes on. *)
LEMMA ClientGoesOn ==
  ASSUME ClientTypes, connLoop' = connLoop, functors' = functors,
         NEW g \in ClientFrames, frame' = [frame EXCEPT ![ClientLoop] = g]
  PROVE  LoopsTyped'
BY TwoLoops, GoesOnTyped DEF ClientTypes, MayGoOn

LEMMA ConnGoesOn ==
  ASSUME ClientTypes, connLoop' = connLoop, functors' = functors,
         NEW g \in ConnFrames, frame' = [frame EXCEPT ![connLoop] = g]
  PROVE  LoopsTyped'
BY TwoLoops, GoesOnTyped DEF ClientTypes, MayGoOn

LEMMA ClientStepTypes ==
  ASSUME ClientTypes, Client!ClientStep
  PROVE  ClientTypes'
<1>1. CASE Client!NextFunctor(ClientLoop)
  BY <1>1, TwoLoops, TakeTyped DEF ClientTypes, Client!NextFunctor
<1>2. CASE Client!addClientInLoop
  <2>1. LoopsTyped'
    BY <1>2, ClientFramesHave, ClientGoesOn
       DEF Client!addClientInLoop, Client!Continue, Client!Done
  <2>2. overlapped' \in BOOLEAN /\ wanted' \in BOOLEAN
    BY <1>2 DEF Client!addClientInLoop
  <2> QED
    BY <1>2, <2>1, <2>2 DEF ClientTypes, Client!addClientInLoop
<1>3. ASSUME NEW p \in Conns, made' = [made EXCEPT ![p] = Client!doConnect(@)],
             Client!HandOver(ClientLoop, connLoop, Client!Call("BuildConnect", p)),
             clientMap_' = "null",
             UNCHANGED <<connLoop, clientList_, timers, wanted, overlapped>>
      PROVE  ClientTypes'
  <2>1. LoopsTyped'
    BY <1>3, HandOverTyped
  <2>2. made' \in [Conns -> MadeFields]
    BY <1>3, MadeUpdates DEF ClientTypes
  <2> QED
    BY <1>3, <2>1, <2>2 DEF ClientTypes
<1>4. CASE Client!addConn
  <2>1. PICK p \in Conns :
          /\ made' = [made EXCEPT ![p] = Client!doConnect(@)]
          /\ Client!HandOver(ClientLoop, connLoop, Client!Call("BuildConnect", p))
    BY <1>4 DEF Client!addConn, Client!Unborn
  <2> QED
    BY <1>3, <1>4, <2>1 DEF Client!addConn
<1>5. CASE Client!delClientInLoop
  <2>1. LoopsTyped'
    BY <1>5, ClientFramesHave, ClientGoesOn
       DEF Client!delClientInLoop, Client!Continue
  <2> QED
    BY <1>5, <2>1 DEF ClientTypes, Client!delClientInLoop
<1>6. CASE Client!delOld
  <2> DEFINE p == frame[ClientLoop].conn
  <2>1. p \in Conns
    BY <1>6, FramesTyped DEF Client!delOld, Client!At
  <2>2. /\ MayGoOn(ClientLoop, Client!Call("delKey", p))
        /\ MayQueue(connLoop, Client!Call("closeInLoop", p))
    BY <2>1, ClientFramesHave DEF MayGoOn, MayQueue, CloseCalls, Client!Call
  <2>3. LoopsTyped'
    BY <1>6, <2>2, TwoLoops, BothTyped
       DEF ClientTypes, Client!delOld, Client!Continue
  <2>4. made' = [made EXCEPT ![p] = Shut(made[p])]
    BY <1>6 DEF Client!delOld, ClientTypes, Shut
  <2>5. made' \in [Conns -> MadeFields]
    BY <2>1, <2>4, MadeUpdates DEF ClientTypes
  <2>6. clientList_' \in Seq(Conns)
    BY <1>6, RemoveFirstFacts DEF Client!delOld, ClientTypes
  <2> QED
    BY <1>6, <2>3, <2>5, <2>6 DEF ClientTypes, Client!delOld
<1>7. CASE Client!delKey
  <2>1. LoopsTyped'
    BY <1>7, ClientFramesHave, ClientGoesOn DEF Client!delKey, Client!Done
  <2> QED
    BY <1>7, <2>1 DEF ClientTypes, Client!delKey
<1>8. CASE Client!startTimer
  <2>1. LoopsTyped'
    BY <1>8, ClientFramesHave, ClientGoesOn DEF Client!startTimer, Client!Done
  <2>2. timers' \in [Conns -> Nat]
    BY <1>8, FramesTyped DEF ClientTypes, Client!startTimer, Client!At
  <2> QED
    BY <1>8, <2>1, <2>2 DEF ClientTypes, Client!startTimer
<1>9. CASE Client!onRetry
  <2>1. frame[ClientLoop].conn \in Conns
    BY <1>9, FramesTyped DEF Client!onRetry, Client!At
  <2>2. LoopsTyped'
    BY <1>9, <2>1, ClientFramesHave, ClientGoesOn
       DEF Client!onRetry, Client!Continue, Client!Done
  <2> QED
    BY <1>9, <2>2 DEF ClientTypes, Client!onRetry
<1>10. CASE Client!reconnect
  <2>1. frame[ClientLoop].conn \in Conns
    BY <1>10, FramesTyped DEF Client!reconnect, Client!At
  <2> QED
    BY <1>3, <1>10, <2>1 DEF Client!reconnect
<1> QED
  BY <1>1, <1>2, <1>4, <1>5, <1>6, <1>7, <1>8, <1>9, <1>10 DEF Client!ClientStep

LEMMA ConnStepTypes ==
  ASSUME ClientTypes, Client!ConnStep
  PROVE  ClientTypes'
<1> DEFINE p == frame[connLoop].conn
<1>1. CASE Client!NextFunctor(connLoop)
  BY <1>1, TwoLoops, TakeTyped DEF ClientTypes, Client!NextFunctor
<1>2. ASSUME frame[connLoop].op \in Client!ConnSteps PROVE p \in Conns
  BY <1>2, FramesTyped
<1>3. /\ MayGoOn(connLoop, Client!Idle)
      /\ p \in Conns => /\ \A op \in Client!ConnSteps : Client!Call(op, p) \in ConnFrames
                        /\ MayQueue(connLoop, Client!Call("closeInLoop", p))
                        /\ Client!Apart => MayQueue(ClientLoop, Client!Call("startTimer", p))
  BY ConnFramesHave DEF MayGoOn, MayQueue, CloseCalls, StartCalls, Client!Call
<1>4. CASE Client!NoSocket
  <2>1. p \in Conns
    BY <1>2, <1>4 DEF Client!NoSocket, Client!At, Client!ConnSteps
  <2>2. LoopsTyped'
    BY <1>3, <1>4, <2>1, ConnGoesOn
       DEF Client!NoSocket, Client!Continue, Client!ConnSteps
  <2>3. made' = made \/ made' = [made EXCEPT ![p] = Tries(made[p])]
    BY <1>4 DEF Client!NoSocket, ClientTypes, Tries
  <2>4. made' \in [Conns -> MadeFields]
    BY <2>1, <2>3, BufferUpdates DEF ClientTypes
  <2> QED
    BY <1>4, <2>2, <2>4 DEF ClientTypes, Client!NoSocket
<1>5. ASSUME NEW q \in Conns, Client!Dial(q)
      PROVE  ClientTypes'
  <2>1. LoopsTyped'
    BY <1>5, ConnFramesHave, ConnGoesOn
       DEF Client!Dial, Client!Continue, Client!Done, Client!ConnSteps
  <2>2. \E b \in {"connecting", "dialing"} : made' = [made EXCEPT ![q] = Dials(made[q], b)]
    BY <1>5 DEF Client!Dial, ClientTypes, Dials
  <2>3. made' \in [Conns -> MadeFields]
    BY <2>2, BufferUpdates DEF ClientTypes
  <2> QED
    BY <1>5, <2>1, <2>3 DEF ClientTypes, Client!Dial
<1>6. ASSUME Client!ShutdownHere(p), connLoop' = connLoop, p \in Conns
      PROVE  LoopsTyped' /\ made' \in [Conns -> MadeFields]
  <2>1. LoopsTyped'
    BY <1>3, <1>6, TwoLoops, BothTyped
       DEF ClientTypes, Client!ShutdownHere, Client!Done
  <2>2. made' = [made EXCEPT ![p] = Shut(made[p])]
    BY <1>6 DEF Client!ShutdownHere, ClientTypes, Shut
  <2> QED
    BY <1>6, <2>1, <2>2, MadeUpdates DEF ClientTypes
<1>7. CASE Client!onConnect \/ Client!checkOld
  <2>1. p \in Conns
    BY <1>2, <1>7 DEF Client!onConnect, Client!checkOld, Client!At, Client!ConnSteps
  <2>2. CASE Client!ShutdownHere(p)
    BY <1>6, <1>7, <2>1, <2>2 DEF ClientTypes, Client!onConnect, Client!checkOld
  <2>3. CASE ~Client!ShutdownHere(p)
    <3>1. LoopsTyped'
      BY <1>3, <1>7, <2>1, <2>3, ConnGoesOn
         DEF Client!onConnect, Client!checkOld, Client!Continue, Client!ConnSteps
    <3> QED
      BY <1>7, <2>3, <3>1 DEF ClientTypes, Client!onConnect, Client!checkOld
  <2> QED
    BY <2>2, <2>3
<1>8. CASE Client!addToList
  <2>1. p \in Conns
    BY <1>2, <1>8 DEF Client!addToList, Client!At, Client!ConnSteps
  <2>2. LoopsTyped'
    BY <1>3, <1>8, <2>1, ConnGoesOn
       DEF Client!addToList, Client!Continue, Client!ConnSteps
  <2>3. clientList_' \in Seq(Conns)
    BY <1>8, <2>1, AppendProperties DEF ClientTypes, Client!addToList
  <2> QED
    BY <1>8, <2>2, <2>3 DEF ClientTypes, Client!addToList
<1>9. CASE Client!setConn
  <2>1. p \in Conns
    BY <1>2, <1>9 DEF Client!setConn, Client!At, Client!ConnSteps
  <2>2. LoopsTyped'
    BY <1>9, ConnFramesHave, ConnGoesOn DEF Client!setConn, Client!Done
  <2> QED
    BY <1>9, <2>1, <2>2 DEF ClientTypes, Client!setConn
<1>10. CASE Client!closeInLoop
  <2>1. p \in Conns
    BY <1>2, <1>10 DEF Client!closeInLoop, Client!At, Client!ConnSteps
  <2>2. LoopsTyped'
    BY <1>3, <1>10, <2>1, ConnFramesHave, ConnGoesOn
       DEF Client!closeInLoop, Client!Continue, Client!Done, Client!ConnSteps
  <2> QED
    BY <1>10, <2>2 DEF ClientTypes, Client!closeInLoop
<1>11. CASE Client!onClose
  <2>1. p \in Conns
    BY <1>2, <1>11 DEF Client!onClose, Client!At, Client!ConnSteps
  <2>2. LoopsTyped'
    BY <1>3, <1>11, <2>1, ConnGoesOn
       DEF Client!onClose, Client!Continue, Client!ConnSteps
  <2>3. clientList_' \in Seq(Conns)
    BY <1>11, RemoveFirstFacts DEF Client!onClose, ClientTypes
  <2> QED
    BY <1>11, <2>2, <2>3 DEF ClientTypes, Client!onClose
<1>12. CASE Client!eraseKey
  <2>1. p \in Conns
    BY <1>2, <1>12 DEF Client!eraseKey, Client!At, Client!ConnSteps
  <2>2. LoopsTyped'
    BY <1>3, <1>12, <2>1, ConnGoesOn
       DEF Client!eraseKey, Client!Continue, Client!ConnSteps
  <2> QED
    BY <1>12, <2>2 DEF ClientTypes, Client!eraseKey
<1>13. CASE Client!runAfter
  <2>1. p \in Conns
    BY <1>2, <1>13 DEF Client!runAfter, Client!At, Client!ConnSteps
  <2>2. MayGoOn(connLoop, Client!Call("finish", p))
    BY <1>3, <2>1 DEF MayGoOn, Client!ConnSteps
  <2>3. LoopsTyped'
    <3>1. CASE connLoop = ClientLoop
      BY <1>13, <2>2, <3>1, TwoLoops, GoesOnTyped
         DEF ClientTypes, Client!runAfter, Client!Continue
    <3>2. CASE connLoop # ClientLoop
      BY <1>3, <1>13, <2>1, <2>2, <3>2, TwoLoops, BothTyped
         DEF ClientTypes, Client!runAfter, Client!Continue, Client!Apart
    <3> QED
      BY <3>1, <3>2
  <2> QED
    BY <1>13, <2>3 DEF ClientTypes, Client!runAfter
<1>14. CASE Client!finish
  <2>1. p \in Conns
    BY <1>2, <1>14 DEF Client!finish, Client!At, Client!ConnSteps
  <2>2. LoopsTyped'
    BY <1>3, <1>14, <2>1, ConnFramesHave, ConnGoesOn
       DEF Client!finish, Client!Continue, Client!Done, Client!ConnSteps
  <2>3. made' = [made EXCEPT ![p] = Finished(made[p])]
    BY <1>14 DEF Client!finish, ClientTypes, Finished
  <2>4. made' \in [Conns -> MadeFields]
    BY <2>1, <2>3, MadeUpdates DEF ClientTypes
  <2> QED
    BY <1>14, <2>2, <2>4 DEF ClientTypes, Client!finish
<1> QED
  BY <1>1, <1>4, <1>5, <1>7, <1>8, <1>9, <1>10, <1>11, <1>12, <1>13, <1>14
     DEF Client!ConnStep, Client!BuildConnect

LEMMA NextClientTypes ==
  ASSUME ClientTypes, [Client!Next]_(Client!vars)
  PROVE  ClientTypes'
<1>1. CASE UNCHANGED Client!vars
  BY <1>1 DEF Client!vars, ClientTypes, LoopsTyped, LoopTypes, Client!Apart
<1> QED
  BY <1>1, ApplicationTypes, NetworkTypes, TimerTypes, ClientStepTypes,
     ConnStepTypes
     DEF Client!Next, Client!Network

-----------------------------------------------------------------------------
(* The inductive invariant                                                 *)

(* Some functor of the queue q is about p; p is built only when nothing     *)
(* that was queued about it before is left.                                 *)
Names(q, p) == \E i \in 1..Len(q) : q[i].conn = p
BuildsFirst(q, p) ==
  \A i, j \in 1..Len(q) : q[i] = Client!Call("BuildConnect", p) /\ j < i => q[j].conn # p

Building(p) == Has(functors[connLoop], Client!Call("BuildConnect", p))
FirstBuilds(p) == BuildsFirst(functors[connLoop], p)
Starting(p) == Has(functors[ClientLoop], Client!Call("startTimer", p))
StartsOnce(p) == Once(functors[ClientLoop], Client!Call("startTimer", p))
InConnQueue(p) == Names(functors[connLoop], p)
InClientQueue(p) == Names(functors[ClientLoop], p)

(* The thread of the client's loop, or of the connection's, is in one of    *)
(* these steps of p.                                                        *)
ClientIn(ops, p) == frame[ClientLoop].op \in ops /\ frame[ClientLoop].conn = p
ConnIn(ops, p) == frame[connLoop].op \in ops /\ frame[connLoop].conn = p

(* Client!Alive(p), by where the references may be. *)
Held(p) ==
  \/ made[p].tie_ \/ made[p].callbacks
  \/ clientMap_ = p \/ p \in Client!ToSet(clientList_)
  \/ InConnQueue(p) \/ InClientQueue(p) \/ timers[p] > 0
  \/ frame[ClientLoop].conn = p \/ frame[connLoop].conn = p

Arriving == {"onConnect", "addToList", "checkOld", "setConn"}
Closing == {"onClose", "runAfter", "eraseKey"}
Timing == {"startTimer", "onRetry", "reconnect"}

(* An object that was not created yet is not referred to. *)
Fresh(p) ==
  ~made[p].born => ~Held(p) /\ made[p].bufev_ = "null" /\ ~made[p].bShutdownd_

(* The tie and the callbacks come and go together, and stay while there is  *)
(* a buffer.                                                                *)
Tied(p) ==
  /\ (made[p].tie_ <=> made[p].callbacks)
  /\ made[p].bufev_ # "null" => made[p].tie_

(* p is built once its tie is set, and the tie is not cut in between: what  *)
(* would cut it is queued behind.  A connection that arrives is up, one     *)
(* that closes still has its tie.                                           *)
Built(p) ==
  /\ Building(p) => made[p].tie_ /\ made[p].bufev_ = "null" /\ frame[connLoop].conn # p
  /\ FirstBuilds(p)
  /\ ConnIn({"BuildConnect"}, p) => made[p].tie_ /\ made[p].bufev_ = "null"
  /\ ConnIn(Arriving, p) => made[p].bufev_ = "up"
  /\ ConnIn(Closing, p) => made[p].tie_
  /\ ConnIn({"eraseKey"}, p) => made[p].bShutdownd_

(* There is one retry of p at a time, and only of a p that is closed.       *)
Retried(p) ==
  /\ timers[p] > 0 \/ Starting(p) \/ ClientIn(Timing, p)
       => ~made[p].tie_ \/ ConnIn({"finish"}, p)
  /\ timers[p] <= 1
  /\ timers[p] > 0 => ~Starting(p) /\ ~ClientIn(Timing, p)
  /\ Starting(p) => ~ClientIn(Timing, p)
  /\ StartsOnce(p)
  /\ ClientIn({"onRetry", "reconnect"}, p) =>
       /\ ~made[p].tie_
       /\ Client!Apart => ~InConnQueue(p) /\ frame[connLoop].conn # p

(* The connection that the map names has arrived, or is closed. *)
Mapped(p) ==
  clientMap_ = p =>
    \/ made[p].bufev_ = "up" /\ ~ConnIn(Arriving, p)
    \/ made[p].bufev_ = "null" /\ ~made[p].tie_

SoundConn(p) == Fresh(p) /\ Tied(p) /\ Built(p) /\ Retried(p) /\ Mapped(p)

(* As long as no client was added while an earlier one lingered, there is   *)
(* one connection at most, and none when one is created...                  *)
Single ==
  ~overlapped =>
    /\ \A p, q \in Conns : Held(p) /\ Held(q) => p = q
    /\ frame[ClientLoop].op = "addConn" => \A p \in Conns : ~Held(p)

(* ... a client that is wanted has its key, or is about to get it, and its  *)
(* connection was not shut down.                                            *)
Kept ==
  /\ frame[ClientLoop].op \in {"delOld", "delKey"} => ~wanted
  /\ wanted /\ ~overlapped =>
       /\ clientMap_ # "absent" \/ frame[ClientLoop].op = "addConn"
       /\ \A p \in Conns : Held(p) => ~made[p].bShutdownd_

(* With one loop: what the list holds between handlers, and within those    *)
(* that change it.                                                          *)
Serves(p) == clientMap_ = p /\ made[p].bufev_ = "up"
Listed ==
  ~Client!Apart /\ ~overlapped =>
    /\ frame[ClientLoop].op \in {"checkOld", "setConn"}
         => clientList_ = <<frame[ClientLoop].conn>>
    /\ frame[ClientLoop].op \in {"delKey", "eraseKey", "runAfter", "finish"}
         => clientList_ = <<>>
    /\ frame[ClientLoop].op \notin
         {"checkOld", "setConn", "delKey", "eraseKey", "runAfter", "finish"} =>
           /\ \A p \in Conns : Serves(p) => clientList_ = <<p>>
           /\ clientList_ = <<>> \/ \E p \in Conns : Serves(p) /\ clientList_ = <<p>>
    /\ frame[ClientLoop].op = "delOld" => clientMap_ = frame[ClientLoop].conn

AllSound == \A p \in Conns : SoundConn(p)
Parts == AllSound /\ Single /\ Kept /\ Listed
ClientIInv == ClientTypes /\ (Careful => Parts)

LEMMA AppendNames ==
  ASSUME NEW S, NEW q \in Seq(S), NEW g \in S, NEW p
  PROVE  /\ Names(Append(q, g), p) <=> Names(q, p) \/ g.conn = p
         /\ BuildsFirst(q, p) /\ (g = Client!Call("BuildConnect", p) => ~Names(q, p))
              => BuildsFirst(Append(q, g), p)
<1>1. /\ Len(q) \in Nat /\ Len(Append(q, g)) = Len(q) + 1
      /\ \A i \in 1..Len(q) : Append(q, g)[i] = q[i]
      /\ Append(q, g)[Len(q) + 1] = g
  BY LenProperties, AppendProperties
<1>2. \A i \in 1..Len(q) + 1 : i \in 1..Len(q) \/ i = Len(q) + 1
  BY <1>1
<1>3. \A i \in 1..Len(q) : i \in 1..Len(q) + 1
  BY <1>1
<1>4. Len(q) + 1 \in 1..Len(q) + 1
  BY <1>1
<1>5. Names(Append(q, g), p) <=> Names(q, p) \/ g.conn = p
  BY <1>1, <1>2, <1>3, <1>4 DEF Names
<1>6. ASSUME BuildsFirst(q, p), g = Client!Call("BuildConnect", p) => ~Names(q, p),
             NEW i \in 1..Len(q) + 1, NEW j \in 1..Len(q) + 1, j < i,
             Append(q, g)[i] = Client!Call("BuildConnect", p)
      PROVE  Append(q, g)[j].conn # p
  <2>1. j \in 1..Len(q)
    BY <1>1, <1>6
  <2>2. CASE i \in 1..Len(q)
    BY <1>1, <1>6, <2>1, <2>2 DEF BuildsFirst
  <2>3. CASE i = Len(q) + 1
    BY <1>1, <1>6, <2>1, <2>3 DEF Names
  <2> QED
    BY <1>2, <2>2, <2>3
<1> QED
  BY <1>1, <1>5, <1>6 DEF BuildsFirst

LEMMA TailNames ==
  ASSUME NEW S, NEW q \in Seq(S), q # <<>>, NEW p
  PROVE  /\ Names(q, p) <=> Head(q).conn = p \/ Names(Tail(q), p)
         /\ BuildsFirst(q, p) => BuildsFirst(Tail(q), p)
         /\ BuildsFirst(q, p) /\ Head(q).conn = p
              => ~Has(Tail(q), Client!Call("BuildConnect", p))
<1>1. /\ Len(q) \in Nat /\ Len(q) >= 1 /\ Len(Tail(q)) = Len(q) - 1
      /\ \A i \in 1..Len(q) - 1 : Tail(q)[i] = q[i + 1]
      /\ Head(q) = q[1]
  BY LenProperties, HeadTailProperties, EmptySeq
<1>2. \A i \in 1..Len(q) : i = 1 \/ (i - 1 \in 1..Len(q) - 1 /\ i - 1 + 1 = i)
  BY <1>1
<1>3. \A i \in 1..Len(q) - 1 : i + 1 \in 1..Len(q) /\ 1 < i + 1
  BY <1>1
<1>4. 1 \in 1..Len(q) /\ \A i, j \in 1..Len(q) - 1 : j < i => j + 1 < i + 1
  BY <1>1
<1>5. Names(q, p) <=> Head(q).conn = p \/ Names(Tail(q), p)
  <2>1. ASSUME Names(q, p) PROVE Head(q).conn = p \/ Names(Tail(q), p)
    <3>1. PICK i \in 1..Len(q) : q[i].conn = p
      BY <2>1 DEF Names
    <3>2. CASE i = 1
      BY <1>1, <3>1, <3>2
    <3>3. CASE i # 1
      <4>1. i - 1 \in 1..Len(q) - 1 /\ Tail(q)[i - 1] = q[i]
        BY <1>1, <1>2, <3>3
      <4> QED
        BY <1>1, <3>1, <4>1 DEF Names
    <3> QED
      BY <3>2, <3>3
  <2>2. ASSUME Head(q).conn = p \/ Names(Tail(q), p) PROVE Names(q, p)
    BY <1>1, <1>3, <1>4, <2>2 DEF Names
  <2> QED
    BY <2>1, <2>2
<1>6. BuildsFirst(q, p) => BuildsFirst(Tail(q), p)
  BY <1>1, <1>3, <1>4 DEF BuildsFirst
<1>7. BuildsFirst(q, p) /\ Head(q).conn = p => ~Has(Tail(q), Client!Call("BuildConnect", p))
  BY <1>1, <1>3, <1>4 DEF BuildsFirst, Has
<1> QED
  BY <1>5, <1>6, <1>7

(* The functors of the two loops. *)
LEMMA QueueTyped ==
  ASSUME LoopsTyped
  PROVE  /\ functors[ClientLoop] \in Seq(AppCalls \cup StartCalls \cup CloseCalls)
         /\ functors[connLoop] \in Seq(AppCalls \cup CloseCalls \cup BuildCalls)
<1>1. \A S, T : S \subseteq T => Seq(S) \subseteq Seq(T)
  OBVIOUS
<1>2. CASE Client!Apart
  <2>1. /\ functors[ClientLoop] \in Seq(AppCalls \cup StartCalls)
        /\ functors[connLoop] \in Seq(CloseCalls \cup BuildCalls)
    BY <1>2 DEF LoopsTyped, LoopTypes
  <2> QED
    BY <1>1, <2>1
<1>3. CASE ~Client!Apart
  <2>1. functors[ClientLoop] \in Seq(AppCalls \cup CloseCalls) /\ connLoop = ClientLoop
    BY <1>3 DEF LoopsTyped, LoopTypes, Client!Apart
  <2> QED
    BY <1>1, <2>1
<1> QED
  BY <1>2, <1>3

(* What a functor that is queued changes. *)
LEMMA PushView ==
  ASSUME ClientTypes, connLoop' = connLoop, NEW l \in {ClientLoop, connLoop},
         NEW g, functors' = Client!Push(l, g), NEW p
  PROVE  /\ Building(p)' <=> Building(p) \/ (l = connLoop /\ g = Client!Call("BuildConnect", p))
         /\ FirstBuilds(p) /\ (l = connLoop /\ g = Client!Call("BuildConnect", p) => ~InConnQueue(p))
              => FirstBuilds(p)'
         /\ Starting(p)' <=> Starting(p) \/ (l = ClientLoop /\ g = Client!Call("startTimer", p))
         /\ StartsOnce(p) /\ (l = ClientLoop /\ g = Client!Call("startTimer", p) => ~Starting(p))
              => StartsOnce(p)'
         /\ InConnQueue(p)' <=> InConnQueue(p) \/ (l = connLoop /\ g.conn = p)
         /\ InClientQueue(p)' <=> InClientQueue(p) \/ (l = ClientLoop /\ g.conn = p)
<1> DEFINE AnyCall == AppCalls \cup CloseCalls \cup BuildCalls \cup StartCalls \cup {g}
<1>1. LoopsTyped /\ ClientLoop \in Client!ClientLoops /\ connLoop \in Client!ClientLoops
  BY TwoLoops DEF ClientTypes
<1>2. functors[ClientLoop] \in Seq(AnyCall) /\ functors[connLoop] \in Seq(AnyCall) /\ g \in AnyCall
  <2>1. \A S, T : S \subseteq T => Seq(S) \subseteq Seq(T)
    OBVIOUS
  <2> QED
    BY <1>1, <2>1, QueueTyped
<1> HIDE DEF AnyCall
<1>3. \A k \in {ClientLoop, connLoop} :
        functors'[k] = IF k = l THEN Append(functors[k], g) ELSE functors[k]
  BY <1>1 DEF LoopsTyped, Client!Push
<1>4. \A k \in {ClientLoop, connLoop} :
        /\ \A f : Has(Append(functors[k], g), f) <=> Has(functors[k], f) \/ f = g
        /\ \A f : Once(functors[k], f) /\ (f = g => ~Has(functors[k], f))
                    => Once(Append(functors[k], g), f)
        /\ Names(Append(functors[k], g), p) <=> Names(functors[k], p) \/ g.conn = p
        /\ BuildsFirst(functors[k], p) /\ (g = Client!Call("BuildConnect", p) => ~Names(functors[k], p))
             => BuildsFirst(Append(functors[k], g), p)
  BY <1>2, AppendHas, AppendNames
<1> QED
  BY <1>3, <1>4
     DEF Building, FirstBuilds, Starting, StartsOnce, InConnQueue, InClientQueue

(* What a functor that is taken from its queue changes. *)
LEMMA TakeView ==
  ASSUME ClientTypes, NEW l \in {ClientLoop, connLoop}, Client!NextFunctor(l), NEW p
  PROVE  /\ Building(p) <=> Building(p)' \/ (l = connLoop /\ Head(functors[l]) = Client!Call("BuildConnect", p))
         /\ FirstBuilds(p) => FirstBuilds(p)'
         /\ FirstBuilds(p) /\ l = connLoop /\ Head(functors[l]).conn = p => ~Building(p)'
         /\ Starting(p) <=> Starting(p)' \/ (l = ClientLoop /\ Head(functors[l]) = Client!Call("startTimer", p))
         /\ StartsOnce(p) => StartsOnce(p)'
         /\ StartsOnce(p) /\ l = ClientLoop /\ Head(functors[l]) = Client!Call("startTimer", p)
              => ~Starting(p)'
         /\ InConnQueue(p) <=> InConnQueue(p)' \/ (l = connLoop /\ Head(functors[l]).conn = p)
         /\ InClientQueue(p) <=> InClientQueue(p)' \/ (l = ClientLoop /\ Head(functors[l]).conn = p)
<1> DEFINE AnyCall == AppCalls \cup CloseCalls \cup BuildCalls \cup StartCalls
<1>1. LoopsTyped /\ ClientLoop \in Client!ClientLoops /\ connLoop \in Client!ClientLoops
  BY TwoLoops DEF ClientTypes
<1>2. functors[ClientLoop] \in Seq(AnyCall) /\ functors[connLoop] \in Seq(AnyCall)
  <2>1. \A S, T : S \subseteq T => Seq(S) \subseteq Seq(T)
    OBVIOUS
  <2> QED
    BY <1>1, <2>1, QueueTyped
<1> HIDE DEF AnyCall
<1>3. /\ connLoop' = connLoop /\ functors[l] # <<>>
      /\ \A k \in {ClientLoop, connLoop} :
           functors'[k] = IF k = l THEN Tail(functors[k]) ELSE functors[k]
  BY <1>1 DEF LoopsTyped, Client!NextFunctor
<1>4. functors[l] \in Seq(AnyCall)
  BY <1>2
<1>5. /\ \A f : Has(functors[l], f) <=> f = Head(functors[l]) \/ Has(Tail(functors[l]), f)
      /\ \A f : Once(functors[l], f) => Once(Tail(functors[l]), f)
      /\ \A f : Once(functors[l], f) /\ f = Head(functors[l]) => ~Has(Tail(functors[l]), f)
      /\ Names(functors[l], p) <=> Head(functors[l]).conn = p \/ Names(Tail(functors[l]), p)
      /\ BuildsFirst(functors[l], p) => BuildsFirst(Tail(functors[l]), p)
      /\ BuildsFirst(functors[l], p) /\ Head(functors[l]).conn = p
           => ~Has(Tail(functors[l]), Client!Call("BuildConnect", p))
  BY <1>3, <1>4, TailHas, TailNames
<1> QED
  BY <1>3, <1>5
     DEF Building, FirstBuilds, Starting, StartsOnce, InConnQueue, InClientQueue

(* What stays when the queues stay. *)
LEMMA SameView ==
  ASSUME connLoop' = connLoop, functors' = functors, NEW p
  PROVE  /\ Building(p)' <=> Building(p)
         /\ FirstBuilds(p)' <=> FirstBuilds(p)
         /\ Starting(p)' <=> Starting(p)
         /\ StartsOnce(p)' <=> StartsOnce(p)
         /\ InConnQueue(p)' <=> InConnQueue(p)
         /\ InClientQueue(p)' <=> InClientQueue(p)
BY DEF Building, FirstBuilds, Starting, StartsOnce, InConnQueue, InClientQueue

(* The connections that are alive. *)
LEMMA HeldIsAlive ==
  ASSUME ClientTypes, NEW p \in Conns
  PROVE  Client!Alive(p) <=> Held(p)
<1>1. /\ ClientLoop \in Client!ClientLoops /\ connLoop \in Client!ClientLoops
      /\ \A l \in Client!ClientLoops \ {ClientLoop, connLoop} :
           functors[l] = <<>> /\ frame[l] = Client!Idle
      /\ functors[ClientLoop] \in Seq(AppCalls \cup StartCalls \cup CloseCalls)
      /\ functors[connLoop] \in Seq(AppCalls \cup CloseCalls \cup BuildCalls)
  BY TwoLoops, QueueTyped DEF ClientTypes, LoopsTyped
<1>2. /\ DOMAIN functors[ClientLoop] = 1..Len(functors[ClientLoop])
      /\ DOMAIN functors[connLoop] = 1..Len(functors[connLoop])
  BY <1>1, LenProperties
<1>3. Client!Queued(p) <=> InConnQueue(p) \/ InClientQueue(p)
  <2>1. ASSUME NEW l \in Client!ClientLoops, NEW i \in DOMAIN functors[l], functors[l][i].conn = p
        PROVE  InConnQueue(p) \/ InClientQueue(p)
    BY <1>1, <1>2, <2>1 DEF InConnQueue, InClientQueue, Names
  <2> QED
    BY <1>1, <1>2, <2>1 DEF Client!Queued, InConnQueue, InClientQueue, Names
<1>4. (\E l \in Client!ClientLoops : frame[l].conn = p)
        <=> frame[ClientLoop].conn = p \/ frame[connLoop].conn = p
  BY <1>1, NamesDiffer, ClientCallFields
<1> QED
  BY <1>3, <1>4 DEF Client!Alive, Held

(* What the thread of each loop may be in. *)
LEMMA FrameFacts ==
  ASSUME ClientTypes
  PROVE  /\ ~Client!Apart => ClientLoop = connLoop
         /\ Client!Apart => /\ frame[ClientLoop].op \notin Client!ConnSteps
                            /\ frame[connLoop].op \in Client!ConnSteps \cup {"idle"}
         /\ \A l \in {ClientLoop, connLoop} :
              frame[l].op \in {"idle", "addClientInLoop", "delClientInLoop"} => frame[l].conn = none
         /\ \A l \in {ClientLoop, connLoop} : frame[l].op = "idle" => frame[l] = Client!Idle
BY DEF ClientTypes, LoopsTyped, LoopTypes, Client!Apart, ClientFrames, ConnFrames,
       AppCalls, Client!Idle, Client!ConnSteps

(* Loop l goes on with g. *)
LEMMA FrameStep ==
  ASSUME ClientTypes, connLoop' = connLoop, NEW l \in {ClientLoop, connLoop}, NEW g,
         frame' = [frame EXCEPT ![l] = g]
  PROVE  /\ frame'[l] = g
         /\ \A k \in {ClientLoop, connLoop} : k # l => frame'[k] = frame[k]
BY TwoLoops DEF ClientTypes, LoopsTyped


-----------------------------------------------------------------------------
(* Each step of the client preserves the parts of the invariant.  A lemma   *)
(* tells what the step changes (<1>2, <1>3), then goes through the parts.   *)

LEMMA finishParts ==
  ASSUME ClientTypes, Careful, Parts, Client!finish
  PROVE  Parts'
<1> DEFINE q == frame[connLoop].conn
<1> USE ClientCallFields, NamesDiffer
<1>1. q \in Conns /\ frame[connLoop].op = "finish"
  BY FramesTyped DEF Client!finish, Client!At, Client!ConnSteps
<1>2. /\ connLoop' = connLoop /\ functors' = functors /\ timers' = timers
      /\ clientMap_' = clientMap_ /\ clientList_' = clientList_
      /\ wanted' = wanted /\ overlapped' = overlapped
      /\ \A p \in Conns : made'[p] = IF p = q THEN Finished(made[q]) ELSE made[p]
  BY <1>1 DEF Client!finish, ClientTypes, Finished
<1>3. /\ frame'[connLoop].op \in {"idle", "getfd"}
      /\ frame'[connLoop].conn \in {none, q}
      /\ ClientLoop # connLoop => frame'[ClientLoop] = frame[ClientLoop]
  <2>1. PICK g \in {Client!Idle, Client!Call("getfd", q)} :
          frame' = [frame EXCEPT ![connLoop] = g]
    BY DEF Client!finish, Client!Continue, Client!Done
  <2>2. /\ frame'[connLoop] = g
        /\ ClientLoop # connLoop => frame'[ClientLoop] = frame[ClientLoop]
    BY <1>2, <2>1, FrameStep
  <2>3. g.op \in {"idle", "getfd"} /\ g.conn \in {none, q}
    BY <2>1
  <2> QED
    BY <2>2, <2>3
<1>4. /\ Finished(made[q]).bufev_ = "null"
      /\ ~Finished(made[q]).tie_ /\ ~Finished(made[q]).callbacks
      /\ Finished(made[q]).born = made[q].born
      /\ Finished(made[q]).bShutdownd_ = made[q].bShutdownd_
  BY <1>1, MadeUpdates DEF ClientTypes
<1>5. AllSound /\ Single /\ Kept /\ Listed
  BY DEF Parts
<1> HIDE DEF q
<1>6. ASSUME NEW p \in Conns
      PROVE  /\ SoundConn(p)' /\ (Held(p)' => Held(p))
             /\ made'[p].bShutdownd_ = made[p].bShutdownd_
  <2>1. (Held(p)' => Held(p)) /\ made'[p].bShutdownd_ = made[p].bShutdownd_
    BY <1>1, <1>2, <1>3, <1>4, <1>6, SameView DEF Held, q
  <2>2. Fresh(p)' /\ Tied(p)'
    BY <1>2, <1>4, <1>5, <1>6, <2>1 DEF AllSound, SoundConn, Fresh, Tied
  <2>3. Built(p)'
    BY <1>1, <1>2, <1>3, <1>4, <1>5, <1>6, SameView, FrameFacts
       DEF AllSound, SoundConn, Built, ConnIn, Arriving, Closing, q
  <2>4. Retried(p)'
    BY <1>1, <1>2, <1>3, <1>4, <1>5, <1>6, SameView, FrameFacts
       DEF AllSound, SoundConn, Retried, ClientIn, ConnIn, Timing, q, Client!Apart
  <2>5. Mapped(p)'
    BY <1>1, <1>2, <1>3, <1>4, <1>5, <1>6
       DEF AllSound, SoundConn, Mapped, ConnIn, Arriving, q
  <2> QED
    BY <2>1, <2>2, <2>3, <2>4, <2>5 DEF SoundConn
<1>7. Single'
  BY <1>2, <1>3, <1>5, <1>6 DEF Single
<1>8. Kept'
  BY <1>1, <1>2, <1>3, <1>5, <1>6 DEF Kept, q
<1>9. Listed'
  BY <1>1, <1>2, <1>3, <1>4, <1>5, <1>6, FrameFacts
     DEF Listed, Client!Apart, Serves, Single, Held, AllSound, SoundConn, Tied,
         q
<1> QED
  BY <1>6, <1>7, <1>8, <1>9 DEF Parts, AllSound

LEMMA eraseKeyParts ==
  ASSUME ClientTypes, Careful, Parts, Client!eraseKey
  PROVE  Parts'
<1> DEFINE q == frame[connLoop].conn
<1> USE ClientCallFields, NamesDiffer
<1>1. q \in Conns /\ frame[connLoop].op = "eraseKey"
  BY FramesTyped, FrameFacts DEF Client!eraseKey, Client!At, Client!ConnSteps
<1>2. /\ connLoop' = connLoop
      /\ functors' = functors
      /\ timers' = timers
      /\ made' = made
      /\ clientMap_' = "absent"
      /\ clientList_' = clientList_
      /\ wanted' = wanted
      /\ overlapped' = overlapped
      /\ frame' = [frame EXCEPT ![connLoop] = Client!Call("finish", q)]
  BY <1>1 DEF Client!eraseKey, Client!Continue, Client!Done, ClientTypes
<1>3. /\ frame'[connLoop] = Client!Call("finish", q)
      /\ connLoop # ClientLoop => frame'[ClientLoop] = frame[ClientLoop]
  BY <1>1, <1>2, FrameStep DEF Client!Apart
<1>4. AllSound /\ Single /\ Kept /\ Listed
  BY DEF Parts
<1>5. Held(q) /\ made[q].bShutdownd_
  BY <1>1, <1>4 DEF AllSound, SoundConn, Built, ConnIn, Held
<1> HIDE DEF q
<1>6. ASSUME NEW p \in Conns
      PROVE  /\ SoundConn(p)' /\ (Held(p)' => Held(p))
             /\ made'[p].bShutdownd_ = made[p].bShutdownd_
  <2>1. (Held(p)' => Held(p)) /\ made'[p].bShutdownd_ = made[p].bShutdownd_
    BY <1>2, <1>3, <1>5, <1>6, SameView DEF Held
  <2>2. Fresh(p)'
    BY <1>2, <1>4, <1>6, <2>1 DEF AllSound, SoundConn, Fresh, Held
  <2>3. Tied(p)'
    BY <1>2, <1>4, <1>6 DEF AllSound, SoundConn, Tied
  <2>4. Built(p)'
    BY <1>2, <1>3, <1>4, <1>5, <1>6, SameView
       DEF AllSound, SoundConn, Built, ConnIn, Arriving, Closing, q
  <2>5. Retried(p)'
    BY <1>1, <1>2, <1>3, <1>4, <1>5, <1>6, SameView
       DEF AllSound, SoundConn, Retried, ClientIn, ConnIn, Timing, Client!Apart,
           q
  <2>6. Mapped(p)'
    BY <1>1, <1>2, <1>3, <1>4, <1>6 DEF AllSound, SoundConn, Mapped
  <2> QED
    BY <2>1, <2>2, <2>3, <2>4, <2>5, <2>6 DEF SoundConn
<1>7. Single'
  BY <1>2, <1>3, <1>4, <1>6 DEF Single
<1>8. Kept'
  BY <1>1, <1>2, <1>3, <1>4, <1>5, <1>6 DEF Kept, q
<1>9. Listed'
  BY <1>1, <1>2, <1>3, <1>4, <1>5, <1>6, FrameFacts
     DEF Listed, Serves, ClientTypes, Client!Apart
<1> QED
  BY <1>6, <1>7, <1>8, <1>9 DEF Parts, AllSound

LEMMA setConnParts ==
  ASSUME ClientTypes, Careful, Parts, Client!setConn
  PROVE  Parts'
<1> DEFINE q == frame[connLoop].conn
<1> USE ClientCallFields, NamesDiffer
<1>1. q \in Conns /\ frame[connLoop].op = "setConn"
  BY FramesTyped, FrameFacts DEF Client!setConn, Client!At, Client!ConnSteps
<1>2. /\ connLoop' = connLoop
      /\ functors' = functors
      /\ timers' = timers
      /\ made' = made
      /\ clientMap_' = q
      /\ clientList_' = clientList_
      /\ wanted' = wanted
      /\ overlapped' = overlapped
      /\ frame' = [frame EXCEPT ![connLoop] = Client!Idle]
  BY <1>1 DEF Client!setConn, Client!Continue, Client!Done, ClientTypes
<1>3. /\ frame'[connLoop] = Client!Idle
      /\ connLoop # ClientLoop => frame'[ClientLoop] = frame[ClientLoop]
  BY <1>1, <1>2, FrameStep DEF Client!Apart
<1>4. AllSound /\ Single /\ Kept /\ Listed
  BY DEF Parts
<1> HIDE DEF q
<1>5. ASSUME NEW p \in Conns
      PROVE  /\ SoundConn(p)' /\ (Held(p)' => Held(p))
             /\ made'[p].bShutdownd_ = made[p].bShutdownd_
  <2>1. (Held(p)' => Held(p)) /\ made'[p].bShutdownd_ = made[p].bShutdownd_
    BY <1>2, <1>3, <1>5, SameView DEF Held, q
  <2>2. Fresh(p)'
    BY <1>2, <1>4, <1>5, <2>1 DEF AllSound, SoundConn, Fresh, Held
  <2>3. Tied(p)'
    BY <1>2, <1>4, <1>5 DEF AllSound, SoundConn, Tied
  <2>4. Built(p)'
    BY <1>2, <1>3, <1>4, <1>5, SameView DEF AllSound, SoundConn, Built, ConnIn
  <2>5. Retried(p)'
    BY <1>1, <1>2, <1>3, <1>4, <1>5, SameView, FrameFacts
       DEF AllSound, SoundConn, Retried, ClientIn, ConnIn
  <2>6. Mapped(p)'
    BY <1>1, <1>2, <1>3, <1>4, <1>5
       DEF AllSound, SoundConn, Mapped, Built, Tied, ConnIn, Arriving, q
  <2> QED
    BY <2>1, <2>2, <2>3, <2>4, <2>5, <2>6 DEF SoundConn
<1>6. Single'
  BY <1>2, <1>3, <1>4, <1>5 DEF Single
<1>7. Kept'
  BY <1>1, <1>2, <1>3, <1>4, <1>5 DEF Kept, q
<1>8. Listed'
  BY <1>1, <1>2, <1>3, <1>4, <1>5, FrameFacts
     DEF Listed, Serves, Single, Held, AllSound, SoundConn, Tied, Mapped, Built,
         ConnIn, Arriving, ClientTypes, Client!Apart, q
<1> QED
  BY <1>5, <1>6, <1>7, <1>8 DEF Parts, AllSound

LEMMA addToListParts ==
  ASSUME ClientTypes, Careful, Parts, Client!addToList
  PROVE  Parts'
<1> DEFINE q == frame[connLoop].conn
<1> USE ClientCallFields, NamesDiffer
<1>1. q \in Conns /\ frame[connLoop].op = "addToList"
  BY FramesTyped, FrameFacts DEF Client!addToList, Client!At, Client!ConnSteps
<1>2. /\ connLoop' = connLoop
      /\ functors' = functors
      /\ timers' = timers
      /\ made' = made
      /\ clientMap_' = clientMap_
      /\ clientList_' = Append(clientList_, q)
      /\ wanted' = wanted
      /\ overlapped' = overlapped
      /\ frame' = [frame EXCEPT ![connLoop] = Client!Call("checkOld", q)]
  BY <1>1 DEF Client!addToList, Client!Continue, Client!Done, ClientTypes
<1>3. /\ frame'[connLoop] = Client!Call("checkOld", q)
      /\ connLoop # ClientLoop => frame'[ClientLoop] = frame[ClientLoop]
  BY <1>1, <1>2, FrameStep DEF Client!Apart
<1>4. AllSound /\ Single /\ Kept /\ Listed
  BY DEF Parts
<1>5. /\ clientList_ \in Seq(Conns)
      /\ \A p : p \in Client!ToSet(clientList_')
                  => p \in Client!ToSet(clientList_) \/ p = q
  BY <1>1, <1>2, AppendProperties DEF ClientTypes, Client!ToSet
<1>6. ~overlapped /\ ~Client!Apart => clientList_ = <<>>
  BY <1>1, <1>4, FrameFacts
     DEF Listed, Serves, Single, Held, AllSound, SoundConn, Tied, Mapped,
         ConnIn, Arriving
<1>7. Append(<<>>, q) = <<q>>
  OBVIOUS
<1> HIDE DEF q
<1>8. ASSUME NEW p \in Conns
      PROVE  /\ SoundConn(p)' /\ (Held(p)' => Held(p))
             /\ made'[p].bShutdownd_ = made[p].bShutdownd_
  <2>1. (Held(p)' => Held(p)) /\ made'[p].bShutdownd_ = made[p].bShutdownd_
    BY <1>2, <1>3, <1>5, <1>6, <1>7, <1>8, SameView DEF Held, q
  <2>2. Fresh(p)'
    BY <1>2, <1>4, <1>8, <2>1 DEF AllSound, SoundConn, Fresh, Held
  <2>3. Tied(p)'
    BY <1>2, <1>4, <1>8 DEF AllSound, SoundConn, Tied
  <2>4. Built(p)'
    BY <1>1, <1>2, <1>3, <1>4, <1>5, <1>6, <1>7, <1>8, SameView
       DEF AllSound, SoundConn, Built, ConnIn, Arriving, Closing, q
  <2>5. Retried(p)'
    BY <1>1, <1>2, <1>3, <1>4, <1>5, <1>6, <1>7, <1>8, SameView
       DEF AllSound, SoundConn, Retried, ClientIn, ConnIn, Timing, Client!Apart,
           q
  <2>6. Mapped(p)'
    BY <1>1, <1>2, <1>3, <1>4, <1>8
       DEF AllSound, SoundConn, Mapped, Built, Tied, ConnIn, Arriving, q
  <2> QED
    BY <2>1, <2>2, <2>3, <2>4, <2>5, <2>6 DEF SoundConn
<1>9. Single'
  BY <1>2, <1>3, <1>4, <1>8 DEF Single
<1>10. Kept'
  BY <1>1, <1>2, <1>3, <1>4, <1>8 DEF Kept, q
<1>11. Listed'
  BY <1>1, <1>2, <1>3, <1>4, <1>5, <1>6, <1>7, <1>8, FrameFacts
     DEF Listed, Serves, ClientTypes, Client!Apart
<1> QED
  BY <1>8, <1>9, <1>10, <1>11 DEF Parts, AllSound

LEMMA onCloseParts ==
  ASSUME ClientTypes, Careful, Parts, Client!onClose
  PROVE  Parts'
<1> DEFINE q == frame[connLoop].conn
<1> USE ClientCallFields, NamesDiffer
<1>1. q \in Conns /\ frame[connLoop].op = "onClose"
  BY FramesTyped, FrameFacts DEF Client!onClose, Client!At, Client!ConnSteps
<1>2. /\ connLoop' = connLoop
      /\ functors' = functors
      /\ timers' = timers
      /\ made' = made
      /\ clientMap_' = clientMap_
      /\ clientList_' = Client!RemoveFirst(clientList_, q)
      /\ wanted' = wanted
      /\ overlapped' = overlapped
      /\ frame' = [frame EXCEPT ![connLoop] =
                      Client!Call(IF made[q].bShutdownd_ THEN "eraseKey" ELSE "runAfter", q)]
  BY <1>1 DEF Client!onClose, Client!Continue, Client!Done, ClientTypes
<1>3. /\ frame'[connLoop] =
            Client!Call(IF made[q].bShutdownd_ THEN "eraseKey" ELSE "runAfter", q)
      /\ connLoop # ClientLoop => frame'[ClientLoop] = frame[ClientLoop]
  BY <1>1, <1>2, FrameStep DEF Client!Apart
<1>4. AllSound /\ Single /\ Kept /\ Listed
  BY DEF Parts
<1>5. /\ Client!ToSet(clientList_') \subseteq Client!ToSet(clientList_)
      /\ clientList_ = <<>> \/ clientList_ = <<q>> => clientList_' = <<>>
  BY <1>2, RemoveFirstFacts DEF ClientTypes
<1> HIDE DEF q
<1>6. ASSUME NEW p \in Conns
      PROVE  /\ SoundConn(p)' /\ (Held(p)' => Held(p))
             /\ made'[p].bShutdownd_ = made[p].bShutdownd_
  <2>1. (Held(p)' => Held(p)) /\ made'[p].bShutdownd_ = made[p].bShutdownd_
    BY <1>2, <1>3, <1>5, <1>6, SameView DEF Held, q
  <2>2. Fresh(p)'
    BY <1>2, <1>4, <1>6, <2>1 DEF AllSound, SoundConn, Fresh, Held
  <2>3. Tied(p)'
    BY <1>2, <1>4, <1>6 DEF AllSound, SoundConn, Tied
  <2>4. Built(p)'
    BY <1>1, <1>2, <1>3, <1>4, <1>5, <1>6, SameView
       DEF AllSound, SoundConn, Built, ConnIn, Arriving, Closing, q
  <2>5. Retried(p)'
    <3>1. /\ frame'[connLoop].op \in {"eraseKey", "runAfter"}
          /\ frame'[connLoop].conn \in {q, none}
      BY <1>3
    <3>2. /\ ~ConnIn({"finish"}, p)
          /\ frame'[connLoop].conn = p => frame[connLoop].conn = p
      BY <1>1, <3>1 DEF ConnIn, q
    <3>3. /\ ClientIn(Timing, p)' => ClientIn(Timing, p)
          /\ ClientIn({"onRetry", "reconnect"}, p)' => ClientIn({"onRetry", "reconnect"}, p)
      BY <1>2, <1>3, <3>1, FrameFacts DEF ClientIn, Timing, Client!Apart
    <3> QED
      BY <1>2, <1>4, <3>2, <3>3, SameView DEF AllSound, SoundConn, Retried, Client!Apart
  <2>6. Mapped(p)'
    BY <1>1, <1>2, <1>3, <1>4, <1>6
       DEF AllSound, SoundConn, Mapped, Built, Tied, ConnIn, Arriving, q
  <2> QED
    BY <2>1, <2>2, <2>3, <2>4, <2>5, <2>6 DEF SoundConn
<1>7. Single'
  BY <1>2, <1>3, <1>4, <1>6 DEF Single
<1>8. Kept'
  BY <1>1, <1>2, <1>3, <1>4, <1>6 DEF Kept, q
<1>9. Listed'
  BY <1>1, <1>2, <1>3, <1>4, <1>5, <1>6, FrameFacts
     DEF Listed, Serves, Single, Held, AllSound, SoundConn, Tied, Mapped,
         ConnIn, ClientTypes, Client!Apart
<1> QED
  BY <1>6, <1>7, <1>8, <1>9 DEF Parts, AllSound

LEMMA delKeyParts ==
  ASSUME ClientTypes, Careful, Parts, Client!delKey
  PROVE  Parts'
<1> USE ClientCallFields, NamesDiffer
<1>1. frame[ClientLoop].op = "delKey"
  BY FramesTyped, FrameFacts DEF Client!delKey, Client!At, Client!ConnSteps
<1>2. /\ connLoop' = connLoop
      /\ functors' = functors
      /\ timers' = timers
      /\ made' = made
      /\ clientMap_' = "absent"
      /\ clientList_' = clientList_
      /\ wanted' = wanted
      /\ overlapped' = overlapped
      /\ frame' = [frame EXCEPT ![ClientLoop] = Client!Idle]
  BY <1>1 DEF Client!delKey, Client!Continue, Client!Done, ClientTypes
<1>3. /\ frame'[ClientLoop] = Client!Idle
      /\ ClientLoop # connLoop => frame'[connLoop] = frame[connLoop]
  BY <1>1, <1>2, FrameStep DEF Client!Apart
<1>4. AllSound /\ Single /\ Kept /\ Listed
  BY DEF Parts
<1>5. ASSUME NEW p \in Conns
      PROVE  /\ SoundConn(p)' /\ (Held(p)' => Held(p))
             /\ made'[p].bShutdownd_ = made[p].bShutdownd_
  BY <1>1, <1>2, <1>3, <1>4, <1>5, SameView, FrameFacts
     DEF AllSound, SoundConn, Fresh, Tied, Built, Retried, Mapped, Held,
         ClientIn, ConnIn, Arriving, Closing, Timing, Client!Apart
<1>6. Single'
  BY <1>2, <1>3, <1>4, <1>5 DEF Single
<1>7. Kept'
  BY <1>1, <1>2, <1>3, <1>4, <1>5 DEF Kept
<1>8. Listed'
  BY <1>1, <1>2, <1>3, <1>4, <1>5, FrameFacts
     DEF Listed, Serves, ClientTypes, Client!Apart
<1> QED
  BY <1>5, <1>6, <1>7, <1>8 DEF Parts, AllSound

LEMMA startTimerParts ==
  ASSUME ClientTypes, Careful, Parts, Client!startTimer
  PROVE  Parts'
<1> DEFINE q == frame[ClientLoop].conn
<1> USE ClientCallFields, NamesDiffer
<1>1. q \in Conns /\ frame[ClientLoop].op = "startTimer"
  BY FramesTyped, FrameFacts DEF Client!startTimer, Client!At, Client!ConnSteps
<1>2. /\ connLoop' = connLoop
      /\ functors' = functors
      /\ \A p \in Conns : timers'[p] = IF p = q THEN timers[p] + 1 ELSE timers[p]
      /\ made' = made
      /\ clientMap_' = clientMap_
      /\ clientList_' = clientList_
      /\ wanted' = wanted
      /\ overlapped' = overlapped
      /\ frame' = [frame EXCEPT ![ClientLoop] = Client!Idle]
  BY <1>1 DEF Client!startTimer, Client!Continue, Client!Done, ClientTypes
<1>3. /\ frame'[ClientLoop] = Client!Idle
      /\ ClientLoop # connLoop => frame'[connLoop] = frame[connLoop]
  BY <1>1, <1>2, FrameStep DEF Client!Apart
<1>4. AllSound /\ Single /\ Kept /\ Listed
  BY DEF Parts
<1>5. \A p \in Conns : timers[p] \in Nat
  BY DEF ClientTypes
<1> HIDE DEF q
<1>6. ASSUME NEW p \in Conns
      PROVE  /\ SoundConn(p)' /\ (Held(p)' => Held(p))
             /\ made'[p].bShutdownd_ = made[p].bShutdownd_
  <2>1. (Held(p)' => Held(p)) /\ made'[p].bShutdownd_ = made[p].bShutdownd_
    BY <1>2, <1>3, <1>6, SameView DEF Held, q
  <2>2. Fresh(p)'
    BY <1>2, <1>4, <1>6, <2>1 DEF AllSound, SoundConn, Fresh, Held
  <2>3. Tied(p)'
    BY <1>2, <1>4, <1>6 DEF AllSound, SoundConn, Tied
  <2>4. Built(p)'
    BY <1>2, <1>3, <1>4, <1>5, <1>6, SameView
       DEF AllSound, SoundConn, Built, ConnIn
  <2>5. Retried(p)'
    BY <1>1, <1>2, <1>3, <1>4, <1>5, <1>6, SameView
       DEF AllSound, SoundConn, Retried, ClientIn, ConnIn, Timing, Client!Apart,
           q
  <2>6. Mapped(p)'
    BY <1>1, <1>2, <1>3, <1>4, <1>6 DEF AllSound, SoundConn, Mapped, ConnIn, q
  <2> QED
    BY <2>1, <2>2, <2>3, <2>4, <2>5, <2>6 DEF SoundConn
<1>7. Single'
  BY <1>2, <1>3, <1>4, <1>6 DEF Single
<1>8. Kept'
  BY <1>1, <1>2, <1>3, <1>4, <1>6 DEF Kept, q
<1>9. Listed'
  BY <1>1, <1>2, <1>3, <1>4, <1>5, <1>6, FrameFacts
     DEF Listed, Serves, ClientTypes, Client!Apart
<1> QED
  BY <1>6, <1>7, <1>8, <1>9 DEF Parts, AllSound

LEMMA closeInLoopParts ==
  ASSUME ClientTypes, Careful, Parts, Client!closeInLoop
  PROVE  Parts'
<1> DEFINE q == frame[connLoop].conn
<1> USE ClientCallFields, NamesDiffer
<1>1. q \in Conns /\ frame[connLoop].op = "closeInLoop"
  BY FramesTyped, FrameFacts DEF Client!closeInLoop, Client!At, Client!ConnSteps
<1>2. /\ connLoop' = connLoop
      /\ functors' = functors
      /\ timers' = timers
      /\ made' = made
      /\ clientMap_' = clientMap_
      /\ clientList_' = clientList_
      /\ wanted' = wanted
      /\ overlapped' = overlapped
      /\ frame' = [frame EXCEPT ![connLoop] =
                      (IF made[q].bClosed_
                         THEN Client!Idle
                         ELSE Client!Call(IF made[q].callbacks THEN "onClose" ELSE "finish", q))]
  BY <1>1 DEF Client!closeInLoop, Client!Continue, Client!Done, ClientTypes
<1>3. /\ frame'[connLoop] =
           (IF made[q].bClosed_
              THEN Client!Idle
              ELSE Client!Call(IF made[q].callbacks THEN "onClose" ELSE "finish", q))
      /\ connLoop # ClientLoop => frame'[ClientLoop] = frame[ClientLoop]
  BY <1>1, <1>2, FrameStep DEF Client!Apart
<1>4. AllSound /\ Single /\ Kept /\ Listed
  BY DEF Parts
<1>5. ~overlapped /\ ~Client!Apart /\ ~made[q].callbacks => clientList_ = <<>>
  BY <1>1, <1>4, FrameFacts
     DEF Listed, Serves, Single, Held, AllSound, SoundConn, Tied, ConnIn
<1>6. \/ frame'[connLoop].op \in {"idle", "onClose"}
      \/ frame'[connLoop].op = "finish" /\ ~made[q].callbacks
  BY <1>3
<1>7. /\ clientMap_' = clientMap_ /\ clientList_' = clientList_ /\ made' = made
      /\ overlapped' = overlapped /\ connLoop' = connLoop
  BY <1>2
<1> HIDE DEF q
<1>8. ASSUME NEW p \in Conns
      PROVE  /\ SoundConn(p)' /\ (Held(p)' => Held(p))
             /\ made'[p].bShutdownd_ = made[p].bShutdownd_
  <2>1. (Held(p)' => Held(p)) /\ made'[p].bShutdownd_ = made[p].bShutdownd_
    BY <1>2, <1>3, <1>8, SameView DEF Held, q
  <2>2. Fresh(p)'
    BY <1>2, <1>4, <1>8, <2>1 DEF AllSound, SoundConn, Fresh, Held
  <2>3. Tied(p)'
    BY <1>2, <1>4, <1>8 DEF AllSound, SoundConn, Tied
  <2>4. Built(p)'
    BY <1>2, <1>3, <1>4, <1>5, <1>6, <1>7, <1>8, SameView
       DEF AllSound, SoundConn, Built, Tied, Mapped, ConnIn, Arriving, Closing,
           q
  <2>5. Retried(p)'
    <3>1. /\ frame'[connLoop].op \in {"idle", "onClose", "finish"}
          /\ frame'[connLoop].conn \in {q, none}
      BY <1>3
    <3>2. /\ ~ConnIn({"finish"}, p)
          /\ frame'[connLoop].conn = p => frame[connLoop].conn = p
      BY <1>1, <3>1 DEF ConnIn, q
    <3>3. /\ ClientIn(Timing, p)' => ClientIn(Timing, p)
          /\ ClientIn({"onRetry", "reconnect"}, p)' => ClientIn({"onRetry", "reconnect"}, p)
      BY <1>2, <1>3, <3>1, FrameFacts DEF ClientIn, Timing, Client!Apart
    <3> QED
      BY <1>2, <1>4, <3>2, <3>3, SameView DEF AllSound, SoundConn, Retried, Client!Apart
  <2>6. Mapped(p)'
    BY <1>1, <1>2, <1>3, <1>4, <1>8
       DEF AllSound, SoundConn, Mapped, Built, Tied, ConnIn, Arriving, q
  <2> QED
    BY <2>1, <2>2, <2>3, <2>4, <2>5, <2>6 DEF SoundConn
<1>9. Single'
  BY <1>2, <1>3, <1>4, <1>8 DEF Single
<1>10. Kept'
  BY <1>1, <1>2, <1>3, <1>4, <1>8 DEF Kept, q
<1>11. Listed'
  BY <1>1, <1>4, <1>5, <1>6, <1>7, FrameFacts
     DEF Listed, Serves, ClientTypes, Client!Apart
<1> QED
  BY <1>8, <1>9, <1>10, <1>11 DEF Parts, AllSound

LEMMA runAfterParts ==
  ASSUME ClientTypes, Careful, Parts, Client!runAfter
  PROVE  Parts'
<1> DEFINE q == frame[connLoop].conn
<1> USE ClientCallFields, NamesDiffer
<1>1. q \in Conns /\ frame[connLoop].op = "runAfter"
  BY FramesTyped, FrameFacts DEF Client!runAfter, Client!At, Client!ConnSteps
<1>2. /\ connLoop' = connLoop
      /\ made' = made
      /\ clientMap_' = clientMap_
      /\ clientList_' = clientList_
      /\ wanted' = wanted
      /\ overlapped' = overlapped
      /\ frame' = [frame EXCEPT ![connLoop] = Client!Call("finish", q)]
      /\ IF Client!Apart
           THEN functors' = Client!Push(ClientLoop, Client!Call("startTimer", q)) /\ timers' = timers
           ELSE functors' = functors /\ timers' = [timers EXCEPT ![q] = @ + 1]
  BY <1>1 DEF Client!runAfter, Client!Continue, Client!Apart
<1>3. /\ frame'[connLoop] = Client!Call("finish", q)
      /\ connLoop # ClientLoop => frame'[ClientLoop] = frame[ClientLoop]
  BY <1>1, <1>2, FrameStep DEF Client!Apart
<1>4. AllSound /\ Single /\ Kept /\ Listed
  BY DEF Parts
<1>5. \A p \in Conns :
        /\ Building(p)' <=> Building(p)
        /\ FirstBuilds(p) => FirstBuilds(p)'
        /\ Starting(p)' <=> Starting(p) \/ (Client!Apart /\ p = q)
        /\ StartsOnce(p) /\ (p = q => ~Starting(p)) => StartsOnce(p)'
        /\ InConnQueue(p)' <=> InConnQueue(p)
        /\ InClientQueue(p)' <=> InClientQueue(p) \/ (Client!Apart /\ p = q)
        /\ timers'[p] = IF ~Client!Apart /\ p = q THEN timers[p] + 1 ELSE timers[p]
        /\ timers[p] \in Nat
  BY <1>1, <1>2, SameView, PushView DEF ClientTypes, Client!Call, Client!Apart
<1>6. /\ ~Starting(q) /\ timers[q] = 0 /\ ~ClientIn(Timing, q)
      /\ StartsOnce(q)
  BY <1>1, <1>4, <1>5, FrameFacts
     DEF AllSound, SoundConn, Retried, Built, ConnIn, Closing
<1> HIDE DEF q
<1>7. ASSUME NEW p \in Conns
      PROVE  /\ SoundConn(p)' /\ (Held(p)' => Held(p))
             /\ made'[p].bShutdownd_ = made[p].bShutdownd_
  <2>1. (Held(p)' => Held(p)) /\ made'[p].bShutdownd_ = made[p].bShutdownd_
    BY <1>2, <1>3, <1>5, <1>6, <1>7, FramesTyped DEF Held, q
  <2>2. Fresh(p)'
    BY <1>2, <1>4, <1>7, <2>1, FramesTyped DEF AllSound, SoundConn, Fresh, Held
  <2>3. Tied(p)'
    BY <1>2, <1>4, <1>7, FramesTyped DEF AllSound, SoundConn, Tied
  <2>4. Built(p)'
    BY <1>2, <1>3, <1>4, <1>5, <1>6, <1>7, FramesTyped
       DEF AllSound, SoundConn, Built, ConnIn, Arriving, Closing, q
  <2>5. Retried(p)'
    BY <1>1, <1>2, <1>3, <1>4, <1>5, <1>6, <1>7, FramesTyped
       DEF AllSound, SoundConn, Retried, ClientIn, ConnIn, Timing, Client!Apart
  <2>6. Mapped(p)'
    BY <1>1, <1>2, <1>3, <1>4, <1>7, FramesTyped
       DEF AllSound, SoundConn, Mapped, Built, Tied, ConnIn, Arriving, q
  <2> QED
    BY <2>1, <2>2, <2>3, <2>4, <2>5, <2>6 DEF SoundConn
<1>8. Single'
  BY <1>2, <1>3, <1>4, <1>7 DEF Single
<1>9. Kept'
  BY <1>1, <1>2, <1>3, <1>4, <1>7 DEF Kept, q
<1>10. Listed'
  BY <1>1, <1>2, <1>3, <1>4, <1>5, <1>6, <1>7, FrameFacts
     DEF Listed, Serves, ClientTypes, Client!Apart
<1> QED
  BY <1>7, <1>8, <1>9, <1>10 DEF Parts, AllSound

LEMMA onRetryParts ==
  ASSUME ClientTypes, Careful, Parts, Client!onRetry
  PROVE  Parts'
<1> DEFINE q == frame[ClientLoop].conn
<1> USE ClientCallFields, NamesDiffer
<1>1. q \in Conns /\ frame[ClientLoop].op = "onRetry"
  BY FramesTyped, FrameFacts DEF Client!onRetry, Client!At, Client!ConnSteps
<1>2. /\ connLoop' = connLoop
      /\ functors' = functors
      /\ timers' = timers
      /\ made' = made
      /\ clientMap_' = clientMap_
      /\ clientList_' = clientList_
      /\ wanted' = wanted
      /\ overlapped' = overlapped
      /\ frame' = [frame EXCEPT ![ClientLoop] =
                      (IF ~made[q].bShutdownd_ /\ clientMap_ # "absent"
                         THEN Client!Call("reconnect", q)
                         ELSE Client!Idle)]
  BY <1>1 DEF Client!onRetry, Client!Continue, Client!Done, ClientTypes
<1>3. /\ frame'[ClientLoop] =
           (IF ~made[q].bShutdownd_ /\ clientMap_ # "absent"
              THEN Client!Call("reconnect", q)
              ELSE Client!Idle)
      /\ ClientLoop # connLoop => frame'[connLoop] = frame[connLoop]
  BY <1>1, <1>2, FrameStep DEF Client!Apart
<1>4. AllSound /\ Single /\ Kept /\ Listed
  BY DEF Parts
<1> HIDE DEF q
<1>5. ASSUME NEW p \in Conns
      PROVE  /\ SoundConn(p)' /\ (Held(p)' => Held(p))
             /\ made'[p].bShutdownd_ = made[p].bShutdownd_
  <2>1. (Held(p)' => Held(p)) /\ made'[p].bShutdownd_ = made[p].bShutdownd_
    BY <1>2, <1>3, <1>5, SameView DEF Held, q
  <2>2. Fresh(p)'
    BY <1>2, <1>4, <1>5, <2>1 DEF AllSound, SoundConn, Fresh, Held
  <2>3. Tied(p)'
    BY <1>2, <1>4, <1>5 DEF AllSound, SoundConn, Tied
  <2>4. Built(p)'
    BY <1>2, <1>3, <1>4, <1>5, SameView
       DEF AllSound, SoundConn, Built, ConnIn, Arriving, Closing, q
  <2>5. Retried(p)'
    BY <1>1, <1>2, <1>3, <1>4, <1>5, SameView
       DEF AllSound, SoundConn, Retried, ClientIn, ConnIn, Timing, Client!Apart,
           q
  <2>6. Mapped(p)'
    BY <1>1, <1>2, <1>3, <1>4, <1>5
       DEF AllSound, SoundConn, Mapped, Built, Tied, ConnIn, Arriving, q
  <2> QED
    BY <2>1, <2>2, <2>3, <2>4, <2>5, <2>6 DEF SoundConn
<1>6. Single'
  BY <1>2, <1>3, <1>4, <1>5 DEF Single
<1>7. Kept'
  BY <1>1, <1>2, <1>3, <1>4, <1>5 DEF Kept, q
<1>8. Listed'
  BY <1>1, <1>2, <1>3, <1>4, <1>5, FrameFacts
     DEF Listed, Serves, ClientTypes, Client!Apart
<1> QED
  BY <1>5, <1>6, <1>7, <1>8 DEF Parts, AllSound

LEMMA delClientInLoopParts ==
  ASSUME ClientTypes, Careful, Parts, Client!delClientInLoop
  PROVE  Parts'
<1> USE ClientCallFields, NamesDiffer
<1>1. frame[ClientLoop].op = "delClientInLoop"
  BY FramesTyped, FrameFacts
     DEF Client!delClientInLoop, Client!At, Client!ConnSteps
<1>2. /\ connLoop' = connLoop
      /\ functors' = functors
      /\ timers' = timers
      /\ made' = made
      /\ clientMap_' = clientMap_
      /\ clientList_' = clientList_
      /\ wanted' = FALSE
      /\ overlapped' = overlapped
      /\ frame' = [frame EXCEPT ![ClientLoop] =
                      (IF clientMap_ \in Conns
                         THEN Client!Call("delOld", clientMap_)
                         ELSE Client!Call("delKey", none))]
  BY <1>1 DEF Client!delClientInLoop, Client!Continue, Client!Done, ClientTypes
<1>3. /\ frame'[ClientLoop] =
           (IF clientMap_ \in Conns
              THEN Client!Call("delOld", clientMap_)
              ELSE Client!Call("delKey", none))
      /\ ClientLoop # connLoop => frame'[connLoop] = frame[connLoop]
  BY <1>1, <1>2, FrameStep DEF Client!Apart
<1>4. AllSound /\ Single /\ Kept /\ Listed
  BY DEF Parts
<1>5. ASSUME NEW p \in Conns
      PROVE  /\ SoundConn(p)' /\ (Held(p)' => Held(p))
             /\ made'[p].bShutdownd_ = made[p].bShutdownd_
  <2>1. (Held(p)' => Held(p)) /\ made'[p].bShutdownd_ = made[p].bShutdownd_
    BY <1>2, <1>3, <1>5, SameView DEF Held
  <2>2. Fresh(p)'
    BY <1>2, <1>4, <1>5, <2>1 DEF AllSound, SoundConn, Fresh, Held
  <2>3. Tied(p)'
    BY <1>2, <1>4, <1>5 DEF AllSound, SoundConn, Tied
  <2>4. Built(p)'
    BY <1>2, <1>3, <1>4, <1>5, SameView
       DEF AllSound, SoundConn, Built, Tied, Mapped, ConnIn, Arriving, Closing
  <2>5. Retried(p)'
    BY <1>1, <1>2, <1>3, <1>4, <1>5, SameView
       DEF AllSound, SoundConn, Retried, ClientIn, ConnIn, Timing, Client!Apart
  <2>6. Mapped(p)'
    BY <1>1, <1>2, <1>3, <1>4, <1>5
       DEF AllSound, SoundConn, Mapped, Built, Tied, ConnIn, Arriving
  <2> QED
    BY <2>1, <2>2, <2>3, <2>4, <2>5, <2>6 DEF SoundConn
<1>6. Single'
  BY <1>2, <1>3, <1>4, <1>5 DEF Single
<1>7. Kept'
  BY <1>2, <1>3, <1>4, <1>5 DEF Kept
<1>8. Listed'
  BY <1>1, <1>2, <1>3, <1>4, <1>5, FrameFacts
     DEF Listed, Serves, ClientTypes, Client!Apart
<1> QED
  BY <1>5, <1>6, <1>7, <1>8 DEF Parts, AllSound

LEMMA onConnectKnocksParts ==
  ASSUME ClientTypes, Careful, Parts,
         clientMap_ = "absent", frame[connLoop].op = "onConnect",
         UNCHANGED <<connLoop, clientMap_, clientList_, timers, wanted, overlapped>>,
         Client!ShutdownHere(frame[connLoop].conn)
  PROVE  Parts'
<1> DEFINE q == frame[connLoop].conn
<1> USE ClientCallFields, NamesDiffer
<1>1. q \in Conns /\ frame[connLoop].op \in {"onConnect", "checkOld"}
  BY FramesTyped, FrameFacts DEF Client!ConnSteps
<1>2. /\ connLoop' = connLoop
      /\ timers' = timers
      /\ clientMap_' = clientMap_
      /\ clientList_' = clientList_
      /\ wanted' = wanted
      /\ overlapped' = overlapped
      /\ frame' = [frame EXCEPT ![connLoop] = Client!Idle]
      /\ functors' = Client!Push(connLoop, Client!Call("closeInLoop", q))
      /\ \A p \in Conns : made'[p] = IF p = q THEN Shut(made[q]) ELSE made[p]
  BY <1>1 DEF Client!ShutdownHere, Client!Done, ClientTypes, Shut
<1>3. /\ frame'[connLoop] = Client!Idle
      /\ connLoop # ClientLoop => frame'[ClientLoop] = frame[ClientLoop]
  BY <1>1, <1>2, FrameStep DEF Client!Apart
<1>4. AllSound /\ Single /\ Kept /\ Listed
  BY DEF Parts
<1>5. /\ Shut(made[q]).bShutdownd_ /\ Shut(made[q]).bufev_ = made[q].bufev_
      /\ Shut(made[q]).tie_ = made[q].tie_ /\ Shut(made[q]).callbacks = made[q].callbacks
      /\ Shut(made[q]).born = made[q].born
  BY <1>1, MadeUpdates DEF ClientTypes
<1>6. Client!Call("closeInLoop", q) # Client!Call("BuildConnect", q)
  BY DEF Client!Call
<1> HIDE DEF q
<1>7. ASSUME NEW p \in Conns
      PROVE  /\ SoundConn(p)' /\ (Held(p)' => Held(p))
             /\ (p # q => made'[p].bShutdownd_ = made[p].bShutdownd_)
  <2>1. /\ (Held(p)' => Held(p))
        /\ (p # q => made'[p].bShutdownd_ = made[p].bShutdownd_)
    BY <1>2, <1>3, <1>7, PushView DEF Held, q
  <2>2. Fresh(p)'
    BY <1>2, <1>4, <1>5, <1>6, <1>7, <2>1
       DEF AllSound, SoundConn, Fresh, Held, q
  <2>3. Tied(p)'
    BY <1>2, <1>4, <1>5, <1>6, <1>7 DEF AllSound, SoundConn, Tied
  <2>4. Built(p)'
    BY <1>2, <1>3, <1>4, <1>5, <1>6, <1>7, PushView
       DEF AllSound, SoundConn, Built, ConnIn
  <2>5. Retried(p)'
    BY <1>1, <1>2, <1>3, <1>4, <1>5, <1>6, <1>7, PushView, FrameFacts
       DEF AllSound, SoundConn, Retried, ClientIn, ConnIn, q
  <2>6. Mapped(p)'
    BY <1>1, <1>2, <1>3, <1>4, <1>7 DEF AllSound, SoundConn, Mapped
  <2> QED
    BY <2>1, <2>2, <2>3, <2>4, <2>5, <2>6 DEF SoundConn
<1>8. Single'
  BY <1>2, <1>3, <1>4, <1>7 DEF Single
<1>9. Kept'
  BY <1>2, <1>3, <1>4, <1>7 DEF Kept, Single, Held
<1>10. Listed'
  BY <1>1, <1>2, <1>3, <1>4, <1>5, <1>6, <1>7, FrameFacts
     DEF Listed, Serves, ClientTypes, Client!Apart
<1> QED
  BY <1>7, <1>8, <1>9, <1>10 DEF Parts, AllSound

LEMMA checkOldKnocksParts ==
  ASSUME ClientTypes, Careful, Parts, overlapped, frame[connLoop].op = "checkOld",
         UNCHANGED <<connLoop, clientMap_, clientList_, timers, wanted, overlapped>>,
         Client!ShutdownHere(frame[connLoop].conn)
  PROVE  Parts'
<1> DEFINE q == frame[connLoop].conn
<1> USE ClientCallFields, NamesDiffer
<1>1. q \in Conns /\ frame[connLoop].op \in {"onConnect", "checkOld"}
  BY FramesTyped, FrameFacts DEF Client!ConnSteps
<1>2. /\ connLoop' = connLoop
      /\ timers' = timers
      /\ clientMap_' = clientMap_
      /\ clientList_' = clientList_
      /\ wanted' = wanted
      /\ overlapped' = overlapped
      /\ frame' = [frame EXCEPT ![connLoop] = Client!Idle]
      /\ functors' = Client!Push(connLoop, Client!Call("closeInLoop", q))
      /\ \A p \in Conns : made'[p] = IF p = q THEN Shut(made[q]) ELSE made[p]
  BY <1>1 DEF Client!ShutdownHere, Client!Done, ClientTypes, Shut
<1>3. /\ frame'[connLoop] = Client!Idle
      /\ connLoop # ClientLoop => frame'[ClientLoop] = frame[ClientLoop]
  BY <1>1, <1>2, FrameStep DEF Client!Apart
<1>4. AllSound /\ Single /\ Kept /\ Listed
  BY DEF Parts
<1>5. /\ Shut(made[q]).bShutdownd_ /\ Shut(made[q]).bufev_ = made[q].bufev_
      /\ Shut(made[q]).tie_ = made[q].tie_ /\ Shut(made[q]).callbacks = made[q].callbacks
      /\ Shut(made[q]).born = made[q].born
  BY <1>1, MadeUpdates DEF ClientTypes
<1>6. Client!Call("closeInLoop", q) # Client!Call("BuildConnect", q)
  BY DEF Client!Call
<1> HIDE DEF q
<1>7. ASSUME NEW p \in Conns
      PROVE  /\ SoundConn(p)' /\ (Held(p)' => Held(p))
             /\ (p # q => made'[p].bShutdownd_ = made[p].bShutdownd_)
  <2>1. /\ (Held(p)' => Held(p))
        /\ (p # q => made'[p].bShutdownd_ = made[p].bShutdownd_)
    BY <1>2, <1>3, <1>7, PushView DEF Held, q
  <2>2. Fresh(p)'
    BY <1>2, <1>4, <1>5, <1>6, <1>7, <2>1
       DEF AllSound, SoundConn, Fresh, Held, q
  <2>3. Tied(p)'
    BY <1>2, <1>4, <1>5, <1>6, <1>7 DEF AllSound, SoundConn, Tied
  <2>4. Built(p)'
    BY <1>2, <1>3, <1>4, <1>5, <1>6, <1>7, PushView
       DEF AllSound, SoundConn, Built, ConnIn
  <2>5. Retried(p)'
    BY <1>1, <1>2, <1>3, <1>4, <1>5, <1>6, <1>7, PushView, FrameFacts
       DEF AllSound, SoundConn, Retried, ClientIn, ConnIn, q
  <2>6. Mapped(p)'
    BY <1>1, <1>2, <1>3, <1>4, <1>5, <1>6, <1>7
       DEF AllSound, SoundConn, Mapped, ConnIn, q
  <2> QED
    BY <2>1, <2>2, <2>3, <2>4, <2>5, <2>6 DEF SoundConn
<1>8. Single'
  BY <1>2, <1>3, <1>4, <1>7 DEF Single
<1>9. Kept'
  BY <1>2, <1>3, <1>4, <1>7 DEF Kept
<1>10. Listed'
  BY <1>1, <1>2, <1>3, <1>4, <1>5, <1>6, <1>7 DEF Listed, Serves, ClientTypes
<1> QED
  BY <1>7, <1>8, <1>9, <1>10 DEF Parts, AllSound

LEMMA onConnectGoesOnParts ==
  ASSUME ClientTypes, Careful, Parts,
         frame[connLoop].op = "onConnect",
         Client!Continue(connLoop, "addToList", frame[connLoop].conn),
         made' = made, functors' = functors,
         UNCHANGED <<connLoop, clientMap_, clientList_, timers, wanted, overlapped>>
  PROVE  Parts'
<1> DEFINE q == frame[connLoop].conn
<1> USE ClientCallFields, NamesDiffer
<1>1. q \in Conns /\ frame[connLoop].op = "onConnect"
  BY FramesTyped, FrameFacts DEF Client!ConnSteps
<1>2. /\ connLoop' = connLoop
      /\ functors' = functors
      /\ timers' = timers
      /\ made' = made
      /\ clientMap_' = clientMap_
      /\ clientList_' = clientList_
      /\ wanted' = wanted
      /\ overlapped' = overlapped
      /\ frame' = [frame EXCEPT ![connLoop] = Client!Call("addToList", q)]
  BY <1>1 DEF Client!Continue
<1>3. /\ frame'[connLoop] = Client!Call("addToList", q)
      /\ connLoop # ClientLoop => frame'[ClientLoop] = frame[ClientLoop]
  BY <1>1, <1>2, FrameStep DEF Client!Apart
<1>4. AllSound /\ Single /\ Kept /\ Listed
  BY DEF Parts
<1> HIDE DEF q
<1>5. ASSUME NEW p \in Conns
      PROVE  /\ SoundConn(p)' /\ (Held(p)' => Held(p))
             /\ made'[p].bShutdownd_ = made[p].bShutdownd_
  <2>1. (Held(p)' => Held(p)) /\ made'[p].bShutdownd_ = made[p].bShutdownd_
    BY <1>2, <1>3, <1>5, SameView DEF Held, q
  <2>2. Fresh(p)'
    BY <1>2, <1>4, <1>5, <2>1 DEF AllSound, SoundConn, Fresh, Held
  <2>3. Tied(p)'
    BY <1>2, <1>4, <1>5 DEF AllSound, SoundConn, Tied
  <2>4. Built(p)'
    BY <1>2, <1>3, <1>4, <1>5, SameView
       DEF AllSound, SoundConn, Built, ConnIn, Arriving, Closing, q
  <2>5. Retried(p)'
    BY <1>1, <1>2, <1>3, <1>4, <1>5, SameView
       DEF AllSound, SoundConn, Retried, ClientIn, ConnIn, Timing, Client!Apart,
           q
  <2>6. Mapped(p)'
    BY <1>1, <1>2, <1>3, <1>4, <1>5
       DEF AllSound, SoundConn, Mapped, Built, Tied, ConnIn, Arriving, q
  <2> QED
    BY <2>1, <2>2, <2>3, <2>4, <2>5, <2>6 DEF SoundConn
<1>6. Single'
  BY <1>2, <1>3, <1>4, <1>5 DEF Single
<1>7. Kept'
  BY <1>2, <1>3, <1>4, <1>5 DEF Kept
<1>8. Listed'
  BY <1>1, <1>2, <1>3, <1>4, <1>5, FrameFacts
     DEF Listed, Serves, ClientTypes, Client!Apart
<1> QED
  BY <1>5, <1>6, <1>7, <1>8 DEF Parts, AllSound

LEMMA checkOldGoesOnParts ==
  ASSUME ClientTypes, Careful, Parts,
         frame[connLoop].op = "checkOld",
         Client!Continue(connLoop, "setConn", frame[connLoop].conn),
         made' = made, functors' = functors,
         UNCHANGED <<connLoop, clientMap_, clientList_, timers, wanted, overlapped>>
  PROVE  Parts'
<1> DEFINE q == frame[connLoop].conn
<1> USE ClientCallFields, NamesDiffer
<1>1. q \in Conns /\ frame[connLoop].op = "checkOld"
  BY FramesTyped, FrameFacts DEF Client!ConnSteps
<1>2. /\ connLoop' = connLoop
      /\ functors' = functors
      /\ timers' = timers
      /\ made' = made
      /\ clientMap_' = clientMap_
      /\ clientList_' = clientList_
      /\ wanted' = wanted
      /\ overlapped' = overlapped
      /\ frame' = [frame EXCEPT ![connLoop] = Client!Call("setConn", q)]
  BY <1>1 DEF Client!Continue
<1>3. /\ frame'[connLoop] = Client!Call("setConn", q)
      /\ connLoop # ClientLoop => frame'[ClientLoop] = frame[ClientLoop]
  BY <1>1, <1>2, FrameStep DEF Client!Apart
<1>4. AllSound /\ Single /\ Kept /\ Listed
  BY DEF Parts
<1> HIDE DEF q
<1>5. ASSUME NEW p \in Conns
      PROVE  /\ SoundConn(p)' /\ (Held(p)' => Held(p))
             /\ made'[p].bShutdownd_ = made[p].bShutdownd_
  <2>1. (Held(p)' => Held(p)) /\ made'[p].bShutdownd_ = made[p].bShutdownd_
    BY <1>2, <1>3, <1>5, SameView DEF Held, q
  <2>2. Fresh(p)'
    BY <1>2, <1>4, <1>5, <2>1 DEF AllSound, SoundConn, Fresh, Held
  <2>3. Tied(p)'
    BY <1>2, <1>4, <1>5 DEF AllSound, SoundConn, Tied
  <2>4. Built(p)'
    BY <1>2, <1>3, <1>4, <1>5, SameView
       DEF AllSound, SoundConn, Built, ConnIn, Arriving, Closing, q
  <2>5. Retried(p)'
    BY <1>1, <1>2, <1>3, <1>4, <1>5, SameView
       DEF AllSound, SoundConn, Retried, ClientIn, ConnIn, Timing, Client!Apart,
           q
  <2>6. Mapped(p)'
    BY <1>1, <1>2, <1>3, <1>4, <1>5
       DEF AllSound, SoundConn, Mapped, Built, Tied, ConnIn, Arriving, q
  <2> QED
    BY <2>1, <2>2, <2>3, <2>4, <2>5, <2>6 DEF SoundConn
<1>6. Single'
  BY <1>2, <1>3, <1>4, <1>5 DEF Single
<1>7. Kept'
  BY <1>2, <1>3, <1>4, <1>5 DEF Kept
<1>8. Listed'
  BY <1>1, <1>2, <1>3, <1>4, <1>5, FrameFacts
     DEF Listed, Serves, ClientTypes, Client!Apart, q
<1> QED
  BY <1>5, <1>6, <1>7, <1>8 DEF Parts, AllSound

LEMMA onConnectParts ==
  ASSUME ClientTypes, Careful, Parts, Client!onConnect
  PROVE  Parts'
<1>1. CASE clientMap_ = "absent"
  BY <1>1, onConnectKnocksParts DEF Client!onConnect, Client!At
<1>2. CASE clientMap_ # "absent"
  BY <1>2, onConnectGoesOnParts DEF Client!onConnect, Client!At
<1> QED
  BY <1>1, <1>2

LEMMA checkOldParts ==
  ASSUME ClientTypes, Careful, Parts, Client!checkOld
  PROVE  Parts'
<1> DEFINE q == frame[connLoop].conn
<1>1. q \in Conns /\ frame[connLoop].op = "checkOld"
  BY FramesTyped DEF Client!checkOld, Client!At, Client!ConnSteps
<1>2. CASE clientMap_ \in {r \in Conns : ~made[r].bShutdownd_}
  <2>1. overlapped \/ clientMap_ = q
    BY <1>1, <1>2 DEF Parts, Single, Held, ClientTypes
  <2>2. clientMap_ # q
    BY <1>1 DEF Parts, AllSound, SoundConn, Mapped, Built, ConnIn, Arriving
  <2>3. overlapped
    BY <2>1, <2>2
  <2> QED
    BY <1>1, <1>2, <2>3, checkOldKnocksParts DEF Client!checkOld
<1>3. CASE clientMap_ \notin {r \in Conns : ~made[r].bShutdownd_}
  BY <1>1, <1>3, checkOldGoesOnParts DEF Client!checkOld
<1> QED
  BY <1>2, <1>3

LEMMA delOldParts ==
  ASSUME ClientTypes, Careful, Parts, Client!delOld
  PROVE  Parts'
<1> DEFINE q == frame[ClientLoop].conn
<1> USE ClientCallFields, NamesDiffer
<1>1. q \in Conns /\ frame[ClientLoop].op = "delOld"
  BY FramesTyped, FrameFacts DEF Client!delOld, Client!At, Client!ConnSteps
<1>2. /\ connLoop' = connLoop
      /\ timers' = timers
      /\ clientMap_' = clientMap_
      /\ clientList_' = Client!RemoveFirst(clientList_, q)
      /\ wanted' = wanted
      /\ overlapped' = overlapped
      /\ functors' = Client!Push(connLoop, Client!Call("closeInLoop", q))
      /\ \A p \in Conns : made'[p] = IF p = q THEN Shut(made[q]) ELSE made[p]
      /\ frame' = [frame EXCEPT ![ClientLoop] = Client!Call("delKey", q)]
  BY <1>1 DEF Client!delOld, Client!Continue, Shut, ClientTypes
<1>3. /\ frame'[ClientLoop] = Client!Call("delKey", q)
      /\ ClientLoop # connLoop => frame'[connLoop] = frame[connLoop]
  BY <1>1, <1>2, FrameStep DEF Client!Apart
<1>4. AllSound /\ Single /\ Kept /\ Listed
  BY DEF Parts
<1>5. /\ Shut(made[q]).bShutdownd_ /\ Shut(made[q]).bufev_ = made[q].bufev_
      /\ Shut(made[q]).tie_ = made[q].tie_ /\ Shut(made[q]).callbacks = made[q].callbacks
      /\ Shut(made[q]).born = made[q].born
  BY <1>1, MadeUpdates DEF ClientTypes
<1>6. Client!Call("closeInLoop", q) # Client!Call("BuildConnect", q)
  BY DEF Client!Call
<1>7. /\ Client!ToSet(clientList_') \subseteq Client!ToSet(clientList_)
      /\ clientList_ = <<>> \/ clientList_ = <<q>> => clientList_' = <<>>
  BY <1>2, RemoveFirstFacts DEF ClientTypes
<1> HIDE DEF q
<1>8. ASSUME NEW p \in Conns
      PROVE  /\ SoundConn(p)' /\ (Held(p)' => Held(p))
             /\ (p # q => made'[p].bShutdownd_ = made[p].bShutdownd_)
  <2>1. /\ (Held(p)' => Held(p))
        /\ (p # q => made'[p].bShutdownd_ = made[p].bShutdownd_)
    BY <1>2, <1>3, <1>5, <1>6, <1>7, <1>8, PushView DEF Held, q
  <2>2. Fresh(p)'
    BY <1>2, <1>4, <1>5, <1>6, <1>7, <1>8, <2>1
       DEF AllSound, SoundConn, Fresh, Held, q
  <2>3. Tied(p)'
    BY <1>2, <1>4, <1>5, <1>6, <1>7, <1>8 DEF AllSound, SoundConn, Tied
  <2>4. Built(p)'
    BY <1>2, <1>3, <1>4, <1>5, <1>6, <1>7, <1>8, PushView
       DEF AllSound, SoundConn, Built, ConnIn, Arriving, Closing, q
  <2>5. Retried(p)'
    BY <1>1, <1>2, <1>3, <1>4, <1>5, <1>6, <1>7, <1>8, PushView
       DEF AllSound, SoundConn, Retried, ClientIn, ConnIn, Timing, Client!Apart
  <2>6. Mapped(p)'
    BY <1>1, <1>2, <1>3, <1>4, <1>5, <1>6, <1>7, <1>8
       DEF AllSound, SoundConn, Mapped, Built, Tied, ConnIn, Arriving, q
  <2> QED
    BY <2>1, <2>2, <2>3, <2>4, <2>5, <2>6 DEF SoundConn
<1>9. Single'
  BY <1>2, <1>3, <1>4, <1>8 DEF Single
<1>10. Kept'
  BY <1>1, <1>2, <1>3, <1>4, <1>8 DEF Kept, q
<1>11. Listed'
  BY <1>1, <1>2, <1>3, <1>4, <1>5, <1>6, <1>7, <1>8, FrameFacts
     DEF Listed, Serves, ClientTypes, Client!Apart, q
<1> QED
  BY <1>8, <1>9, <1>10, <1>11 DEF Parts, AllSound

LEMMA addClientInLoopParts ==
  ASSUME ClientTypes, Careful, Parts, Client!addClientInLoop
  PROVE  Parts'
<1> USE ClientCallFields, NamesDiffer
<1>1. frame[ClientLoop].op = "addClientInLoop"
  BY FramesTyped, FrameFacts DEF Client!addClientInLoop, Client!At
<1>2. /\ connLoop' = connLoop
      /\ functors' = functors
      /\ timers' = timers
      /\ made' = made
      /\ clientMap_' = clientMap_
      /\ clientList_' = clientList_
      /\ wanted' = TRUE
      /\ overlapped' \in BOOLEAN /\ (overlapped => overlapped')
      /\ ~overlapped' => \A p \in Conns : Held(p) => clientMap_ # "absent" /\ ~made[p].bShutdownd_
      /\ frame' = [frame EXCEPT ![ClientLoop] =
                      (IF clientMap_ = "absent"
                         THEN Client!Call("addConn", none)
                         ELSE Client!Idle)]
  BY <1>1, HeldIsAlive
     DEF Client!addClientInLoop, Client!Continue, Client!Done, ClientTypes
<1>3. /\ frame'[ClientLoop] =
           (IF clientMap_ = "absent"
              THEN Client!Call("addConn", none)
              ELSE Client!Idle)
      /\ ClientLoop # connLoop => frame'[connLoop] = frame[connLoop]
  BY <1>1, <1>2, FrameStep DEF Client!Apart
<1>4. AllSound /\ Single /\ Kept /\ Listed
  BY DEF Parts
<1>5. ASSUME NEW p \in Conns
      PROVE  /\ SoundConn(p)' /\ (Held(p)' => Held(p))
             /\ made'[p].bShutdownd_ = made[p].bShutdownd_
  <2>1. (Held(p)' => Held(p)) /\ made'[p].bShutdownd_ = made[p].bShutdownd_
    BY <1>2, <1>3, <1>5, SameView DEF Held
  <2>2. Fresh(p)'
    BY <1>2, <1>4, <1>5, <2>1 DEF AllSound, SoundConn, Fresh, Held
  <2>3. Tied(p)'
    BY <1>2, <1>4, <1>5 DEF AllSound, SoundConn, Tied
  <2>4. Built(p)'
    BY <1>2, <1>3, <1>4, <1>5, SameView DEF AllSound, SoundConn, Built, ConnIn
  <2>5. Retried(p)'
    BY <1>1, <1>2, <1>3, <1>4, <1>5, SameView
       DEF AllSound, SoundConn, Retried, ClientIn, ConnIn
  <2>6. Mapped(p)'
    BY <1>1, <1>2, <1>3, <1>4, <1>5 DEF AllSound, SoundConn, Mapped, ConnIn
  <2> QED
    BY <2>1, <2>2, <2>3, <2>4, <2>5, <2>6 DEF SoundConn
<1>6. Single'
  BY <1>2, <1>3, <1>4, <1>5 DEF Single
<1>7. Kept'
  BY <1>2, <1>3, <1>4, <1>5 DEF Kept
<1>8. Listed'
  BY <1>1, <1>2, <1>3, <1>4, <1>5, FrameFacts
     DEF Listed, Serves, ClientTypes, Client!Apart
<1> QED
  BY <1>5, <1>6, <1>7, <1>8 DEF Parts, AllSound

LEMMA addConnParts ==
  ASSUME ClientTypes, Careful, Parts, NEW q \in Conns, ~made[q].born,
         frame[ClientLoop].op = "addConn",
         made' = [made EXCEPT ![q] = Client!doConnect(@)],
         clientMap_' = "null",
         Client!HandOver(ClientLoop, connLoop, Client!Call("BuildConnect", q)),
         UNCHANGED <<connLoop, clientList_, timers, wanted, overlapped>>
  PROVE  Parts'
<1> USE ClientCallFields, NamesDiffer
<1>1. ~made[q].born /\ frame[ClientLoop].op = "addConn"
  BY FramesTyped, FrameFacts DEF Client!At
<1>2. /\ connLoop' = connLoop
      /\ \A p \in Conns : made'[p] = IF p = q THEN Client!doConnect(made[q]) ELSE made[p]
      /\ clientMap_' = "null"
      /\ clientList_' = clientList_
      /\ timers' = timers
      /\ wanted' = wanted
      /\ overlapped' = overlapped
      /\ functors' = IF Client!Apart THEN Client!Push(connLoop, Client!Call("BuildConnect", q))
                                 ELSE functors
      /\ frame' = [frame EXCEPT ![ClientLoop] =
                      (IF Client!Apart
                         THEN Client!Idle
                         ELSE Client!Call("BuildConnect", q))]
  BY <1>1 DEF Client!HandOver, Client!Done, Client!Apart, ClientTypes
<1>3. /\ frame'[ClientLoop] =
           (IF Client!Apart
              THEN Client!Idle
              ELSE Client!Call("BuildConnect", q))
      /\ ClientLoop # connLoop => frame'[connLoop] = frame[connLoop]
  BY <1>1, <1>2, FrameStep DEF Client!Apart
<1>4. AllSound /\ Single /\ Kept /\ Listed
  BY DEF Parts
<1>5. \A p \in Conns :
        /\ Building(p)' <=> Building(p) \/ (Client!Apart /\ p = q)
        /\ FirstBuilds(p) /\ (Client!Apart /\ p = q => ~InConnQueue(p)) => FirstBuilds(p)'
        /\ Starting(p)' <=> Starting(p)
        /\ StartsOnce(p) => StartsOnce(p)'
        /\ InConnQueue(p)' <=> InConnQueue(p) \/ (Client!Apart /\ p = q)
        /\ InClientQueue(p)' <=> InClientQueue(p)
  BY <1>1, <1>2, SameView, PushView DEF Client!Call, Client!Apart
<1>6. /\ Client!doConnect(made[q]).tie_ /\ Client!doConnect(made[q]).callbacks
      /\ Client!doConnect(made[q]).born
      /\ Client!doConnect(made[q]).bufev_ = made[q].bufev_
      /\ Client!doConnect(made[q]).bShutdownd_ = made[q].bShutdownd_
  BY <1>1, MadeUpdates DEF ClientTypes
<1>7. frame'[ClientLoop].op \in {"idle", "BuildConnect"}
  BY <1>3
<1>8. ~Client!Apart /\ ~overlapped => clientList_ = <<>>
  BY <1>1, <1>4, FrameFacts
     DEF Listed, Serves, Single, Held, AllSound, SoundConn, Tied, Retried,
         ClientIn, Client!Apart
<1>9. /\ ~Held(q) /\ made[q].bufev_ = "null" /\ StartsOnce(q) /\ FirstBuilds(q)
  BY <1>1, <1>4 DEF AllSound, SoundConn, Fresh, Retried, Built
<1>10. ~Building(q) /\ ~Starting(q)
  BY <1>9 DEF Held, Building, Starting, InConnQueue, InClientQueue, Names, Has
<1>11. /\ ~InConnQueue(q) /\ frame[connLoop].conn # q
      /\ timers[q] = 0 /\ clientMap_ # q
  BY <1>9 DEF Held, ClientTypes
<1>12. ASSUME NEW p \in Conns
      PROVE  /\ SoundConn(p)' /\ (Held(p)' => Held(p) \/ p = q)
             /\ made'[p].bShutdownd_ = made[p].bShutdownd_
  <2>1. (Held(p)' => Held(p) \/ p = q) /\ made'[p].bShutdownd_ = made[p].bShutdownd_
    BY <1>2, <1>3, <1>5, <1>6, <1>7, <1>8, <1>9, <1>10, <1>11, <1>12,
       NamesDiffer
       DEF Held
  <2>2. Fresh(p)'
    BY <1>2, <1>4, <1>5, <1>6, <1>7, <1>8, <1>9, <1>10, <1>11, <1>12, <2>1
       DEF AllSound, SoundConn, Fresh, Held
  <2>3. Tied(p)'
    BY <1>2, <1>4, <1>5, <1>6, <1>7, <1>8, <1>9, <1>10, <1>11, <1>12
       DEF AllSound, SoundConn, Tied
  <2>4. Built(p)'
    BY <1>2, <1>3, <1>4, <1>5, <1>6, <1>7, <1>8, <1>9, <1>10, <1>11, <1>12,
       NamesDiffer
       DEF AllSound, SoundConn, Built, ConnIn, Arriving, Closing
  <2>5. Retried(p)'
    BY <1>1, <1>2, <1>3, <1>4, <1>5, <1>6, <1>7, <1>8, <1>9, <1>10, <1>11,
       <1>12, NamesDiffer
       DEF AllSound, SoundConn, Retried, ClientIn, ConnIn, Timing, Client!Apart
  <2>6. Mapped(p)'
    BY <1>1, <1>2, <1>3, <1>4, <1>12 DEF AllSound, SoundConn, Mapped
  <2> QED
    BY <2>1, <2>2, <2>3, <2>4, <2>5, <2>6 DEF SoundConn
<1>13. Single'
  BY <1>2, <1>3, <1>4, <1>12 DEF Single
<1>14. Kept'
  BY <1>2, <1>3, <1>4, <1>12 DEF Kept, Single, AllSound, SoundConn, Fresh
<1>15. Listed'
  BY <1>1, <1>2, <1>3, <1>4, <1>5, <1>6, <1>7, <1>8, <1>9, <1>10, <1>11, <1>12,
     FrameFacts
     DEF Listed, Serves, ClientTypes, Client!Apart
<1> QED
  BY <1>12, <1>13, <1>14, <1>15 DEF Parts, AllSound

LEMMA reconnectParts ==
  ASSUME ClientTypes, Careful, Parts,
         frame[ClientLoop].op = "reconnect",
         made' = [made EXCEPT ![frame[ClientLoop].conn] = Client!doConnect(@)],
         clientMap_' = "null",
         Client!HandOver(ClientLoop, connLoop,
                         Client!Call("BuildConnect", frame[ClientLoop].conn)),
         UNCHANGED <<connLoop, clientList_, timers, wanted, overlapped>>
  PROVE  Parts'
<1> DEFINE q == frame[ClientLoop].conn
<1> USE ClientCallFields, NamesDiffer
<1>1. q \in Conns /\ frame[ClientLoop].op = "reconnect"
  BY FramesTyped, FrameFacts DEF Client!At
<1>2. /\ connLoop' = connLoop
      /\ \A p \in Conns : made'[p] = IF p = q THEN Client!doConnect(made[q]) ELSE made[p]
      /\ clientMap_' = "null"
      /\ clientList_' = clientList_
      /\ timers' = timers
      /\ wanted' = wanted
      /\ overlapped' = overlapped
      /\ functors' = IF Client!Apart THEN Client!Push(connLoop, Client!Call("BuildConnect", q))
                                 ELSE functors
      /\ frame' = [frame EXCEPT ![ClientLoop] =
                      (IF Client!Apart
                         THEN Client!Idle
                         ELSE Client!Call("BuildConnect", q))]
  BY <1>1 DEF Client!HandOver, Client!Done, Client!Apart, ClientTypes
<1>3. /\ frame'[ClientLoop] =
           (IF Client!Apart
              THEN Client!Idle
              ELSE Client!Call("BuildConnect", q))
      /\ ClientLoop # connLoop => frame'[connLoop] = frame[connLoop]
  BY <1>1, <1>2, FrameStep DEF Client!Apart
<1>4. AllSound /\ Single /\ Kept /\ Listed
  BY DEF Parts
<1>5. \A p \in Conns :
        /\ Building(p)' <=> Building(p) \/ (Client!Apart /\ p = q)
        /\ FirstBuilds(p) /\ (Client!Apart /\ p = q => ~InConnQueue(p)) => FirstBuilds(p)'
        /\ Starting(p)' <=> Starting(p)
        /\ StartsOnce(p) => StartsOnce(p)'
        /\ InConnQueue(p)' <=> InConnQueue(p) \/ (Client!Apart /\ p = q)
        /\ InClientQueue(p)' <=> InClientQueue(p)
  BY <1>1, <1>2, SameView, PushView DEF Client!Call, Client!Apart
<1>6. /\ Client!doConnect(made[q]).tie_ /\ Client!doConnect(made[q]).callbacks
      /\ Client!doConnect(made[q]).born
      /\ Client!doConnect(made[q]).bufev_ = made[q].bufev_
      /\ Client!doConnect(made[q]).bShutdownd_ = made[q].bShutdownd_
  BY <1>1, MadeUpdates DEF ClientTypes
<1>7. frame'[ClientLoop].op \in {"idle", "BuildConnect"}
  BY <1>3
<1>8. ~Client!Apart /\ ~overlapped => clientList_ = <<>>
  BY <1>1, <1>4, FrameFacts
     DEF Listed, Serves, Single, Held, AllSound, SoundConn, Tied, Retried,
         ClientIn, Client!Apart
<1>9. /\ ~made[q].tie_ /\ (Client!Apart => ~InConnQueue(q) /\ frame[connLoop].conn # q)
      /\ ~Building(q) /\ made[q].bufev_ = "null" /\ FirstBuilds(q)
      /\ ~Starting(q) /\ timers[q] = 0 /\ StartsOnce(q)
  BY <1>1, <1>4
     DEF AllSound, SoundConn, Built, Tied, Retried, ClientIn, Timing,
         ClientTypes
<1> HIDE DEF q
<1>10. ASSUME NEW p \in Conns
      PROVE  /\ SoundConn(p)' /\ (Held(p)' => Held(p))
             /\ made'[p].bShutdownd_ = made[p].bShutdownd_
  <2>1. (Held(p)' => Held(p)) /\ made'[p].bShutdownd_ = made[p].bShutdownd_
    BY <1>2, <1>3, <1>5, <1>6, <1>7, <1>8, <1>9, <1>10, NamesDiffer DEF Held
  <2>2. Fresh(p)'
    BY <1>2, <1>4, <1>5, <1>6, <1>7, <1>8, <1>9, <1>10, <2>1
       DEF AllSound, SoundConn, Fresh, Held
  <2>3. Tied(p)'
    BY <1>2, <1>4, <1>5, <1>6, <1>7, <1>8, <1>9, <1>10
       DEF AllSound, SoundConn, Tied
  <2>4. Built(p)'
    BY <1>2, <1>3, <1>4, <1>5, <1>6, <1>7, <1>8, <1>9, <1>10, NamesDiffer
       DEF AllSound, SoundConn, Built, ConnIn, Arriving, Closing, q
  <2>5. Retried(p)'
    BY <1>1, <1>2, <1>3, <1>4, <1>5, <1>6, <1>7, <1>8, <1>9, <1>10, NamesDiffer
       DEF AllSound, SoundConn, Retried, ClientIn, ConnIn, Timing, Client!Apart
  <2>6. Mapped(p)'
    BY <1>1, <1>2, <1>3, <1>4, <1>10 DEF AllSound, SoundConn, Mapped
  <2> QED
    BY <2>1, <2>2, <2>3, <2>4, <2>5, <2>6 DEF SoundConn
<1>11. Single'
  BY <1>2, <1>3, <1>4, <1>10 DEF Single
<1>12. Kept'
  BY <1>2, <1>4, <1>10 DEF Kept
<1>13. Listed'
  BY <1>1, <1>2, <1>3, <1>4, <1>5, <1>6, <1>7, <1>8, <1>9, <1>10, FrameFacts
     DEF Listed, Serves, ClientTypes, Client!Apart
<1> QED
  BY <1>10, <1>11, <1>12, <1>13 DEF Parts, AllSound

LEMMA RetryTimerParts ==
  ASSUME ClientTypes, Careful, Parts, NEW q \in Conns, Client!RetryTimer(q)
  PROVE  Parts'
<1> USE ClientCallFields, NamesDiffer
<1>1. frame[ClientLoop] = Client!Idle
  BY FramesTyped, FrameFacts DEF Client!RetryTimer
<1>2. /\ connLoop' = connLoop
      /\ functors' = functors
      /\ made' = made
      /\ clientMap_' = clientMap_
      /\ clientList_' = clientList_
      /\ wanted' = wanted
      /\ overlapped' = overlapped
      /\ \A p \in Conns : timers'[p] = IF p = q THEN timers[p] - 1 ELSE timers[p]
      /\ timers[q] > 0
      /\ frame' = [frame EXCEPT ![ClientLoop] = Client!Call("onRetry", q)]
  BY <1>1 DEF Client!RetryTimer, Client!Continue, ClientTypes, Shut, ComesUp
<1>3. /\ frame'[ClientLoop] = Client!Call("onRetry", q)
      /\ ClientLoop # connLoop => frame'[connLoop] = frame[connLoop]
  BY <1>1, <1>2, FrameStep DEF Client!Apart
<1>4. AllSound /\ Single /\ Kept /\ Listed
  BY DEF Parts
<1>5. \A p \in Conns : timers[p] \in Nat
  BY DEF ClientTypes
<1>6. timers[q] > 0 => ~made[q].tie_ \/ frame[connLoop].op = "finish"
  BY <1>4 DEF AllSound, SoundConn, Retried, ConnIn
<1>7. Client!Apart => ~InConnQueue(q) /\ frame[connLoop].conn # q
  BY TwoLoops, QueueTyped, LenProperties
     DEF Client!RetryTimer, Client!Busy, Careful, InConnQueue, Names,
         ClientTypes
<1>8. ASSUME NEW p \in Conns
      PROVE  /\ SoundConn(p)' /\ (Held(p)' => Held(p))
             /\ made'[p].bShutdownd_ = made[p].bShutdownd_
  <2>1. (Held(p)' => Held(p)) /\ made'[p].bShutdownd_ = made[p].bShutdownd_
    BY <1>2, <1>3, <1>8, SameView DEF Held
  <2>2. Fresh(p)'
    BY <1>2, <1>4, <1>8, <2>1 DEF AllSound, SoundConn, Fresh, Held
  <2>3. Tied(p)'
    BY <1>2, <1>4, <1>8 DEF AllSound, SoundConn, Tied
  <2>4. Built(p)'
    BY <1>1, <1>2, <1>3, <1>4, <1>5, <1>6, <1>7, <1>8, SameView
       DEF AllSound, SoundConn, Built, ConnIn, Arriving, Closing
  <2>5. Retried(p)'
    BY <1>1, <1>2, <1>3, <1>4, <1>5, <1>6, <1>7, <1>8, SameView
       DEF AllSound, SoundConn, Retried, ClientIn, ConnIn, Timing, Client!Apart
  <2>6. Mapped(p)'
    BY <1>1, <1>2, <1>3, <1>4, <1>8
       DEF AllSound, SoundConn, Mapped, Built, Tied, ConnIn, Arriving
  <2> QED
    BY <2>1, <2>2, <2>3, <2>4, <2>5, <2>6 DEF SoundConn
<1>9. Single'
  BY <1>2, <1>3, <1>4, <1>8 DEF Single
<1>10. Kept'
  BY <1>1, <1>2, <1>3, <1>4, <1>8 DEF Kept
<1>11. Listed'
  BY <1>1, <1>2, <1>3, <1>4, <1>5, <1>6, <1>7, <1>8, FrameFacts
     DEF Listed, Serves, ClientTypes, Client!Apart
<1> QED
  BY <1>8, <1>9, <1>10, <1>11 DEF Parts, AllSound

LEMMA FailedParts ==
  ASSUME ClientTypes, Careful, Parts, NEW q \in Conns, Client!Failed(q)
  PROVE  Parts'
<1> USE ClientCallFields, NamesDiffer
<1>1. frame[connLoop] = Client!Idle
  BY FramesTyped, FrameFacts DEF Client!Failed
<1>2. /\ connLoop' = connLoop
      /\ functors' = functors
      /\ timers' = timers
      /\ made' = made
      /\ clientMap_' = clientMap_
      /\ clientList_' = clientList_
      /\ wanted' = wanted
      /\ overlapped' = overlapped
      /\ made[q].bufev_ # "null"
      /\ frame' = [frame EXCEPT ![connLoop] = Client!Call("closeInLoop", q)]
  BY <1>1 DEF Client!Failed, Client!Continue, ClientTypes, Shut, ComesUp
<1>3. /\ frame'[connLoop] = Client!Call("closeInLoop", q)
      /\ connLoop # ClientLoop => frame'[ClientLoop] = frame[ClientLoop]
  BY <1>1, <1>2, FrameStep DEF Client!Apart
<1>4. AllSound /\ Single /\ Kept /\ Listed
  BY DEF Parts
<1>5. ASSUME NEW p \in Conns
      PROVE  /\ SoundConn(p)' /\ (Held(p)' => Held(p))
             /\ made'[p].bShutdownd_ = made[p].bShutdownd_
  <2>1. (Held(p)' => Held(p)) /\ made'[p].bShutdownd_ = made[p].bShutdownd_
    BY <1>2, <1>3, <1>4, <1>5, SameView DEF Held, AllSound, SoundConn, Tied
  <2>2. Fresh(p)'
    BY <1>2, <1>4, <1>5, <2>1
       DEF AllSound, SoundConn, Fresh, Held, AllSound, SoundConn, Tied
  <2>3. Tied(p)'
    BY <1>2, <1>4, <1>5 DEF AllSound, SoundConn, Tied, AllSound, SoundConn, Tied
  <2>4. Built(p)'
    BY <1>2, <1>3, <1>4, <1>5, SameView
       DEF AllSound, SoundConn, Built, ConnIn, Arriving, Closing, AllSound,
           SoundConn
  <2>5. Retried(p)'
    BY <1>1, <1>2, <1>3, <1>4, <1>5, SameView
       DEF AllSound, SoundConn, Retried, Tied, ClientIn, ConnIn, Timing,
           Closing, Client!Apart, AllSound, SoundConn, Tied
  <2>6. Mapped(p)'
    BY <1>1, <1>2, <1>3, <1>4, <1>5
       DEF AllSound, SoundConn, Mapped, Built, Tied, ConnIn, Arriving, AllSound,
           SoundConn, Tied
  <2> QED
    BY <2>1, <2>2, <2>3, <2>4, <2>5, <2>6 DEF SoundConn
<1>6. Single'
  BY <1>2, <1>3, <1>4, <1>5 DEF Single
<1>7. Kept'
  BY <1>1, <1>2, <1>3, <1>4, <1>5 DEF Kept
<1>8. Listed'
  BY <1>1, <1>2, <1>3, <1>4, <1>5, FrameFacts
     DEF Listed, Serves, ClientTypes, Client!Apart
<1> QED
  BY <1>5, <1>6, <1>7, <1>8 DEF Parts, AllSound

LEMMA ConnectedParts ==
  ASSUME ClientTypes, Careful, Parts, NEW q \in Conns, Client!Connected(q)
  PROVE  Parts'
<1> USE ClientCallFields, NamesDiffer
<1>1. frame[connLoop] = Client!Idle
  BY FramesTyped, FrameFacts DEF Client!Connected
<1>2. /\ connLoop' = connLoop
      /\ functors' = functors
      /\ timers' = timers
      /\ clientMap_' = clientMap_
      /\ clientList_' = clientList_
      /\ wanted' = wanted
      /\ overlapped' = overlapped
      /\ made[q].bufev_ = "connecting" /\ made[q].tie_
      /\ \A p \in Conns : made'[p] = IF p = q THEN ComesUp(made[q]) ELSE made[p]
      /\ frame' = [frame EXCEPT ![connLoop] = Client!Call("onConnect", q)]
  BY <1>1
     DEF Client!Connected, Client!Continue, ClientTypes, ComesUp, Parts,
         AllSound, SoundConn, Tied
<1>3. /\ frame'[connLoop] = Client!Call("onConnect", q)
      /\ connLoop # ClientLoop => frame'[ClientLoop] = frame[ClientLoop]
  BY <1>1, <1>2, FrameStep DEF Client!Apart
<1>4. AllSound /\ Single /\ Kept /\ Listed
  BY DEF Parts
<1>5. /\ ComesUp(made[q]).tie_ = made[q].tie_ /\ ComesUp(made[q]).callbacks = made[q].callbacks
      /\ ComesUp(made[q]).born = made[q].born /\ ComesUp(made[q]).bShutdownd_ = made[q].bShutdownd_
      /\ ComesUp(made[q]).bufev_ = "up"
  BY BufferUpdates, BufferValues DEF ClientTypes
<1>6. ASSUME NEW p \in Conns
      PROVE  /\ SoundConn(p)' /\ (Held(p)' => Held(p))
             /\ made'[p].bShutdownd_ = made[p].bShutdownd_
  <2>1. (Held(p)' => Held(p)) /\ made'[p].bShutdownd_ = made[p].bShutdownd_
    BY <1>2, <1>3, <1>5, <1>6, SameView DEF Held, AllSound, SoundConn, Tied
  <2>2. Fresh(p)'
    BY <1>2, <1>4, <1>5, <1>6, <2>1
       DEF AllSound, SoundConn, Fresh, Held, AllSound, SoundConn, Tied
  <2>3. Tied(p)'
    BY <1>2, <1>4, <1>5, <1>6
       DEF AllSound, SoundConn, Tied, AllSound, SoundConn, Tied
  <2>4. Built(p)'
    BY <1>2, <1>3, <1>4, <1>5, <1>6, SameView
       DEF AllSound, SoundConn, Built, ConnIn, Arriving, Closing, AllSound,
           SoundConn
  <2>5. Retried(p)'
    BY <1>1, <1>2, <1>3, <1>4, <1>5, <1>6, SameView
       DEF AllSound, SoundConn, Retried, ClientIn, ConnIn, Timing, Client!Apart,
           AllSound, SoundConn
  <2>6. Mapped(p)'
    BY <1>1, <1>2, <1>3, <1>4, <1>6
       DEF AllSound, SoundConn, Mapped, ConnIn, AllSound, SoundConn
  <2> QED
    BY <2>1, <2>2, <2>3, <2>4, <2>5, <2>6 DEF SoundConn
<1>7. Single'
  BY <1>2, <1>3, <1>4, <1>6 DEF Single
<1>8. Kept'
  BY <1>1, <1>2, <1>3, <1>4, <1>6 DEF Kept
<1>9. Listed'
  BY <1>1, <1>2, <1>3, <1>4, <1>5, <1>6, FrameFacts
     DEF Listed, Serves, Single, Held, AllSound, SoundConn, Tied, Mapped,
         ConnIn, ClientTypes, Client!Apart
<1> QED
  BY <1>6, <1>7, <1>8, <1>9 DEF Parts, AllSound

(* addClientInLoop() creates a connection; a timer makes one connect again.  *)
LEMMA addConnStep ==
  ASSUME ClientTypes, Careful, Parts, Client!addConn
  PROVE  Parts'
<1> DEFINE q == CHOOSE r \in Client!Unborn : TRUE
<1>1. q \in Conns /\ ~made[q].born
  BY DEF Client!addConn, Client!Unborn
<1>2. /\ frame[ClientLoop].op = "addConn"
      /\ made' = [made EXCEPT ![q] = Client!doConnect(@)] /\ clientMap_' = "null"
      /\ Client!HandOver(ClientLoop, connLoop, Client!Call("BuildConnect", q))
      /\ UNCHANGED <<connLoop, clientList_, timers, wanted, overlapped>>
  BY DEF Client!addConn, Client!At
<1> HIDE DEF q
<1> QED
  BY <1>1, <1>2, addConnParts

LEMMA reconnectStep ==
  ASSUME ClientTypes, Careful, Parts, Client!reconnect
  PROVE  Parts'
BY reconnectParts DEF Client!reconnect, Client!At

LEMMA BuildConnectParts ==
  ASSUME ClientTypes, Careful, Parts, NEW q \in Conns, NEW c,
         frame[connLoop].op = "BuildConnect", frame[connLoop].conn = q,
         c.bufev_ \in {"null", "dialing", "connecting"},
         c.tie_ <=> made[q].tie_, c.callbacks <=> made[q].callbacks,
         c.born <=> made[q].born, c.bShutdownd_ <=> made[q].bShutdownd_,
         NEW g \in {Client!Idle, Client!Call("closeInLoop", q)},
         made' = [made EXCEPT ![q] = c], frame' = [frame EXCEPT ![connLoop] = g],
         UNCHANGED <<connLoop, functors, timers, clientMap_, clientList_, wanted, overlapped>>
  PROVE  Parts'
<1> USE ClientCallFields, NamesDiffer
<1>1. frame[connLoop].op = "BuildConnect" /\ frame[connLoop].conn = q
  BY FramesTyped, FrameFacts DEF Client!At
<1>2. /\ connLoop' = connLoop
      /\ functors' = functors
      /\ timers' = timers
      /\ clientMap_' = clientMap_
      /\ clientList_' = clientList_
      /\ wanted' = wanted
      /\ overlapped' = overlapped
      /\ \A p \in Conns : made'[p] = IF p = q THEN c ELSE made[p]
      /\ frame' = [frame EXCEPT ![connLoop] = g]
  BY <1>1 DEF ClientTypes
<1>3. /\ frame'[connLoop] = g
      /\ connLoop # ClientLoop => frame'[ClientLoop] = frame[ClientLoop]
  BY <1>1, <1>2, FrameStep DEF Client!Apart
<1>4. AllSound /\ Single /\ Kept /\ Listed
  BY DEF Parts
<1>5. /\ g.op \in {"idle", "closeInLoop"} /\ g.conn \in {none, q}
  BY DEF Client!Call, Client!Idle
<1>6. made[q].tie_ /\ made[q].bufev_ = "null" /\ clientMap_ # q /\ ~Building(q)
  BY <1>1, <1>4 DEF AllSound, SoundConn, Built, Mapped, ConnIn
<1>7. ASSUME NEW p \in Conns
      PROVE  /\ SoundConn(p)' /\ (Held(p)' => Held(p))
             /\ (made'[p].bShutdownd_ <=> made[p].bShutdownd_)
  <2>1. /\ (Held(p)' => Held(p))
        /\ (made'[p].bShutdownd_ <=> made[p].bShutdownd_)
    BY <1>2, <1>3, <1>7, SameView DEF Held
  <2>2. Fresh(p)'
    BY <1>2, <1>4, <1>7, <2>1 DEF AllSound, SoundConn, Fresh, Held
  <2>3. Tied(p)'
    BY <1>2, <1>4, <1>5, <1>6, <1>7 DEF AllSound, SoundConn, Tied
  <2>4. Built(p)'
    BY <1>2, <1>3, <1>4, <1>5, <1>6, <1>7, SameView
       DEF AllSound, SoundConn, Built, ConnIn, Arriving, Closing
  <2>5. Retried(p)'
    BY <1>1, <1>2, <1>3, <1>4, <1>5, <1>6, <1>7, SameView
       DEF AllSound, SoundConn, Retried, ClientIn, ConnIn, Timing, Client!Apart
  <2>6. Mapped(p)'
    BY <1>1, <1>2, <1>3, <1>4, <1>5, <1>6, <1>7
       DEF AllSound, SoundConn, Mapped, ConnIn
  <2> QED
    BY <2>1, <2>2, <2>3, <2>4, <2>5, <2>6 DEF SoundConn
<1>8. Single'
  BY <1>2, <1>3, <1>4, <1>7 DEF Single
<1>9. Kept'
  BY <1>2, <1>3, <1>4, <1>7 DEF Kept
<1>10. Listed'
  BY <1>1, <1>2, <1>3, <1>4, <1>5, <1>6, <1>7, FrameFacts
     DEF Listed, Serves, ClientTypes, Client!Apart
<1> QED
  BY <1>7, <1>8, <1>9, <1>10 DEF Parts, AllSound

LEMMA BuildConnectStep ==
  ASSUME ClientTypes, Careful, Parts, Client!BuildConnect
  PROVE  Parts'
<1> DEFINE q == frame[connLoop].conn
<1>1. q \in Conns /\ frame[connLoop].op = "BuildConnect"
  BY FramesTyped, ClientCallFields
     DEF Client!BuildConnect, Client!NoSocket, Client!Dial, Client!At,
         Client!ConnSteps
<1>2. /\ \/ made' = [made EXCEPT ![q] = made[q]]
         \/ made' = [made EXCEPT ![q] = Tries(made[q])]
         \/ \E b \in {"connecting", "dialing"} : made' = [made EXCEPT ![q] = Dials(made[q], b)]
      /\ \/ frame' = [frame EXCEPT ![connLoop] = Client!Idle]
         \/ frame' = [frame EXCEPT ![connLoop] = Client!Call("closeInLoop", q)]
      /\ UNCHANGED <<connLoop, functors, timers, clientMap_, clientList_, wanted, overlapped>>
  <2>1. CASE Client!NoSocket
    BY <1>1, <2>1 DEF Client!NoSocket, Client!Continue, ClientTypes, Tries
  <2>2. ASSUME NEW p \in Conns, Client!Dial(p)
        PROVE  /\ p = q
               /\ \E b \in {"connecting", "dialing"} : made' = [made EXCEPT ![p] = Dials(made[p], b)]
               /\ \/ frame' = [frame EXCEPT ![connLoop] = Client!Idle]
                  \/ frame' = [frame EXCEPT ![connLoop] = Client!Call("closeInLoop", p)]
               /\ UNCHANGED <<connLoop, functors, timers, clientMap_, clientList_, wanted, overlapped>>
    BY <2>2, ClientCallFields
       DEF Client!Dial, Client!Done, Client!Continue, ClientTypes, Dials
  <2> QED
    BY <2>1, <2>2 DEF Client!BuildConnect
<1>3. \A c \in {made[q], Tries(made[q]), Dials(made[q], "connecting"), Dials(made[q], "dialing")} :
        /\ c.bufev_ \in {"null", "dialing", "connecting"}
        /\ (c.tie_ <=> made[q].tie_) /\ (c.callbacks <=> made[q].callbacks)
        /\ (c.born <=> made[q].born) /\ (c.bShutdownd_ <=> made[q].bShutdownd_)
  <2>1. made[q] \in MadeFields /\ made[q].bufev_ = "null"
    BY <1>1 DEF ClientTypes, Parts, AllSound, SoundConn, Built, ConnIn
  <2>2. ASSUME NEW c \in {Tries(made[q]), Dials(made[q], "connecting"), Dials(made[q], "dialing")}
        PROVE  /\ c.bufev_ \in {"dialing", "connecting"}
               /\ c.tie_ = made[q].tie_ /\ c.callbacks = made[q].callbacks
               /\ c.born = made[q].born /\ c.bShutdownd_ = made[q].bShutdownd_
    <3>1. c.bufev_ \in {"dialing", "connecting"}
      BY <2>1, BufferValues
    <3>2. c \in {Tries(made[q]), Dials(made[q], "connecting"), Dials(made[q], "dialing"),
                ComesUp(made[q])}
      OBVIOUS
    <3> QED
      BY <2>1, <3>1, <3>2, BufferUpdates
  <2> QED
    BY <2>1, <2>2
<1> HIDE DEF q
<1>4. PICK c \in {made[q], Tries(made[q]), Dials(made[q], "connecting"), Dials(made[q], "dialing")} :
        made' = [made EXCEPT ![q] = c]
  BY <1>2
<1>5. PICK g \in {Client!Idle, Client!Call("closeInLoop", q)} :
        frame' = [frame EXCEPT ![connLoop] = g]
  BY <1>2
<1> QED
  BY <1>1, <1>2, <1>3, <1>4, <1>5, BuildConnectParts DEF q

LEMMA RunsParts ==
  ASSUME ClientTypes, Careful, Parts,
         NEW op \in {"addClientInLoop", "delClientInLoop"},
         frame[ClientLoop] = Client!Idle,
         frame' = [frame EXCEPT ![ClientLoop] = Client!Call(op, none)],
         functors' = functors,
         UNCHANGED <<connLoop, made, timers, clientMap_, clientList_, wanted, overlapped>>
  PROVE  Parts'
<1> USE ClientCallFields, NamesDiffer
<1>1. frame[ClientLoop] = Client!Idle
  BY FramesTyped, FrameFacts DEF ClientTypes
<1>2. /\ connLoop' = connLoop
      /\ functors' = functors
      /\ timers' = timers
      /\ made' = made
      /\ clientMap_' = clientMap_
      /\ clientList_' = clientList_
      /\ wanted' = wanted
      /\ overlapped' = overlapped
      /\ frame' = [frame EXCEPT ![ClientLoop] = Client!Call(op, none)]
  BY <1>1 DEF ClientTypes
<1>3. /\ frame'[ClientLoop] = Client!Call(op, none)
      /\ ClientLoop # connLoop => frame'[connLoop] = frame[connLoop]
  BY <1>1, <1>2, FrameStep DEF Client!Apart
<1>4. AllSound /\ Single /\ Kept /\ Listed
  BY DEF Parts
<1>5. ASSUME NEW p \in Conns
      PROVE  /\ SoundConn(p)' /\ (Held(p)' => Held(p))
             /\ made'[p].bShutdownd_ = made[p].bShutdownd_
  <2>1. (Held(p)' => Held(p)) /\ made'[p].bShutdownd_ = made[p].bShutdownd_
    BY <1>2, <1>3, <1>5, SameView DEF Held
  <2>2. Fresh(p)'
    BY <1>2, <1>4, <1>5, <2>1 DEF AllSound, SoundConn, Fresh, Held
  <2>3. Tied(p)'
    BY <1>2, <1>4, <1>5 DEF AllSound, SoundConn, Tied
  <2>4. Built(p)'
    BY <1>2, <1>3, <1>4, <1>5, SameView DEF AllSound, SoundConn, Built, ConnIn
  <2>5. Retried(p)'
    BY <1>1, <1>2, <1>3, <1>4, <1>5, SameView
       DEF AllSound, SoundConn, Retried, ClientIn, ConnIn
  <2>6. Mapped(p)'
    BY <1>1, <1>2, <1>3, <1>4, <1>5 DEF AllSound, SoundConn, Mapped, ConnIn
  <2> QED
    BY <2>1, <2>2, <2>3, <2>4, <2>5, <2>6 DEF SoundConn
<1>6. Single'
  BY <1>2, <1>3, <1>4, <1>5 DEF Single
<1>7. Kept'
  BY <1>2, <1>3, <1>4, <1>5 DEF Kept
<1>8. Listed'
  BY <1>1, <1>2, <1>3, <1>4, <1>5, FrameFacts
     DEF Listed, Serves, ClientTypes, Client!Apart
<1> QED
  BY <1>5, <1>6, <1>7, <1>8 DEF Parts, AllSound

LEMMA QueuesParts ==
  ASSUME ClientTypes, Careful, Parts,
         NEW op \in {"addClientInLoop", "delClientInLoop"},
         functors' = Client!Push(ClientLoop, Client!Call(op, none)), frame' = frame,
         UNCHANGED <<connLoop, made, timers, clientMap_, clientList_, wanted, overlapped>>
  PROVE  Parts'
<1> USE ClientCallFields, NamesDiffer
<1>1. op # "startTimer" /\ op # "BuildConnect"
  BY FramesTyped, FrameFacts DEF Client!Call
<1>2. /\ connLoop' = connLoop
      /\ timers' = timers
      /\ made' = made
      /\ clientMap_' = clientMap_
      /\ clientList_' = clientList_
      /\ wanted' = wanted
      /\ overlapped' = overlapped
      /\ functors' = Client!Push(ClientLoop, Client!Call(op, none))
      /\ frame' = frame
  BY <1>1 DEF ClientTypes, Client!Call, Shut
<1>3. frame'[ClientLoop] = frame[ClientLoop] /\ frame'[connLoop] = frame[connLoop]
  BY <1>1, <1>2, FrameStep DEF Client!Apart
<1>4. AllSound /\ Single /\ Kept /\ Listed
  BY DEF Parts
<1>5. ASSUME NEW p \in Conns
      PROVE  /\ SoundConn(p)' /\ (Held(p)' => Held(p))
             /\ made'[p].bShutdownd_ = made[p].bShutdownd_
  <2>1. (Held(p)' => Held(p)) /\ made'[p].bShutdownd_ = made[p].bShutdownd_
    BY <1>2, <1>3, <1>5, PushView DEF Held
  <2>2. Fresh(p)'
    BY <1>2, <1>4, <1>5, <2>1 DEF AllSound, SoundConn, Fresh, Held
  <2>3. Tied(p)'
    BY <1>2, <1>4, <1>5 DEF AllSound, SoundConn, Tied
  <2>4. Built(p)'
    BY <1>2, <1>3, <1>4, <1>5, PushView DEF AllSound, SoundConn, Built, ConnIn
  <2>5. Retried(p)'
    BY <1>1, <1>2, <1>3, <1>4, <1>5, PushView
       DEF AllSound, SoundConn, Retried, ClientIn, ConnIn, Timing, Client!Apart
  <2>6. Mapped(p)'
    BY <1>1, <1>2, <1>3, <1>4, <1>5 DEF AllSound, SoundConn, Mapped, ConnIn
  <2> QED
    BY <2>1, <2>2, <2>3, <2>4, <2>5, <2>6 DEF SoundConn
<1>6. Single'
  BY <1>2, <1>3, <1>4, <1>5 DEF Single
<1>7. Kept'
  BY <1>2, <1>3, <1>4, <1>5 DEF Kept
<1>8. Listed'
  BY <1>1, <1>2, <1>3, <1>4, <1>5, FrameFacts
     DEF Listed, Serves, ClientTypes, Client!Apart
<1> QED
  BY <1>5, <1>6, <1>7, <1>8 DEF Parts, AllSound

LEMMA closeParts ==
  ASSUME ClientTypes, Careful, Parts, NEW q \in Conns, Client!close(q)
  PROVE  Parts'
<1> USE ClientCallFields, NamesDiffer
<1>1. "closeInLoop" # "startTimer"
  BY FramesTyped, FrameFacts DEF Client!Call
<1>2. /\ connLoop' = connLoop
      /\ timers' = timers
      /\ made' = made
      /\ clientMap_' = clientMap_
      /\ clientList_' = clientList_
      /\ wanted' = wanted
      /\ overlapped' = overlapped
      /\ functors' = Client!Push(connLoop, Client!Call("closeInLoop", q))
      /\ frame' = frame
  BY <1>1 DEF ClientTypes, Client!Call, Shut, Client!close
<1>3. frame'[ClientLoop] = frame[ClientLoop] /\ frame'[connLoop] = frame[connLoop]
  BY <1>1, <1>2, FrameStep DEF Client!Apart
<1>4. AllSound /\ Single /\ Kept /\ Listed
  BY DEF Parts
<1>5. ClientLoop = connLoop /\ Held(q)
  BY FrameFacts
     DEF Careful, Held, Client!HandedOut, Client!close, Client!shutdown
<1>6. ASSUME NEW p \in Conns
      PROVE  /\ SoundConn(p)' /\ (Held(p)' => Held(p))
             /\ made'[p].bShutdownd_ = made[p].bShutdownd_
  <2>1. (Held(p)' => Held(p)) /\ made'[p].bShutdownd_ = made[p].bShutdownd_
    BY <1>2, <1>3, <1>5, <1>6, PushView DEF Held
  <2>2. Fresh(p)'
    BY <1>2, <1>4, <1>6, <2>1 DEF AllSound, SoundConn, Fresh, Held
  <2>3. Tied(p)'
    BY <1>2, <1>4, <1>6 DEF AllSound, SoundConn, Tied
  <2>4. Built(p)'
    BY <1>2, <1>3, <1>4, <1>5, <1>6, PushView
       DEF AllSound, SoundConn, Built, ConnIn
  <2>5. Retried(p)'
    BY <1>1, <1>2, <1>3, <1>4, <1>5, <1>6, PushView
       DEF AllSound, SoundConn, Retried, ClientIn, ConnIn, Timing, Client!Apart
  <2>6. Mapped(p)'
    BY <1>1, <1>2, <1>3, <1>4, <1>6 DEF AllSound, SoundConn, Mapped, ConnIn
  <2> QED
    BY <2>1, <2>2, <2>3, <2>4, <2>5, <2>6 DEF SoundConn
<1>7. Single'
  BY <1>2, <1>3, <1>4, <1>6 DEF Single
<1>8. Kept'
  BY <1>2, <1>3, <1>4, <1>6 DEF Kept
<1>9. Listed'
  BY <1>1, <1>2, <1>3, <1>4, <1>5, <1>6, FrameFacts
     DEF Listed, Serves, ClientTypes, Client!Apart
<1> QED
  BY <1>6, <1>7, <1>8, <1>9 DEF Parts, AllSound

LEMMA shutdownParts ==
  ASSUME ClientTypes, Careful, Parts, NEW q \in Conns, Client!shutdown(q)
  PROVE  Parts'
<1> USE ClientCallFields, NamesDiffer
<1>1. "closeInLoop" # "startTimer"
  BY FramesTyped, FrameFacts DEF Client!Call
<1>2. /\ connLoop' = connLoop
      /\ timers' = timers
      /\ \A p \in Conns : made'[p] = IF p = q THEN Shut(made[q]) ELSE made[p]
      /\ clientMap_' = clientMap_
      /\ clientList_' = clientList_
      /\ wanted' = FALSE
      /\ overlapped' = overlapped
      /\ functors' = Client!Push(connLoop, Client!Call("closeInLoop", q))
      /\ frame' = frame
  BY <1>1 DEF ClientTypes, Client!Call, Shut, Client!shutdown
<1>3. frame'[ClientLoop] = frame[ClientLoop] /\ frame'[connLoop] = frame[connLoop]
  BY <1>1, <1>2, FrameStep DEF Client!Apart
<1>4. AllSound /\ Single /\ Kept /\ Listed
  BY DEF Parts
<1>5. ClientLoop = connLoop /\ Held(q)
  BY FrameFacts
     DEF Careful, Held, Client!HandedOut, Client!close, Client!shutdown
<1>6. /\ Shut(made[q]).bShutdownd_ /\ Shut(made[q]).bufev_ = made[q].bufev_
      /\ Shut(made[q]).tie_ = made[q].tie_ /\ Shut(made[q]).callbacks = made[q].callbacks
      /\ Shut(made[q]).born = made[q].born
  BY <1>1, MadeUpdates DEF ClientTypes
<1>7. ASSUME NEW p \in Conns
      PROVE  /\ SoundConn(p)' /\ (Held(p)' => Held(p))
             /\ (p # q => made'[p].bShutdownd_ = made[p].bShutdownd_)
  <2>1. /\ (Held(p)' => Held(p))
        /\ (p # q => made'[p].bShutdownd_ = made[p].bShutdownd_)
    BY <1>2, <1>3, <1>5, <1>6, <1>7, PushView DEF Held
  <2>2. Fresh(p)'
    BY <1>2, <1>4, <1>5, <1>6, <1>7, <2>1 DEF AllSound, SoundConn, Fresh, Held
  <2>3. Tied(p)'
    BY <1>2, <1>4, <1>5, <1>6, <1>7 DEF AllSound, SoundConn, Tied
  <2>4. Built(p)'
    BY <1>2, <1>3, <1>4, <1>5, <1>6, <1>7, PushView
       DEF AllSound, SoundConn, Built, ConnIn
  <2>5. Retried(p)'
    BY <1>1, <1>2, <1>3, <1>4, <1>5, <1>6, <1>7, PushView
       DEF AllSound, SoundConn, Retried, ClientIn, ConnIn, Timing, Client!Apart
  <2>6. Mapped(p)'
    BY <1>1, <1>2, <1>3, <1>4, <1>5, <1>6, <1>7
       DEF AllSound, SoundConn, Mapped, ConnIn
  <2> QED
    BY <2>1, <2>2, <2>3, <2>4, <2>5, <2>6 DEF SoundConn
<1>8. Single'
  BY <1>2, <1>3, <1>4, <1>7 DEF Single
<1>9. Kept'
  BY <1>2, <1>3, <1>4, <1>7 DEF Kept
<1>10. Listed'
  BY <1>1, <1>2, <1>3, <1>4, <1>5, <1>6, <1>7, FrameFacts
     DEF Listed, Serves, Single, Held, AllSound, SoundConn, Tied, Mapped,
         ConnIn, ClientTypes, Client!Apart
<1> QED
  BY <1>7, <1>8, <1>9, <1>10 DEF Parts, AllSound

(* The functor that a loop takes next. *)
LEMMA HeadTyped ==
  ASSUME ClientTypes, NEW l \in {ClientLoop, connLoop}, Client!NextFunctor(l)
  PROVE  \/ Head(functors[l]) \in AppCalls /\ l = ClientLoop
         \/ Head(functors[l]) \in StartCalls /\ l = ClientLoop /\ Client!Apart
         \/ Head(functors[l]) \in CloseCalls /\ l = connLoop
         \/ Head(functors[l]) \in BuildCalls /\ l = connLoop /\ Client!Apart
<1>1. \A S : \A s \in Seq(S) : s # <<>> => Head(s) \in S
  BY HeadTailProperties
<1>2. functors[l] # <<>>
  BY DEF Client!NextFunctor
<1>3. CASE Client!Apart /\ l = ClientLoop
  <2>1. Head(functors[l]) \in AppCalls \cup StartCalls
    BY <1>1, <1>2, <1>3 DEF ClientTypes, LoopsTyped, LoopTypes
  <2> QED
    BY <1>3, <2>1
<1>4. CASE Client!Apart /\ l = connLoop
  <2>1. Head(functors[l]) \in CloseCalls \cup BuildCalls
    BY <1>1, <1>2, <1>4 DEF ClientTypes, LoopsTyped, LoopTypes
  <2> QED
    BY <1>4, <2>1
<1>5. CASE ~Client!Apart
  <2>1. Head(functors[l]) \in AppCalls \cup CloseCalls
    BY <1>1, <1>2, <1>5 DEF ClientTypes, LoopsTyped, LoopTypes, Client!Apart
  <2> QED
    BY <1>5, <2>1 DEF Client!Apart
<1> QED
  BY <1>3, <1>4, <1>5

LEMMA NextFunctorParts ==
  ASSUME ClientTypes, Careful, Parts,
         NEW l \in {ClientLoop, connLoop}, Client!NextFunctor(l)
  PROVE  Parts'
<1> USE ClientCallFields, NamesDiffer
<1>1. frame[l] = Client!Idle
  BY FramesTyped, FrameFacts DEF Client!NextFunctor
<1>2. /\ connLoop' = connLoop
      /\ timers' = timers
      /\ made' = made
      /\ clientMap_' = clientMap_
      /\ clientList_' = clientList_
      /\ wanted' = wanted
      /\ overlapped' = overlapped
      /\ frame' = [frame EXCEPT ![l] = Head(functors[l])]
  BY <1>1 DEF Client!NextFunctor
<1>3. /\ frame'[l] = Head(functors[l])
      /\ \A k \in {ClientLoop, connLoop} : k # l => frame'[k] = frame[k]
  BY <1>1, <1>2, FrameStep DEF Client!Apart
<1>4. AllSound /\ Single /\ Kept /\ Listed
  BY DEF Parts
<1>5. \/ Head(functors[l]) \in AppCalls /\ l = ClientLoop
      \/ Head(functors[l]) \in StartCalls /\ l = ClientLoop /\ Client!Apart
      \/ Head(functors[l]) \in CloseCalls /\ l = connLoop
      \/ Head(functors[l]) \in BuildCalls /\ l = connLoop /\ Client!Apart
  BY HeadTyped
<1>6. Head(functors[l]).op \in {"addClientInLoop", "delClientInLoop", "closeInLoop",
                                 "startTimer", "BuildConnect"}
  BY <1>5 DEF AppCalls, StartCalls, CloseCalls, BuildCalls
<1>7. /\ Head(functors[l]) \in AppCalls =>
           /\ Head(functors[l]).conn = none
           /\ Head(functors[l]).op \in {"addClientInLoop", "delClientInLoop"}
      /\ Head(functors[l]) \in StartCalls =>
           Head(functors[l]) = Client!Call("startTimer", Head(functors[l]).conn)
      /\ Head(functors[l]) \in BuildCalls =>
           Head(functors[l]) = Client!Call("BuildConnect", Head(functors[l]).conn)
      /\ Head(functors[l]) \in CloseCalls => Head(functors[l]).op = "closeInLoop"
  BY DEF AppCalls, StartCalls, CloseCalls, BuildCalls, Client!Call
<1>8. ASSUME NEW p \in Conns
      PROVE  /\ SoundConn(p)' /\ (Held(p)' => Held(p))
             /\ made'[p].bShutdownd_ = made[p].bShutdownd_
  <2>1. (Held(p)' => Held(p)) /\ made'[p].bShutdownd_ = made[p].bShutdownd_
    BY <1>2, <1>3, <1>8, TakeView DEF Held
  <2>2. Fresh(p)'
    BY <1>2, <1>4, <1>8, <2>1 DEF AllSound, SoundConn, Fresh, Held
  <2>3. Tied(p)'
    BY <1>2, <1>4, <1>8 DEF AllSound, SoundConn, Tied
  <2>4. Built(p)'
    BY <1>2, <1>3, <1>4, <1>5, <1>6, <1>7, <1>8, TakeView
       DEF AllSound, SoundConn, Built, ConnIn, Arriving, Closing
  <2>5. Retried(p)'
    BY <1>1, <1>2, <1>3, <1>4, <1>5, <1>6, <1>7, <1>8, TakeView
       DEF AllSound, SoundConn, Retried, ClientIn, ConnIn, Timing, Client!Apart
  <2>6. Mapped(p)'
    BY <1>1, <1>2, <1>3, <1>4, <1>5, <1>6, <1>7, <1>8
       DEF AllSound, SoundConn, Mapped, Built, Tied, ConnIn, Arriving
  <2> QED
    BY <2>1, <2>2, <2>3, <2>4, <2>5, <2>6 DEF SoundConn
<1>9. Single'
  BY <1>2, <1>3, <1>4, <1>5, <1>6, <1>7, <1>8 DEF Single
<1>10. Kept'
  BY <1>1, <1>2, <1>3, <1>4, <1>5, <1>6, <1>7, <1>8 DEF Kept
<1>11. Listed'
  BY <1>1, <1>2, <1>3, <1>4, <1>5, <1>6, <1>7, <1>8, FrameFacts
     DEF Listed, Serves, ClientTypes, Client!Apart
<1> QED
  BY <1>8, <1>9, <1>10, <1>11 DEF Parts, AllSound

(* Nothing is referred to at first. *)
LEMMA InitParts == Client!Init => Parts
<1> SUFFICES ASSUME Client!Init PROVE Parts
  OBVIOUS
<1> USE ClientCallFields, NamesDiffer
<1>1. /\ functors[ClientLoop] = <<>> /\ functors[connLoop] = <<>>
      /\ frame[ClientLoop] = Client!Idle /\ frame[connLoop] = Client!Idle
  BY DEF Client!Init, Client!ClientLoops
<1>2. Len(<<>>) = 0 /\ 1..0 = {}
  OBVIOUS
<1>3. \A p : /\ ~Building(p) /\ ~Starting(p) /\ ~InConnQueue(p) /\ ~InClientQueue(p)
             /\ FirstBuilds(p) /\ StartsOnce(p)
  BY <1>1, <1>2
     DEF Building, Starting, InConnQueue, InClientQueue, FirstBuilds, StartsOnce,
         Has, Once, Names, BuildsFirst
<1>4. /\ clientMap_ = "absent" /\ clientList_ = <<>> /\ ~wanted
      /\ \A p \in Conns : /\ timers[p] = 0 /\ ~made[p].born /\ ~made[p].tie_ /\ ~made[p].callbacks
                          /\ made[p].bufev_ = "null" /\ ~made[p].bShutdownd_
  BY DEF Client!Init, Client!NewConn
<1>5. \A p \in Conns : p \notin Client!ToSet(clientList_)
  BY <1>4 DEF Client!ToSet
<1>6. ASSUME NEW p \in Conns PROVE SoundConn(p) /\ ~Held(p)
  BY <1>1, <1>3, <1>4, <1>5
     DEF SoundConn, Fresh, Held, Tied, Built, Retried, Mapped, ClientIn, ConnIn,
         Arriving, Closing, Timing
<1> QED
  BY <1>1, <1>4, <1>6 DEF Parts, AllSound, Single, Kept, Listed, Serves

LEMMA ApplicationParts ==
  ASSUME ClientTypes, Careful, Parts, Client!Application
  PROVE  Parts'
<1>1. ASSUME NEW op \in {"addClientInLoop", "delClientInLoop"}, Client!ClientCall(op)
      PROVE  Parts'
  <2>1. UNCHANGED <<connLoop, made, timers, clientMap_, clientList_, wanted, overlapped>>
    BY <1>1 DEF Client!ClientCall
  <2>2. CASE functors' = Client!Push(ClientLoop, Client!Call(op, none)) /\ frame' = frame
    BY <2>1, <2>2, QueuesParts
  <2>3. CASE /\ frame[ClientLoop] = Client!Idle
             /\ frame' = [frame EXCEPT ![ClientLoop] = Client!Call(op, none)]
             /\ functors' = functors
    BY <2>1, <2>3, RunsParts
  <2> QED
    BY <1>1, <2>2, <2>3 DEF Client!ClientCall, Client!Continue
<1> QED
  BY <1>1, closeParts, shutdownParts
     DEF Client!Application, Client!addClient, Client!delClient

LEMMA ClientStepParts ==
  ASSUME ClientTypes, Careful, Parts, Client!ClientStep
  PROVE  Parts'
BY NextFunctorParts, addClientInLoopParts, addConnStep, delClientInLoopParts,
   delOldParts, delKeyParts, startTimerParts, onRetryParts, reconnectStep
   DEF Client!ClientStep

LEMMA ConnStepParts ==
  ASSUME ClientTypes, Careful, Parts, Client!ConnStep
  PROVE  Parts'
BY NextFunctorParts, BuildConnectStep, onConnectParts, addToListParts,
   checkOldParts, setConnParts, closeInLoopParts, onCloseParts, eraseKeyParts,
   runAfterParts, finishParts
   DEF Client!ConnStep

LEMMA NextClientParts ==
  ASSUME ClientTypes, Careful, Parts, Client!Next
  PROVE  Parts'
BY ApplicationParts, ClientStepParts, ConnStepParts, RetryTimerParts, FailedParts,
   ConnectedParts
   DEF Client!Next, Client!Network

(* A step that changes nothing of the client. *)
LEMMA ClientRests ==
  ASSUME ClientIInv, UNCHANGED Client!vars
  PROVE  ClientIInv'
<1>1. UNCHANGED <<connLoop, made, clientMap_, clientList_, functors, frame, timers, wanted, overlapped>>
  BY DEF Client!vars
<1>2. ClientTypes'
  BY <1>1 DEF ClientIInv, ClientTypes, LoopsTyped, LoopTypes, Client!Apart
<1>3. \A p : /\ SoundConn(p) => SoundConn(p)'
             /\ Held(p)' <=> Held(p)
  BY <1>1, SameView
     DEF SoundConn, Fresh, Held, Tied, Built, Retried, Mapped, ClientIn, ConnIn,
         Client!Apart
<1>4. Parts => Parts'
  BY <1>1, <1>3 DEF Parts, AllSound, Single, Kept, Listed, Serves, Client!Apart
<1> QED
  BY <1>1, <1>2, <1>4 DEF ClientIInv, Careful, Client!Apart

LEMMA ClientInvariance == ClientSpec => []ClientIInv
<1>1. Client!Init => ClientIInv
  BY InitClientTypes, InitParts DEF ClientIInv
<1>2. ASSUME ClientIInv, [Client!Next /\ UNCHANGED vars]_<<vars, Client!vars>>
      PROVE  ClientIInv'
  <2>1. CASE Client!Next
    <3>1. connLoop' = connLoop
      BY <2>1
         DEF Client!Next, Client!Application, Client!addClient, Client!delClient,
             Client!ClientCall, Client!close, Client!shutdown, Client!Network,
             Client!Connected, Client!Failed, Client!RetryTimer,
             Client!ClientStep, Client!NextFunctor, Client!addClientInLoop,
             Client!addConn, Client!delClientInLoop, Client!delOld, Client!delKey,
             Client!startTimer, Client!onRetry, Client!reconnect, Client!ConnStep,
             Client!BuildConnect, Client!NoSocket, Client!Dial, Client!onConnect,
             Client!addToList, Client!checkOld, Client!setConn,
             Client!closeInLoop, Client!onClose, Client!eraseKey, Client!runAfter,
             Client!finish
    <3>2. Careful' <=> Careful
      BY <3>1 DEF Careful, Client!Apart
    <3> QED
      BY <1>2, <2>1, <3>2, NextClientTypes, NextClientParts DEF ClientIInv
  <2>2. CASE UNCHANGED Client!vars
    BY <1>2, <2>2, ClientRests
  <2> QED
    BY <1>2, <2>1, <2>2
<1> QED
  BY <1>1, <1>2, PTL DEF ClientSpec

-----------------------------------------------------------------------------
(* What the application has to see to, when it puts the connections on a   *)
(* loop of their own: the delay before a retry is longer than a close      *)
(* takes, and close() and shutdown() are left to the client.               *)
CarefulUse == ConnLoops = {ClientLoop} \/ (PatientRetry /\ ~AppCloses)

(* With that a connection that libevent refers to holds on to itself       *)
(* (tie_), so nobody frees it under a pending callback.                    *)
THEOREM ClientTiedWhileOpen == CarefulUse => (ClientSpec => []TiedWhileOpen)
<1>1. ASSUME CarefulUse, ClientIInv PROVE TiedWhileOpen
  <2>1. Careful
    BY <1>1
       DEF CarefulUse, Careful, Client!Apart, ClientIInv, ClientTypes, LoopsTyped
  <2> QED
    BY <1>1, <2>1
       DEF ClientIInv, Parts, AllSound, SoundConn, Tied, TiedWhileOpen,
           Client!TiedWhileOpen
<1>2. CASE CarefulUse
  <2>1. ClientIInv => TiedWhileOpen
    BY <1>1, <1>2
  <2> QED
    BY <2>1, ClientInvariance, PTL
<1> QED
  BY <1>2

(* With that a client that was added, and neither deleted nor shut down,   *)
(* stays in connMap_ whenever both threads are between two handlers.       *)
THEOREM ClientStaysRegistered == CarefulUse => (ClientSpec => []ClientKept)
<1>1. ASSUME CarefulUse, ClientIInv PROVE ClientKept
  <2>1. Careful
    BY <1>1
       DEF CarefulUse, Careful, Client!Apart, ClientIInv, ClientTypes, LoopsTyped
  <2>2. Client!Resting => frame[ClientLoop].op = "idle"
    BY DEF Client!Resting, Client!ClientLoops, Client!Idle
  <2> QED
    BY <1>1, <2>1, <2>2 DEF ClientIInv, Parts, Kept, ClientKept, Client!ClientKept
<1>2. CASE CarefulUse
  <2>1. ClientIInv => ClientKept
    BY <1>1, <1>2
  <2> QED
    BY <2>1, ClientInvariance, PTL
<1> QED
  BY <1>2

(* With one loop, the list that getNextConn() serves holds just the        *)
(* registered connection while it is up, once, whenever no handler runs,   *)
(* whatever the application does.                                          *)
THEOREM ListIsRegistered == ClientSpec => []ListMatchesMap
<1>1. ASSUME ClientIInv, Client!Resting, ~overlapped, ~Client!Apart
      PROVE  /\ Client!ToSet(clientList_)
                  = {p \in Conns : clientMap_ = p /\ made[p].bufev_ = "up"}
             /\ Len(clientList_) <= 1
  <2>1. Parts
    BY <1>1 DEF ClientIInv, Careful
  <2>2. frame[ClientLoop].op = "idle"
    BY <1>1 DEF Client!Resting, Client!ClientLoops, Client!Idle
  <2>3. /\ \A p \in Conns : Serves(p) => clientList_ = <<p>>
        /\ clientList_ = <<>> \/ \E p \in Conns : Serves(p) /\ clientList_ = <<p>>
    BY <1>1, <2>1, <2>2 DEF Parts, Listed
  <2>4. CASE clientList_ = <<>>
    <3>1. \A p \in Conns : ~Serves(p)
      BY <2>3, <2>4
    <3>2. Client!ToSet(clientList_) = {} /\ Len(clientList_) = 0
      BY <2>4 DEF Client!ToSet
    <3> QED
      BY <3>1, <3>2 DEF Serves
  <2>5. ASSUME NEW p \in Conns, Serves(p), clientList_ = <<p>>
        PROVE  /\ Client!ToSet(clientList_)
                    = {q \in Conns : clientMap_ = q /\ made[q].bufev_ = "up"}
               /\ Len(clientList_) <= 1
    <3>1. Client!ToSet(clientList_) = {p} /\ Len(clientList_) = 1
      BY <2>5 DEF Client!ToSet
    <3>2. {q \in Conns : clientMap_ = q /\ made[q].bufev_ = "up"} = {p}
      BY <2>5 DEF Serves
    <3> QED
      BY <3>1, <3>2
  <2> QED
    BY <2>3, <2>4, <2>5
<1>2. ClientIInv => ListMatchesMap
  BY <1>1 DEF ListMatchesMap, Client!ListMatchesMap
<1> QED
  BY <1>2, ClientInvariance, PTL

================================================================================
