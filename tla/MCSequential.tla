----------------------------- MODULE MCSequential -----------------------------
(***************************************************************************)
(* The components that have no threads, or none that matter to others, for *)
(* TLC: in each behaviour one of them runs, the others stay as they began. *)
(* The functions of StringOps are given one input each.  Components are    *)
(* those that a run of TLC is about.                                       *)
(***************************************************************************)
EXTENDS FileNotify, FiniteSets

CONSTANTS
  MaxCalls, MaxResults, Calling, Conns, MaxDeleted, Callers, Threads, MaxIndex, Buffer,
  Records, Large, RollSize, FlushInterval, AutoRm, SecondsPerDay, DaysPerMonth,
  MaxTime, MaxGap, Words, KeyOrder, Texts, Files, none, Components

ASSUME CallingAssumption == Calling \subseteq 1..MaxCalls /\ MaxResults \in Nat
ASSUME ConnsAssumption == IsFiniteSet(Conns)
ASSUME ClockAssumption ==
  /\ {SecondsPerDay, DaysPerMonth} \subseteq Nat \ {0}
  /\ {MaxTime, MaxGap, FlushInterval, AutoRm, RollSize} \subseteq Nat
ASSUME LargeAssumption == Large \subseteq Records /\ RollSize >= 2
ASSUME NoneAssumption == none \notin Nat \cup Records

(* The log thread waits flushInterval_ seconds at most before it calls      *)
(* append() again: 1 unless configured otherwise.  An interval of a month   *)
(* would not be refused, but is left out.                                   *)
ASSUME GapAssumption == MaxGap <= (DaysPerMonth - 1) * SecondsPerDay

VARIABLES
  handle, bConnect_, session, pending, effects, calls, current, result, txn,
  closed, wrong,
  file, cfgMap_, state, given, durable,
  connList_, next_, waited, deleted,
  step, index, overlapped,
  loop_,        \* next_ of the EventLoopThreadPool
  now, name, writtenBytes_, fileDay_, lastFlush_, buffer, disk, time, appended,
  lost, lastCall, full,
  input, number, length,
  part          \* the component that runs

Mysql == INSTANCE MysqlProxyConn
Config == INSTANCE ConfigReader
List == INSTANCE ConnList
Pool == INSTANCE EventLoopThreadPool WITH next_ <- loop_
Log == INSTANCE LogFile
Strings == INSTANCE StringOps WITH Delim <- 0, npos <- 99

(* Texts are sequences of words.  The keys of the application differ, fit   *)
(* in a line of their own, and are read as they are written.                *)
ASSUME WordsAssumption == {"=", Config!Newline} \subseteq Words
ASSUME TextsAssumption == Texts \cup Files \subseteq Seq(Words)
ASSUME KeysAssumption ==
  /\ KeyOrder \in Seq(Seq(Words))
  /\ \A i, j \in DOMAIN KeyOrder : KeyOrder[i] = KeyOrder[j] => i = j
  /\ \A i \in DOMAIN KeyOrder :
       Config!Faithful(KeyOrder[i]) /\ ~Config!Contains(KeyOrder[i], "=")

(* The configuration for TLC: two keys; a file with comments, lines that    *)
(* set nothing, and two that set one key.                                   *)
Vocabulary == {"k1", "k2", "a", "b", " ", "=", "#", "\n", "long"}
TwoKeys == <<<<"k1">>, <<"k2">>>>
Values ==
  {<<"a">>, <<"b", " ", "=">>, <<" ", "a">>, <<"a", "#">>, <<>>, <<"long", "b">>,
   <<"a", "\n", "k2", "=", "b">>}
FirstFiles ==
  {<<>>, <<"#", "a", "\n", "k2", " ", "=", "a", "\n", "k2", "=", "b", "\n", "\n", "a">>}

mysql == <<handle, bConnect_, session, pending, effects, calls, current, result,
           txn, closed, wrong>>
config == <<file, cfgMap_, state, given, durable>>
list == <<connList_, next_, waited, deleted>>
pool == <<loop_, step, index, overlapped>>
log == <<now, name, writtenBytes_, fileDay_, lastFlush_, buffer, disk, time,
         appended, lost, lastCall, full>>
strings == <<input, number, length>>

(* Inputs of splitex(), utf8_substr() and sprintfex(). *)
StringsOf(chars, n) == UNION {[1..m -> chars] : m \in 0..n}

MCInit ==
  /\ part \in Components
  /\ \/ /\ part \in {"notify", "mysql", "config", "list", "pool", "log"}
        /\ input = <<>> /\ number = 0 /\ length = 0
     \/ /\ part = "splitex"
        /\ input \in StringsOf({0, 1}, 5) /\ number \in -7..7 /\ length = 0
     \/ /\ part = "utf8_substr"
        /\ input \in StringsOf({1, 2, 4}, 3)
        /\ number \in 0..4 /\ length \in 0..4 \cup {99}
     \/ /\ part = "sprintfex"
        /\ input = <<>> /\ number = 0 /\ length \in 0..(2 * Buffer)
  /\ Init /\ Mysql!Init /\ Config!Init /\ List!Init /\ Pool!Init /\ Log!Init
  /\ (bConnect_ \/ part = "mysql")
  /\ (file = <<>> /\ state = "idle") \/ part = "config"
  /\ (fileDay_ = 0 \/ part = "log")

MCNext ==
  /\ UNCHANGED <<part, strings>>
  /\ \/ part = "notify" /\ Next /\ UNCHANGED <<mysql, config, list, pool, log>>
     \/ part = "mysql" /\ Mysql!Next /\ UNCHANGED <<vars, config, list, pool, log>>
     \/ part = "config" /\ Config!Next /\ UNCHANGED <<vars, mysql, list, pool, log>>
     \/ part = "list" /\ List!Next /\ UNCHANGED <<vars, mysql, config, pool, log>>
     \/ part = "pool" /\ Pool!Next /\ UNCHANGED <<vars, mysql, config, list, log>>
     \/ part = "log" /\ Log!Next /\ UNCHANGED <<vars, mysql, config, list, pool>>

MCSpec ==
  MCInit /\ [][MCNext]_<<vars, mysql, config, list, pool, log, strings, part>>

-----------------------------------------------------------------------------
(* The properties of MysqlProxyConn: statements take effect as often as     *)
(* they may, a commit keeps the end of a transaction, results are read.     *)
EffectsBounded == Mysql!EffectsBounded
CommitKeepsTheEnd == Mysql!CommitKeepsTheEnd
ResultsAreRead == Mysql!ResultsAreRead

(* The property of ConfigReader: values that were set survive restarts. *)
ValuesKept == Config!ValuesKept

(* The property of ConnList: getNextConn() leaves no connection out. *)
ServedInTurn == List!ServedInTurn

(* The property of EventLoopThreadPool: a lone caller gets a loop. *)
IndexInRange == Pool!IndexInRange

(* The properties of LogFile: the files hold the records in order, in the   *)
(* file of their day, a crash loses recent ones only, and the log itself    *)
(* only what has expired.                                                   *)
FilesInOrder == Log!FilesInOrder
RightDay == Log!RightDay
BufferIsYoung == Log!BufferIsYoung
LossHasCause == Log!LossHasCause

(* The property of StringOps, for the input of this behaviour: the parts    *)
(* of a string, the characters of a substring and a formatted text are what *)
(* their definitions say, at the ends of strings and buffers too.           *)
StringsAgree ==
  /\ part = "splitex" => Strings!SplitsAgree(input, number)
  /\ part = "utf8_substr" => Strings!SubstrAgrees(input, number, length)
  /\ part = "sprintfex" => Strings!FormatsWhole(length)
=============================================================================
