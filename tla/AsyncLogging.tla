---------------------------- MODULE AsyncLogging ----------------------------
(***************************************************************************)
(* base/AsyncLogging.{h,cpp}: any thread appends log records to a list;    *)
(* the log thread takes the whole list at a time, formats it into two      *)
(* buffers, for the log file and for the screen, and writes them out.      *)
(*                                                                         *)
(* A step is a critical section of mutex_, or what the log thread does to  *)
(* one record outside of it.  notify_one() and the assignment of running_  *)
(* in the destructor are done without the lock and are steps of their own. *)
(***************************************************************************)
EXTENDS Naturals, Sequences, SequencesExt

CONSTANTS
  Threads,      \* the threads that log
  Records,      \* the records they log
  OnScreen,     \* those that are also printed: INFO when print_ is set, or raw
  MaxBuf        \* MAX_LOG_BUF_SIZE, in records

ASSUME OnScreenAssumption == OnScreen \subseteq Records
ASSUME MaxBufAssumption == MaxBuf \in Nat

VARIABLES
  loggers_,     \* the list, guarded by mutex_
  running_,
  pc,           \* where the log thread is
  batch,        \* what is left of the list it took
  outputBuf, printBuf,  \* its buffers
  written, printed,     \* what it passed to the log file and to the screen
  notifying,    \* notifying[t]: t is about to call notify_one()
  owner,        \* where the thread that destroys the logger is
  fresh,        \* records not logged yet
  inTime        \* records logged before the destruction began

vars == <<loggers_, running_, pc, batch, outputBuf, printBuf, written, printed,
          notifying, owner, fresh, inTime>>

TypeOK ==
  /\ {loggers_, batch, outputBuf, printBuf, written, printed}
       \subseteq Seq(Records)
  /\ (pc = "format") = (batch # <<>>)
  /\ running_ \in BOOLEAN
  /\ pc \in {"test", "toWait", "waiting", "format", "returned"}
  /\ notifying \in [Threads -> BOOLEAN]
  /\ owner \in {"using", "notifying", "joining", "gone"}
  /\ fresh \subseteq Records
  /\ inTime \subseteq Records

Init ==
  /\ loggers_ = <<>>
  /\ running_ = TRUE
  /\ pc = "test"
  /\ batch = <<>>
  /\ outputBuf = <<>> /\ printBuf = <<>>
  /\ written = <<>> /\ printed = <<>>
  /\ notifying = [t \in Threads |-> FALSE]
  /\ owner = "using"
  /\ fresh = Records
  /\ inTime = {}

formatVars == <<batch, outputBuf, printBuf, written, printed>>

(* Between its test and its wait the log thread holds mutex_. *)
MutexFree == pc # "toWait"

-----------------------------------------------------------------------------
(* Threads that log                                                        *)

\* fault: records are put at the front of the list
append_Front(t, r) ==
  /\ MutexFree
  /\ owner # "gone" /\ ~notifying[t]
  /\ r \in fresh
  /\ fresh' = fresh \ {r}
  /\ loggers_' = <<r>> \o loggers_
  /\ inTime' = IF running_ THEN inTime \cup {r} ELSE inTime
  /\ notifying' = [notifying EXCEPT ![t] = TRUE]
  /\ UNCHANGED <<running_, pc, formatVars, owner>>

(* The list is destroyed with the logger; until then any thread may log. *)
append(t, r) ==
  /\ MutexFree
  /\ owner # "gone" /\ ~notifying[t]
  /\ r \in fresh
  /\ fresh' = fresh \ {r}
  /\ loggers_' = Append(loggers_, r)
  /\ inTime' = IF running_ THEN inTime \cup {r} ELSE inTime
  /\ notifying' = [notifying EXCEPT ![t] = TRUE]
  /\ UNCHANGED <<running_, pc, formatVars, owner>>

(* cond_.notify_one() reaches the log thread only while it waits. *)
Notify == pc' = IF pc = "waiting" THEN "test" ELSE pc

NotifyAppended(t) ==
  /\ notifying[t]
  /\ notifying' = [notifying EXCEPT ![t] = FALSE]
  /\ Notify
  /\ UNCHANGED <<loggers_, running_, formatVars, owner, fresh, inTime>>

-----------------------------------------------------------------------------
(* The destructor                                                          *)

StopRunning ==
  /\ owner = "using"
  /\ owner' = "notifying"
  /\ running_' = FALSE
  /\ UNCHANGED <<loggers_, pc, formatVars, notifying, fresh, inTime>>

NotifyStopped ==
  /\ owner = "notifying"
  /\ owner' = "joining"
  /\ Notify
  /\ UNCHANGED <<loggers_, running_, formatVars, notifying, fresh, inTime>>

Join ==
  /\ owner = "joining"
  /\ pc = "returned"
  /\ owner' = "gone"
  /\ UNCHANGED <<loggers_, running_, pc, formatVars, notifying, fresh, inTime>>

-----------------------------------------------------------------------------
(* The log thread                                                          *)

\* fault: running_ is tested before the list
Test_FlagFirst ==
  /\ pc = "test"
  /\ \/ ~running_ /\ pc' = "returned" /\ UNCHANGED <<loggers_, batch>>
     \/ /\ running_ /\ loggers_ = <<>>
        /\ pc' = "toWait" /\ UNCHANGED <<loggers_, batch>>
     \/ /\ running_ /\ loggers_ # <<>>
        /\ pc' = "format" /\ batch' = loggers_ /\ loggers_' = <<>>
  /\ UNCHANGED <<running_, outputBuf, printBuf, written, printed, notifying,
                 owner, fresh, inTime>>

(* The critical section of threadFunc(): with records it takes the list,   *)
(* without it returns or gets ready to wait.  (It also writes a last line, *)
(* or gives the log file a chance to flush, which are no records.)         *)
Test ==
  /\ pc = "test"
  /\ \/ /\ loggers_ # <<>>
        /\ pc' = "format" /\ batch' = loggers_ /\ loggers_' = <<>>
     \/ /\ loggers_ = <<>>
        /\ pc' = IF running_ THEN "toWait" ELSE "returned"
        /\ UNCHANGED <<loggers_, batch>>
  /\ UNCHANGED <<running_, outputBuf, printBuf, written, printed, notifying,
                 owner, fresh, inTime>>

(* cond_.wait_for() releases the mutex and waits. *)
Wait ==
  /\ pc = "toWait"
  /\ pc' = "waiting"
  /\ UNCHANGED <<loggers_, running_, formatVars, notifying, owner, fresh,
                 inTime>>

\* fault: the wait has no timeout
Timeout_Never == FALSE /\ UNCHANGED vars

(* The wait ends after flushInterval_ seconds, or spuriously. *)
Timeout ==
  /\ pc = "waiting"
  /\ pc' = "test"
  /\ UNCHANGED <<loggers_, running_, formatVars, notifying, owner, fresh,
                 inTime>>

(* A buffer that is full, or that holds the last of the batch, is written. *)
Flushes(buf, rest) == Len(buf) > MaxBuf \/ rest = <<>>

\* fault: the screen's buffer is only written when the file's is full
Format_OneCondition ==
  /\ pc = "format"
  /\ LET r == Head(batch)
         rest == Tail(batch)
         out == Append(outputBuf, r)
         scr == IF r \in OnScreen THEN Append(printBuf, r) ELSE printBuf
         flush == Flushes(out, rest) IN
       /\ batch' = rest
       /\ outputBuf' = IF flush THEN <<>> ELSE out
       /\ written' = IF flush THEN written \o out ELSE written
       /\ printBuf' = IF Flushes(scr, rest) THEN <<>> ELSE scr
       /\ printed' = IF flush THEN printed \o scr ELSE printed
       /\ pc' = IF rest = <<>> THEN "test" ELSE "format"
  /\ UNCHANGED <<loggers_, running_, notifying, owner, fresh, inTime>>

(* The next record of the batch is formatted into the buffers. *)
Format ==
  /\ pc = "format"
  /\ LET r == Head(batch)
         rest == Tail(batch)
         out == Append(outputBuf, r)
         scr == IF r \in OnScreen THEN Append(printBuf, r) ELSE printBuf IN
       /\ batch' = rest
       /\ outputBuf' = IF Flushes(out, rest) THEN <<>> ELSE out
       /\ written' = IF Flushes(out, rest) THEN written \o out ELSE written
       /\ printBuf' = IF Flushes(scr, rest) THEN <<>> ELSE scr
       /\ printed' = IF Flushes(scr, rest) THEN printed \o scr ELSE printed
       /\ pc' = IF rest = <<>> THEN "test" ELSE "format"
  /\ UNCHANGED <<loggers_, running_, notifying, owner, fresh, inTime>>

LogThread == Test \/ Wait \/ Timeout \/ Format

Next ==
  \/ \E t \in Threads : NotifyAppended(t) \/ \E r \in Records : append(t, r)
  \/ StopRunning \/ NotifyStopped \/ Join
  \/ LogThread

Spec == Init /\ [][Next]_vars

(* All threads are scheduled, and a timed wait ends. *)
Fairness ==
  /\ WF_vars(LogThread)
  /\ WF_vars(NotifyStopped) /\ WF_vars(Join)
  /\ \A t \in Threads : WF_vars(NotifyAppended(t))

FairSpec == Spec /\ Fairness

-----------------------------------------------------------------------------
(* Properties                                                              *)

(* The list and the batch are an inbox, what has been formatted has been   *)
(* executed: records keep the order in which they were appended, across    *)
(* batches and buffers, and none is dropped or formatted twice.            *)
Queue == INSTANCE FunctorQueue WITH
           Functors <- Records, inbox <- batch \o loggers_,
           executed <- written \o outputBuf, discarded <- {}, stopping <- FALSE

ImplementsFunctorQueue == Queue!Spec

(* shown is what is left of all when the records that are not to be        *)
(* printed are taken out; record i of shown stands at at[i] in all.        *)
IsSelection(shown, all) ==
  \E at \in [DOMAIN shown -> DOMAIN all] :
    /\ \A i, j \in DOMAIN shown : i < j => at[i] < at[j]
    /\ \A i \in DOMAIN shown : shown[i] = all[at[i]]
    /\ Range(at) = {k \in DOMAIN all : all[k] \in OnScreen}

(* The screen shows the records that are to be printed, in the same order: *)
(* the two buffers, flushed independently, do not drift apart.             *)
ScreenAgrees == IsSelection(printed \o printBuf, written \o outputBuf)

(* A record logged before the destruction began gets written. *)
RecordWritten ==
  \A r \in Records : r \in inTime ~> r \in ToSet(written)

(* The destructor returns.  Its notification may be lost, between the log  *)
(* thread's look at running_ and its wait; the timeout makes up for it.    *)
DestructorReturns == owner # "using" ~> owner = "gone"

=============================================================================
