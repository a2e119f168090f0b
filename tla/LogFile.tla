------------------------------- MODULE LogFile -------------------------------
(***************************************************************************)
(* base/LogFile.{h,cpp}: the file the log thread writes to.  A new file is *)
(* begun on a new day and when the next record would make the current one  *)
(* larger than rollSize_; each file is named after the second in which it  *)
(* was begun and lies in a directory named after its day.  Beginning a     *)
(* file also removes the directory of the day autoRm_ ago.                 *)
(*                                                                         *)
(* A record here is what one call of append() passes.  It goes through the *)
(* buffer of a stdio FILE, which the C library may write out at any time,  *)
(* and which a crash of the process loses.                                 *)
(*                                                                         *)
(* The log thread calls append(), with a record or with nothing, at least  *)
(* every MaxGap seconds (AsyncLogging).  Outside: the clock, a file system *)
(* on which opening a file may fail and which refuses writes while it is   *)
(* full, and somebody who may delete files.                                *)
(* What is assumed of the constants is in MCSequential.                    *)
(***************************************************************************)
EXTENDS Naturals, Sequences, SequencesExt

CONSTANTS
  Records,          \* the records that get logged
  Large,            \* those of length 2; the others have length 1
  RollSize,         \* rollSize_
  FlushInterval,    \* flushInterval_, in seconds
  AutoRm,           \* autoRm_, in days
  SecondsPerDay, DaysPerMonth, MaxTime,   \* the clock of the model
  MaxGap,           \* the longest time between two calls of append()
  none              \* no file

Size(r) == IF r \in Large THEN 2 ELSE 1

VARIABLES
  now,          \* time(NULL) + 8*3600
  name,         \* the name of fileObj_: the second it was begun in, or none
  writtenBytes_,
  fileDay_,     \* the day of the month its name is from
  lastFlush_,
  buffer,       \* records in the buffer of its FILE
  disk,         \* the files that exist, and what they contain
  time,         \* time[r]: when r was appended, or none
  appended,     \* the records passed to append(), in order
  lost,         \* records that are in no file any more
  lastCall,     \* when append() was last called
  full          \* writing to a file may fail

vars == <<now, name, writtenBytes_, fileDay_, lastFlush_, buffer, disk,
          time, appended, lost, lastCall, full>>

Day(t) == t \div SecondsPerDay
MonthDay(t) == Day(t) % DaysPerMonth        \* tm_mday
Times == 0..MaxTime

TypeOK ==
  /\ now \in Times
  /\ name \in Times \cup {none}
  /\ writtenBytes_ \in Nat
  /\ fileDay_ \in 0..(DaysPerMonth - 1)
  /\ lastFlush_ \in Times
  /\ buffer \in Seq(Records)
  /\ DOMAIN disk \subseteq Times
  /\ \A n \in DOMAIN disk : disk[n] \in Seq(Records)
  /\ time \in [Records -> Times \cup {none}]
  /\ appended \in Seq(Records)
  /\ lost \subseteq Records
  /\ lastCall \in Times
  /\ full \in BOOLEAN

(* fileDay_ is not initialized; while there is no file it decides nothing. *)
(* The clock is far from 0, the initial value of lastFlush_.               *)
Init ==
  /\ now = FlushInterval + 1
  /\ name = none
  /\ writtenBytes_ = 0
  /\ fileDay_ \in 0..(DaysPerMonth - 1)
  /\ lastFlush_ = 0
  /\ buffer = <<>>
  /\ disk = <<>>
  /\ time = [r \in Records |-> none]
  /\ appended = <<>>
  /\ lost = {}
  /\ lastCall = now
  /\ full = FALSE

-----------------------------------------------------------------------------
(* Stages of append(), as functions of what it works on:                   *)
(* s = [name, written, buffer, disk, lost].  The FILE of fileObj_ is as    *)
(* good as absent when no file has its name: the file was never created,   *)
(* or it was deleted; buffered records then go where nobody finds them.    *)

State == [name |-> name, written |-> writtenBytes_, buffer |-> buffer,
          disk |-> disk, lost |-> lost]

(* disk with file n holding the records s. *)
With(files, n, s) ==
  [m \in DOMAIN files \cup {n} |-> IF m = n THEN s ELSE files[m]]

Without(files, names) == [m \in DOMAIN files \ names |-> files[m]]

Linked(s) == s.name \in DOMAIN s.disk

(* The FILE is written out: to the file if it arrives there, and to nowhere *)
(* when the write fails, as the C library then drops the buffer, or when    *)
(* the inode has no name.  What the file still takes of a write that fails  *)
(* is a WriteOut before it.                                                 *)
Empty(s, arrives) ==
  IF arrives
    THEN [s EXCEPT !.buffer = <<>>,
                   !.disk = With(@, s.name, s.disk[s.name] \o s.buffer)]
    ELSE [s EXCEPT !.buffer = <<>>, !.lost = @ \cup ToSet(s.buffer)]

(* ::fflush() or ::fclose(), whose result nobody looks at: ok is whether    *)
(* it succeeds.                                                             *)
fflush(s, ok) == Empty(s, Linked(s) /\ ok)

Expired(n) == Day(n) + AutoRm = Day(now)

\* fault: the directory that is removed is a day too young
rmFile_WrongDay(s) ==
  LET old == {n \in DOMAIN s.disk : Day(n) + AutoRm - 1 = Day(now)} IN
    [s EXCEPT !.disk = Without(@, old),
              !.lost = @ \cup UNION {ToSet(s.disk[n]) : n \in old}]

(* base::rmFile(getLogPath(time - autoRm_)) *)
rmFile(s) ==
  LET old == {n \in DOMAIN s.disk : Expired(n)} IN
    [s EXCEPT !.disk = Without(@, old),
              !.lost = @ \cup UNION {ToSet(s.disk[n]) : n \in old}]

(* fopen(filename, "a"): a file that exists is continued, a new one may    *)
(* not get created.  A file that exists is taken to be opened: its name    *)
(* comes again only within a second, or when somebody else has created it. *)
fopen(s, n, created) ==
  [s EXCEPT !.name = n,
            !.disk = IF created /\ n \notin DOMAIN @
                       THEN With(@, n, <<>>) ELSE @]

\* fault: the old FILE is not closed, its buffer never written
rollFile_Leak(s, created, ok) ==
  [fopen(s, now, created) EXCEPT !.written = 0, !.buffer = <<>>]

(* fileObj_.reset(new File(filename)): the new file is opened, then the    *)
(* old FILE is closed, which writes its buffer out.                        *)
rollFile(s, created, ok) ==
  LET opened == fopen(s, now, created)
      closed == Empty([opened EXCEPT !.name = s.name], Linked(s) /\ ok) IN
    [closed EXCEPT !.name = now, !.written = 0]

(* fileObj_->fwrite(): the file is opened again if it is not there.  A      *)
(* ::fwrite() fails when it has to write the buffer out and cannot; the     *)
(* record counts as written, its result is handed up and dropped.           *)
fwrite(s, r, created, ok) ==
  LET s2 == IF Linked(s) THEN s ELSE fopen(Empty(s, FALSE), s.name, created)
      s3 == [s2 EXCEPT !.written = @ + Size(r)] IN
    IF ~Linked(s2) THEN [s2 EXCEPT !.lost = @ \cup {r}]
    ELSE IF ok THEN [s3 EXCEPT !.buffer = Append(@, r)]
    ELSE Empty([s3 EXCEPT !.buffer = Append(@, r)], FALSE)

(* if(len > 0) *)
Write(s, r, created, ok) == IF r = none THEN s ELSE fwrite(s, r, created, ok)

-----------------------------------------------------------------------------
(* append()                                                                *)

\* fault: a new day does not begin a new file
MustRoll_SizeOnly(len) == name = none \/ writtenBytes_ + len > RollSize

MustRoll(len) ==
  \/ fileDay_ # MonthDay(now)
  \/ name = none
  \/ writtenBytes_ + len > RollSize

\* fault: the buffer is flushed for records only, not when the log is idle
MustFlush_Busy(r) == r # none /\ now - lastFlush_ > FlushInterval

MustFlush(r) == now - lastFlush_ > FlushInterval

(* Whether a call succeeds that may fail if p. *)
OkUnless(p) == IF p THEN BOOLEAN ELSE {TRUE}

(* append() of record r, or of nothing (r = none). *)
append(r) ==
  /\ r # none => time[r] = none
  /\ LET rolls == MustRoll(IF r = none THEN 0 ELSE Size(r)) IN
     \E opens \in OkUnless(rolls), closes \in OkUnless(full /\ rolls),
        reopens \in OkUnless(r # none), writes \in OkUnless(full /\ r # none),
        flushes \in OkUnless(full /\ MustFlush(r)) :
       LET s1 == IF rolls THEN rollFile(rmFile(State), opens, closes) ELSE State
           s2 == Write(s1, r, reopens, writes)
           s3 == IF MustFlush(r) THEN fflush(s2, flushes) ELSE s2 IN
         /\ name' = s3.name /\ writtenBytes_' = s3.written
         /\ buffer' = s3.buffer /\ disk' = s3.disk /\ lost' = s3.lost
         /\ fileDay_' = IF rolls THEN MonthDay(now) ELSE fileDay_
  /\ lastFlush_' = IF MustFlush(r) THEN now ELSE lastFlush_
  /\ IF r = none
       THEN UNCHANGED <<time, appended>>
       ELSE time' = [time EXCEPT ![r] = now] /\ appended' = Append(appended, r)
  /\ lastCall' = now
  /\ UNCHANGED <<now, full>>

-----------------------------------------------------------------------------
(* Outside                                                                 *)

Tick ==
  /\ now < MaxTime
  /\ now - lastCall < MaxGap
  /\ now' = now + 1
  /\ UNCHANGED <<name, writtenBytes_, fileDay_, lastFlush_, buffer, disk,
                 time, appended, lost, lastCall, full>>

(* The file system fills up or breaks, or is well again. *)
Fill ==
  /\ full' = ~full
  /\ UNCHANGED <<now, name, writtenBytes_, fileDay_, lastFlush_, buffer, disk,
                 time, appended, lost, lastCall>>

(* The C library writes out the first n records of the buffer. *)
WriteOut(n) ==
  /\ n \in 1..Len(buffer)
  /\ buffer' = SubSeq(buffer, n + 1, Len(buffer))
  /\ IF name \in DOMAIN disk
       THEN /\ disk' = With(disk, name, disk[name] \o SubSeq(buffer, 1, n))
            /\ UNCHANGED lost
       ELSE /\ lost' = lost \cup ToSet(SubSeq(buffer, 1, n))
            /\ UNCHANGED disk
  /\ UNCHANGED <<now, name, writtenBytes_, fileDay_, lastFlush_, time,
                 appended, lastCall, full>>

(* Somebody deletes file n. *)
Delete(n) ==
  /\ disk' = Without(disk, {n})
  /\ lost' = lost \cup ToSet(disk[n])
  /\ UNCHANGED <<now, name, writtenBytes_, fileDay_, lastFlush_, buffer,
                 time, appended, lastCall, full>>

(* The process ends and is started again: what it had buffered is written  *)
(* when it ends in order, and lost when it crashes or the write fails.     *)
Restart(crash) ==
  /\ name # none
  /\ LET s == IF crash THEN State ELSE fflush(State, TRUE) IN
       /\ disk' = s.disk
       /\ lost' = s.lost \cup ToSet(s.buffer)
  /\ name' = none /\ buffer' = <<>>
  /\ writtenBytes_' = 0 /\ lastFlush_' = 0
  /\ fileDay_' \in 0..(DaysPerMonth - 1)
  /\ UNCHANGED <<now, time, appended, lastCall, full>>

Next ==
  \/ \E r \in Records \cup {none} : append(r)
  \/ Tick
  \/ Fill
  \/ \E n \in 1..Len(buffer) : WriteOut(n)
  \/ \E n \in DOMAIN disk : Delete(n)
  \/ \E crash \in BOOLEAN : Restart(crash)

Spec == Init /\ [][Next]_vars

-----------------------------------------------------------------------------
(* Properties                                                              *)

(* What the files and the buffer hold. *)
Kept == ToSet(buffer) \cup UNION {ToSet(disk[n]) : n \in DOMAIN disk}

(* The pairs of an element of s and one that comes after it. *)
Pairs(s) == {p \in ToSet(s) \X ToSet(s) :
               \E j \in DOMAIN s : \E i \in 1..(j - 1) : p = <<s[i], s[j]>>}

(* Whatever happens, read in the order of their names the files hold, with *)
(* the buffer at the end, the records in the order in which they were      *)
(* logged: none twice, none in front of an earlier one, and none missing   *)
(* but those known to be lost.                                             *)
FilesInOrder ==
  /\ Kept = ToSet(appended) \ lost
  /\ Pairs(buffer) \subseteq Pairs(appended)
  /\ \A n \in DOMAIN disk :
       /\ Pairs(disk[n]) \subseteq Pairs(appended)
       /\ ToSet(disk[n]) \X ToSet(buffer) \subseteq Pairs(appended)
       /\ \A m \in DOMAIN disk :
            n < m => ToSet(disk[n]) \X ToSet(disk[m]) \subseteq Pairs(appended)

(* A file holds records of the day in its name only.  This needs append()  *)
(* to be called at least once a month: fileDay_ is the day of the month.   *)
RightDay ==
  /\ \A n \in DOMAIN disk : \A r \in ToSet(disk[n]) : Day(time[r]) = Day(n)
  /\ \A r \in ToSet(buffer) : Day(time[r]) = Day(name)

(* What a crash can lose is recent: no record stays in the buffer longer   *)
(* than the flush interval and the time between two calls.                 *)
BufferIsYoung ==
  \A r \in ToSet(buffer) : now - time[r] <= FlushInterval + MaxGap

(* The log itself loses nothing but the files of the day that is AutoRm    *)
(* days old, as long as its file exists and takes what is written to it: a *)
(* call of append() loses other records only when the file was deleted or  *)
(* could not be created, or while ::fwrite(), ::fflush() and ::fclose()    *)
(* may fail, of which nobody hears.                                        *)
LossHasCause ==
  [][lost' # lost /\ (\E r \in Records \cup {none} : append(r)) =>
       \A r \in lost' \ lost :
         \/ time[r] # none /\ Day(time[r]) + AutoRm = Day(now)
         \/ name \notin DOMAIN disk
         \/ name' \notin DOMAIN disk'
         \/ full]_vars

=============================================================================
