------------------------- MODULE AsyncLoggingProofs -------------------------
(* What is logged is formatted in order, for any number of threads and      *)
(* records, any size of the buffers and any batches: AsyncLogging           *)
(* implements FunctorQueue.                                                 *)
EXTENDS AsyncLogging, SequenceTheorems, TLAPS

(* The part of the types that the refinement needs. *)
Sequences_ ==
  /\ loggers_ \in Seq(Records) /\ batch \in Seq(Records)
  /\ outputBuf \in Seq(Records) /\ written \in Seq(Records)
  /\ fresh \subseteq Records

(* The log thread takes the list only when nothing is left of the last one. *)
BatchInHand == pc = "format" <=> batch # <<>>

IInv == Sequences_ /\ BatchInHand

-----------------------------------------------------------------------------
(* Lemmas about sequences                                                  *)

(* What is logged comes after what has been taken. *)
LEMMA AppendLast ==
  ASSUME NEW S, NEW b \in Seq(S), NEW l \in Seq(S), NEW r \in S
  PROVE  b \o Append(l, r) = Append(b \o l, r)
BY SMTT(30)

(* The head of the batch is the head of the inbox. *)
LEMMA HeadOfBatch ==
  ASSUME NEW S, NEW b \in Seq(S), NEW l \in Seq(S), b # <<>>
  PROVE  /\ Head(b) \in S /\ Tail(b) \in Seq(S)
         /\ b \o l # <<>>
         /\ Head(b \o l) = Head(b)
         /\ Tail(b \o l) = Tail(b) \o l
<1>1. Head(b) \in S /\ Tail(b) \in Seq(S)
  BY HeadTailProperties
<1>2. b \o l # <<>>
  BY SMTT(30)
<1>3. Head(b \o l) = Head(b)
  BY SMTT(30)
<1>4. Tail(b \o l) = Tail(b) \o l
  BY SMTT(30)
<1> QED
  BY <1>1, <1>2, <1>3, <1>4

-----------------------------------------------------------------------------
(* The log thread formats what it took before it takes more. *)
THEOREM BatchIsFinished == Spec => []IInv
<1>1. Init => IInv
  BY EmptySeq DEF Init, IInv, Sequences_, BatchInHand
<1>2. IInv /\ [Next]_vars => IInv'
  <2> SUFFICES ASSUME IInv, [Next]_vars PROVE IInv'
    OBVIOUS
  <2> USE DEF IInv, Sequences_, BatchInHand
  <2>1. ASSUME NEW t \in Threads, NotifyAppended(t) PROVE IInv'
    BY <2>1 DEF NotifyAppended, Notify, formatVars
  <2>2. ASSUME NEW t \in Threads, NEW r \in Records, append(t, r) PROVE IInv'
    BY <2>2, AppendProperties DEF append, formatVars
  <2>3. CASE StopRunning
    BY <2>3 DEF StopRunning, formatVars
  <2>4. CASE NotifyStopped
    BY <2>4 DEF NotifyStopped, Notify, formatVars
  <2>5. CASE Join
    BY <2>5 DEF Join, formatVars
  <2>6. CASE Test
    BY <2>6, EmptySeq DEF Test
  <2>7. CASE Wait
    BY <2>7 DEF Wait, formatVars
  <2>8. CASE Timeout
    BY <2>8 DEF Timeout, formatVars
  <2>9. CASE Format
    <3>1. Head(batch) \in Records /\ Tail(batch) \in Seq(Records)
      BY <2>9, HeadTailProperties DEF Format
    <3>2. Append(outputBuf, Head(batch)) \in Seq(Records)
      BY <3>1, AppendProperties
    <3>3. written \o Append(outputBuf, Head(batch)) \in Seq(Records)
      BY <3>2, ConcatProperties
    <3>4. /\ batch' = Tail(batch) /\ UNCHANGED <<loggers_, fresh>>
          /\ pc' = IF batch' = <<>> THEN "test" ELSE "format"
          /\ outputBuf' \in {<<>>, Append(outputBuf, Head(batch))}
          /\ written' \in {written, written \o Append(outputBuf, Head(batch))}
      BY <2>9 DEF Format
    <3> QED
      BY <3>1, <3>2, <3>3, <3>4, EmptySeq
  <2>10. CASE UNCHANGED vars
    BY <2>10 DEF vars
  <2> QED
    BY <2>1, <2>2, <2>3, <2>4, <2>5, <2>6, <2>7, <2>8, <2>9, <2>10 DEF Next, LogThread
<1> QED
  BY <1>1, <1>2, PTL DEF Spec

-----------------------------------------------------------------------------
(* The inbox of the abstract queue, and what it has executed. *)
Inbox == batch \o loggers_
Formatted == written \o outputBuf

LEMMA AppendSubmits ==
  ASSUME IInv, NEW t \in Threads, NEW r \in Records, append(t, r)
  PROVE  Queue!Submit(r)
<1>1. r \in fresh /\ fresh' = fresh \ {r} /\ UNCHANGED <<batch, written, outputBuf>>
  BY DEF append, formatVars
<1>2. Inbox' = Append(Inbox, r)
  BY <1>1, AppendLast DEF append, IInv, Sequences_, Inbox
<1> QED
  BY <1>1, <1>2 DEF Queue!Submit, Inbox

(* Taking the list moves the border inside the inbox. *)
LEMMA TestStutters ==
  ASSUME IInv, Test
  PROVE  UNCHANGED Queue!vars
<1>1. batch = <<>> /\ UNCHANGED <<written, outputBuf, fresh>>
  BY DEF Test, IInv, BatchInHand
<1>2. CASE loggers_ # <<>>
  <2>1. batch' = loggers_ /\ loggers_' = <<>>
    BY <1>2 DEF Test
  <2>2. <<>> \o loggers_ = loggers_ /\ loggers_ \o <<>> = loggers_
    BY ConcatEmptySeq DEF IInv, Sequences_
  <2>3. Inbox' = Inbox
    BY <1>1, <2>1, <2>2 DEF Inbox
  <2> QED
    BY <1>1, <2>3 DEF Queue!vars, Inbox
<1>3. CASE loggers_ = <<>>
  BY <1>1, <1>3 DEF Test, Queue!vars
<1> QED
  BY <1>2, <1>3

(* A record formatted is executed, whether or not it fills the buffer. *)
LEMMA FormatExecutes ==
  ASSUME IInv, Format
  PROVE  Queue!Execute /\ Formatted' = Append(Formatted, Head(batch))
<1> DEFINE out == Append(outputBuf, Head(batch))
<1>1. batch # <<>> /\ batch' = Tail(batch) /\ UNCHANGED <<loggers_, fresh>>
  BY DEF Format, IInv, BatchInHand
<1>2. /\ Inbox # <<>> /\ Head(Inbox) = Head(batch) /\ Inbox' = Tail(Inbox)
      /\ Head(batch) \in Records
  BY <1>1, HeadOfBatch DEF IInv, Sequences_, Inbox
<1>3. written \o out = Append(Formatted, Head(batch))
  BY <1>2, AppendLast, SMTT(30) DEF IInv, Sequences_, Formatted
<1>4. out \in Seq(Records) /\ written \o out \in Seq(Records)
  BY <1>2, AppendProperties, ConcatProperties DEF IInv, Sequences_
<1>5. \/ written' = written \o out /\ outputBuf' = <<>>
      \/ written' = written /\ outputBuf' = out
  BY DEF Format
<1>6. Formatted' = written \o out
  BY <1>4, <1>5, ConcatEmptySeq DEF Formatted
<1> QED
  BY <1>1, <1>2, <1>3, <1>6 DEF Queue!Execute, Inbox, Formatted

(* Whatever the threads, the timeouts and the buffers do, the records are   *)
(* formatted in the order in which they were logged, and none is dropped    *)
(* or formatted twice.                                                      *)
THEOREM LogKeepsOrder == Spec => ImplementsFunctorQueue
<1>1. Init => Queue!Init
  BY EmptySeq, ConcatEmptySeq DEF Init, Queue!Init
<1>2. IInv /\ [Next]_vars => [Queue!Next]_(Queue!vars)
  <2> SUFFICES ASSUME IInv, [Next]_vars PROVE [Queue!Next]_(Queue!vars)
    OBVIOUS
  <2>1. ASSUME NEW t \in Threads, NotifyAppended(t) PROVE UNCHANGED Queue!vars
    BY <2>1 DEF NotifyAppended, formatVars, Queue!vars
  <2>2. ASSUME NEW t \in Threads, NEW r \in Records, append(t, r) PROVE Queue!Next
    BY <2>2, AppendSubmits DEF Queue!Next
  <2>3. CASE StopRunning
    BY <2>3 DEF StopRunning, formatVars, Queue!vars
  <2>4. CASE NotifyStopped
    BY <2>4 DEF NotifyStopped, formatVars, Queue!vars
  <2>5. CASE Join
    BY <2>5 DEF Join, formatVars, Queue!vars
  <2>6. CASE Test
    BY <2>6, TestStutters
  <2>7. CASE Wait
    BY <2>7 DEF Wait, formatVars, Queue!vars
  <2>8. CASE Timeout
    BY <2>8 DEF Timeout, formatVars, Queue!vars
  <2>9. CASE Format
    BY <2>9, FormatExecutes DEF Queue!Next
  <2>10. CASE UNCHANGED vars
    BY <2>10 DEF vars, Queue!vars
  <2> QED
    BY <2>1, <2>2, <2>3, <2>4, <2>5, <2>6, <2>7, <2>8, <2>9, <2>10 DEF Next, LogThread
<1> QED
  BY <1>1, <1>2, BatchIsFinished, PTL DEF Spec, ImplementsFunctorQueue, Queue!Spec

-----------------------------------------------------------------------------
(* The screen                                                              *)

Shown == printed \o printBuf

ScreenInv ==
  /\ printed \in Seq(Records) /\ printBuf \in Seq(Records)
  /\ ScreenAgrees

(* A record that is not printed leaves the selection as it is. *)
LEMMA SelectionSkips ==
  ASSUME NEW s \in Seq(Records), NEW all \in Seq(Records), IsSelection(s, all),
         NEW r \in Records, r \notin OnScreen
  PROVE  IsSelection(s, Append(all, r))
<1> DEFINE n == Len(all)
           all2 == Append(all, r)
<1>1. /\ n \in Nat /\ DOMAIN all = 1..n /\ DOMAIN all2 = 1..(n + 1)
      /\ all2[n + 1] = r /\ \A k \in 1..n : all2[k] = all[k]
  BY AppendProperties, LenProperties
<1> HIDE DEF n, all2
<1>2. PICK at \in [DOMAIN s -> DOMAIN all] :
        /\ \A i, j \in DOMAIN s : i < j => at[i] < at[j]
        /\ \A i \in DOMAIN s : s[i] = all[at[i]]
        /\ Range(at) = {k \in DOMAIN all : all[k] \in OnScreen}
  BY DEF IsSelection
<1>3. at \in [DOMAIN s -> DOMAIN all2]
  BY <1>1
<1>4. \A i \in DOMAIN s : s[i] = all2[at[i]]
  BY <1>1, <1>2
<1>5. {k \in DOMAIN all2 : all2[k] \in OnScreen} = {k \in DOMAIN all : all[k] \in OnScreen}
  BY <1>1
<1>6. IsSelection(s, all2)
  BY <1>2, <1>3, <1>4, <1>5 DEF IsSelection
<1>7. QED
  BY <1>6 DEF all2

(* One that is printed comes last in both. *)
LEMMA SelectionTakes ==
  ASSUME NEW s \in Seq(Records), NEW all \in Seq(Records), IsSelection(s, all),
         NEW r \in Records, r \in OnScreen
  PROVE  IsSelection(Append(s, r), Append(all, r))
<1> DEFINE n == Len(all)
           m == Len(s)
           all2 == Append(all, r)
           s2 == Append(s, r)
<1>1. /\ n \in Nat /\ DOMAIN all = 1..n /\ DOMAIN all2 = 1..(n + 1)
      /\ all2[n + 1] = r /\ \A k \in 1..n : all2[k] = all[k]
  BY AppendProperties, LenProperties
<1>2. /\ m \in Nat /\ DOMAIN s = 1..m /\ DOMAIN s2 = 1..(m + 1)
      /\ s2[m + 1] = r /\ \A k \in 1..m : s2[k] = s[k]
  BY AppendProperties, LenProperties
<1> HIDE DEF n, m, all2, s2
<1>3. PICK at \in [DOMAIN s -> DOMAIN all] :
        /\ \A i, j \in DOMAIN s : i < j => at[i] < at[j]
        /\ \A i \in DOMAIN s : s[i] = all[at[i]]
        /\ Range(at) = {k \in DOMAIN all : all[k] \in OnScreen}
  BY DEF IsSelection
<1> DEFINE at2 == [i \in 1..(m + 1) |-> IF i = m + 1 THEN n + 1 ELSE at[i]]
<1>4. /\ DOMAIN at2 = 1..(m + 1) /\ at2[m + 1] = n + 1
      /\ \A i \in 1..m : at2[i] = at[i] /\ at2[i] \in 1..n
  <2>1. m + 1 \in 1..(m + 1) /\ 1..m \subseteq 1..(m + 1) /\ \A i \in 1..m : i # m + 1
    BY <1>2
  <2>2. \A i \in 1..m : at[i] \in 1..n
    BY <1>1, <1>2, <1>3
  <2>3. QED
    BY <2>1, <2>2
<1>5. at2 \in [1..(m + 1) -> 1..(n + 1)]
  BY <1>1, <1>2, <1>3
<1> HIDE DEF at2
<1>6. \A i, j \in 1..(m + 1) : i < j => at2[i] < at2[j]
  <2> SUFFICES ASSUME NEW i \in 1..(m + 1), NEW j \in 1..(m + 1), i < j
               PROVE  at2[i] < at2[j]
    OBVIOUS
  <2>1. i \in 1..m
    BY <1>2
  <2>2. CASE j = m + 1
    BY <1>1, <1>4, <2>1, <2>2
  <2>3. CASE j # m + 1
    <3>1. j \in 1..m
      BY <1>2, <2>3
    <3>2. QED
      BY <1>2, <1>3, <1>4, <2>1, <3>1
  <2>4. QED
    BY <2>2, <2>3
<1>7. \A i \in 1..(m + 1) : s2[i] = all2[at2[i]]
  <2> SUFFICES ASSUME NEW i \in 1..(m + 1) PROVE s2[i] = all2[at2[i]]
    OBVIOUS
  <2>1. CASE i = m + 1
    BY <1>1, <1>2, <1>4, <2>1
  <2>2. CASE i # m + 1
    <3>1. i \in 1..m
      BY <1>2, <2>2
    <3>2. at2[i] = at[i] /\ at2[i] \in 1..n
      BY <1>4, <3>1
    <3>3. s2[i] = s[i] /\ s[i] = all[at[i]]
      BY <1>2, <1>3, <3>1
    <3>4. all2[at2[i]] = all[at2[i]]
      BY <1>1, <3>2
    <3>5. QED
      BY <3>2, <3>3, <3>4
  <2>3. QED
    BY <2>1, <2>2
<1>8. Range(at2) = {k \in 1..(n + 1) : all2[k] \in OnScreen}
  <2>1. Range(at2) = Range(at) \cup {n + 1}
    <3>1. DOMAIN at = 1..m
      BY <1>2, <1>3
    <3>2. 1..(m + 1) = 1..m \cup {m + 1}
      BY <1>2
    <3>3. QED
      BY <1>4, <3>1, <3>2 DEF Range
  <2>2. {k \in 1..(n + 1) : all2[k] \in OnScreen}
          = {k \in 1..n : all[k] \in OnScreen} \cup {n + 1}
    BY <1>1
  <2>3. QED
    BY <1>1, <1>3, <2>1, <2>2
<1>9. IsSelection(s2, all2)
  BY <1>1, <1>2, <1>5, <1>6, <1>7, <1>8 DEF IsSelection
<1>10. QED
  BY <1>9 DEF s2, all2

(* The next record goes to the screen's buffer, or not. *)
LEMMA FormatShows ==
  ASSUME IInv, ScreenInv, Format
  PROVE  ScreenInv'
<1> DEFINE r == Head(batch)
           scr == IF r \in OnScreen THEN Append(printBuf, r) ELSE printBuf
<1>1. batch # <<>> /\ batch \in Seq(Records)
  BY DEF Format, IInv, Sequences_, BatchInHand
<1>2. r \in Records
  BY <1>1, HeadTailProperties
<1>3. scr \in Seq(Records)
  BY <1>2, AppendProperties DEF ScreenInv
<1>4. \/ printBuf' = <<>> /\ printed' = printed \o scr
      \/ printBuf' = scr /\ printed' = printed
  BY DEF Format
<1>5. printed \o scr = IF r \in OnScreen THEN Append(Shown, r) ELSE Shown
  <2>1. printed \o Append(printBuf, r) = Append(printed \o printBuf, r)
    BY <1>2, AppendLast DEF ScreenInv
  <2>2. QED
    BY <2>1 DEF Shown
<1>6. printed \o scr \in Seq(Records)
  BY <1>3, ConcatProperties DEF ScreenInv
<1> HIDE DEF r, scr
<1>7. Shown' = printed \o scr
  BY <1>4, <1>6, ConcatEmptySeq DEF Shown
<1>8. printed' \in Seq(Records) /\ printBuf' \in Seq(Records)
  BY <1>3, <1>4, <1>6, EmptySeq DEF ScreenInv
<1>9. Formatted' = Append(Formatted, r)
  BY FormatExecutes DEF r
<1>10. Shown \in Seq(Records) /\ Formatted \in Seq(Records)
  BY ConcatProperties DEF ScreenInv, Shown, IInv, Sequences_, Formatted
<1>11. IsSelection(Shown, Formatted)
  BY DEF ScreenInv, ScreenAgrees, Shown, Formatted
<1>12. CASE r \in OnScreen
  <2>1. IsSelection(Append(Shown, r), Append(Formatted, r))
    BY <1>2, <1>10, <1>11, <1>12, SelectionTakes
  <2>2. IsSelection(Shown', Formatted')
    BY <1>5, <1>7, <1>9, <1>12, <2>1
  <2>3. QED
    BY <1>8, <2>2 DEF ScreenInv, ScreenAgrees, Shown, Formatted
<1>13. CASE r \notin OnScreen
  <2>1. IsSelection(Shown, Append(Formatted, r))
    BY <1>2, <1>10, <1>11, <1>13, SelectionSkips
  <2>2. IsSelection(Shown', Formatted')
    BY <1>5, <1>7, <1>9, <1>13, <2>1
  <2>3. QED
    BY <1>8, <2>2 DEF ScreenInv, ScreenAgrees, Shown, Formatted
<1>14. QED
  BY <1>12, <1>13

(* The screen shows exactly the records that are to be printed, in the      *)
(* order of the file, however the two buffers fill up.                      *)
THEOREM ScreenFollowsFile == Spec => []ScreenAgrees
<1>1. Init => ScreenInv
  <2> SUFFICES ASSUME Init PROVE ScreenInv
    OBVIOUS
  <2>1. printed = <<>> /\ printBuf = <<>> /\ written = <<>> /\ outputBuf = <<>>
    BY DEF Init
  <2>2. <<>> \o <<>> = <<>>
    OBVIOUS
  <2>3. IsSelection(<<>>, <<>>)
    <3> DEFINE at == [i \in {} |-> i]
    <3>1. DOMAIN <<>> = {}
      OBVIOUS
    <3>2. at \in [{} -> {}] /\ Range(at) = {}
      BY DEF Range
    <3>3. QED
      BY <3>1, <3>2 DEF IsSelection
  <2>4. QED
    BY <2>1, <2>2, <2>3, EmptySeq DEF ScreenInv, ScreenAgrees
<1>2. IInv /\ ScreenInv /\ [Next]_vars => ScreenInv'
  <2> SUFFICES ASSUME IInv, ScreenInv, [Next]_vars PROVE ScreenInv'
    OBVIOUS
  <2>1. CASE Format
    BY <2>1, FormatShows
  <2>2. ASSUME UNCHANGED <<printed, printBuf, written, outputBuf>> PROVE ScreenInv'
    BY <2>2 DEF ScreenInv, ScreenAgrees
  <2>3. CASE UNCHANGED vars
    BY <2>2, <2>3 DEF vars
  <2>4. ASSUME NEW t \in Threads, NotifyAppended(t) \/ \E r \in Records : append(t, r)
        PROVE  ScreenInv'
    BY <2>2, <2>4 DEF NotifyAppended, append, formatVars
  <2>5. CASE StopRunning \/ NotifyStopped \/ Join
    BY <2>2, <2>5 DEF StopRunning, NotifyStopped, Join, formatVars
  <2>6. CASE Test \/ Wait \/ Timeout
    BY <2>2, <2>6 DEF Test, Wait, Timeout, formatVars
  <2>7. QED
    BY <2>1, <2>3, <2>4, <2>5, <2>6 DEF Next, LogThread
<1>3. QED
  BY <1>1, <1>2, BatchIsFinished, PTL DEF Spec, ScreenInv

=============================================================================
