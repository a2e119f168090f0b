--------------------------- MODULE SequentialProofs ---------------------------
(* The components of MCSequential, for any number of files, calls, callers, *)
(* connections and log records.                                             *)
EXTENDS MCSequential, FiniteSetTheorems, SequenceTheorems, TLAPS

(***************************************************************************)
(* FileNotify: notifyMap_ and the watches of inotify agree.                *)
(***************************************************************************)

Ignored(wd) == Event(wd, "ignored")
EventsOf == [wd : Wds, mask : {"modify", "ignored"}]

Types ==
  /\ changes \in Nat
  /\ inode \in [Names -> Nat]
  /\ lastWd \in 0..MaxWd
  /\ watch \in [Wds -> Nat]
  /\ events \in Seq(EventsOf)
  /\ notifyMap_ \in [Wds -> Names \cup {NoName}]
  /\ fileMap_ \in [Names -> 0..MaxWd]
  /\ et \in EventsOf \cup {NoEvent}

(* No two names lead to one inode, and new inodes are new. *)
InodesDiffer ==
  /\ \A f \in Names : inode[f] <= changes
  /\ \A f, g \in Names : inode[f] = inode[g] /\ inode[f] # 0 => f = g

(* A watch is on the present file of the name in its entry; no two watches  *)
(* are on the same.                                                         *)
WatchesAreCurrent ==
  /\ \A wd \in Wds : watch[wd] # 0 =>
       notifyMap_[wd] \in Names /\ inode[notifyMap_[wd]] = watch[wd]
  /\ \A v, w \in Wds : watch[v] = watch[w] /\ watch[v] # 0 => v = w

(* Between IN_IGNORED and the removal of the entry there is no watch.       *)
EntriesEnd ==
  /\ \A wd \in Wds : notifyMap_[wd] # NoName /\ watch[wd] = 0 => Pending(wd)
  /\ \A wd \in Wds : Pending(wd) => watch[wd] = 0

(* Descriptors are used in order. *)
LaterIsUnused ==
  /\ \A wd \in Wds : wd > lastWd =>
       watch[wd] = 0 /\ notifyMap_[wd] = NoName /\ ~Pending(wd)
  /\ \A f \in Names : fileMap_[f] <= lastWd

(* The two maps do not contradict each other, and onRead() has the entry of *)
(* the event it is at.                                                      *)
EntriesFound ==
  /\ \A f \in Names : fileMap_[f] # 0 => notifyMap_[fileMap_[f]] \in {f, NoName}
  /\ et # NoEvent => notifyMap_[et.wd] # NoName

IInv ==
  /\ Types /\ InodesDiffer /\ WatchesAreCurrent /\ EntriesEnd /\ LaterIsUnused
  /\ EntriesFound

-----------------------------------------------------------------------------

LEMMA AppendQueued ==
  ASSUME NEW S, NEW s \in Seq(S), NEW e \in S, NEW x
  PROVE  /\ Append(s, e) \in Seq(S)
         /\ Queued(x, Append(s, e)) <=> x = e \/ Queued(x, s)
<1>1. /\ Append(s, e) \in Seq(S)
      /\ Len(Append(s, e)) = Len(s) + 1
      /\ \A i \in 1..Len(s) : Append(s, e)[i] = s[i]
      /\ Append(s, e)[Len(s) + 1] = e
  BY AppendProperties
<1>2. DOMAIN s = 1..Len(s) /\ DOMAIN Append(s, e) = 1..Len(s) + 1 /\ Len(s) \in Nat
  BY <1>1, LenProperties
<1> QED
  BY <1>1, <1>2 DEF Queued

LEMMA TailQueued ==
  ASSUME NEW S, NEW s \in Seq(S), s # <<>>, NEW x
  PROVE  /\ Tail(s) \in Seq(S) /\ Head(s) \in S
         /\ Queued(x, s) <=> x = Head(s) \/ Queued(x, Tail(s))
<1>1. /\ Tail(s) \in Seq(S) /\ Head(s) \in S
      /\ Len(Tail(s)) = Len(s) - 1
      /\ \A i \in 1..Len(Tail(s)) : Tail(s)[i] = s[i + 1]
      /\ Head(s) = s[1]
      /\ Len(s) > 0
  BY HeadTailProperties
<1>2. DOMAIN s = 1..Len(s) /\ DOMAIN Tail(s) = 1..Len(s) - 1 /\ Len(s) \in Nat
  BY <1>1, LenProperties
<1>3. ASSUME NEW i \in 1..Len(s), i # 1 PROVE i - 1 \in DOMAIN Tail(s) /\ Tail(s)[i - 1] = s[i]
  BY <1>1, <1>2, <1>3
<1>4. ASSUME NEW i \in DOMAIN Tail(s) PROVE i + 1 \in DOMAIN s /\ Tail(s)[i] = s[i + 1]
  BY <1>1, <1>2, <1>4
<1>5. 1 \in DOMAIN s
  BY <1>1, <1>2
<1> QED
  BY <1>1, <1>2, <1>3, <1>4, <1>5 DEF Queued

LEMMA InitIInv == Init => IInv
<1> SUFFICES ASSUME Init PROVE IInv
  OBVIOUS
<1>1. events \in Seq(EventsOf) /\ \A x : ~Queued(x, events)
  BY EmptySeq DEF Init, Queued
<1>2. \A wd \in Wds : ~Pending(wd)
  BY <1>1 DEF Init, Pending, NoEvent, Event, Ignored
<1>3. Types
  BY <1>1, BoundsAssumption DEF Init, Types
<1> QED
  BY <1>1, <1>2, <1>3, BoundsAssumption
     DEF Init, IInv, InodesDiffer, WatchesAreCurrent, EntriesEnd, LaterIsUnused,
         EntriesFound, Wds

-----------------------------------------------------------------------------
(* The files change                                                        *)

LEMMA ModifyIInv ==
  ASSUME IInv, NEW f \in Names, Modify(f)
  PROVE  IInv'
<1>1. /\ changes' = changes + 1
      /\ UNCHANGED <<inode, watch, lastWd, notifyMap_, fileMap_, et>>
  BY DEF Modify, Change
<1>2. events' = events \/ \E wd \in Wds : events' = Append(events, Event(wd, "modify"))
  BY DEF Modify, Notify
<1>3. \A wd \in Wds : Event(wd, "modify") \in EventsOf
  BY DEF Event, EventsOf
<1>4. events' \in Seq(EventsOf) /\ \A w \in Wds : Pending(w)' <=> Pending(w)
  <2>1. CASE events' = events
    BY <1>1, <2>1 DEF Pending, IInv, Types
  <2>2. ASSUME NEW wd \in Wds, events' = Append(events, Event(wd, "modify"))
        PROVE  events' \in Seq(EventsOf) /\ \A w \in Wds : Pending(w)' <=> Pending(w)
    <3>1. \A w \in Wds : Ignored(w) # Event(wd, "modify")
      BY DEF Ignored, Event
    <3>2. events \in Seq(EventsOf)
      BY DEF IInv, Types
    <3> QED
      BY <1>1, <1>3, <2>2, <3>1, <3>2, AppendQueued DEF Pending, Ignored
  <2> QED
    BY <1>2, <2>1, <2>2
<1>5. Types' /\ InodesDiffer'
  BY <1>1, <1>4 DEF IInv, Types, InodesDiffer
<1>6. WatchesAreCurrent' /\ EntriesFound'
  BY <1>1 DEF IInv, WatchesAreCurrent, EntriesFound
<1>7. EntriesEnd' /\ LaterIsUnused'
  BY <1>1, <1>4 DEF IInv, EntriesEnd, LaterIsUnused
<1> QED
  BY <1>5, <1>6, <1>7 DEF IInv

(* Name f gets inode i, which is new, or 0.                                 *)
LEMMA InodeIInv ==
  ASSUME IInv, NEW f \in Names, NEW i \in {0, changes'}, Change(f),
         inode' = [inode EXCEPT ![f] = i]
  PROVE  /\ changes' \in Nat /\ inode' \in [Names -> Nat]
         /\ InodesDiffer'
         /\ \A g \in Names : g # f => inode'[g] = inode[g]
         /\ UNCHANGED <<lastWd, notifyMap_, fileMap_, et>>
<1>1. /\ changes' = changes + 1
      /\ changes \in Nat /\ inode \in [Names -> Nat]
      /\ UNCHANGED <<lastWd, notifyMap_, fileMap_, et>>
  BY DEF Change, IInv, Types
<1>2. \A g \in Names : inode'[g] = IF g = f THEN i ELSE inode[g]
  BY <1>1
<1> QED
  BY <1>1, <1>2 DEF IInv, InodesDiffer

(* A file goes, and the watch of its inode with it. *)
LEMMA UnlinkIInv ==
  ASSUME IInv, NEW f \in Names, NEW i \in {0, changes'}, Change(f), Unlink(f),
         inode' = [inode EXCEPT ![f] = i]
  PROVE  IInv'
<1> DEFINE old == inode[f]
<1>1. /\ changes' \in Nat /\ inode' \in [Names -> Nat]
      /\ InodesDiffer'
      /\ \A g \in Names : g # f => inode'[g] = inode[g]
      /\ UNCHANGED <<lastWd, notifyMap_, fileMap_, et>>
  BY InodeIInv
<1>2. /\ old # 0
      /\ watch' = [wd \in Wds |-> IF watch[wd] = old THEN 0 ELSE watch[wd]]
      /\ Notify(old, "ignored")
  BY DEF Unlink
<1>3. /\ events' \in Seq(EventsOf)
      /\ \A w \in Wds : Pending(w)' <=> Pending(w) \/ watch[w] = old
  <2>1. CASE \E wd \in Wds : watch[wd] = old
    <3>1. PICK wd \in Wds : watch[wd] = old /\ events' = Append(events, Ignored(wd))
      BY <1>2, <2>1 DEF Notify, Ignored
    <3>2. \A w \in Wds : watch[w] = old <=> w = wd
      BY <1>2, <3>1 DEF IInv, WatchesAreCurrent
    <3>3. \A w \in Wds : Ignored(w) = Ignored(wd) <=> w = wd
      BY DEF Ignored, Event
    <3>4. Ignored(wd) \in EventsOf /\ events \in Seq(EventsOf)
      BY DEF Ignored, Event, EventsOf, IInv, Types
    <3> QED
      BY <1>1, <3>1, <3>2, <3>3, <3>4, AppendQueued DEF Pending, Ignored
  <2>2. CASE ~ \E wd \in Wds : watch[wd] = old
    BY <1>1, <1>2, <2>2 DEF Notify, Pending, IInv, Types
  <2> QED
    BY <2>1, <2>2
<1>4. Types'
  BY <1>1, <1>2, <1>3 DEF IInv, Types
<1>5. WatchesAreCurrent'
  BY <1>1, <1>2 DEF IInv, Types, WatchesAreCurrent
<1>6. EntriesEnd'
  BY <1>1, <1>2, <1>3 DEF IInv, Types, EntriesEnd
<1>7. LaterIsUnused' /\ EntriesFound'
  BY <1>1, <1>2, <1>3 DEF IInv, Types, LaterIsUnused, EntriesFound
<1> QED
  BY <1>1, <1>4, <1>5, <1>6, <1>7 DEF IInv

LEMMA ReplaceIInv ==
  ASSUME IInv, NEW f \in Names, Replace(f)
  PROVE  IInv'
<1>1. Change(f) /\ inode' = [inode EXCEPT ![f] = changes']
  BY DEF Replace
<1>2. CASE inode[f] # 0
  BY <1>1, <1>2, UnlinkIInv DEF Replace
<1>3. CASE inode[f] = 0
  <2>1. /\ changes' \in Nat /\ inode' \in [Names -> Nat]
        /\ InodesDiffer'
        /\ \A g \in Names : g # f => inode'[g] = inode[g]
        /\ UNCHANGED <<lastWd, notifyMap_, fileMap_, et>>
    BY <1>1, InodeIInv
  <2>2. UNCHANGED <<watch, events>>
    BY <1>3 DEF Replace
  <2>3. \A w \in Wds : Pending(w)' <=> Pending(w)
    BY <2>1, <2>2 DEF Pending
  <2>4. Types'
    BY <2>1, <2>2 DEF IInv, Types
  <2>5. WatchesAreCurrent'
    BY <1>3, <2>1, <2>2 DEF IInv, WatchesAreCurrent
  <2>6. EntriesEnd' /\ LaterIsUnused' /\ EntriesFound'
    BY <2>1, <2>2, <2>3 DEF IInv, EntriesEnd, LaterIsUnused, EntriesFound
  <2> QED
    BY <2>1, <2>4, <2>5, <2>6 DEF IInv
<1> QED
  BY <1>2, <1>3

LEMMA RemoveIInv ==
  ASSUME IInv, NEW f \in Names, Remove(f)
  PROVE  IInv'
  BY UnlinkIInv DEF Remove

-----------------------------------------------------------------------------
(* FileNotify                                                              *)

(* What the maps hold stays, if no entry is to be removed. *)
LEMMA AddWatchKeeps ==
  ASSUME IInv, NEW f \in Names, addWatch(f, 0), NEW w \in Wds, notifyMap_[w] # NoName
  PROVE  notifyMap_'[w] = notifyMap_[w]
<1>1. w # 0
  BY DEF Wds
<1> QED
  BY <1>1 DEF addWatch

(* addWatch(f), which is told to remove the entry of a descriptor whose     *)
(* IN_IGNORED is the event at hand, or of none.                             *)
LEMMA AddWatchIInv ==
  ASSUME IInv, NEW f \in Names, NEW erased \in Wds \cup {0}, addWatch(f, erased),
         UNCHANGED <<changes, inode, events>>, et' \in {et, NoEvent},
         et' # NoEvent => notifyMap_'[et'.wd] # NoName,
         \A w \in Wds : Pending(w)' => Pending(w),
         \A w \in Wds : Pending(w) => Pending(w)' \/ w = erased,
         erased # 0 => Pending(erased)
  PROVE  IInv'
<1> USE NoNameAssumption, BoundsAssumption
<1>1. Types /\ LaterIsUnused
  BY DEF IInv
<1>2. InodesDiffer' /\ events' \in Seq(EventsOf) /\ et' \in EventsOf \cup {NoEvent}
  BY DEF IInv, Types, InodesDiffer
<1>3. \A w \in Wds : watch[w] # 0 => w # erased
  BY DEF IInv, EntriesEnd, Wds
<1>4. CASE inode[f] = 0
  <2>1. /\ fileMap_' = [fileMap_ EXCEPT ![f] = 0]
        /\ notifyMap_' = [w \in Wds |-> IF w = erased THEN NoName ELSE notifyMap_[w]]
        /\ UNCHANGED <<watch, lastWd>>
    BY <1>4 DEF addWatch
  <2>2. Types'
    BY <1>2, <2>1 DEF IInv, Types
  <2>3. WatchesAreCurrent'
    BY <1>3, <2>1 DEF IInv, WatchesAreCurrent
  <2>4. EntriesEnd' /\ LaterIsUnused'
    BY <2>1 DEF IInv, Types, EntriesEnd, LaterIsUnused
  <2>5. EntriesFound'
    BY <2>1 DEF IInv, Types, EntriesFound, Wds
  <2> QED
    BY <1>2, <2>2, <2>3, <2>4, <2>5 DEF IInv
<1>5. ASSUME inode[f] # 0, NEW wd \in Wds, watch[wd] = inode[f], lastWd' = lastWd,
             watch' = [watch EXCEPT ![wd] = inode[f]],
             notifyMap_' = [w \in Wds |->
               IF w = erased THEN NoName
               ELSE IF w = wd /\ notifyMap_[w] = NoName THEN f ELSE notifyMap_[w]],
             fileMap_' = [fileMap_ EXCEPT ![f] = IF @ = 0 THEN wd ELSE @]
      PROVE  IInv'
  <2>1. watch' = watch
    BY <1>1, <1>5 DEF Types
  <2>2. notifyMap_[wd] = f
    BY <1>5 DEF IInv, WatchesAreCurrent, InodesDiffer
  <2>3. notifyMap_' = [w \in Wds |-> IF w = erased THEN NoName ELSE notifyMap_[w]]
    BY <1>5, <2>2
  <2>4. Types'
    BY <1>2, <1>5, <2>1, <2>3 DEF IInv, Types, Wds
  <2>5. WatchesAreCurrent'
    BY <1>3, <2>1, <2>3 DEF IInv, WatchesAreCurrent
  <2>6. wd <= lastWd
    BY <1>1, <1>5 DEF Types, LaterIsUnused, Wds
  <2>7. EntriesEnd' /\ LaterIsUnused'
    BY <1>5, <2>1, <2>3, <2>6 DEF IInv, Types, EntriesEnd, LaterIsUnused
  <2>8. EntriesFound'
    BY <1>5, <2>2, <2>3 DEF IInv, Types, EntriesFound, Wds
  <2> QED
    BY <1>2, <2>4, <2>5, <2>7, <2>8 DEF IInv
<1>6. ASSUME inode[f] # 0, ~Watched(f), NEW wd, wd = lastWd + 1, lastWd < MaxWd,
             lastWd' = wd,
             watch' = [watch EXCEPT ![wd] = inode[f]],
             notifyMap_' = [w \in Wds |->
               IF w = erased THEN NoName
               ELSE IF w = wd /\ notifyMap_[w] = NoName THEN f ELSE notifyMap_[w]],
             fileMap_' = [fileMap_ EXCEPT ![f] = IF @ = 0 THEN wd ELSE @]
      PROVE  IInv'
  <2>1. wd \in Wds /\ wd > lastWd /\ wd # 0
    BY <1>1, <1>6 DEF Types, Wds
  <2>2. watch[wd] = 0 /\ notifyMap_[wd] = NoName /\ ~Pending(wd)
    BY <1>1, <2>1 DEF LaterIsUnused
  <2>3. wd # erased
    BY <2>1, <2>2
  <2>4. \A w \in Wds : notifyMap_'[w] = IF w = erased THEN NoName
                                        ELSE IF w = wd THEN f ELSE notifyMap_[w]
    BY <1>6, <2>2
  <2>5. \A w \in Wds : watch'[w] = IF w = wd THEN inode[f] ELSE watch[w]
    BY <1>1, <1>6 DEF Types
  <2>6. Types'
    BY <1>1, <1>2, <1>6, <2>1 DEF Types, Wds
  <2>7. \A w \in Wds : watch[w] # inode[f]
    BY <1>6, <1>1 DEF Watched, Types
  <2>8. WatchesAreCurrent'
    BY <1>6, <1>3, <2>3, <2>4, <2>5, <2>7 DEF IInv, WatchesAreCurrent
  <2>9. EntriesEnd'
    BY <1>6, <2>2, <2>3, <2>4, <2>5 DEF IInv, EntriesEnd
  <2>10. LaterIsUnused'
    BY <1>1, <1>6, <2>1, <2>4, <2>5 DEF Types, LaterIsUnused, Wds
  <2>11. EntriesFound'
    <3>1. ASSUME NEW g \in Names, fileMap_'[g] # 0
          PROVE  notifyMap_'[fileMap_'[g]] \in {g, NoName}
      <4>1. CASE g = f /\ fileMap_[f] = 0
        BY <1>1, <1>6, <2>1, <2>3, <2>4, <4>1 DEF Types
      <4>2. CASE ~(g = f /\ fileMap_[f] = 0)
        <5>1. fileMap_'[g] = fileMap_[g]
          BY <1>1, <1>6, <4>2 DEF Types
        <5>2. fileMap_[g] \in Wds /\ fileMap_[g] # wd
          BY <1>1, <1>6, <3>1, <5>1 DEF Types, LaterIsUnused, Wds
        <5> QED
          BY <3>1, <2>4, <5>1, <5>2 DEF IInv, EntriesFound
      <4> QED
        BY <4>1, <4>2
    <3> QED
      BY <3>1 DEF EntriesFound
  <2> QED
    BY <1>2, <2>6, <2>8, <2>9, <2>10, <2>11 DEF IInv
<1> QED
  <2> SUFFICES ASSUME inode[f] # 0 PROVE IInv'
    BY <1>4
  <2>1. CASE \E wd \in Wds : /\ watch[wd] = inode[f]
                             /\ lastWd' = lastWd
                             /\ watch' = [watch EXCEPT ![wd] = inode[f]]
                             /\ notifyMap_' = [w \in Wds |->
                                  IF w = erased THEN NoName
                                  ELSE IF w = wd /\ notifyMap_[w] = NoName THEN f
                                  ELSE notifyMap_[w]]
                             /\ fileMap_' = [fileMap_ EXCEPT
                                               ![f] = IF @ = 0 THEN wd ELSE @]
    BY <1>5, <2>1
  <2>2. CASE /\ ~Watched(f) /\ lastWd < MaxWd /\ lastWd' = lastWd + 1
             /\ watch' = [watch EXCEPT ![lastWd'] = inode[f]]
             /\ notifyMap_' = [w \in Wds |->
                  IF w = erased THEN NoName
                  ELSE IF w = lastWd' /\ notifyMap_[w] = NoName THEN f
                  ELSE notifyMap_[w]]
             /\ fileMap_' = [fileMap_ EXCEPT ![f] = IF @ = 0 THEN lastWd' ELSE @]
    BY <1>6, <2>2
  <2> QED
    BY <2>1, <2>2 DEF addWatch

LEMMA RmWatchIInv ==
  ASSUME IInv, NEW f \in Names, rmWatch(f)
  PROVE  IInv'
<1> DEFINE wd == fileMap_[f]
<1>1. /\ UNCHANGED <<changes, inode, lastWd, et>>
      /\ fileMap_' = [fileMap_ EXCEPT ![f] = 0]
      /\ et # NoEvent => notifyMap_[et.wd] # f
  BY DEF rmWatch, files
<1>2. InodesDiffer'
  BY <1>1 DEF IInv, InodesDiffer
<1>3. Types /\ 0 \in 0..MaxWd
  BY BoundsAssumption DEF IInv
<1>4. CASE wd = 0
  <2>1. UNCHANGED <<watch, events, notifyMap_>>
    BY <1>4 DEF rmWatch
  <2>2. fileMap_' = fileMap_
    BY <1>1, <1>3, <1>4 DEF Types
  <2>3. \A w \in Wds : Pending(w)' <=> Pending(w)
    BY <1>1, <2>1 DEF Pending
  <2>4. Types' /\ WatchesAreCurrent' /\ EntriesFound'
    BY <1>1, <2>1, <2>2 DEF IInv, Types, WatchesAreCurrent, EntriesFound
  <2>5. EntriesEnd' /\ LaterIsUnused'
    BY <1>1, <2>1, <2>2, <2>3 DEF IInv, EntriesEnd, LaterIsUnused
  <2> QED
    BY <1>2, <2>4, <2>5 DEF IInv
<1>5. CASE wd # 0
  <2>1. /\ wd \in Wds
        /\ notifyMap_' = [notifyMap_ EXCEPT ![wd] = NoName]
        /\ watch' = [watch EXCEPT ![wd] = 0]
        /\ events' = IF watch[wd] = 0 THEN events ELSE Append(events, Ignored(wd))
    BY <1>3, <1>5 DEF rmWatch, Types, Wds, Ignored
  <2>2. /\ events' \in Seq(EventsOf)
        /\ \A w \in Wds : Pending(w)' <=> Pending(w) \/ (w = wd /\ watch[wd] # 0)
    <3>1. \A w \in Wds : Ignored(w) = Ignored(wd) <=> w = wd
      BY <2>1 DEF Ignored, Event
    <3>2. Ignored(wd) \in EventsOf /\ events \in Seq(EventsOf)
      BY <1>3, <2>1 DEF Ignored, Event, EventsOf, Types
    <3> QED
      BY <1>1, <2>1, <3>1, <3>2, AppendQueued DEF Pending, Ignored
  <2>3. Types'
    BY <1>1, <1>3, <2>1, <2>2 DEF Types
  <2>4. WatchesAreCurrent'
    BY <1>1, <1>3, <2>1 DEF IInv, Types, WatchesAreCurrent
  <2>5. EntriesEnd'
    BY <1>3, <2>1, <2>2 DEF IInv, Types, EntriesEnd
  <2>6. LaterIsUnused'
    BY <1>1, <1>3, <2>1, <2>2 DEF IInv, Types, LaterIsUnused, Wds
  <2>7. EntriesFound'
    <3>1. ASSUME NEW g \in Names, fileMap_'[g] # 0
          PROVE  notifyMap_'[fileMap_'[g]] \in {g, NoName}
      BY <1>1, <1>3, <2>1, <3>1 DEF IInv, Types, EntriesFound, Wds
    <3>2. ASSUME et # NoEvent PROVE et.wd # wd /\ et.wd \in Wds
      BY <1>1, <1>3, <1>5, <2>1, <3>2 DEF IInv, Types, EntriesFound, EventsOf
    <3>3. et' # NoEvent => notifyMap_'[et'.wd] # NoName
      BY <1>1, <1>3, <2>1, <3>2 DEF IInv, Types, EntriesFound
    <3> QED
      BY <3>1, <3>3 DEF EntriesFound
  <2> QED
    BY <1>2, <2>3, <2>4, <2>5, <2>6, <2>7 DEF IInv
<1> QED
  BY <1>4, <1>5

LEMMA OnReadIInv ==
  ASSUME IInv, onRead
  PROVE  IInv'
<1> DEFINE e == Head(events)
<1>1. /\ UNCHANGED <<changes, inode, lastWd, watch, notifyMap_, fileMap_>>
      /\ et = NoEvent /\ events # <<>> /\ events' = Tail(events)
      /\ et' = IF notifyMap_[e.wd] = NoName THEN et ELSE e
  BY DEF onRead, files
<1>2. events \in Seq(EventsOf)
  BY DEF IInv, Types
<1>3. events' \in Seq(EventsOf) /\ e \in EventsOf
  BY <1>1, <1>2, TailQueued
<1>4. \A x : Queued(x, events) <=> x = e \/ Queued(x, events')
  BY <1>1, <1>2, TailQueued
<1>5. \A w \in Wds : NoEvent # Ignored(w)
  BY DEF NoEvent, Ignored, Event
<1>6. \A w \in Wds : Pending(w)' => Pending(w)
  BY <1>1, <1>4, <1>5 DEF Pending, Ignored
<1>7. \A w \in Wds : Pending(w) => Pending(w)' \/ notifyMap_[w] = NoName
  <2>1. \A w \in Wds : e = Ignored(w) => e.wd = w
    BY DEF Ignored, Event
  <2> QED
    BY <1>1, <1>4, <1>5, <2>1 DEF Pending, Ignored
<1>8. Types'
  BY <1>1, <1>3 DEF IInv, Types
<1>9. InodesDiffer' /\ WatchesAreCurrent' /\ EntriesFound'
  BY <1>1 DEF IInv, InodesDiffer, WatchesAreCurrent, EntriesFound
<1>10. EntriesEnd' /\ LaterIsUnused'
  BY <1>1, <1>6, <1>7 DEF IInv, EntriesEnd, LaterIsUnused
<1> QED
  BY <1>8, <1>9, <1>10 DEF IInv

LEMMA AfterCallbackIInv ==
  ASSUME IInv, AfterCallback
  PROVE  IInv'
<1>1. /\ et # NoEvent /\ et' = NoEvent
      /\ UNCHANGED <<changes, inode, events>>
  BY DEF AfterCallback, files
<1>2. et \in EventsOf /\ et = Event(et.wd, et.mask) /\ et.wd \in Wds
  BY <1>1 DEF IInv, Types, EventsOf, Event
<1>3. \A w \in Wds : Ignored(w) # NoEvent /\ (et = Ignored(w) => w = et.wd)
  BY DEF Ignored, Event, NoEvent
<1>4. /\ \A w \in Wds : Pending(w)' => Pending(w)
      /\ \A w \in Wds : Pending(w) => Pending(w)' \/ et = Ignored(w)
  BY <1>1, <1>3 DEF Pending, Ignored
<1>5. CASE et.mask = "ignored"
  <2>1. Pending(et.wd)
    BY <1>2, <1>5 DEF Pending
  <2>2. notifyMap_[et.wd] \in Names
    BY <1>1, <1>2 DEF IInv, Types, EntriesFound
  <2>3. addWatch(notifyMap_[et.wd], et.wd)
    BY <1>5 DEF AfterCallback
  <2> QED
    BY <1>1, <1>2, <1>3, <1>4, <2>1, <2>2, <2>3, AddWatchIInv
<1>6. CASE et.mask # "ignored"
  <2>1. \A w \in Wds : et # Ignored(w)
    BY <1>6 DEF Ignored, Event
  <2>2. UNCHANGED <<watch, lastWd, notifyMap_, fileMap_>>
    BY <1>6 DEF AfterCallback
  <2>3. Types' /\ InodesDiffer' /\ WatchesAreCurrent' /\ EntriesFound'
    BY <1>1, <2>2 DEF IInv, Types, InodesDiffer, WatchesAreCurrent, EntriesFound
  <2>4. EntriesEnd' /\ LaterIsUnused'
    BY <1>4, <2>1, <2>2 DEF IInv, EntriesEnd, LaterIsUnused
  <2> QED
    BY <2>3, <2>4 DEF IInv
<1> QED
  BY <1>5, <1>6

LEMMA NextIInv == IInv /\ [Next]_vars => IInv'
<1> SUFFICES ASSUME IInv, [Next]_vars PROVE IInv'
  OBVIOUS
<1>1. ASSUME NEW f \in Names, AddWatch(f) PROVE IInv'
  <2>1. /\ addWatch(f, 0) /\ et' = et
        /\ UNCHANGED <<changes, inode, events>>
    BY <1>1 DEF AddWatch, files
  <2>2. \A w \in Wds : Pending(w)' <=> Pending(w)
    BY <2>1 DEF Pending
  <2>3. et # NoEvent => et.wd \in Wds /\ notifyMap_[et.wd] # NoName
    BY DEF IInv, Types, EventsOf, EntriesFound
  <2>4. et' # NoEvent => notifyMap_'[et'.wd] # NoName
    BY <2>1, <2>3, AddWatchKeeps
  <2> QED
    BY <2>1, <2>2, <2>4, AddWatchIInv
<1>2. CASE UNCHANGED vars
  <2>1. \A w \in Wds : Pending(w)' <=> Pending(w)
    BY <1>2 DEF Pending, vars
  <2> QED
    BY <1>2, <2>1 DEF vars, IInv, Types, InodesDiffer, WatchesAreCurrent,
                      EntriesEnd, LaterIsUnused, EntriesFound
<1> QED
  BY <1>1, <1>2, ModifyIInv, ReplaceIInv, RemoveIInv, RmWatchIInv, OnReadIInv,
     AfterCallbackIInv DEF Next

(* However files change between the steps of FileNotify, every watch has an *)
(* entry in notifyMap_, and an entry without a watch is about to go.        *)
THEOREM MapsAgreeWithInotify == Spec => []EntriesMatchWatches
<1>1. IInv => EntriesMatchWatches
  BY NoNameAssumption
     DEF IInv, EntriesMatchWatches, WatchesAreCurrent, EntriesEnd
<1> QED
  BY <1>1, InitIInv, NextIInv, PTL DEF Spec

(* A descriptor whose IN_IGNORED is queued or at hand watches nothing: it   *)
(* is not handed out for another file before onRead() is through with it.   *)
THEOREM DescriptorsEnd == Spec => [](\A wd \in Wds : Pending(wd) => watch[wd] = 0)
<1>1. IInv => \A wd \in Wds : Pending(wd) => watch[wd] = 0
  BY DEF IInv, EntriesEnd
<1> QED
  BY <1>1, InitIInv, NextIInv, PTL DEF Spec

-----------------------------------------------------------------------------
(* Callbacks are for watched names                                         *)

(* As long as a file was not replaced or removed under its watch, the two   *)
(* maps, the watch and the wishes of the application say the same of it.    *)
Faithful(f) ==
  /\ \A wd \in Wds : notifyMap_[wd] = f => fileMap_[f] = wd /\ f \in wanted
  /\ fileMap_[f] # 0 => /\ inode[f] # 0
                        /\ watch[fileMap_[f]] = inode[f]
                        /\ notifyMap_[fileMap_[f]] = f

CInv == \A f \in Names : f \notin gone => Faithful(f)

LEMMA InitCInv == Init => CInv
  BY NoNameAssumption DEF Init, CInv, Faithful

LEMMA NextCInv == IInv /\ CInv /\ [Next]_vars => CInv'
<1> SUFFICES ASSUME IInv, CInv, [Next]_vars PROVE CInv'
  OBVIOUS
<1> USE NoNameAssumption
<1>1. /\ Types
      /\ \A v, w \in Wds : watch[v] = watch[w] /\ watch[v] # 0 => v = w
      /\ \A wd \in Wds : watch[wd] # 0 =>
           notifyMap_[wd] \in Names /\ inode[notifyMap_[wd]] = watch[wd]
      /\ \A f, g \in Names : inode[f] = inode[g] /\ inode[f] # 0 => f = g
      /\ \A f \in Names : fileMap_[f] # 0 => fileMap_[f] \in Wds
  BY DEF IInv, Types, WatchesAreCurrent, InodesDiffer, Wds
<1>2. ASSUME NEW f \in Names, Modify(f) PROVE CInv'
  BY <1>2 DEF Modify, Change, CInv, Faithful
<1>3. ASSUME NEW f \in Names, Replace(f) \/ Remove(f) PROVE CInv'
  <2>1. /\ UNCHANGED <<notifyMap_, fileMap_, wanted>>
        /\ \A g \in Names : g # f => inode'[g] = inode[g]
    BY <1>1, <1>3 DEF Replace, Remove, Change, Types
  <2>2. CASE inode[f] = 0
    <3>1. UNCHANGED <<watch, gone>>
      BY <1>3, <2>2 DEF Replace, Remove, Unlink
    <3>2. ASSUME NEW g \in Names, g \notin gone PROVE Faithful(g)'
      BY <1>1, <2>1, <2>2, <3>1, <3>2 DEF CInv, Faithful
    <3> QED
      BY <3>1, <3>2 DEF CInv
  <2>3. CASE inode[f] # 0
    <3>1. /\ watch' = [wd \in Wds |-> IF watch[wd] = inode[f] THEN 0 ELSE watch[wd]]
          /\ gone' = IF Watched(f) THEN gone \cup {f} ELSE gone
      BY <1>3, <2>3 DEF Replace, Remove, Unlink
    <3>2. ASSUME NEW g \in Names, g \notin gone' PROVE Faithful(g)'
      <4>1. g \notin gone /\ Faithful(g)
        BY <3>1, <3>2 DEF CInv
      <4>2. CASE g = f
        <5>1. \A wd \in Wds : watch[wd] = 0 \/ watch[wd] # inode[f]
          BY <3>1, <3>2, <4>2 DEF Watched
        <5>2. fileMap_[f] = 0
          BY <1>1, <4>1, <4>2, <5>1 DEF Faithful
        <5> QED
          BY <2>1, <4>1, <4>2, <5>2 DEF Faithful
      <4>3. CASE g # f
        BY <1>1, <2>1, <2>3, <3>1, <4>1, <4>3 DEF Faithful
      <4> QED
        BY <4>2, <4>3
    <3> QED
      BY <3>2 DEF CInv
  <2> QED
    BY <2>2, <2>3
<1>4. ASSUME NEW f \in Names, NEW erased \in Wds \cup {0}, addWatch(f, erased),
             UNCHANGED <<inode, gone>>,
             f \in wanted' \/ f \in gone \/ inode[f] = 0,
             \A g \in Names : g # f => (g \in wanted <=> g \in wanted'),
             \A w \in Wds : watch[w] # 0 => w # erased,
             erased \in Wds => notifyMap_[erased] # NoName
      PROVE  CInv'
  <2> SUFFICES ASSUME NEW g \in Names, g \notin gone PROVE Faithful(g)'
    BY <1>4 DEF CInv
  <2>1. Faithful(g)
    BY DEF CInv
  <2>2. CASE inode[f] = 0
    <3>1. /\ fileMap_' = [fileMap_ EXCEPT ![f] = 0]
          /\ notifyMap_' = [w \in Wds |-> IF w = erased THEN NoName ELSE notifyMap_[w]]
          /\ UNCHANGED watch
      BY <1>4, <2>2 DEF addWatch
    <3>2. \A w \in Wds : notifyMap_'[w] = g => notifyMap_[w] = g
      BY <3>1
    <3>3. CASE g = f
      <4>1. fileMap_[f] = 0 /\ fileMap_'[f] = 0
        BY <1>1, <2>1, <2>2, <3>1, <3>3 DEF Faithful, Types
      <4>2. \A w \in Wds : notifyMap_[w] # f
        BY <2>1, <3>3, <4>1 DEF Faithful, Wds
      <4> QED
        BY <3>2, <3>3, <4>1, <4>2 DEF Faithful
    <3>4. CASE g # f
      BY <1>1, <1>4, <2>1, <3>1, <3>2, <3>4 DEF Faithful, Types
    <3> QED
      BY <3>3, <3>4
  <2>3. ASSUME inode[f] # 0, NEW wd \in Wds,
               watch[wd] = inode[f] \/ (~Watched(f) /\ wd = lastWd + 1),
               watch' = [watch EXCEPT ![wd] = inode[f]],
               notifyMap_' = [w \in Wds |->
                 IF w = erased THEN NoName
                 ELSE IF w = wd /\ notifyMap_[w] = NoName THEN f ELSE notifyMap_[w]],
               fileMap_' = [fileMap_ EXCEPT ![f] = IF @ = 0 THEN wd ELSE @]
        PROVE  Faithful(g)'
    <3>1. watch[wd] = inode[f] \/ (watch[wd] = 0 /\ notifyMap_[wd] = NoName)
      BY <1>1, <2>3 DEF IInv, LaterIsUnused, Types, Wds
    <3>2. watch[wd] = inode[f] => notifyMap_[wd] = f
      BY <1>1, <2>3
    <3>3. \A w \in Wds : watch'[w] = IF w = wd THEN inode[f] ELSE watch[w]
      BY <1>1, <2>3 DEF Types
    <3>4. \A w \in Wds : notifyMap_'[w] = IF w = erased THEN NoName
                                          ELSE IF w = wd THEN f ELSE notifyMap_[w]
      BY <2>3, <3>1, <3>2
    <3>5. \A h \in Names : fileMap_'[h] = IF h = f /\ fileMap_[f] = 0
                                            THEN wd ELSE fileMap_[h]
      BY <1>1, <2>3 DEF Types
    <3>6. wd # 0
      BY DEF Wds
    <3>7. CASE g = f
      <4>1. fileMap_[f] \in {0, wd}
        BY <1>1, <2>1, <2>3, <3>7 DEF Faithful, Watched
      <4>2. fileMap_'[f] = wd
        BY <3>5, <4>1
      <4>3. CASE erased = wd
        <5>1. watch[wd] = 0
          BY <1>4, <4>3
        <5> QED
          BY <1>4, <2>3, <3>1, <4>3, <5>1
      <4>4. CASE erased # wd
        <5>1. \A w \in Wds : notifyMap_'[w] = f => w = wd
          BY <2>1, <3>4, <3>7, <4>1, <4>2 DEF Faithful, Wds
        <5>2. f \in wanted'
          BY <1>4, <2>3, <3>7
        <5> QED
          BY <1>4, <2>3, <3>3, <3>4, <3>7, <4>2, <4>4, <5>1, <5>2 DEF Faithful
      <4> QED
        BY <4>3, <4>4
    <3>8. CASE g # f
      <4>1. fileMap_'[g] = fileMap_[g] /\ inode'[g] = inode[g]
        BY <1>4, <3>5, <3>8
      <4>2. ASSUME fileMap_[g] # 0
            PROVE  fileMap_[g] \in Wds /\ fileMap_[g] # wd /\ fileMap_[g] # erased
        BY <1>1, <1>4, <2>1, <3>1, <3>2, <3>8, <4>2 DEF Faithful
      <4>3. fileMap_'[g] # 0 => /\ inode'[g] # 0
                                /\ watch'[fileMap_'[g]] = inode'[g]
                                /\ notifyMap_'[fileMap_'[g]] = g
        BY <2>1, <3>3, <3>4, <4>1, <4>2 DEF Faithful
      <4>4. \A w \in Wds : notifyMap_'[w] = g => fileMap_'[g] = w /\ g \in wanted'
        BY <1>4, <2>1, <3>4, <3>8, <4>1 DEF Faithful
      <4> QED
        BY <4>3, <4>4 DEF Faithful
    <3> QED
      BY <3>7, <3>8
  <2> SUFFICES ASSUME inode[f] # 0 PROVE Faithful(g)'
    BY <2>2
  <2>4. CASE \E wd \in Wds : /\ watch[wd] = inode[f]
                             /\ watch' = [watch EXCEPT ![wd] = inode[f]]
                             /\ notifyMap_' = [w \in Wds |->
                                  IF w = erased THEN NoName
                                  ELSE IF w = wd /\ notifyMap_[w] = NoName THEN f
                                  ELSE notifyMap_[w]]
                             /\ fileMap_' = [fileMap_ EXCEPT
                                               ![f] = IF @ = 0 THEN wd ELSE @]
    BY <2>3, <2>4
  <2>5. CASE /\ ~Watched(f) /\ lastWd < MaxWd /\ lastWd' = lastWd + 1
             /\ watch' = [watch EXCEPT ![lastWd'] = inode[f]]
             /\ notifyMap_' = [w \in Wds |->
                  IF w = erased THEN NoName
                  ELSE IF w = lastWd' /\ notifyMap_[w] = NoName THEN f
                  ELSE notifyMap_[w]]
             /\ fileMap_' = [fileMap_ EXCEPT ![f] = IF @ = 0 THEN lastWd' ELSE @]
    <3>1. lastWd + 1 \in Wds
      BY <1>1, <2>5, BoundsAssumption DEF Types, Wds
    <3> QED
      BY <2>3, <2>5, <3>1
  <2> QED
    BY <1>4, <2>4, <2>5 DEF addWatch
<1>5. ASSUME NEW f \in Names, AddWatch(f) PROVE CInv'
  <2>1. /\ addWatch(f, 0) /\ UNCHANGED <<inode, gone>>
        /\ wanted' = IF inode[f] = 0 THEN wanted ELSE wanted \cup {f}
    BY <1>5 DEF AddWatch, files
  <2> QED
    BY <1>4, <2>1 DEF Wds
<1>6. ASSUME NEW f \in Names, rmWatch(f) PROVE CInv'
  <2>1. /\ UNCHANGED <<inode, gone>>
        /\ fileMap_' = [fileMap_ EXCEPT ![f] = 0]
        /\ wanted' = wanted \ {f}
    BY <1>6 DEF rmWatch, files
  <2>2. ASSUME NEW g \in Names, g \notin gone PROVE Faithful(g)'
    <3>1. Faithful(g)
      BY <2>2 DEF CInv
    <3>2. CASE fileMap_[f] = 0
      <4>1. UNCHANGED <<watch, notifyMap_>>
        BY <1>6, <3>2 DEF rmWatch
      <4> QED
        BY <1>1, <2>1, <3>1, <3>2, <4>1 DEF Faithful, Types, Wds
    <3>3. CASE fileMap_[f] # 0
      <4>1. /\ notifyMap_' = [notifyMap_ EXCEPT ![fileMap_[f]] = NoName]
            /\ watch' = [watch EXCEPT ![fileMap_[f]] = 0]
        BY <1>6, <3>3 DEF rmWatch
      <4>2. notifyMap_[fileMap_[f]] \in {f, NoName} /\ fileMap_[f] \in Wds
        BY <1>1, <3>3 DEF IInv, EntriesFound
      <4>3. CASE g = f
        BY <1>1, <2>1, <3>1, <4>1, <4>2, <4>3 DEF Faithful, Types, Wds
      <4>4. CASE g # f
        BY <1>1, <2>1, <3>1, <4>1, <4>2, <4>4 DEF Faithful, Types
      <4> QED
        BY <4>3, <4>4
    <3> QED
      BY <3>2, <3>3
  <2> QED
    BY <2>1, <2>2 DEF CInv
<1>7. ASSUME onRead PROVE CInv'
  BY <1>7 DEF onRead, files, CInv, Faithful
<1>8. ASSUME AfterCallback PROVE CInv'
  <2>1. UNCHANGED <<inode, gone, wanted>> /\ et # NoEvent
    BY <1>8 DEF AfterCallback, files
  <2>2. CASE et.mask # "ignored"
    BY <1>8, <2>1, <2>2 DEF AfterCallback, CInv, Faithful
  <2>3. CASE et.mask = "ignored"
    <3>1. /\ et.wd \in Wds /\ et = Event(et.wd, "ignored")
          /\ notifyMap_[et.wd] \in Names
      BY <1>1, <2>1, <2>3 DEF IInv, Types, EventsOf, EntriesFound, Event
    <3>2. watch[et.wd] = 0
      BY <3>1 DEF IInv, EntriesEnd, Pending
    <3>3. notifyMap_[et.wd] \in gone
      BY <3>1, <3>2 DEF CInv, Faithful, Wds
    <3>4. addWatch(notifyMap_[et.wd], et.wd)
      BY <1>8, <2>3 DEF AfterCallback
    <3> QED
      BY <1>4, <2>1, <3>1, <3>2, <3>3, <3>4
  <2> QED
    BY <2>2, <2>3
<1>9. CASE UNCHANGED vars
  BY <1>9 DEF vars, CInv, Faithful
<1> QED
  BY <1>2, <1>3, <1>5, <1>6, <1>7, <1>8, <1>9 DEF Next

(* No callback is called for a name that is not watched, unless its file    *)
(* was replaced or removed while it was: rmWatch() finds the entry.         *)
THEOREM NoStrayCallbacks == Spec => []CalledIfWanted
<1>1. IInv /\ CInv => CalledIfWanted
  <2> SUFFICES ASSUME IInv, CInv, et # NoEvent
               PROVE  notifyMap_[et.wd] \in wanted \cup gone
    BY DEF CalledIfWanted
  <2>1. et.wd \in Wds /\ notifyMap_[et.wd] \in Names
    BY NoNameAssumption DEF IInv, Types, EventsOf, EntriesFound
  <2> QED
    BY <2>1 DEF CInv, Faithful
<1> QED
  BY <1>1, InitIInv, InitCInv, NextIInv, NextCInv, PTL DEF Spec

-----------------------------------------------------------------------------
(* No change is overlooked                                                 *)

Up(f) == seen[f] = version[f] \/ f \in missed

(* An event is queued that will call back for f. *)
Told(f) ==
  \E wd \in Wds : /\ notifyMap_[wd] = f
                  /\ Queued(Event(wd, "modify"), events) \/ Queued(Ignored(wd), events)

UInv ==
  /\ wanted \subseteq Names
  /\ seen \in [Names -> Nat] /\ version \in [Names -> Nat]
  /\ \A f \in wanted : Watched(f) => Up(f) \/ Told(f)
  /\ et.mask = "ignored" => Up(notifyMap_[et.wd])

LEMMA InitUInv == Init => UInv
  BY DEF Init, UInv, NoEvent

(* What another file's change can do to g. *)
LEMMA OthersChange ==
  ASSUME IInv, UInv, NEW f \in Names, NEW g \in wanted, g # f, Change(f),
         Watched(g)' => Watched(g),
         \A wd \in Wds, mask \in {"modify", "ignored"} :
           Queued(Event(wd, mask), events) => Queued(Event(wd, mask), events')
  PROVE  Watched(g)' => Up(g)' \/ Told(g)'
<1>1. /\ UNCHANGED <<notifyMap_, seen>>
      /\ version' = [version EXCEPT ![f] = changes']
      /\ missed \subseteq missed'
  BY DEF Change
<1>2. Up(g) => Up(g)'
  BY <1>1 DEF Up, UInv
<1>3. Told(g) => Told(g)'
  BY <1>1 DEF Told, Ignored
<1> QED
  BY <1>2, <1>3 DEF UInv

(* Between the two watches of a name its changes are known to be missed. *)
LEMMA ChangeBetween ==
  ASSUME IInv, UInv, NEW f \in Names, Change(f)
  PROVE  /\ wanted' \subseteq Names
         /\ seen' \in [Names -> Nat] /\ version' \in [Names -> Nat]
         /\ et'.mask = "ignored" => Up(notifyMap_[et.wd])'
<1>1. /\ UNCHANGED <<notifyMap_, seen, et, wanted>>
      /\ version' = [version EXCEPT ![f] = changes'] /\ changes' \in Nat
      /\ missed' = IF BetweenWatches(f) THEN missed \cup {f} ELSE missed
  BY DEF Change, IInv, Types
<1>2. ASSUME et.mask = "ignored" PROVE notifyMap_[et.wd] \in Names
  BY <1>2, NoNameAssumption DEF IInv, Types, EventsOf, EntriesFound, NoEvent
<1>3. ASSUME et.mask = "ignored" PROVE Up(notifyMap_[et.wd])'
  BY <1>1, <1>2, <1>3 DEF UInv, Up, BetweenWatches
<1> QED
  BY <1>1, <1>3 DEF UInv

(* An event is appended, or none: what was queued is still queued. *)
LEMMA NotifyKeeps ==
  ASSUME IInv, NEW i, NEW m \in {"modify", "ignored"}, Notify(i, m)
  PROVE  /\ \A wd \in Wds, mask \in {"modify", "ignored"} :
              Queued(Event(wd, mask), events) => Queued(Event(wd, mask), events')
         /\ (\E wd \in Wds : watch[wd] = i) =>
              \E wd \in Wds : watch[wd] = i /\ Queued(Event(wd, m), events')
<1>1. events \in Seq(EventsOf)
  BY DEF IInv, Types
<1>2. ASSUME NEW wd \in Wds
      PROVE  Event(wd, m) \in EventsOf
  BY DEF Event, EventsOf
<1>3. CASE ~ \E wd \in Wds : watch[wd] = i
  BY <1>3 DEF Notify
<1>4. CASE \E wd \in Wds : watch[wd] = i
  <2>1. PICK wd \in Wds :
          /\ watch[wd] = i
          /\ \/ events' = Append(events, Event(wd, m))
             \/ events # <<>> /\ events[Len(events)] = Event(wd, m) /\ events' = events
    BY <1>4 DEF Notify
  <2>2. CASE events' = Append(events, Event(wd, m))
    BY <1>1, <1>2, <2>1, <2>2, AppendQueued
  <2>3. CASE events # <<>> /\ events[Len(events)] = Event(wd, m) /\ events' = events
    <3>1. Len(events) \in DOMAIN events
      BY <1>1, <2>3, LenProperties, EmptySeq
    <3> QED
      BY <2>1, <2>3, <3>1 DEF Queued
  <2> QED
    BY <2>1, <2>2, <2>3
<1> QED
  BY <1>3, <1>4

LEMMA AddWatchOthers ==
  ASSUME IInv, NEW f \in Names, NEW erased \in Wds \cup {0}, addWatch(f, erased),
         UNCHANGED inode, NEW g \in Names, g # f
  PROVE  /\ Watched(g)' => Watched(g)
         /\ \A w \in Wds : notifyMap_[w] = g /\ w # erased => notifyMap_'[w] = g
<1>1. CASE inode[f] = 0
  BY <1>1 DEF addWatch, Watched
<1>2. CASE inode[f] # 0
  <2>1. PICK wd : /\ watch' = [watch EXCEPT ![wd] = inode[f]]
                  /\ notifyMap_' = [w \in Wds |->
                       IF w = erased THEN NoName
                       ELSE IF w = wd /\ notifyMap_[w] = NoName THEN f
                       ELSE notifyMap_[w]]
    BY <1>2 DEF addWatch
  <2>2. \A w \in Wds : watch'[w] = inode[f] \/ watch'[w] = watch[w]
    BY <2>1 DEF IInv, Types
  <2>3. inode[g] # inode[f]
    BY <1>2 DEF IInv, InodesDiffer
  <2>4. Watched(g)' => Watched(g)
    BY <2>2, <2>3 DEF Watched
  <2> QED
    BY <2>1, <2>4, NoNameAssumption
<1> QED
  BY <1>1, <1>2

LEMMA NextUInv == IInv /\ UInv /\ [Next]_vars => UInv'
<1> SUFFICES ASSUME IInv, UInv, [Next]_vars PROVE UInv'
  OBVIOUS
<1> USE NoNameAssumption
<1>1. Types
  BY DEF IInv
<1>2. ASSUME NEW f \in Names, Modify(f) PROVE UInv'
  <2>1. /\ Change(f) /\ Notify(inode[f], "modify") /\ inode[f] # 0
        /\ UNCHANGED <<inode, watch, notifyMap_, wanted, et>>
    BY <1>2 DEF Modify, Change
  <2>2. ASSUME NEW g \in wanted, g # f PROVE Watched(g)' => Up(g)' \/ Told(g)'
    <3>1. Watched(g)' => Watched(g)
      BY <2>1 DEF Watched
    <3> QED
      BY <2>1, <2>2, <3>1, NotifyKeeps, OthersChange
  <2>3. Watched(f)' => Told(f)'
    <3>1. ASSUME NEW wd \in Wds, watch[wd] = inode[f] PROVE notifyMap_[wd] = f
      BY <2>1, <3>1 DEF IInv, WatchesAreCurrent, InodesDiffer
    <3>2. Watched(f)' => \E wd \in Wds : watch[wd] = inode[f]
      BY <2>1 DEF Watched
    <3>3. Watched(f)' => \E wd \in Wds : /\ watch[wd] = inode[f]
                                         /\ Queued(Event(wd, "modify"), events')
      BY <2>1, <3>2, NotifyKeeps
    <3> QED
      BY <2>1, <3>1, <3>3 DEF Told
  <2> QED
    BY <2>1, <2>2, <2>3, ChangeBetween DEF UInv
<1>3. ASSUME NEW f \in Names, Replace(f) \/ Remove(f) PROVE UInv'
  <2>1. /\ Change(f)
        /\ UNCHANGED <<notifyMap_, wanted, et>>
        /\ \A g \in Names : g # f => inode'[g] = inode[g]
        /\ inode'[f] \in {0, changes'} /\ changes' = changes + 1
    BY <1>1, <1>3 DEF Replace, Remove, Change, Types
  <2>2. /\ \A wd \in Wds : watch'[wd] \in {0, watch[wd]}
        /\ \A wd \in Wds, mask \in {"modify", "ignored"} :
             Queued(Event(wd, mask), events) => Queued(Event(wd, mask), events')
    <3>1. CASE inode[f] = 0
      BY <1>3, <3>1 DEF Replace, Remove, Unlink
    <3>2. CASE inode[f] # 0
      BY <1>3, <3>2, NotifyKeeps DEF Replace, Remove, Unlink
    <3> QED
      BY <3>1, <3>2
  <2>3. ~Watched(f)'
    <3>1. \A wd \in Wds : watch[wd] <= changes /\ watch[wd] \in Nat /\ changes \in Nat
      BY <1>1 DEF IInv, Types, WatchesAreCurrent, InodesDiffer
    <3> QED
      BY <2>1, <2>2, <3>1 DEF Watched
  <2>4. ASSUME NEW g \in wanted, g # f PROVE Watched(g)' => Up(g)' \/ Told(g)'
    <3>1. g \in Names
      BY DEF UInv
    <3>2. Watched(g)' => Watched(g)
      BY <2>1, <2>2, <2>4, <3>1 DEF Watched
    <3> QED
      BY <2>1, <2>2, <2>4, <3>2, OthersChange
  <2> QED
    BY <2>1, <2>3, <2>4, ChangeBetween DEF UInv
<1>4. ASSUME NEW f \in Names, AddWatch(f) PROVE UInv'
  <2>1. /\ addWatch(f, 0)
        /\ UNCHANGED <<inode, version, events, et>>
        /\ wanted' \subseteq wanted \cup {f} /\ wanted \subseteq wanted'
        /\ seen' = [seen EXCEPT ![f] = version[f]]
        /\ missed' = missed \ {f}
    BY <1>4 DEF AddWatch, files
  <2>2. Up(f)' /\ seen' \in [Names -> Nat]
    BY <2>1 DEF Up, UInv
  <2>3. ASSUME NEW g \in wanted, g # f, Watched(g)' PROVE Up(g)' \/ Told(g)'
    <3>1. g \in Names
      BY DEF UInv
    <3>2. Watched(g) /\ \A w \in Wds : notifyMap_[w] = g => notifyMap_'[w] = g
      BY <2>1, <2>3, <3>1, AddWatchOthers DEF Wds
    <3>3. Up(g) => Up(g)'
      BY <2>1, <2>3, <3>1 DEF Up, UInv
    <3>4. Told(g) => Told(g)'
      BY <2>1, <3>2 DEF Told
    <3> QED
      BY <3>2, <3>3, <3>4 DEF UInv
  <2>4. et'.mask = "ignored" => Up(notifyMap_[et.wd])'
    <3> SUFFICES ASSUME et.mask = "ignored" PROVE Up(notifyMap_[et.wd])'
      BY <2>1
    <3> PICK g : g = notifyMap_[et.wd]
      OBVIOUS
    <3>1. et.wd \in Wds /\ g \in Names
      BY <1>1 DEF IInv, Types, EventsOf, EntriesFound, NoEvent
    <3>2. notifyMap_'[et.wd] = g
      BY <2>1, <3>1, AddWatchKeeps
    <3>3. Up(g)'
      BY <2>1, <2>2, <3>1 DEF Up, UInv
    <3> QED
      BY <2>1, <3>2, <3>3 DEF Up
  <2> QED
    BY <2>1, <2>2, <2>3, <2>4 DEF UInv
<1>5. ASSUME NEW f \in Names, rmWatch(f) PROVE UInv'
  <2>1. /\ UNCHANGED <<inode, version, et, seen, missed>>
        /\ wanted' = wanted \ {f}
        /\ et # NoEvent => notifyMap_[et.wd] # f
    BY <1>5 DEF rmWatch, files
  <2>2. /\ \A wd \in Wds : watch'[wd] \in {0, watch[wd]}
        /\ \A wd \in Wds : notifyMap_[wd] \notin {f, NoName}
                              => notifyMap_'[wd] = notifyMap_[wd]
        /\ \A x : Queued(x, events) => Queued(x, events')
    <3>1. CASE fileMap_[f] = 0
      BY <1>5, <3>1 DEF rmWatch
    <3>2. CASE fileMap_[f] # 0
      <4>1. /\ fileMap_[f] \in Wds
            /\ notifyMap_' = [notifyMap_ EXCEPT ![fileMap_[f]] = NoName]
            /\ watch' = [watch EXCEPT ![fileMap_[f]] = 0]
            /\ events' = IF watch[fileMap_[f]] = 0 THEN events
                         ELSE Append(events, Ignored(fileMap_[f]))
        BY <1>1, <1>5, <3>2 DEF rmWatch, Types, Wds, Ignored
      <4>2. notifyMap_[fileMap_[f]] \in {f, NoName}
        BY <3>2 DEF IInv, EntriesFound
      <4>3. Ignored(fileMap_[f]) \in EventsOf
        BY <4>1 DEF Ignored, Event, EventsOf
      <4>4. \A x : Queued(x, events) => Queued(x, events')
        BY <1>1, <4>1, <4>3, AppendQueued DEF Types
      <4> QED
        BY <1>1, <4>1, <4>2, <4>4 DEF Types
    <3> QED
      BY <3>1, <3>2
  <2>3. ASSUME NEW g \in wanted', Watched(g)' PROVE Up(g)' \/ Told(g)'
    <3>1. g \in wanted /\ g \in Names /\ g \notin {f, NoName}
      BY <2>1, <2>3 DEF UInv
    <3>2. Watched(g)
      BY <2>1, <2>2, <2>3 DEF Watched
    <3>3. Up(g) => Up(g)'
      BY <2>1 DEF Up
    <3>4. Told(g) => Told(g)'
      BY <2>2, <3>1 DEF Told
    <3> QED
      BY <3>1, <3>2, <3>3, <3>4 DEF UInv
  <2>4. et'.mask = "ignored" => Up(notifyMap_[et.wd])'
    <3> SUFFICES ASSUME et.mask = "ignored" PROVE Up(notifyMap_[et.wd])'
      BY <2>1
    <3>1. /\ et # NoEvent /\ et.wd \in Wds
          /\ notifyMap_[et.wd] \notin {f, NoName}
      BY <1>1, <2>1 DEF IInv, Types, EventsOf, EntriesFound, NoEvent
    <3> QED
      BY <2>1, <2>2, <3>1 DEF Up, UInv
  <2> QED
    BY <2>1, <2>3, <2>4 DEF UInv
<1>6. ASSUME onRead PROVE UInv'
  <2> PICK e, f : e = Head(events) /\ f = notifyMap_[e.wd]
    OBVIOUS
  <2>1. /\ UNCHANGED <<inode, version, watch, notifyMap_, wanted>>
        /\ et = NoEvent /\ events # <<>> /\ events' = Tail(events)
        /\ et' = IF f = NoName THEN et ELSE e
        /\ seen' = IF f = NoName THEN seen ELSE [seen EXCEPT ![f] = version[f]]
        /\ missed' = IF f = NoName THEN missed ELSE missed \ {f}
    BY <1>6 DEF onRead, files
  <2>2. \A x : Queued(x, events) => x = e \/ Queued(x, events')
    BY <1>1, <2>1, TailQueued DEF Types
  <2>3. e.wd \in Wds
    BY <1>1, <2>1, TailQueued, ZenonT(30) DEF Types, EventsOf
  <2>4. f # NoName => f \in Names /\ Up(f)' /\ seen' \in [Names -> Nat]
    BY <1>1, <2>1, <2>3 DEF Types, UInv, Up
  <2>5. ASSUME NEW g \in wanted, Watched(g)', g # f PROVE Up(g)' \/ Told(g)'
    <3>1. Watched(g) /\ g \in Names
      BY <2>1, <2>5 DEF Watched, UInv
    <3>2. Up(g) => Up(g)'
      BY <2>1, <2>4, <2>5, <3>1 DEF Up, UInv
    <3>3. \A wd \in Wds, m \in {"modify", "ignored"} : Event(wd, m) = e => wd = e.wd
      BY DEF Event
    <3>4. Told(g) => Told(g)'
      BY <2>1, <2>2, <2>5, <3>3 DEF Told, Ignored
    <3> QED
      BY <3>1, <3>2, <3>4 DEF UInv
  <2>6. ASSUME et'.mask = "ignored" PROVE et' = e /\ f # NoName
    BY <2>1, <2>6 DEF NoEvent
  <2>7. ASSUME et'.mask = "ignored" PROVE Up(notifyMap_[et.wd])'
    <3>1. notifyMap_'[et'.wd] = f
      BY <2>1, <2>6, <2>7
    <3> QED
      BY <2>4, <2>6, <2>7, <3>1 DEF Up
  <2> QED
    BY <2>1, <2>4, <2>5, <2>7 DEF UInv
<1>7. ASSUME AfterCallback PROVE UInv'
  <2>1. /\ UNCHANGED <<inode, version, events, wanted, seen, missed>>
        /\ et' = NoEvent /\ et # NoEvent
    BY <1>7 DEF AfterCallback, files
  <2>2. et'.mask # "ignored"
    BY <2>1 DEF NoEvent
  <2>3. CASE et.mask # "ignored"
    <3>1. UNCHANGED <<watch, notifyMap_>>
      BY <1>7, <2>3 DEF AfterCallback
    <3> QED
      BY <2>1, <2>2, <3>1 DEF UInv, Up, Told, Watched
  <2>4. CASE et.mask = "ignored"
    <3> PICK f : f = notifyMap_[et.wd]
      OBVIOUS
    <3>1. et.wd \in Wds /\ f \in Names /\ addWatch(f, et.wd)
      BY <1>1, <1>7, <2>1, <2>4 DEF AfterCallback, IInv, Types, EventsOf, EntriesFound
    <3>2. Up(f)'
      BY <2>1, <2>4 DEF UInv, Up
    <3>3. ASSUME NEW g \in wanted, g # f, Watched(g)' PROVE Up(g)' \/ Told(g)'
      <4>1. g \in Names
        BY DEF UInv
      <4>2. /\ Watched(g)
            /\ \A w \in Wds : notifyMap_[w] = g => notifyMap_'[w] = g
        BY <2>1, <3>1, <3>3, <4>1, AddWatchOthers
      <4>3. Told(g) => Told(g)'
        BY <2>1, <4>2 DEF Told
      <4>4. Up(g) => Up(g)'
        BY <2>1 DEF Up
      <4> QED
        BY <4>2, <4>3, <4>4 DEF UInv
    <3> QED
      BY <2>1, <2>2, <3>2, <3>3 DEF UInv
  <2> QED
    BY <2>3, <2>4
<1>8. CASE UNCHANGED vars
  BY <1>8 DEF vars, UInv, Up, Told, Watched
<1> QED
  BY <1>2, <1>3, <1>4, <1>5, <1>6, <1>7, <1>8 DEF Next

(* When the events are read, the application has seen every file it watches *)
(* as it is now, but for changes between the two watches of onRead().       *)
THEOREM NoChangeIsOverlooked == Spec => []NothingUnseen
<1>1. UInv => NothingUnseen
  BY DEF UInv, NothingUnseen, Up, Told, Queued
<1> QED
  BY <1>1, InitIInv, InitUInv, NextIInv, NextUInv, PTL DEF Spec

(***************************************************************************)
(* MysqlProxyConn: how often a statement takes effect, for any number of   *)
(* calls, results and lost connections.                                    *)
(***************************************************************************)

Sessions == [alive : BOOLEAN, autocommit : BOOLEAN, tx : SUBSET Mysql!Ids]

Currents == [n : Nat, step : {"none", "reopen", "repeat", "release"}]

MysqlTypes ==
  /\ session \in Sessions
  /\ IsFiniteSet(pending)
  /\ effects \in [Mysql!Ids -> Nat]
  /\ calls \in Seq({"command", "query"})
  /\ DOMAIN calls \subseteq Mysql!Ids
  /\ current \in Currents

(* Only a call of command() is repeated. *)
Repeating == current.step \in {"reopen", "repeat"}
OnlyCommandsRepeat ==
  Repeating => current.n \in DOMAIN calls /\ calls[current.n] = "command"

Waiting(ps, n) == {p \in ps : n \in p.does}
Has(S, n) == IF n \in S THEN 1 ELSE 0

(* The effects that the statement of call n had, those that a session given *)
(* up may still have, and the one that waits for the commit.                *)
Count(n) == effects[n] + Cardinality(Waiting(pending, n)) + Has(session.tx, n)

(* What the attempts made so far allow. *)
Allowed(n) ==
  IF n \notin DOMAIN calls THEN 0
  ELSE IF calls[n] = "query" \/ (Repeating /\ current.n = n) THEN 1 ELSE 2

CountsAllowed == \A n \in Mysql!Ids : Count(n) <= Allowed(n)

MysqlIInv == MysqlTypes /\ OnlyCommandsRepeat /\ CountsAllowed

-----------------------------------------------------------------------------

LEMMA WaitingAdded ==
  ASSUME NEW ps, IsFiniteSet(ps), NEW p, NEW n
  PROVE  /\ IsFiniteSet(ps \cup {p})
         /\ Cardinality(Waiting(ps \cup {p}, n))
              <= Cardinality(Waiting(ps, n)) + Has(p.does, n)
<1>1. IsFiniteSet(ps \cup {p})
  BY FS_AddElement
<1>2. IsFiniteSet(Waiting(ps, n))
  BY FS_Subset DEF Waiting
<1>3. Cardinality(Waiting(ps, n)) \in Nat
  BY <1>2, FS_CardinalityType
<1>4. CASE n \in p.does
  <2>1. Waiting(ps \cup {p}, n) = Waiting(ps, n) \cup {p}
    BY <1>4 DEF Waiting
  <2>2. Cardinality(Waiting(ps, n) \cup {p}) <= Cardinality(Waiting(ps, n)) + 1
    BY <1>2, <1>3, FS_AddElement
  <2>3. Has(p.does, n) = 1
    BY <1>4 DEF Has
  <2> QED
    BY <1>1, <1>3, <2>1, <2>2, <2>3
<1>5. CASE n \notin p.does
  <2>1. Waiting(ps \cup {p}, n) = Waiting(ps, n)
    BY <1>5 DEF Waiting
  <2>3. Has(p.does, n) = 0
    BY <1>5 DEF Has
  <2> QED
    BY <1>1, <1>3, <2>1, <2>3
<1> QED
  BY <1>4, <1>5

LEMMA WaitingRemoved ==
  ASSUME NEW ps, IsFiniteSet(ps), NEW p \in ps, NEW n
  PROVE  /\ IsFiniteSet(ps \ {p})
         /\ Cardinality(Waiting(ps \ {p}, n)) + Has(p.does, n)
              = Cardinality(Waiting(ps, n))
<1>1. IsFiniteSet(ps \ {p})
  BY FS_RemoveElement
<1>2. IsFiniteSet(Waiting(ps, n))
  BY FS_Subset DEF Waiting
<1>3. Cardinality(Waiting(ps, n)) \in Nat
  BY <1>2, FS_CardinalityType
<1>4. CASE n \in p.does
  <2>1. Waiting(ps \ {p}, n) = Waiting(ps, n) \ {p} /\ p \in Waiting(ps, n)
    BY <1>4 DEF Waiting
  <2>2. Cardinality(Waiting(ps, n) \ {p}) = Cardinality(Waiting(ps, n)) - 1
    BY <1>2, <2>1, FS_RemoveElement
  <2>3. Has(p.does, n) = 1
    BY <1>4 DEF Has
  <2> QED
    BY <1>1, <1>3, <2>1, <2>2, <2>3
<1>5. CASE n \notin p.does
  <2>1. Waiting(ps \ {p}, n) = Waiting(ps, n)
    BY <1>5 DEF Waiting
  <2>3. Has(p.does, n) = 0
    BY <1>5 DEF Has
  <2> QED
    BY <1>1, <1>3, <2>1, <2>3
<1> QED
  BY <1>4, <1>5

LEMMA WaitingIsNat ==
  ASSUME NEW ps, IsFiniteSet(ps), NEW n
  PROVE  Cardinality(Waiting(ps, n)) \in Nat
<1>1. IsFiniteSet(Waiting(ps, n))
  BY FS_Subset DEF Waiting
<1> QED
  BY <1>1, FS_CardinalityType

LEMMA CountIsNat ==
  ASSUME MysqlTypes, NEW n \in Mysql!Ids
  PROVE  effects[n] \in Nat /\ Cardinality(Waiting(pending, n)) \in Nat /\ Count(n) \in Nat
BY WaitingIsNat DEF MysqlTypes, Count, Has

LEMMA CountStaysNat ==
  ASSUME IsFiniteSet(pending'), effects' \in [Mysql!Ids -> Nat], NEW n \in Mysql!Ids
  PROVE  /\ effects'[n] \in Nat /\ Cardinality(Waiting(pending', n)) \in Nat
         /\ Count(n)' \in Nat
         /\ Count(n)' = effects'[n] + Cardinality(Waiting(pending', n))
                          + Has(session'.tx, n)
<1>1. Cardinality(Waiting(pending', n)) \in Nat /\ effects'[n] \in Nat
  BY WaitingIsNat
<1>2. Has(session'.tx, n) \in {0, 1}
  BY DEF Has
<1>3. Count(n)' = effects'[n] + Cardinality(Waiting(pending', n)) + Has(session'.tx, n)
  BY Zenon DEF Count, Waiting
<1> QED
  BY <1>1, <1>2, <1>3

LEMMA NewSessions ==
  Mysql!Fresh \in Sessions /\ Mysql!Dead \in Sessions /\ Mysql!Fresh.tx = {} /\ Mysql!Dead.tx = {}
BY DEF Mysql!Fresh, Mysql!Dead, Sessions

LEMMA IdleIsCurrent ==
  Mysql!Idle \in Currents /\ Mysql!Idle.step = "none"
BY DEF Mysql!Idle, Currents

LEMMA MysqlInitIInv == Mysql!Init => MysqlIInv
<1> SUFFICES ASSUME Mysql!Init PROVE MysqlIInv
  OBVIOUS
<1>1. MysqlTypes /\ ~Repeating /\ DOMAIN calls = {}
  <2>1. session \in Sessions
    BY NewSessions DEF Mysql!Init
  <2>2. calls \in Seq({"command", "query"}) /\ DOMAIN calls = {}
    BY EmptySeq DEF Mysql!Init
  <2>3. current \in Currents /\ ~Repeating
    BY IdleIsCurrent DEF Mysql!Init, Repeating
  <2>4. effects \in [Mysql!Ids -> Nat]
    BY DEF Mysql!Init
  <2>5. IsFiniteSet(pending)
    BY FS_EmptySet DEF Mysql!Init
  <2> QED
    BY <2>1, <2>2, <2>3, <2>4, <2>5 DEF MysqlTypes
<1>2. ASSUME NEW n \in Mysql!Ids PROVE Count(n) = 0
  <2>1. Waiting(pending, n) = {} /\ n \notin session.tx /\ effects[n] = 0
    BY <1>2 DEF Mysql!Init, Waiting, Mysql!Fresh, Mysql!Dead
  <2> QED
    BY <2>1, FS_EmptySet DEF Count, Has
<1> QED
  BY <1>1, <1>2 DEF MysqlIInv, OnlyCommandsRepeat, CountsAllowed, Allowed

-----------------------------------------------------------------------------
(* One statement                                                           *)

Statements ==
  [verb : {"write"}, n : Mysql!Ids, attempt : {1, 2}]
    \cup [verb : {"commit", "autocommit on", "autocommit off"}, n : {0}, attempt : {1}]

Served(s, n) == IF s.verb = "write" /\ s.n = n THEN 1 ELSE 0

(* In session c, statement s does what was waiting for the commit or what   *)
(* it was sent for, and leaves the rest.                                    *)
LEMMA StatementCounts ==
  ASSUME NEW s \in Statements, NEW c \in Sessions, NEW n \in Mysql!Ids
  PROVE  /\ Mysql!After(s, c) \in Sessions
         /\ Has(Mysql!Does(s, c), n) + Has(Mysql!After(s, c).tx, n)
              <= Has(c.tx, n) + Served(s, n)
<1>1. s.verb \in {"write", "commit", "autocommit on", "autocommit off"}
      /\ (s.verb = "write" => s.n \in Mysql!Ids)
  BY DEF Statements, Mysql!Write, Mysql!Other
<1>2. Mysql!After(s, c) \in Sessions
  BY <1>1 DEF Mysql!After, Sessions
<1>3. c.tx \subseteq Mysql!Ids
  BY DEF Sessions
<1>4. CASE s.verb \in {"commit", "autocommit on"}
  <2>1. Mysql!Does(s, c) = c.tx /\ Mysql!After(s, c).tx = {}
    BY <1>4 DEF Mysql!Does, Mysql!After, Sessions
  <2> QED
    BY <1>2, <2>1 DEF Has, Served
<1>5. CASE s.verb = "autocommit off"
  <2>1. Mysql!Does(s, c) = {} /\ Mysql!After(s, c).tx = c.tx
    BY <1>5 DEF Mysql!Does, Mysql!After, Sessions
  <2> QED
    BY <1>2, <2>1 DEF Has, Served
<1>6. CASE s.verb = "write"
  <2>1. \/ Mysql!Does(s, c) = {s.n} /\ Mysql!After(s, c).tx = c.tx
        \/ Mysql!Does(s, c) = {} /\ Mysql!After(s, c).tx = c.tx \cup {s.n}
    BY <1>6 DEF Mysql!Does, Mysql!After, Sessions
  <2> QED
    BY <1>2, <1>6, <2>1 DEF Has, Served
<1> QED
  BY <1>1, <1>4, <1>5, <1>6

(* What one statement, sent once, adds to the counts. *)
LEMMA SentOnce ==
  ASSUME MysqlTypes, NEW s \in Statements, NEW outcome, Mysql!mysql_real_query(s, outcome)
  PROVE  /\ session' \in Sessions /\ IsFiniteSet(pending') /\ effects' \in [Mysql!Ids -> Nat]
         /\ \A n \in Mysql!Ids : Count(n)' <= Count(n) + Served(s, n)
<1> USE DEF MysqlTypes
<1>1. Mysql!Fresh \in Sessions /\ Mysql!Dead \in Sessions /\ Mysql!Fresh.tx = {} /\ Mysql!Dead.tx = {}
  BY NewSessions
<1>2. CASE Mysql!OutOfSync
  <2>1. UNCHANGED <<session, pending, effects>>
    BY <1>2 DEF Mysql!mysql_real_query
  <2> QED
    BY <2>1, CountIsNat DEF Count, Served, Has
<1>3. CASE ~Mysql!OutOfSync /\ Mysql!Unreached(outcome)
  <2>1. session' = Mysql!Dead /\ UNCHANGED <<pending, effects>>
    BY <1>3 DEF Mysql!Unreached
  <2> QED
    BY <1>1, <2>1, CountIsNat DEF Count, Served, Has
<1>4. ASSUME NEW c \in {session, Mysql!Fresh}, Mysql!Answered(s, c, outcome)
      PROVE  /\ session' \in Sessions /\ IsFiniteSet(pending') /\ effects' \in [Mysql!Ids -> Nat]
             /\ \A n \in Mysql!Ids : Count(n)' <= Count(n) + Served(s, n)
  <2>1. c \in Sessions /\ \A n \in Mysql!Ids : Has(c.tx, n) <= Has(session.tx, n)
    BY <1>1, <1>4 DEF Has
  <2>2. CASE session' = Mysql!After(s, c) /\ Mysql!Add(Mysql!Does(s, c)) /\ pending' = pending
    <3>1. /\ effects' \in [Mysql!Ids -> Nat]
          /\ \A n \in Mysql!Ids : effects'[n] = effects[n] + Has(Mysql!Does(s, c), n)
      BY <2>2 DEF Mysql!Add, Has
    <3>3. session' \in Sessions
      BY <2>1, <2>2 DEF Mysql!After, Sessions, Statements, Mysql!Write
    <3>2. ASSUME NEW n \in Mysql!Ids PROVE Count(n)' <= Count(n) + Served(s, n)
      <4>1. effects'[n] = effects[n] + Has(Mysql!Does(s, c), n)
        BY <3>1
      <4>2. Has(Mysql!Does(s, c), n) + Has(session'.tx, n)
              <= Has(c.tx, n) + Served(s, n)
        BY <2>1, <2>2, StatementCounts
      <4> QED
        BY <2>1, <2>2, <4>1, <4>2, CountIsNat DEF Count, Has, Served
    <3> QED
      BY <2>2, <3>1, <3>2, <3>3
  <2>3. CASE session' \in {c, [c EXCEPT !.tx = {}]} /\ UNCHANGED <<pending, effects>>
    <3>1. session' \in Sessions /\ \A n \in Mysql!Ids : Has(session'.tx, n) <= Has(c.tx, n)
      BY <2>1, <2>3 DEF Sessions, Has
    <3> QED
      BY <2>1, <2>3, <3>1, CountIsNat DEF Count, Has, Served
  <2> QED
    BY <1>4, <2>2, <2>3 DEF Mysql!Answered
<1>5. ASSUME NEW c \in {session, Mysql!Fresh}, Mysql!Lost(s, c, outcome)
      PROVE  /\ session' \in Sessions /\ IsFiniteSet(pending') /\ effects' \in [Mysql!Ids -> Nat]
             /\ \A n \in Mysql!Ids : Count(n)' <= Count(n) + Served(s, n)
  <2>1. c \in Sessions /\ \A n \in Mysql!Ids : Has(c.tx, n) <= Has(session.tx, n)
    BY <1>1, <1>5 DEF Has
  <2>2. \A n \in Mysql!Ids : Has(Mysql!Does(s, c), n) <= Has(c.tx, n) + Served(s, n)
    BY <2>1, StatementCounts DEF Has, Served
  <2>3. session' \in Sessions /\ \A n \in Mysql!Ids : Has(session'.tx, n) = 0
    BY <1>1, <1>5 DEF Mysql!Lost, Has
  <2>4. CASE UNCHANGED <<pending, effects>>
    BY <2>3, <2>4, CountIsNat DEF Count, Has, Served
  <2>5. CASE Mysql!Add(Mysql!Does(s, c)) /\ pending' = pending
    <3>1. effects' \in [Mysql!Ids -> Nat]
          /\ \A n \in Mysql!Ids : effects'[n] = effects[n] + Has(Mysql!Does(s, c), n)
      BY <2>5 DEF Mysql!Add, Has
    <3> QED
      BY <2>1, <2>2, <2>3, <2>5, <3>1, CountIsNat DEF Count, Has, Served
  <2>6. CASE /\ pending' = pending \cup {[by |-> s, does |-> Mysql!Does(s, c)]}
             /\ UNCHANGED effects
    <3> DEFINE p == [by |-> s, does |-> Mysql!Does(s, c)]
    <3>1. p.does = Mysql!Does(s, c) /\ pending' = pending \cup {p}
      BY <2>6
    <3> HIDE DEF p
    <3>2. IsFiniteSet(pending')
          /\ \A n \in Mysql!Ids : /\ Cardinality(Waiting(pending, n)) \in Nat
                            /\ Cardinality(Waiting(pending', n)) \in Nat
                            /\ Cardinality(Waiting(pending', n))
                                 <= Cardinality(Waiting(pending, n)) + Has(Mysql!Does(s, c), n)
      BY <3>1, WaitingAdded, WaitingIsNat
    <3>3. ASSUME NEW n \in Mysql!Ids PROVE Count(n)' <= Count(n) + Served(s, n)
      <4>1. /\ Has(Mysql!Does(s, c), n) \in {0, 1} /\ Has(c.tx, n) \in {0, 1}
            /\ Has(session.tx, n) \in {0, 1} /\ Served(s, n) \in {0, 1}
        BY DEF Has, Served
      <4>2. Count(n)' = effects'[n] + Cardinality(Waiting(pending', n)) + 0
        BY <2>3, <2>6, <3>2, CountStaysNat
      <4>3. Count(n) = effects[n] + Cardinality(Waiting(pending, n)) + Has(session.tx, n)
        BY DEF Count
      <4>4. /\ Has(Mysql!Does(s, c), n) <= Has(c.tx, n) + Served(s, n)
            /\ Has(c.tx, n) <= Has(session.tx, n)
        BY <2>1, <2>2
      <4>5. /\ Cardinality(Waiting(pending, n)) \in Nat /\ effects[n] \in Nat
            /\ Cardinality(Waiting(pending', n)) \in Nat /\ effects'[n] = effects[n]
            /\ Cardinality(Waiting(pending', n))
                 <= Cardinality(Waiting(pending, n)) + Has(Mysql!Does(s, c), n)
        BY <2>6, <3>2, CountIsNat
      <4> QED
        BY <4>1, <4>2, <4>3, <4>4, <4>5
    <3> QED
      BY <2>3, <2>6, <3>2, <3>3
  <2> QED
    BY <1>5, <2>4, <2>5, <2>6 DEF Mysql!Lost
<1> QED
  BY <1>2, <1>3, <1>4, <1>5 DEF Mysql!mysql_real_query

-----------------------------------------------------------------------------
(* The actions                                                             *)

(* A step that only loses sessions, and begins and repeats no call. *)
LEMMA NothingAdded ==
  ASSUME MysqlIInv, session' \in Sessions, session'.tx \subseteq session.tx,
         UNCHANGED <<pending, effects, calls>>, current' \in Currents,
         Repeating' => Repeating /\ current'.n = current.n
  PROVE  MysqlIInv'
<1>1. MysqlTypes'
  BY DEF MysqlIInv, MysqlTypes
<1>2. OnlyCommandsRepeat'
  BY DEF MysqlIInv, OnlyCommandsRepeat
<1>3. ASSUME NEW n \in Mysql!Ids PROVE Count(n)' <= Allowed(n)'
  <2>1. Count(n)' <= Count(n) /\ Count(n)' \in Nat /\ Count(n) \in Nat
    BY CountIsNat DEF MysqlIInv, Count, Has
  <2>2. Allowed(n) <= Allowed(n)' /\ Allowed(n) \in Nat /\ Allowed(n)' \in Nat
    BY DEF Allowed
  <2>3. Count(n) <= Allowed(n)
    BY DEF MysqlIInv, CountsAllowed
  <2> QED
    BY <2>1, <2>2, <2>3
<1> QED
  BY <1>1, <1>2, <1>3 DEF MysqlIInv, CountsAllowed

(* query() and command(): the first attempt. *)
LEMMA FirstAttempt ==
  ASSUME MysqlIInv, NEW outcome, NEW kind \in {"command", "query"}, Mysql!Ready,
         Len(calls) + 1 \in Mysql!Ids,
         Mysql!mysql_real_query(Mysql!Write(Len(calls) + 1, 1), outcome),
         calls' = Append(calls, kind),
         current' \in Currents, current'.step \in {"none", "reopen"},
         current'.step = "reopen" => current'.n = Len(calls) + 1 /\ kind = "command"
  PROVE  MysqlIInv'
<1> DEFINE m == Len(calls) + 1
           s == Mysql!Write(m, 1)
<1>1. s \in Statements /\ \A n \in Mysql!Ids : Served(s, n) = (IF n = m THEN 1 ELSE 0)
  BY DEF Statements, Served, Mysql!Write, Has
<1>2. m \in Nat /\ DOMAIN calls = 1..Len(calls) /\ Len(calls) \in Nat
  BY LenProperties DEF MysqlIInv, MysqlTypes
<1>3. /\ calls' \in Seq({"command", "query"})
      /\ DOMAIN calls' = DOMAIN calls \cup {m}
      /\ calls'[m] = kind /\ \A n \in DOMAIN calls : calls'[n] = calls[n]
      /\ m \notin DOMAIN calls
  <2>1. /\ calls' \in Seq({"command", "query"}) /\ Len(calls') = m
        /\ calls'[m] = kind /\ \A n \in 1..Len(calls) : calls'[n] = calls[n]
    BY AppendProperties DEF MysqlIInv, MysqlTypes
  <2>2. DOMAIN calls' = 1..m
    BY <2>1, LenProperties
  <2> QED
    BY <1>2, <2>1, <2>2
<1> HIDE DEF m, s
<1>4. ~Repeating
  BY DEF Mysql!Ready, Mysql!Idle, Repeating
<1>5. /\ session' \in Sessions /\ IsFiniteSet(pending') /\ effects' \in [Mysql!Ids -> Nat]
      /\ \A n \in Mysql!Ids : Count(n)' <= Count(n) + Served(s, n)
  BY <1>1, SentOnce DEF MysqlIInv, s, m
<1>6. MysqlTypes'
  BY <1>2, <1>3, <1>5 DEF MysqlIInv, MysqlTypes
<1>7. OnlyCommandsRepeat'
  BY <1>3 DEF OnlyCommandsRepeat, Repeating, m
<1>8. ASSUME NEW n \in Mysql!Ids PROVE Count(n)' <= Allowed(n)'
  <2>1. Count(n) \in Nat /\ Count(n) <= Allowed(n) /\ Count(n)' <= Count(n) + (IF n = m THEN 1 ELSE 0)
    BY <1>1, <1>5, CountIsNat DEF MysqlIInv, CountsAllowed
  <2>2. Count(n)' \in Nat
    BY <1>5, CountStaysNat
  <2>3. CASE n = m
    <3>1. Allowed(n) = 0 /\ Allowed(n)' \in {1, 2}
      BY <1>3, <2>3 DEF Allowed
    <3> QED
      BY <2>1, <2>2, <2>3, <3>1 DEF Has
  <2>4. CASE n # m
    <3>1. Allowed(n)' = Allowed(n)
      BY <1>3, <1>4, <2>4 DEF Allowed, Repeating, m
    <3>2. Allowed(n) \in Nat
      BY DEF Allowed
    <3> QED
      BY <2>1, <2>2, <2>4, <3>1, <3>2 DEF Has
  <2> QED
    BY <2>3, <2>4
<1> QED
  BY <1>6, <1>7, <1>8 DEF MysqlIInv, CountsAllowed

(* commit() and autocommit() are no calls that are counted. *)
LEMMA OtherStatement ==
  ASSUME MysqlIInv, NEW s \in Statements, s.verb # "write", NEW outcome,
         Mysql!Ready, Mysql!mysql_real_query(s, outcome), UNCHANGED calls,
         current' \in Currents, current'.step \in {"none", "release"}
  PROVE  MysqlIInv'
<1>1. \A n \in Mysql!Ids : Served(s, n) = 0
  BY DEF Served
<1>2. /\ session' \in Sessions /\ IsFiniteSet(pending') /\ effects' \in [Mysql!Ids -> Nat]
      /\ \A n \in Mysql!Ids : Count(n)' <= Count(n) + Served(s, n)
  BY <1>1, SentOnce DEF MysqlIInv
<1>3. MysqlTypes' /\ ~Repeating /\ ~Repeating'
  <2>1. ~Repeating /\ ~Repeating'
    BY DEF Mysql!Ready, Mysql!Idle, Repeating
  <2> QED
    BY <1>2, <2>1 DEF MysqlIInv, MysqlTypes
<1>4. OnlyCommandsRepeat'
  BY <1>3 DEF OnlyCommandsRepeat
<1>5. ASSUME NEW n \in Mysql!Ids PROVE Count(n)' <= Allowed(n)'
  <2>1. Count(n) \in Nat /\ Count(n)' \in Nat /\ Count(n)' <= Count(n)
    BY <1>1, <1>2, CountIsNat, CountStaysNat DEF MysqlIInv
  <2>2. Allowed(n)' = Allowed(n) /\ Allowed(n) \in Nat
    BY <1>3 DEF Allowed
  <2>3. Count(n) <= Allowed(n)
    BY DEF MysqlIInv, CountsAllowed
  <2> QED
    BY <2>1, <2>2, <2>3
<1> QED
  BY <1>3, <1>4, <1>5 DEF MysqlIInv, CountsAllowed

LEMMA OthersAreStatements ==
  ASSUME NEW verb \in {"commit", "autocommit on", "autocommit off"}
  PROVE  Mysql!Other(verb) \in Statements /\ Mysql!Other(verb).verb # "write"
BY DEF Mysql!Other, Statements

LEMMA ExecuteLateIInv ==
  ASSUME MysqlIInv, Mysql!ExecuteLate
  PROVE  MysqlIInv'
<1>1. PICK p \in pending : pending' = pending \ {p} /\ Mysql!Add(p.does)
  BY DEF Mysql!ExecuteLate
<1>2. UNCHANGED <<session, calls, current>>
  BY DEF Mysql!ExecuteLate
<1>3. IsFiniteSet(pending')
      /\ \A n \in Mysql!Ids : /\ Cardinality(Waiting(pending, n)) \in Nat
                        /\ Cardinality(Waiting(pending', n)) \in Nat
                        /\ Cardinality(Waiting(pending', n)) + Has(p.does, n)
                             = Cardinality(Waiting(pending, n))
  BY <1>1, WaitingRemoved, WaitingIsNat DEF MysqlIInv, MysqlTypes
<1>4. effects' \in [Mysql!Ids -> Nat]
      /\ \A n \in Mysql!Ids : effects'[n] = effects[n] + Has(p.does, n)
  BY <1>1 DEF Mysql!Add, Has, MysqlIInv, MysqlTypes
<1>5. MysqlTypes' /\ OnlyCommandsRepeat'
  BY <1>2, <1>3, <1>4 DEF MysqlIInv, MysqlTypes, OnlyCommandsRepeat, Repeating
<1>6. ASSUME NEW n \in Mysql!Ids PROVE Count(n)' = Count(n)
  BY <1>2, <1>3, <1>4, CountIsNat DEF Count, Has, MysqlIInv
<1>7. \A n \in Mysql!Ids : Allowed(n)' = Allowed(n)
  BY <1>2 DEF Allowed, Repeating
<1> QED
  BY <1>5, <1>6, <1>7 DEF MysqlIInv, CountsAllowed

LEMMA RepeatIInv ==
  ASSUME MysqlIInv, Mysql!Repeat
  PROVE  MysqlIInv'
<1> DEFINE m == current.n
           s == Mysql!Write(m, 2)
<1>1. PICK outcome : Mysql!mysql_real_query(s, outcome)
  BY DEF Mysql!Repeat
<1>2. current' = Mysql!Idle /\ UNCHANGED calls /\ current.step = "repeat"
  BY DEF Mysql!Repeat, Mysql!Return
<1>3. m \in DOMAIN calls /\ m \in Mysql!Ids /\ calls[m] = "command" /\ Repeating /\ ~Repeating'
  BY <1>2 DEF MysqlIInv, MysqlTypes, OnlyCommandsRepeat, Repeating, Mysql!Idle
<1>4. s \in Statements /\ \A n \in Mysql!Ids : Served(s, n) = (IF n = m THEN 1 ELSE 0)
  BY <1>3 DEF Statements, Served, Mysql!Write, Has
<1> HIDE DEF m, s
<1>5. /\ session' \in Sessions /\ IsFiniteSet(pending') /\ effects' \in [Mysql!Ids -> Nat]
      /\ \A n \in Mysql!Ids : Count(n)' <= Count(n) + Served(s, n)
  BY <1>1, <1>4, SentOnce DEF MysqlIInv
<1>6. MysqlTypes' /\ OnlyCommandsRepeat'
  BY <1>2, <1>3, <1>5, IdleIsCurrent DEF MysqlIInv, MysqlTypes, OnlyCommandsRepeat
<1>7. ASSUME NEW n \in Mysql!Ids PROVE Count(n)' <= Allowed(n)'
  <2>1. Count(n) \in Nat /\ Count(n)' \in Nat /\ Count(n)' <= Count(n) + (IF n = m THEN 1 ELSE 0)
        /\ Count(n) <= Allowed(n)
    BY <1>4, <1>5, CountIsNat, CountStaysNat DEF MysqlIInv, CountsAllowed
  <2>2. CASE n = m
    <3>1. Allowed(n) = 1 /\ Allowed(n)' = 2
      BY <1>2, <1>3, <2>2 DEF Allowed, m
    <3> QED
      BY <2>1, <2>2, <3>1 DEF Has
  <2>3. CASE n # m
    <3>1. Allowed(n)' = Allowed(n) /\ Allowed(n) \in Nat
      BY <1>2, <1>3, <2>3 DEF Allowed, m
    <3> QED
      BY <2>1, <2>3, <3>1 DEF Has
  <2> QED
    BY <2>2, <2>3
<1> QED
  BY <1>6, <1>7 DEF MysqlIInv, CountsAllowed

LEMMA MysqlNextIInv == MysqlIInv /\ [Mysql!Next]_(Mysql!vars) => MysqlIInv'
<1> SUFFICES ASSUME MysqlIInv, [Mysql!Next]_(Mysql!vars) PROVE MysqlIInv'
  OBVIOUS
<1>0. current \in Currents /\ session \in Sessions
  BY DEF MysqlIInv, MysqlTypes
<1>1. CASE Mysql!SessionEnds
  BY <1>0, <1>1, NewSessions, NothingAdded DEF Mysql!SessionEnds, Repeating
<1>2. CASE Mysql!ExecuteLate
  BY <1>2, ExecuteLateIInv
<1>3. CASE Mysql!query
  <2>1. PICK outcome : /\ Mysql!mysql_real_query(Mysql!Write(Len(calls) + 1, 1), outcome)
                       /\ current' = Mysql!Idle /\ calls' = Append(calls, "query")
                       /\ Mysql!Ready /\ Len(calls) + 1 \in Mysql!Ids
    BY <1>3 DEF Mysql!query, Mysql!Return
  <2> QED
    BY <2>1, IdleIsCurrent, FirstAttempt
<1>4. CASE Mysql!command
  <2>1. PICK outcome : /\ Mysql!mysql_real_query(Mysql!Write(Len(calls) + 1, 1), outcome)
                       /\ \/ current' = Mysql!Idle
                          \/ current' = [n |-> Len(calls) + 1, step |-> "reopen"]
                       /\ calls' = Append(calls, "command")
                       /\ Mysql!Ready /\ Len(calls) + 1 \in Mysql!Ids
    BY <1>4 DEF Mysql!command, Mysql!Return
  <2>2. Len(calls) + 1 \in Nat
    BY LenProperties DEF MysqlIInv, MysqlTypes
  <2>3. /\ current' \in Currents /\ current'.step \in {"none", "reopen"}
        /\ current'.step = "reopen" => current'.n = Len(calls) + 1
    BY <2>1, <2>2, IdleIsCurrent DEF Currents
  <2> QED
    BY <2>1, <2>3, FirstAttempt
<1>5. CASE Mysql!Reopen
  <2>1. session' \in {Mysql!Dead, Mysql!Fresh} /\ UNCHANGED <<pending, effects, calls>>
    BY <1>5 DEF Mysql!Reopen, Mysql!MysqlInit
  <2>2. current' = Mysql!Idle \/ current' = [current EXCEPT !.step = "repeat"]
    BY <1>5 DEF Mysql!Reopen, Mysql!Return
  <2>3. Repeating
    BY <1>5 DEF Mysql!Reopen, Repeating
  <2>4. current' \in Currents /\ (Repeating' => current'.n = current.n)
    BY <1>0, <2>2, IdleIsCurrent DEF Currents, Repeating
  <2> QED
    BY <2>1, <2>3, <2>4, NewSessions, NothingAdded
<1>6. CASE Mysql!Repeat
  BY <1>6, RepeatIInv
<1>7. CASE Mysql!autocommit
  <2>1. PICK verb \in {"autocommit on", "autocommit off"}, outcome \in {"ok", "lost", "error"} :
          /\ Mysql!mysql_real_query(Mysql!Other(verb), outcome) /\ Mysql!Ready /\ UNCHANGED calls
          /\ current' = Mysql!Idle \/ current' = [n |-> 0, step |-> "release"]
    BY <1>7 DEF Mysql!autocommit
  <2>2. CASE current' = Mysql!Idle
    BY <2>1, <2>2, IdleIsCurrent, OthersAreStatements, OtherStatement
  <2>3. CASE current' = [n |-> 0, step |-> "release"]
    <3>1. current' \in Currents /\ current'.step = "release"
      BY <2>3 DEF Currents
    <3> QED
      BY <2>1, <3>1, OthersAreStatements, OtherStatement
  <2> QED
    BY <2>1, <2>2, <2>3
<1>8. CASE Mysql!release
  <2>1. session' \in {session, Mysql!Dead} /\ UNCHANGED <<pending, effects, calls>>
        /\ current' = Mysql!Idle
    BY <1>8 DEF Mysql!release
  <2> QED
    BY <1>0, <2>1, NewSessions, IdleIsCurrent, NothingAdded DEF Repeating
<1>9. CASE Mysql!commit
  <2>1. PICK outcome : /\ Mysql!mysql_real_query(Mysql!Other("commit"), outcome)
                       /\ Mysql!Ready /\ current' = current /\ UNCHANGED calls
    BY <1>9 DEF Mysql!commit
  <2>2. current' = Mysql!Idle
    BY <2>1 DEF Mysql!Ready
  <2> QED
    BY <2>1, <2>2, IdleIsCurrent, OthersAreStatements, OtherStatement
<1>10. CASE Mysql!AutoMysqlRes \/ Mysql!next \/ Mysql!fetch_row \/ Mysql!fetch_next_row
            \/ Mysql!str_row \/ Mysql!DestroyRes
  <2>1. session' \in {session, Mysql!Dead} /\ UNCHANGED <<pending, effects, calls, current>>
    BY <1>10 DEF Mysql!AutoMysqlRes, Mysql!next, Mysql!fetch_row, Mysql!fetch_next_row,
                 Mysql!str_row, Mysql!DestroyRes,
                 Mysql!StoreNext, Mysql!others
  <2> QED
    BY <1>0, <2>1, NewSessions, NothingAdded DEF Repeating
<1>11. CASE UNCHANGED Mysql!vars
  BY <1>0, <1>11, NothingAdded DEF Mysql!vars, Repeating
<1> QED
  BY <1>1, <1>2, <1>3, <1>4, <1>5, <1>6, <1>7, <1>8, <1>9, <1>10, <1>11 DEF Mysql!Next

-----------------------------------------------------------------------------
(* However often connections are lost, and whatever sessions given up still *)
(* do, the statement of a query() takes effect once at most, and that of a  *)
(* command() twice at most.                                                 *)
THEOREM RepeatedAtMostOnce == Mysql!Spec => []EffectsBounded
<1>1. MysqlIInv => EffectsBounded
  <2> SUFFICES ASSUME MysqlIInv, NEW n \in DOMAIN calls
               PROVE  effects[n] + Cardinality({p \in pending : n \in p.does})
                        <= IF calls[n] = "query" THEN 1 ELSE 2
    BY DEF EffectsBounded, Mysql!EffectsBounded, Mysql!Cardinality, Cardinality
  <2>1. n \in Mysql!Ids
    BY DEF MysqlIInv, MysqlTypes
  <2>2. effects[n] \in Nat /\ Cardinality(Waiting(pending, n)) \in Nat
        /\ Count(n) <= Allowed(n)
    BY <2>1, CountIsNat DEF MysqlIInv, CountsAllowed
  <2>3. effects[n] + Cardinality(Waiting(pending, n))
          <= IF calls[n] = "query" THEN 1 ELSE 2
    BY <2>2 DEF Count, Allowed, Has
  <2> QED
    BY <2>3 DEF Waiting
<1> QED
  BY MysqlInitIInv, MysqlNextIInv, <1>1, PTL DEF Mysql!Spec

-----------------------------------------------------------------------------
(* A call that may be made finds no results unread; a row the application   *)
(* was told of is there.                                                    *)
Handles == [vio : BOOLEAN, host : BOOLEAN, inTrans : BOOLEAN, unread : Nat]
Results == [state : {"none", "owed", "open"}, res_ : BOOLEAN,
            row_ : {"null", "live", "dead", "garbage"}, fetched : BOOLEAN]

ResultTypes == handle \in Handles /\ result \in Results

ResultsInv ==
  /\ ResultTypes
  /\ wrong = "none"
  /\ result.state = "none" => handle.unread = 0
  /\ current.step \in {"reopen", "repeat", "release"} => result.state = "none"
  /\ result.fetched => result.row_ = "live"

LEMMA HandlesAreHandles ==
  /\ Mysql!Opened \in Handles /\ Mysql!Opened.unread = 0
  /\ Mysql!Closed \in Handles /\ Mysql!Closed.unread = 0
  /\ Mysql!NoResult \in Results /\ Mysql!NoResult.state = "none"
  /\ ~Mysql!NoResult.fetched
BY DEF Handles, Results, Mysql!Opened, Mysql!Closed, Mysql!NoResult

(* A statement sent with nothing unread is not refused, and only one of a   *)
(* call that succeeds leaves results.                                       *)
LEMMA NothingUnread ==
  ASSUME handle \in Handles, handle.unread = 0, NEW s, NEW outcome,
         Mysql!mysql_real_query(s, outcome)
  PROVE  /\ wrong' = wrong /\ handle' \in Handles
         /\ outcome = "ok" \/ handle'.unread = 0
         /\ s.n \in Calling \/ handle'.unread = 0
<1>1. ~Mysql!OutOfSync
  BY DEF Mysql!OutOfSync, Handles
<1>2. wrong' = wrong
  BY <1>1 DEF Mysql!mysql_real_query
<1>3. CASE Mysql!Unreached(outcome)
  BY <1>2, <1>3 DEF Mysql!Unreached, Handles
<1>4. ASSUME NEW c, Mysql!Answered(s, c, outcome)
      PROVE  /\ handle' \in Handles
             /\ outcome = "ok" \/ handle'.unread = 0
             /\ s.n \in Calling \/ handle'.unread = 0
  <2>1. CASE outcome = "ok"
    <3>1. PICK k \in 0..(IF s.n \in Calling THEN MaxResults ELSE 0) :
            handle' = [Mysql!Opened EXCEPT !.inTrans = Mysql!After(s, c).tx # {}, !.unread = k]
      BY <1>4, <2>1 DEF Mysql!Answered
    <3>2. k \in Nat /\ (s.n \in Calling \/ k = 0)
      BY CallingAssumption
    <3> QED
      BY <2>1, <3>1, <3>2 DEF Mysql!Opened, Handles
  <2>2. CASE outcome # "ok"
    <3>1. handle' = [Mysql!Opened EXCEPT !.inTrans = Mysql!KnownInTrans]
      BY <1>4, <2>2 DEF Mysql!Answered
    <3>2. Mysql!KnownInTrans \in BOOLEAN
      BY DEF Mysql!KnownInTrans
    <3> QED
      BY <3>1, <3>2 DEF Mysql!Opened, Handles
  <2> QED
    BY <2>1, <2>2
<1>5. ASSUME NEW c, Mysql!Lost(s, c, outcome)
      PROVE  handle' \in Handles /\ handle'.unread = 0
  <2>1. handle' = [Mysql!Opened EXCEPT !.vio = FALSE, !.inTrans = Mysql!KnownInTrans]
    BY <1>5 DEF Mysql!Lost
  <2>2. Mysql!KnownInTrans \in BOOLEAN
    BY DEF Mysql!KnownInTrans
  <2> QED
    BY <2>1, <2>2 DEF Mysql!Opened, Handles
<1> QED
  BY <1>1, <1>2, <1>3, <1>4, <1>5 DEF Mysql!mysql_real_query

LEMMA ResultsInit == Mysql!Init => ResultsInv
BY HandlesAreHandles DEF Mysql!Init, ResultsInv, ResultTypes, Mysql!Idle

LEMMA ResultsReturn ==
  ASSUME NEW n, NEW ok \in BOOLEAN, Mysql!Return(n, ok)
  PROVE  /\ result' \in Results /\ ~result'.fetched
         /\ current'.step = "none"
         /\ result'.state = "none" <=> ~ok
BY HandlesAreHandles DEF Mysql!Return, Results, Mysql!NoResult, Mysql!Idle

LEMMA ResultsStep == ResultsInv /\ [Mysql!Next]_(Mysql!vars) => ResultsInv'
<1> SUFFICES ASSUME ResultsInv, [Mysql!Next]_(Mysql!vars) PROVE ResultsInv'
  OBVIOUS
<1> USE DEF ResultsInv, ResultTypes
<1>0. Mysql!Ready => handle.unread = 0
  BY DEF Mysql!Ready
<1>1. CASE UNCHANGED <<handle, current, result, wrong>>
  BY <1>1
<1>2. ASSUME NEW n, NEW kind, NEW outcome \in {"ok", "lost", "error"}, NEW s,
             Mysql!Ready, Mysql!mysql_real_query(s, outcome),
             \/ /\ outcome = "lost"
                /\ current' = [n |-> n, step |-> "reopen"] /\ result' = Mysql!NoResult
             \/ Mysql!Return(n, outcome = "ok")
      PROVE  ResultsInv'
  <2>1. wrong' = wrong /\ handle' \in Handles /\ (outcome = "ok" \/ handle'.unread = 0)
    BY <1>0, <1>2, NothingUnread
  <2> QED
    BY <1>2, <2>1, HandlesAreHandles, ResultsReturn
<1>3. CASE Mysql!query
  BY <1>2, <1>3 DEF Mysql!query
<1>4. CASE Mysql!command
  BY <1>2, <1>4 DEF Mysql!command
<1>5. CASE Mysql!Reopen
  <2>1. handle' \in Handles /\ handle'.unread = 0 /\ wrong' = wrong
    BY <1>5, HandlesAreHandles DEF Mysql!Reopen, Mysql!MysqlInit
  <2>2. \/ result' \in Results /\ result'.state = "none" /\ ~result'.fetched
        \/ result' = result /\ result.state = "none"
    BY <1>5, ResultsReturn DEF Mysql!Reopen
  <2> QED
    BY <2>1, <2>2
<1>6. CASE Mysql!Repeat
  <2>1. PICK outcome \in {"ok", "lost", "error"} :
          /\ Mysql!mysql_real_query(Mysql!Write(current.n, 2), outcome)
          /\ Mysql!Return(current.n, outcome = "ok")
    BY <1>6 DEF Mysql!Repeat
  <2>2. handle.unread = 0
    BY <1>6 DEF Mysql!Repeat
  <2>3. wrong' = wrong /\ handle' \in Handles /\ (outcome = "ok" \/ handle'.unread = 0)
    BY <2>1, <2>2, NothingUnread
  <2> QED
    BY <2>1, <2>3, ResultsReturn
<1>7. ASSUME NEW s, NEW outcome, s.n = 0, Mysql!Ready,
             Mysql!mysql_real_query(s, outcome), result' = Mysql!NoResult
      PROVE  ResultsInv'
  <2>1. s.n \notin Calling
    BY <1>7, CallingAssumption
  <2>2. wrong' = wrong /\ handle' \in Handles /\ handle'.unread = 0
    BY <1>0, <1>7, <2>1, NothingUnread
  <2> QED
    BY <1>7, <2>2, HandlesAreHandles
<1>17. CASE Mysql!autocommit
  BY <1>7, <1>17 DEF Mysql!autocommit, Mysql!Other
<1>18. CASE Mysql!commit
  BY <1>7, <1>18 DEF Mysql!commit, Mysql!Other
<1>8. CASE Mysql!release
  BY <1>8, HandlesAreHandles DEF Mysql!release, Mysql!Idle
<1>9. ASSUME NEW got \in BOOLEAN, Mysql!StoreNext(got)
      PROVE  handle' \in Handles /\ (handle.unread = 0 => handle'.unread = 0)
  <2>1. CASE /\ got => handle.unread > 0
             /\ handle' = [handle EXCEPT !.unread = IF got THEN @ - 1 ELSE @]
    <3>1. handle.unread \in Nat
      BY DEF Handles
    <3>2. CASE got
      BY <2>1, <3>1, <3>2 DEF Handles
    <3>3. CASE ~got
      BY <2>1, <3>1, <3>3 DEF Handles
    <3> QED
      BY <3>2, <3>3
  <2>2. CASE handle' = [handle EXCEPT !.vio = FALSE, !.unread = 0]
    BY <2>2 DEF Handles
  <2> QED
    BY <1>9, <2>1, <2>2 DEF Mysql!StoreNext
<1>10. CASE Mysql!AutoMysqlRes
  BY <1>9, <1>10 DEF Mysql!AutoMysqlRes, Mysql!others, Results
<1>11. CASE Mysql!next
  BY <1>9, <1>11 DEF Mysql!next, Mysql!others, Results, Mysql!Freed
<1>12. CASE Mysql!fetch_row
  BY <1>12, ZenonT(30) DEF Mysql!fetch_row, Mysql!others, Results
<1>13. CASE Mysql!fetch_next_row
  BY <1>9, <1>13 DEF Mysql!fetch_next_row, Mysql!others, Results, Mysql!Freed
<1>14. CASE Mysql!str_row
  BY <1>14 DEF Mysql!str_row, Mysql!others
<1>15. CASE Mysql!DestroyRes
  BY <1>15, HandlesAreHandles DEF Mysql!DestroyRes, Mysql!others, Handles
<1>16. CASE Mysql!SessionEnds \/ Mysql!ExecuteLate \/ UNCHANGED Mysql!vars
  BY <1>1, <1>16 DEF Mysql!SessionEnds, Mysql!ExecuteLate, Mysql!vars
<1> QED
  BY <1>3, <1>4, <1>5, <1>6, <1>8, <1>10, <1>11, <1>12, <1>13, <1>14, <1>15,
     <1>16, <1>17, <1>18 DEF Mysql!Next

(* However often the connection is lost and whatever the statements leave,  *)
(* no call of an application that makes its AutoMysqlRes is refused because *)
(* of unread results, and no row of a freed result is read.                 *)
THEOREM NoRowIsDead == Mysql!Spec => []ResultsAreRead
<1>1. ResultsInv => ResultsAreRead
  BY DEF ResultsInv, ResultsAreRead, Mysql!ResultsAreRead
<1> QED
  BY <1>1, ResultsInit, ResultsStep, PTL DEF Mysql!Spec

-----------------------------------------------------------------------------
(* The transaction that is open, and the one that is closed, as they are    *)
(* told to the application.                                                 *)
Txns == [ids : SUBSET Mysql!Ids, clean : BOOLEAN, moved : BOOLEAN]

(* Of the calls in ids, those without effect come before those that have    *)
(* one or may still get one from a statement of a session given up.         *)
InOrder(ids, done, late) ==
  /\ \A m, n \in ids : done[m] = 0 /\ done[n] > 0 => m < n
  /\ \A p \in late : \A m, n \in ids :
       done[m] = 0 /\ m \notin p.does /\ n \in p.does => m < n

IsLast(n, ids) == \A m \in ids : m <= n

TxnTypes ==
  /\ handle \in Handles
  /\ txn \in Txns /\ closed \in Txns
  /\ \A t \in {txn, closed} : t.ids # {} => \E n \in t.ids : IsLast(n, t.ids)

(* A call that is repeated is the last one and not in the transaction yet.  *)
LastRepeats ==
  /\ txn.ids \subseteq DOMAIN calls
  /\ Repeating =>
       /\ \A n \in DOMAIN calls : n <= current.n
       /\ current.n \notin txn.ids
       /\ closed.ids = {} /\ txn.moved
       /\ current.step = "repeat" => session.autocommit
  /\ current.step = "release" => txn.ids = {} /\ closed.ids = {}

(* The server's transaction: what it holds are the last calls of the open   *)
(* one, none of which had an effect.                                        *)
SessionHolds ==
  /\ session.autocommit => session.tx = {}
  /\ session.tx # {} => handle.inTrans
  /\ ~session.autocommit =>
       /\ \A n \in txn.ids : effects[n] = 0 /\ \A p \in pending : n \notin p.does
       /\ \A m \in txn.ids \ session.tx, n \in txn.ids \cap session.tx : m < n

Done(n) == effects[n] > 0 \/ n \in session.tx

EndIsHeld ==
  /\ ~Repeating /\ txn.clean =>
       \A n \in txn.ids : IsLast(n, txn.ids) =>
         Done(n) \/ (handle.inTrans /\ Mysql!Broken)
  /\ txn.clean /\ ~txn.moved => \A n \in txn.ids : Done(n) \/ Mysql!Broken

EndIsKept ==
  /\ closed.clean => \A n \in closed.ids : IsLast(n, closed.ids) => effects[n] > 0
  /\ closed.clean /\ ~closed.moved => \A n \in closed.ids : effects[n] > 0

TxnInv ==
  /\ TxnTypes /\ LastRepeats /\ SessionHolds
  /\ InOrder(txn.ids, effects, pending) /\ InOrder(closed.ids, effects, pending)
  /\ EndIsHeld /\ EndIsKept
-----------------------------------------------------------------------------

LEMMA Executed ==
  ASSUME NEW ids \in SUBSET Mysql!Ids, NEW D, InOrder(ids, effects, pending),
         effects \in [Mysql!Ids -> Nat],
         \A m \in ids \ D, n \in ids \cap D : effects[m] = 0 => m < n,
         Mysql!Add(D), pending' \subseteq pending
  PROVE  InOrder(ids, effects', pending')
<1>1. \A n \in ids : /\ effects[n] \in Nat
                     /\ effects'[n] = IF n \in D THEN effects[n] + 1 ELSE effects[n]
  BY DEF Mysql!Add
<1>2. ASSUME NEW m \in ids, NEW n \in ids, effects'[m] = 0, effects'[n] > 0
      PROVE  m < n
  BY <1>1, <1>2 DEF InOrder
<1>3. ASSUME NEW p \in pending', NEW m \in ids, NEW n \in ids,
             effects'[m] = 0, m \notin p.does, n \in p.does
      PROVE  m < n
  BY <1>1, <1>3 DEF InOrder
<1> QED
  BY <1>2, <1>3 DEF InOrder

LEMMA LeftBehind ==
  ASSUME NEW ids \in SUBSET Mysql!Ids, NEW q, InOrder(ids, effects, pending),
         \A m \in ids \ q.does, n \in ids \cap q.does : effects[m] = 0 => m < n,
         effects' = effects, pending' = pending \cup {q}
  PROVE  InOrder(ids, effects', pending')
BY DEF InOrder

(* What a statement finds: a session that is known to be there, or a new    *)
(* one, which it cannot get inside a transaction.                           *)
LEMMA SentOutcomes ==
  ASSUME handle \in Handles, handle.unread = 0, session \in Sessions,
         NEW s, NEW outcome, Mysql!mysql_real_query(s, outcome)
  PROVE  \/ /\ session' = Mysql!Dead /\ UNCHANGED <<pending, effects>>
            /\ outcome # "ok"
         \/ \E c \in Sessions :
              /\ \/ c = session /\ ~Mysql!Broken
                 \/ c = Mysql!Fresh /\ Mysql!Broken /\ ~handle.inTrans
              /\ Mysql!Answered(s, c, outcome) \/ Mysql!Lost(s, c, outcome)
<1>1. ~Mysql!OutOfSync
  BY DEF Mysql!OutOfSync, Handles
<1>2. CASE Mysql!Broken /\ Mysql!Unreached(outcome)
  BY <1>2 DEF Mysql!Unreached
<1>3. ASSUME NEW c \in (IF ~Mysql!Broken THEN {session}
                        ELSE IF Mysql!CanReconnect THEN {Mysql!Fresh} ELSE {})
      PROVE  /\ c \in Sessions
             /\ \/ c = session /\ ~Mysql!Broken
                \/ c = Mysql!Fresh /\ Mysql!Broken /\ ~handle.inTrans
  BY <1>3, NewSessions DEF Mysql!CanReconnect
<1> QED
  BY <1>1, <1>2, <1>3 DEF Mysql!mysql_real_query

(* What the session had is the end of the open transaction.                 *)
LEMMA DoesTheEnd ==
  ASSUME TxnInv, NEW c \in Sessions, c = session \/ c = Mysql!Fresh,
         NEW s \in Statements, s.verb = "write" => s.n \notin txn.ids,
         NEW m \in txn.ids \ Mysql!Does(s, c), NEW n \in txn.ids \cap Mysql!Does(s, c)
  PROVE  m < n
<1>1. n \in Mysql!Does(s, c) /\ m \notin Mysql!Does(s, c)
  OBVIOUS
<1>2. s.verb \in {"commit", "autocommit on"}
  BY <1>1 DEF Mysql!Does, Statements
<1>3. Mysql!Does(s, c) = c.tx
  BY <1>2 DEF Mysql!Does
<1>4. c = session /\ ~session.autocommit
  BY <1>1, <1>3, NewSessions DEF TxnInv, SessionHolds
<1> QED
  BY <1>1, <1>3, <1>4 DEF TxnInv, SessionHolds

LEMMA OrderSent ==
  ASSUME TxnInv, MysqlTypes, handle.unread = 0, NEW s \in Statements, NEW outcome,
         s.verb = "write" => s.n \notin txn.ids,
         Mysql!mysql_real_query(s, outcome)
  PROVE  InOrder(txn.ids, effects', pending')
<1> USE DEF TxnInv, TxnTypes, MysqlTypes
<1>1. txn.ids \in SUBSET Mysql!Ids /\ InOrder(txn.ids, effects, pending)
  BY DEF Txns
<1>2. CASE UNCHANGED <<pending, effects>>
  BY <1>1, <1>2
<1>3. ASSUME NEW c \in Sessions, c = session \/ c = Mysql!Fresh,
             Mysql!Answered(s, c, outcome) \/ Mysql!Lost(s, c, outcome)
      PROVE  InOrder(txn.ids, effects', pending')
  <2> DEFINE D == Mysql!Does(s, c)
             q == [by |-> s, does |-> D]
  <2>1. \A m \in txn.ids \ D, n \in txn.ids \cap D : effects[m] = 0 => m < n
    BY <1>3, DoesTheEnd
  <2>2. q.does = D
    OBVIOUS
  <2>3. \/ UNCHANGED <<pending, effects>>
        \/ Mysql!Add(D) /\ pending' = pending
        \/ pending' = pending \cup {q} /\ effects' = effects
    BY <1>3 DEF Mysql!Answered, Mysql!Lost
  <2> HIDE DEF q, D
  <2> QED
    BY <1>1, <1>2, <2>1, <2>2, <2>3, Executed, LeftBehind
<1>4. handle \in Handles /\ session \in Sessions
  OBVIOUS
<1> QED
  BY <1>2, <1>3, <1>4, SentOutcomes

(* The server's transaction is known to the library.                        *)
LEMMA SessionSent ==
  ASSUME TxnInv, MysqlTypes, handle.unread = 0, NEW s \in Statements, NEW outcome,
         Mysql!mysql_real_query(s, outcome)
  PROVE  /\ session'.autocommit => session'.tx = {}
         /\ session'.tx # {} => handle'.inTrans
<1> USE DEF TxnInv, TxnTypes, MysqlTypes
<1>1. CASE session' = Mysql!Dead
  BY <1>1, NewSessions
<1>2. ASSUME NEW c \in Sessions,
             \/ c = session /\ ~Mysql!Broken
             \/ c = Mysql!Fresh /\ Mysql!Broken /\ ~handle.inTrans,
             Mysql!Answered(s, c, outcome)
      PROVE  /\ session'.autocommit => session'.tx = {}
             /\ session'.tx # {} => handle'.inTrans
  <2>1. c.autocommit => c.tx = {}
    BY <1>2, NewSessions DEF SessionHolds
  <2>2. CASE /\ session' = Mysql!After(s, c)
             /\ \E k : handle' = [Mysql!Opened EXCEPT !.inTrans = Mysql!After(s, c).tx # {},
                                                      !.unread = k]
    <3>1. handle'.inTrans = (session'.tx # {})
      BY <2>2 DEF Mysql!Opened
    <3>2. s.verb \in {"write", "commit", "autocommit on", "autocommit off"}
      BY DEF Statements
    <3>3. session'.autocommit => session'.tx = {}
      BY <2>1, <2>2, <3>2 DEF Mysql!After, Sessions
    <3> QED
      BY <3>1, <3>3
  <2>3. CASE /\ session' \in {c, [c EXCEPT !.tx = {}]}
             /\ handle' = [Mysql!Opened EXCEPT !.inTrans = Mysql!KnownInTrans]
    <3>1. handle'.inTrans = Mysql!KnownInTrans
      BY <2>3 DEF Mysql!Opened
    <3>2. session'.tx # {} => session'.tx = c.tx
      BY <2>3 DEF Sessions
    <3>3. c.tx # {} => Mysql!KnownInTrans
      BY <1>2, NewSessions DEF SessionHolds, Mysql!KnownInTrans
    <3>4. session'.autocommit => session'.tx = {}
      BY <2>1, <2>3 DEF Sessions
    <3> QED
      BY <3>1, <3>2, <3>3, <3>4
  <2> QED
    BY <1>2, <2>2, <2>3 DEF Mysql!Answered
<1>3. ASSUME NEW c, Mysql!Lost(s, c, outcome) PROVE session' = Mysql!Dead
  BY <1>3 DEF Mysql!Lost
<1>4. handle \in Handles /\ session \in Sessions
  OBVIOUS
<1> QED
  BY <1>1, <1>2, <1>3, <1>4, SentOutcomes

TxnSafe == 
  /\ TxnTypes /\ SessionHolds
  /\ InOrder(txn.ids, effects, pending) /\ InOrder(closed.ids, effects, pending)
  /\ EndIsHeld /\ EndIsKept

LEMMA EmptyTxn ==
  /\ Mysql!NewTxn \in Txns /\ Mysql!NewTxn.ids = {}
  /\ \A done, late : InOrder({}, done, late)
BY DEF Mysql!NewTxn, Txns, InOrder

LEMMA DeadIsDead == Mysql!Dead.autocommit /\ Mysql!Fresh.autocommit /\ ~Mysql!Dead.alive
BY DEF Mysql!Dead, Mysql!Fresh

(* A statement of a call that fails, or that is to be repeated: the open    *)
(* transaction stays.                                                       *)
LEMMA NotDone ==
  ASSUME TxnInv, MysqlTypes, handle.unread = 0, NEW s \in Statements, NEW outcome,
         s.verb = "write" => s.n \notin txn.ids,
         Mysql!mysql_real_query(s, outcome), outcome # "ok",
         handle' \in Handles, txn' \in Txns, txn'.ids = txn.ids,
         ~txn'.clean \/ (Repeating' /\ txn'.moved),
         closed' \in Txns, closed'.ids = {}
  PROVE  TxnSafe'
<1> USE DEF TxnInv, TxnTypes, MysqlTypes
<1>1. InOrder(txn.ids, effects', pending')
  BY OrderSent
<1>2. /\ session'.autocommit => session'.tx = {}
      /\ session'.tx # {} => handle'.inTrans
  BY SessionSent
<1>3. \/ session'.autocommit
      \/ /\ UNCHANGED <<effects, pending>>
         /\ session' \in {session, [session EXCEPT !.tx = {}]}
  <2>1. ASSUME NEW c, Mysql!Lost(s, c, outcome) PROVE session'.autocommit
    BY <2>1, DeadIsDead DEF Mysql!Lost
  <2>2. ASSUME NEW c \in Sessions, c = session \/ c = Mysql!Fresh,
               Mysql!Answered(s, c, outcome)
        PROVE  \/ session'.autocommit
               \/ /\ UNCHANGED <<effects, pending>>
                  /\ session' \in {session, [session EXCEPT !.tx = {}]}
    <3>1. session' \in {c, [c EXCEPT !.tx = {}]} /\ UNCHANGED <<effects, pending>>
      BY <2>2 DEF Mysql!Answered
    <3>2. CASE c = session
      BY <3>1, <3>2
    <3>3. CASE c = Mysql!Fresh
      BY <3>1, <3>3, DeadIsDead DEF Sessions
    <3> QED
      BY <2>2, <3>2, <3>3
  <2>3. handle \in Handles /\ session \in Sessions
    OBVIOUS
  <2> QED
    BY <2>1, <2>2, <2>3, SentOutcomes, DeadIsDead
<1>4. SessionHolds'
  <2>1. session'.tx \in {session.tx, {}} \/ session'.autocommit
    BY <1>3 DEF Sessions
  <2>2. session.autocommit => session'.autocommit
    BY <1>3 DEF Sessions
  <2> QED
    BY <1>2, <1>3, <2>1, <2>2 DEF SessionHolds
<1>5. TxnTypes'
  <2>1. \A t \in {txn', closed'} : t.ids # {} => \E n \in t.ids : IsLast(n, t.ids)
    OBVIOUS
  <2> QED
    BY <2>1 DEF IsLast
<1>6. InOrder(txn.ids, effects, pending)' /\ InOrder(closed.ids, effects, pending)'
  BY <1>1, EmptyTxn
<1>7. EndIsHeld' /\ EndIsKept'
  BY DEF EndIsHeld, EndIsKept
<1> QED
  BY <1>4, <1>5, <1>6, <1>7 DEF TxnSafe

(* A write that succeeds is the last of its transaction.                    *)
LEMMA WriteDone ==
  ASSUME TxnInv, MysqlTypes, handle.unread = 0,
         NEW n \in Mysql!Ids, NEW attempt \in {1, 2},
         \A m \in txn.ids : m < n,
         \/ session.autocommit
         \/ effects[n] = 0 /\ n \notin session.tx /\ \A p \in pending : n \notin p.does,
         ~Repeating \/ txn.moved,
         Mysql!mysql_real_query(Mysql!Write(n, attempt), "ok"),
         handle' \in Handles,
         txn' = [txn EXCEPT !.ids = @ \cup {n}, !.moved = Mysql!Moved],
         closed' \in Txns, closed'.ids = {}
  PROVE  TxnSafe'
<1> USE DEF TxnInv, TxnTypes, MysqlTypes
<1> DEFINE s == Mysql!Write(n, attempt)
<1>1. s \in Statements /\ s.verb = "write" /\ s.n = n /\ n \notin txn.ids
  BY DEF Mysql!Write, Statements, Mysql!Ids
<1> HIDE DEF s
<1>2. InOrder(txn.ids, effects', pending')
  BY <1>1, OrderSent DEF s
<1>3. /\ session'.autocommit => session'.tx = {}
      /\ session'.tx # {} => handle'.inTrans
  BY <1>1, SessionSent DEF s
<1>4. txn.ids \in SUBSET Mysql!Ids /\ txn.clean \in BOOLEAN /\ txn.moved \in BOOLEAN
      /\ txn \in Txns
  BY DEF Txns
<1>5. /\ txn' \in Txns /\ txn'.ids = txn.ids \cup {n} /\ txn'.clean = txn.clean
      /\ txn'.moved <=> txn.moved \/ Mysql!Broken \/ ~session'.alive
  BY <1>4 DEF Txns, Mysql!Moved
<1>6. PICK c \in Sessions :
        /\ \/ c = session /\ ~Mysql!Broken
           \/ c = Mysql!Fresh /\ Mysql!Broken /\ ~handle.inTrans
        /\ Mysql!Answered(s, c, "ok")
  <2>1. handle \in Handles /\ session \in Sessions
    OBVIOUS
  <2> QED
    BY <2>1, SentOutcomes DEF s, Mysql!Lost
<1>7. /\ pending' = pending
      /\ session'.autocommit = c.autocommit
      /\ c.autocommit => session'.tx = c.tx /\ Mysql!Add({n})
      /\ ~c.autocommit => session'.tx = c.tx \cup {n} /\ Mysql!Add({})
  <2>1. pending' = pending /\ session' = Mysql!After(s, c) /\ Mysql!Add(Mysql!Does(s, c))
    BY <1>6 DEF Mysql!Answered
  <2>2. Mysql!After(s, c) = [c EXCEPT !.tx = IF c.autocommit THEN c.tx ELSE c.tx \cup {n}]
    BY <1>1 DEF Mysql!After
  <2>3. Mysql!Does(s, c) = IF c.autocommit THEN {n} ELSE {}
    BY <1>1 DEF Mysql!Does
  <2>4. CASE c.autocommit
    BY <2>1, <2>2, <2>3, <2>4 DEF Sessions
  <2>5. CASE ~c.autocommit
    BY <2>1, <2>2, <2>3, <2>5 DEF Sessions
  <2> QED
    BY <2>4, <2>5
<1>8. \A m \in Mysql!Ids : effects[m] \in Nat
  OBVIOUS
<1>11. /\ \A m \in txn'.ids : m <= n
       /\ \A m \in txn.ids : ~(n <= m)
  BY <1>4, <1>5 DEF Mysql!Ids
<1>12. n \in txn'.ids /\ IsLast(n, txn'.ids)
       /\ \A m \in txn'.ids : IsLast(m, txn'.ids) => m = n
  BY <1>5, <1>11 DEF IsLast
<1>13. InOrder(closed.ids, effects, pending)' /\ EndIsKept'
  <2>1. InOrder({}, effects', pending')
    BY EmptyTxn
  <2> QED
    BY <2>1 DEF EndIsKept
<1>9. CASE c.autocommit
  <2>1. /\ \A m \in Mysql!Ids : effects'[m] = IF m = n THEN effects[m] + 1 ELSE effects[m]
        /\ effects'[n] > 0
    BY <1>7, <1>8, <1>9 DEF Mysql!Add
  <2>2. InOrder(txn.ids \cup {n}, effects', pending')
    BY <1>2, <2>1, <1>4 DEF InOrder, Mysql!Ids
  <2>3. SessionHolds'
    BY <1>3, <1>7, <1>9 DEF SessionHolds
  <2>4. ASSUME NEW m \in txn.ids, ~txn'.moved, txn.clean PROVE Done(m)'
    <3>1. c = session /\ ~txn.moved /\ ~Mysql!Broken
      BY <1>5, <1>6, <2>4
    <3>2. Done(m)
      BY <1>4, <2>4, <3>1 DEF EndIsHeld
    <3> QED
      BY <1>7, <1>8, <1>9, <2>1, <3>1, <3>2, <1>4 DEF Done
  <2>5. Done(n)'
    BY <2>1 DEF Done
  <2> QED
    <3>1. TxnTypes'
      <4>1. \A t \in {txn', closed'} : t.ids # {} => \E m \in t.ids : IsLast(m, t.ids)
        BY <1>12
      <4> QED
        BY <1>5, <4>1 DEF IsLast
    <3>2. EndIsHeld'
      <4> QED
        BY <1>5, <2>4, <2>5, <1>12 DEF EndIsHeld, IsLast
    <3> QED
      BY <1>5, <1>13, <2>2, <2>3, <3>1, <3>2 DEF TxnSafe
<1>10. CASE ~c.autocommit
  <2>0. c = session
    BY <1>6, <1>10, DeadIsDead
  <2>1. \A m \in Mysql!Ids : effects'[m] = effects[m]
    BY <1>7, <1>8, <1>10 DEF Mysql!Add
  <2>2. \A m \in txn.ids \cup {n} : effects'[m] = 0 /\ \A p \in pending' : m \notin p.does
    BY <1>4, <1>7, <1>10, <2>0, <2>1 DEF SessionHolds
  <2>3. InOrder(txn.ids \cup {n}, effects', pending')
    BY <2>2 DEF InOrder
  <2>4. SessionHolds'
    <3>1. ASSUME NEW m \in txn'.ids \ session'.tx, NEW k \in txn'.ids \cap session'.tx
          PROVE  m < k
      BY <1>4, <1>5, <1>7, <1>10, <2>0 DEF SessionHolds, Mysql!Ids
    <3> QED
      BY <1>3, <1>5, <2>2, <3>1 DEF SessionHolds
  <2>5. \A m \in txn.ids : Done(m) => Done(m)'
    BY <1>4, <1>7, <1>10, <2>0, <2>1 DEF Done
  <2>6. Done(n)'
    BY <1>7, <1>10 DEF Done
  <2> QED
    <3>1. TxnTypes'
      <4>1. \A t \in {txn', closed'} : t.ids # {} => \E m \in t.ids : IsLast(m, t.ids)
        BY <1>12
      <4> QED
        BY <1>5, <4>1 DEF IsLast
    <3>2. EndIsHeld'
      <4>2. ASSUME NEW m \in txn.ids, ~txn'.moved, txn.clean PROVE Done(m)'
        BY <1>5, <2>5, <4>2 DEF EndIsHeld
      <4> QED
        BY <1>5, <2>6, <1>12, <4>2 DEF EndIsHeld, IsLast
    <3> QED
      BY <1>5, <1>13, <2>3, <2>4, <3>1, <3>2 DEF TxnSafe
<1> QED
  BY <1>9, <1>10

NewestIsUntouched(n) ==
  effects[n] = 0 /\ n \notin session.tx /\ \A p \in pending : n \notin p.does

(* A call that was not made yet has done nothing.                           *)
LEMMA NewCallIsUntouched ==
  ASSUME MysqlIInv, NEW n \in Mysql!Ids, n \notin DOMAIN calls
  PROVE  NewestIsUntouched(n)
<1>1. Count(n) <= 0
  BY DEF MysqlIInv, CountsAllowed, Allowed
<1>2. effects[n] \in Nat /\ Cardinality(Waiting(pending, n)) \in Nat
      /\ Has(session.tx, n) \in {0, 1}
  BY CountIsNat DEF MysqlIInv, Has
<1>3. effects[n] = 0 /\ Cardinality(Waiting(pending, n)) = 0 /\ Has(session.tx, n) = 0
  BY <1>1, <1>2 DEF Count
<1>4. IsFiniteSet(Waiting(pending, n))
  <2>1. IsFiniteSet(pending) /\ Waiting(pending, n) \subseteq pending
    BY DEF MysqlIInv, MysqlTypes, Waiting
  <2> QED
    BY <2>1, FS_Subset
<1>5. Waiting(pending, n) = {}
  BY <1>3, <1>4, FS_EmptySet
<1> QED
  BY <1>3, <1>5 DEF NewestIsUntouched, Waiting, Has

LEMMA Took ==
  ASSUME effects \in [Mysql!Ids -> Nat], NEW D, Mysql!Add(D), NEW n \in Mysql!Ids
  PROVE  /\ effects[n] > 0 => effects'[n] > 0
         /\ n \in D => effects'[n] > 0
BY DEF Mysql!Add

(* A transaction that is committed: what the session had takes effect.      *)
LEMMA CommitDone ==
  ASSUME TxnInv, MysqlTypes, handle.unread = 0, ~Repeating,
         NEW s \in Statements, s.verb \in {"commit", "autocommit on"},
         Mysql!mysql_real_query(s, "ok"), handle' \in Handles,
         txn' = Mysql!NewTxn, closed' = [txn EXCEPT !.moved = Mysql!Moved]
  PROVE  TxnSafe'
<1> USE DEF TxnInv, TxnTypes, MysqlTypes
<1>1. InOrder(txn.ids, effects', pending')
  BY OrderSent
<1>2. /\ session'.autocommit => session'.tx = {}
      /\ session'.tx # {} => handle'.inTrans
  BY SessionSent
<1>3. /\ closed' \in Txns /\ closed'.ids = txn.ids /\ closed'.clean = txn.clean
      /\ closed'.moved <=> txn.moved \/ Mysql!Broken \/ ~session'.alive
  BY DEF Txns, Mysql!Moved
<1>4. PICK c \in Sessions :
        /\ \/ c = session /\ ~Mysql!Broken
           \/ c = Mysql!Fresh /\ Mysql!Broken /\ ~handle.inTrans
        /\ Mysql!Answered(s, c, "ok")
  <2>1. handle \in Handles /\ session \in Sessions
    OBVIOUS
  <2>2. \A c : ~Mysql!Lost(s, c, "ok")
    BY DEF Mysql!Lost
  <2> QED
    BY <2>1, <2>2, SentOutcomes
<1>5. Mysql!Add(c.tx)
  BY <1>4 DEF Mysql!Answered, Mysql!Does
<1>6. \A n \in txn.ids :
        (effects[n] > 0 => effects'[n] > 0) /\ (n \in c.tx => effects'[n] > 0)
  BY <1>5, Took DEF Txns
<1>8. c = session \/ session.tx = {}
  BY <1>4 DEF SessionHolds
<1>9. ASSUME NEW n \in txn.ids, Done(n), c = session \/ session.tx = {}
      PROVE  effects'[n] > 0
  <2>1. CASE effects[n] > 0
    BY <2>1, <1>6
  <2>2. CASE n \in session.tx
    <3>1. c = session
      BY <1>9, <2>2
    <3> QED
      BY <1>6, <2>2, <3>1
  <2> QED
    BY <1>9, <2>1, <2>2 DEF Done
<1>10. EndIsKept'
  <2>1. ASSUME NEW n \in txn.ids, txn.clean, IsLast(n, txn.ids) PROVE effects'[n] > 0
    <3>1. Done(n) \/ (handle.inTrans /\ Mysql!Broken)
      BY <2>1 DEF EndIsHeld
    <3>2. Done(n)
      BY <1>4, <2>1, <3>1, <1>8 DEF Done
    <3> QED
      BY <1>8, <1>9, <3>2
  <2>2. ASSUME NEW n \in txn.ids, txn.clean, ~closed'.moved PROVE effects'[n] > 0
    <3>1. c = session /\ Done(n)
      BY <1>3, <1>4, <2>2 DEF EndIsHeld
    <3> QED
      BY <1>8, <1>9, <3>1
  <2> QED
    BY <1>3, <2>1, <2>2 DEF EndIsKept, IsLast
<1>11. SessionHolds'
  BY <1>2, EmptyTxn DEF SessionHolds
<1>12. EndIsHeld'
  BY EmptyTxn DEF EndIsHeld
<1>13. TxnTypes'
  <2>1. txn.ids # {} => \E n \in txn.ids : IsLast(n, txn.ids)
    OBVIOUS
  <2>2. \A t \in {txn', closed'} : t.ids # {} => \E n \in t.ids : IsLast(n, t.ids)
    BY <1>3, <2>1, EmptyTxn
  <2> QED
    BY <1>3, <2>2, EmptyTxn DEF IsLast
<1>14. InOrder(txn.ids, effects, pending)' /\ InOrder(closed.ids, effects, pending)'
  BY <1>1, <1>3, EmptyTxn
<1> QED
  BY <1>10, <1>11, <1>12, <1>13, <1>14 DEF TxnSafe

(* Steps after which no transaction is left, open or closed.                *)
LEMMA NothingOpen ==
  ASSUME handle' \in Handles, txn' \in Txns, closed' \in Txns,
         txn'.ids = {}, closed'.ids = {},
         session'.autocommit => session'.tx = {},
         session'.tx # {} => handle'.inTrans
  PROVE  TxnSafe'
<1>1. InOrder(txn.ids, effects, pending)' /\ InOrder(closed.ids, effects, pending)'
  BY EmptyTxn
<1>2. TxnTypes'
  BY DEF TxnTypes, IsLast
<1> QED
  BY <1>1, <1>2 DEF TxnSafe, SessionHolds, EndIsHeld, EndIsKept

(* Steps that touch neither transaction: a session may end, and what it had *)
(* is lost.                                                                 *)
LEMMA Quiet ==
  ASSUME TxnInv, MysqlTypes, UNCHANGED <<effects, pending, calls, current, txn, closed>>,
         handle' \in Handles, handle'.inTrans = handle.inTrans,
         handle'.vio => handle.vio, session' \in {session, Mysql!Dead}
  PROVE  TxnInv'
<1> USE DEF TxnInv, TxnTypes, MysqlTypes
<1>1. session' = session \/ (session'.tx = {} /\ session'.autocommit /\ ~session'.alive)
  BY NewSessions, DeadIsDead
<1>2. Mysql!Broken => Mysql!Broken'
  BY <1>1 DEF Mysql!Broken, Handles
<1>3. SessionHolds'
  BY <1>1 DEF SessionHolds
<1>4. \A n : Done(n) => Done(n)' \/ (n \in session.tx /\ Mysql!Broken')
  BY <1>1 DEF Done, Mysql!Broken
<1>5. EndIsHeld'
  <2>1. session.tx # {} => handle.inTrans
    BY DEF SessionHolds
  <2>2. \A n : Done(n) => Done(n)' \/ (handle'.inTrans /\ Mysql!Broken')
    BY <1>4, <2>1
  <2>3. ASSUME ~Repeating, txn.clean, NEW n \in txn.ids, IsLast(n, txn.ids)
        PROVE  Done(n)' \/ (handle'.inTrans /\ Mysql!Broken')
    BY <1>2, <2>2, <2>3 DEF EndIsHeld
  <2>4. ASSUME txn.clean, ~txn.moved, NEW n \in txn.ids PROVE Done(n)' \/ Mysql!Broken'
    BY <1>2, <2>2, <2>4 DEF EndIsHeld
  <2> QED
    BY <2>3, <2>4 DEF EndIsHeld, Repeating, IsLast
<1>6. EndIsKept'
  BY DEF EndIsKept, IsLast
<1>7. LastRepeats'
  BY <1>1 DEF LastRepeats, Repeating
<1>8. TxnTypes'
  BY DEF IsLast
<1>9. InOrder(txn.ids, effects, pending)' /\ InOrder(closed.ids, effects, pending)'
  OBVIOUS
<1> QED
  BY <1>3, <1>5, <1>6, <1>7, <1>8, <1>9

LEMMA ExecuteLateTxn ==
  ASSUME TxnInv, MysqlTypes, Mysql!ExecuteLate
  PROVE  TxnInv'
<1> USE DEF TxnInv, TxnTypes, MysqlTypes
<1>1. PICK p \in pending : pending' = pending \ {p} /\ Mysql!Add(p.does)
  BY DEF Mysql!ExecuteLate
<1>2. UNCHANGED <<handle, session, calls, current, txn, closed>>
  BY DEF Mysql!ExecuteLate
<1>3. \A n \in Mysql!Ids : /\ effects[n] \in Nat
                           /\ effects'[n] = effects[n] + IF n \in p.does THEN 1 ELSE 0
  BY <1>1 DEF Mysql!Add
<1>4. /\ \A n \in txn.ids : n \in Mysql!Ids
      /\ \A n \in closed.ids : n \in Mysql!Ids
  BY DEF Txns
<1>5. ASSUME NEW ids \in SUBSET Mysql!Ids, InOrder(ids, effects, pending)
      PROVE  InOrder(ids, effects', pending')
  <2>1. \A m \in ids \ p.does, n \in ids \cap p.does : effects[m] = 0 => m < n
    BY <1>5 DEF InOrder
  <2> QED
    BY <1>1, <1>5, <2>1, Executed
<1>6. InOrder(txn.ids, effects, pending)' /\ InOrder(closed.ids, effects, pending)'
  BY <1>2, <1>4, <1>5
<1>7. SessionHolds'
  <2>1. ASSUME ~session.autocommit, NEW n \in txn.ids
        PROVE  effects'[n] = 0 /\ \A q \in pending' : n \notin q.does
    <3>1. effects[n] = 0 /\ \A q \in pending : n \notin q.does
      BY <2>1 DEF SessionHolds
    <3>2. n \notin p.does /\ n \in Mysql!Ids
      BY <1>4, <3>1
    <3>3. effects'[n] = 0
      BY <1>3, <3>1, <3>2
    <3> QED
      BY <1>1, <3>1, <3>3
  <2> QED
    BY <1>2, <2>1 DEF SessionHolds
<1>8. \A n \in txn.ids : Done(n) => Done(n)'
  BY <1>2, <1>3, <1>4 DEF Done
<1>9. EndIsHeld'
  BY <1>2, <1>8 DEF EndIsHeld, Repeating, IsLast, Mysql!Broken
<1>10. EndIsKept'
  BY <1>2, <1>3, <1>4 DEF EndIsKept, IsLast
<1>11. LastRepeats' /\ TxnTypes'
  BY <1>2 DEF LastRepeats, Repeating, IsLast
<1> QED
  BY <1>6, <1>7, <1>9, <1>10, <1>11

LEMMA TxnInit == Mysql!Init => TxnInv
<1> SUFFICES ASSUME Mysql!Init PROVE TxnInv
  OBVIOUS
<1>1. txn = Mysql!NewTxn /\ closed = Mysql!NewTxn /\ current.step = "none"
  BY DEF Mysql!Init, Mysql!Idle
<1>2. TxnTypes
  BY <1>1, EmptyTxn, HandlesAreHandles DEF Mysql!Init, TxnTypes
<1>3. SessionHolds
  BY <1>1, EmptyTxn, NewSessions, DeadIsDead DEF Mysql!Init, SessionHolds
<1>4. LastRepeats
  BY <1>1, EmptyTxn DEF LastRepeats, Repeating
<1>5. InOrder(txn.ids, effects, pending) /\ InOrder(closed.ids, effects, pending)
  BY <1>1, EmptyTxn
<1>6. EndIsHeld /\ EndIsKept
  BY <1>1, EmptyTxn DEF EndIsHeld, EndIsKept
<1> QED
  BY <1>2, <1>3, <1>4, <1>5, <1>6 DEF TxnInv

LEMMA ReturnTxn ==
  ASSUME txn \in Txns, NEW n \in Mysql!Ids, NEW ok \in BOOLEAN, Mysql!Return(n, ok)
  PROVE  /\ txn' \in Txns /\ ~Repeating' /\ current'.step = "none"
         /\ ok => txn' = [txn EXCEPT !.ids = @ \cup {n}, !.moved = Mysql!Moved]
         /\ ok => txn'.ids = txn.ids \cup {n}
         /\ ~ok => txn'.ids = txn.ids /\ ~txn'.clean
<1>1. current'.step = "none" /\ ~Repeating'
  BY DEF Mysql!Return, Mysql!Idle, Repeating
<1>2. CASE ok
  <2>1. txn' = [txn EXCEPT !.ids = @ \cup {n}, !.moved = Mysql!Moved]
    BY <1>2 DEF Mysql!Return
  <2>2. Mysql!Moved \in BOOLEAN
    BY DEF Mysql!Moved, Mysql!Broken, Txns
  <2> QED
    BY <1>1, <1>2, <2>1, <2>2 DEF Txns
<1>3. CASE ~ok
  <2>1. txn' = [txn EXCEPT !.clean = FALSE, !.moved = Mysql!Moved]
    BY <1>3 DEF Mysql!Return, Mysql!Failed
  <2>2. Mysql!Moved \in BOOLEAN
    BY DEF Mysql!Moved, Mysql!Broken, Txns
  <2> QED
    BY <1>1, <1>3, <2>1, <2>2 DEF Txns
<1> QED
  BY <1>2, <1>3

LEMMA WriteIsStatement ==
  ASSUME NEW n \in Mysql!Ids, NEW attempt \in {1, 2}
  PROVE  /\ Mysql!Write(n, attempt) \in Statements
         /\ Mysql!Write(n, attempt).verb = "write" /\ Mysql!Write(n, attempt).n = n
BY DEF Mysql!Write, Statements

(* query() and command(): the first attempt of a new call.                  *)
LEMMA NewCallTxn ==
  ASSUME MysqlIInv, ResultsInv, handle' \in Handles, TxnInv,
         NEW kind \in {"command", "query"}, NEW outcome \in {"ok", "lost", "error"},
         Mysql!Ready, Len(calls) + 1 \in Mysql!Ids,
         Mysql!mysql_real_query(Mysql!Write(Len(calls) + 1, 1), outcome),
         calls' = Append(calls, kind), closed' = Mysql!NewTxn,
         \/ /\ outcome = "lost"
            /\ current' = [n |-> Len(calls) + 1, step |-> "reopen"]
            /\ txn' = [txn EXCEPT !.moved = TRUE]
         \/ Mysql!Return(Len(calls) + 1, outcome = "ok")
  PROVE  TxnInv'
<1> DEFINE n == Len(calls) + 1
<1>1. /\ DOMAIN calls = 1..Len(calls) /\ Len(calls) \in Nat
      /\ DOMAIN calls' = DOMAIN calls \cup {n}
  <2>1. calls \in Seq({"command", "query"})
    BY DEF MysqlIInv, MysqlTypes
  <2>2. Len(calls') = n /\ calls' \in Seq({"command", "query"})
    BY <2>1, AppendProperties
  <2> QED
    BY <2>1, <2>2, LenProperties
<1> HIDE DEF n
<1>2. n \notin DOMAIN calls /\ \A m \in DOMAIN calls : m < n
  BY <1>1 DEF n
<1>3. NewestIsUntouched(n)
  BY <1>2, NewCallIsUntouched DEF n
<1>4. handle.unread = 0 /\ ~Repeating /\ MysqlTypes
  BY DEF Mysql!Ready, ResultsInv, ResultTypes, Mysql!Idle, Repeating, MysqlIInv
<1>5. n \notin txn.ids /\ \A m \in txn.ids : m < n
  BY <1>2 DEF TxnInv, LastRepeats
<1>6. closed' \in Txns /\ closed'.ids = {} /\ txn \in Txns
  BY EmptyTxn DEF TxnInv, TxnTypes
<1>7. n \in Mysql!Ids
  BY DEF n
<1>8. CASE Mysql!Return(n, outcome = "ok")
  <2>1. LastRepeats'
    BY <1>1, <1>6, <1>7, <1>8, ReturnTxn DEF TxnInv, LastRepeats
  <2>2. CASE outcome = "ok"
    <3>1. txn' = [txn EXCEPT !.ids = @ \cup {n}, !.moved = Mysql!Moved]
      BY <1>6, <1>7, <1>8, <2>2, ReturnTxn
    <3>2. TxnSafe'
      BY <1>3, <1>4, <1>5, <1>6, <1>7, <2>2, <3>1, WriteDone DEF NewestIsUntouched, n
    <3> QED
      BY <2>1, <3>2 DEF TxnInv, TxnSafe
  <2>3. CASE outcome # "ok"
    <3>1. txn' \in Txns /\ txn'.ids = txn.ids /\ ~txn'.clean
      BY <1>6, <1>7, <1>8, <2>3, ReturnTxn
    <3>2. TxnSafe'
      BY <1>4, <1>5, <1>6, <1>7, <2>3, <3>1, WriteIsStatement, NotDone DEF n
    <3> QED
      BY <2>1, <3>2 DEF TxnInv, TxnSafe
  <2> QED
    BY <2>2, <2>3
<1>9. CASE /\ outcome = "lost"
           /\ current' = [n |-> n, step |-> "reopen"]
           /\ txn' = [txn EXCEPT !.moved = TRUE]
  <2>1. txn' \in Txns /\ txn'.ids = txn.ids /\ txn'.moved
    BY <1>6, <1>9 DEF Txns
  <2>2. Repeating' /\ current'.n = n /\ current'.step = "reopen"
    BY <1>9 DEF Repeating
  <2>3. LastRepeats'
    <3>1. \A m \in DOMAIN calls' : m <= n
      BY <1>1 DEF n
    <3> QED
      BY <1>1, <1>5, <1>6, <2>1, <2>2, <3>1 DEF TxnInv, LastRepeats
  <2>4. TxnSafe'
    BY <1>4, <1>5, <1>6, <1>7, <1>9, <2>1, <2>2, WriteIsStatement, NotDone, ZenonT(30) DEF n
  <2> QED
    BY <2>3, <2>4 DEF TxnInv, TxnSafe
<1> QED
  BY <1>8, <1>9 DEF n

LEMMA ReopenTxn ==
  ASSUME MysqlIInv, TxnInv, handle' \in Handles, Mysql!Reopen
  PROVE  TxnInv'
<1>1. UNCHANGED <<pending, effects, calls, closed>> /\ current.step = "reopen"
  BY DEF Mysql!Reopen
<1>2. Repeating /\ closed.ids = {} /\ txn.moved
  BY <1>1 DEF TxnInv, LastRepeats, Repeating
<1>3. session' \in {Mysql!Fresh, Mysql!Dead}
  BY DEF Mysql!Reopen, Mysql!MysqlInit
<1>4. session'.autocommit /\ session'.tx = {}
  BY <1>3, DeadIsDead, NewSessions
<1>5. current.n \in Mysql!Ids /\ txn \in Txns
  BY <1>2 DEF MysqlIInv, MysqlTypes, OnlyCommandsRepeat, TxnInv, TxnTypes
<1>6. /\ txn' \in Txns /\ txn'.ids = txn.ids
      /\ \/ ~Repeating' /\ ~txn'.clean /\ current'.step = "none"
         \/ Repeating' /\ txn'.moved /\ current'.n = current.n
  <2>1. CASE /\ current' = [current EXCEPT !.step = "repeat"]
             /\ UNCHANGED txn
    <3>1. current \in Currents
      BY DEF MysqlIInv, MysqlTypes
    <3>2. current'.n = current.n /\ Repeating'
      BY <2>1, <3>1 DEF Currents, Repeating
    <3> QED
      BY <1>2, <1>5, <2>1, <3>2
  <2>2. CASE Mysql!Return(current.n, FALSE)
    BY <1>5, <2>2, ReturnTxn
  <2> QED
    BY <2>1, <2>2 DEF Mysql!Reopen
<1>7. InOrder(txn.ids, effects, pending)' /\ InOrder(closed.ids, effects, pending)'
  BY <1>1, <1>6 DEF TxnInv
<1>8. SessionHolds'
  BY <1>4 DEF SessionHolds
<1>9. EndIsHeld' /\ EndIsKept'
  BY <1>1, <1>2, <1>6 DEF EndIsHeld, EndIsKept
<1>10. TxnTypes'
  <2>1. \A t \in {txn', closed'} : t.ids # {} => \E n \in t.ids : IsLast(n, t.ids)
    BY <1>1, <1>6 DEF TxnInv, TxnTypes
  <2>2. closed \in Txns
    BY DEF TxnInv, TxnTypes
  <2> QED
    BY <1>1, <1>6, <2>1, <2>2 DEF TxnTypes, IsLast
<1>11. LastRepeats'
  <2>1. current'.step = "none" => ~Repeating'
    BY DEF Repeating
  <2>2. Repeating' => current'.step # "release"
    BY DEF Repeating
  <2>3. /\ txn.ids \subseteq DOMAIN calls /\ current.n \notin txn.ids
        /\ \A n \in DOMAIN calls : n <= current.n
    BY <1>2 DEF TxnInv, LastRepeats
  <2> QED
    BY <1>1, <1>2, <1>4, <1>6, <2>2, <2>3 DEF LastRepeats
<1> QED
  BY <1>7, <1>8, <1>9, <1>10, <1>11 DEF TxnInv

LEMMA RepeatTxn ==
  ASSUME MysqlIInv, ResultsInv, handle' \in Handles, TxnInv, Mysql!Repeat
  PROVE  TxnInv'
<1> DEFINE n == current.n
<1>1. PICK outcome \in {"ok", "lost", "error"} :
        /\ Mysql!mysql_real_query(Mysql!Write(n, 2), outcome)
        /\ Mysql!Return(n, outcome = "ok")
  BY DEF Mysql!Repeat
<1>2. current.step = "repeat" /\ UNCHANGED <<calls, closed>>
  BY DEF Mysql!Repeat
<1>3. Repeating
  BY <1>2 DEF Repeating
<1>4. n \in Mysql!Ids /\ n \in DOMAIN calls /\ MysqlTypes
  BY <1>3 DEF MysqlIInv, MysqlTypes, OnlyCommandsRepeat
<1>5. /\ n \notin txn.ids /\ txn.ids \subseteq DOMAIN calls
      /\ \A m \in DOMAIN calls : m <= n
      /\ closed.ids = {} /\ txn.moved /\ session.autocommit
  BY <1>2, <1>3 DEF TxnInv, LastRepeats
<1>6. \A m \in txn.ids : m < n
  BY <1>4, <1>5 DEF Mysql!Ids, MysqlTypes
<1>7. handle.unread = 0 /\ closed' \in Txns /\ closed'.ids = {} /\ txn \in Txns
  BY <1>2, <1>5 DEF ResultsInv, TxnInv, TxnTypes
<1> HIDE DEF n
<1>8. LastRepeats'
  <2>1. ~Repeating' /\ current'.step = "none" /\ txn'.ids \subseteq txn.ids \cup {n}
    <3>1. CASE outcome = "ok"
      BY <1>1, <1>4, <1>7, <3>1, ReturnTxn
    <3>2. CASE outcome # "ok"
      BY <1>1, <1>4, <1>7, <3>2, ReturnTxn
    <3> QED
      BY <3>1, <3>2
  <2> QED
    BY <1>2, <1>4, <1>5, <2>1 DEF LastRepeats
<1>9. CASE outcome = "ok"
  <2>1. txn' = [txn EXCEPT !.ids = @ \cup {n}, !.moved = Mysql!Moved]
    BY <1>1, <1>4, <1>7, <1>9, ReturnTxn
  <2>2. TxnSafe'
    BY <1>1, <1>4, <1>5, <1>6, <1>7, <1>9, <2>1, WriteDone
  <2> QED
    BY <1>8, <2>2 DEF TxnInv, TxnSafe
<1>10. CASE outcome # "ok"
  <2>1. txn' \in Txns /\ txn'.ids = txn.ids /\ ~txn'.clean
    BY <1>1, <1>4, <1>7, <1>10, ReturnTxn
  <2>2. TxnSafe'
    BY <1>1, <1>4, <1>5, <1>7, <1>10, <2>1, WriteIsStatement, NotDone
  <2> QED
    BY <1>8, <2>2 DEF TxnInv, TxnSafe
<1> QED
  BY <1>9, <1>10

LEMMA IdleRepeats ==
  ASSUME current'.step = "none", txn'.ids \subseteq DOMAIN calls'
  PROVE  LastRepeats'
BY DEF LastRepeats, Repeating

LEMMA AutocommitTxn ==
  ASSUME MysqlIInv, ResultsInv, handle' \in Handles, TxnInv, Mysql!autocommit
  PROVE  TxnInv'
<1>1. PICK verb \in {"autocommit on", "autocommit off"}, outcome \in {"ok", "lost", "error"} :
        /\ Mysql!Ready
        /\ Mysql!mysql_real_query(Mysql!Other(verb), outcome)
        /\ current' = IF outcome = "ok" THEN Mysql!Idle ELSE [n |-> 0, step |-> "release"]
        /\ closed' = IF outcome = "ok" /\ verb = "autocommit on"
                       THEN [txn EXCEPT !.moved = Mysql!Moved] ELSE Mysql!NewTxn
        /\ txn' = Mysql!NewTxn
  BY DEF Mysql!autocommit
<1> DEFINE s == Mysql!Other(verb)
<1>2. s \in Statements /\ s.verb = verb
  BY OthersAreStatements DEF Mysql!Other
<1> HIDE DEF s
<1>3. handle.unread = 0 /\ ~Repeating /\ MysqlTypes
  BY <1>1 DEF Mysql!Ready, ResultsInv, ResultTypes, Mysql!Idle, Repeating, MysqlIInv
<1>4. Mysql!mysql_real_query(s, outcome)
  BY <1>1 DEF s
<1>5. txn'.ids = {} /\ txn' \in Txns
  BY <1>1, EmptyTxn
<1>6. CASE outcome = "ok" /\ verb = "autocommit on"
  <2>1. TxnSafe'
    BY <1>1, <1>2, <1>3, <1>4, <1>6, CommitDone
  <2>2. current'.step = "none"
    BY <1>1, <1>6 DEF Mysql!Idle
  <2> QED
    BY <1>5, <2>1, <2>2, IdleRepeats DEF TxnInv, TxnSafe
<1>7. CASE ~(outcome = "ok" /\ verb = "autocommit on")
  <2>1. closed' \in Txns /\ closed'.ids = {}
    BY <1>1, <1>7, EmptyTxn
  <2>2. /\ session'.autocommit => session'.tx = {}
        /\ session'.tx # {} => handle'.inTrans
    BY <1>2, <1>3, <1>4, SessionSent
  <2>3. TxnSafe'
    BY <1>5, <2>1, <2>2, NothingOpen
  <2>4. LastRepeats'
    <3>1. current'.step \in {"none", "release"}
      BY <1>1 DEF Mysql!Idle
    <3> QED
      BY <1>5, <2>1, <3>1 DEF LastRepeats, Repeating
  <2> QED
    BY <2>3, <2>4 DEF TxnInv, TxnSafe
<1> QED
  BY <1>6, <1>7

LEMMA CommitTxn ==
  ASSUME MysqlIInv, ResultsInv, handle' \in Handles, TxnInv, Mysql!commit
  PROVE  TxnInv'
<1>1. PICK outcome \in {"ok", "lost", "error"} :
        /\ Mysql!Ready
        /\ Mysql!mysql_real_query(Mysql!Other("commit"), outcome)
        /\ IF outcome = "ok"
             THEN txn' = Mysql!NewTxn /\ closed' = [txn EXCEPT !.moved = Mysql!Moved]
             ELSE txn' = Mysql!Failed /\ closed' = Mysql!NewTxn
        /\ UNCHANGED <<calls, current>>
  BY DEF Mysql!commit
<1> DEFINE s == Mysql!Other("commit")
<1>2. s \in Statements /\ s.verb = "commit"
  BY OthersAreStatements DEF Mysql!Other
<1> HIDE DEF s
<1>3. handle.unread = 0 /\ ~Repeating /\ MysqlTypes
  BY <1>1 DEF Mysql!Ready, ResultsInv, ResultTypes, Mysql!Idle, Repeating, MysqlIInv
<1>4. Mysql!mysql_real_query(s, outcome)
  BY <1>1 DEF s
<1>5. current'.step = "none" /\ txn.ids \subseteq DOMAIN calls'
  BY <1>1 DEF Mysql!Ready, Mysql!Idle, TxnInv, LastRepeats
<1>6. CASE outcome = "ok"
  <2>1. TxnSafe'
    BY <1>1, <1>2, <1>3, <1>4, <1>6, CommitDone
  <2>2. txn'.ids = {}
    BY <1>1, <1>6, EmptyTxn
  <2> QED
    BY <1>5, <2>1, <2>2, IdleRepeats DEF TxnInv, TxnSafe
<1>7. CASE outcome # "ok"
  <2>1. txn' \in Txns /\ txn'.ids = txn.ids /\ ~txn'.clean
    <3>1. Mysql!Moved \in BOOLEAN
      BY DEF Mysql!Moved, Mysql!Broken, Txns, TxnInv, TxnTypes
    <3> QED
      BY <1>1, <1>7, <3>1 DEF Mysql!Failed, TxnInv, TxnTypes, Txns
  <2>2. closed' \in Txns /\ closed'.ids = {}
    BY <1>1, <1>7, EmptyTxn
  <2>3. TxnSafe'
    BY <1>2, <1>3, <1>4, <1>7, <2>1, <2>2, NotDone
  <2> QED
    BY <1>5, <2>1, <2>3, IdleRepeats DEF TxnInv, TxnSafe
<1> QED
  BY <1>6, <1>7

LEMMA ReleaseTxn ==
  ASSUME MysqlIInv, handle' \in Handles, TxnInv, Mysql!release
  PROVE  TxnInv'
<1>1. /\ current.step = "release" /\ current' = Mysql!Idle
      /\ UNCHANGED <<calls, txn, closed>>
      /\ \/ session' = Mysql!Dead
         \/ UNCHANGED <<handle, session>>
  BY DEF Mysql!release
<1>2. txn'.ids = {} /\ closed'.ids = {} /\ txn' \in Txns /\ closed' \in Txns
  BY <1>1 DEF TxnInv, TxnTypes, LastRepeats
<1>3. /\ session'.autocommit => session'.tx = {}
      /\ session'.tx # {} => handle'.inTrans
  BY <1>1, NewSessions DEF TxnInv, SessionHolds
<1>4. TxnSafe'
  BY <1>2, <1>3, NothingOpen
<1>5. LastRepeats'
  BY <1>1, <1>2, IdleRepeats DEF Mysql!Idle
<1> QED
  BY <1>4, <1>5 DEF TxnInv, TxnSafe

LEMMA QuietSteps ==
  ASSUME MysqlIInv, TxnInv, handle' \in Handles,
         \/ Mysql!SessionEnds
         \/ Mysql!AutoMysqlRes \/ Mysql!next \/ Mysql!fetch_row
         \/ Mysql!fetch_next_row \/ Mysql!str_row \/ Mysql!DestroyRes
         \/ UNCHANGED Mysql!vars
  PROVE  TxnInv'
<1> USE DEF TxnInv, TxnTypes
<1>1. ASSUME NEW got, Mysql!StoreNext(got)
      PROVE  /\ handle'.inTrans = handle.inTrans /\ (handle'.vio => handle.vio)
             /\ session' \in {session, Mysql!Dead}
  BY <1>1 DEF Mysql!StoreNext, Handles
<1>2. UNCHANGED <<effects, pending, calls, current, txn, closed>>
  BY DEF Mysql!SessionEnds, Mysql!AutoMysqlRes, Mysql!next, Mysql!fetch_row,
         Mysql!fetch_next_row, Mysql!str_row, Mysql!DestroyRes, Mysql!vars, Mysql!others
<1>3. /\ handle'.inTrans = handle.inTrans /\ (handle'.vio => handle.vio)
      /\ session' \in {session, Mysql!Dead}
  <2>1. CASE Mysql!DestroyRes
    BY <2>1 DEF Mysql!DestroyRes, Handles
  <2>2. CASE Mysql!AutoMysqlRes \/ Mysql!next \/ Mysql!fetch_next_row
    BY <2>2, <1>1 DEF Mysql!AutoMysqlRes, Mysql!next, Mysql!fetch_next_row
  <2>3. CASE Mysql!SessionEnds
    BY <2>3 DEF Mysql!SessionEnds
  <2>4. CASE Mysql!fetch_row \/ Mysql!str_row \/ UNCHANGED Mysql!vars
    BY <2>4 DEF Mysql!fetch_row, Mysql!str_row, Mysql!vars
  <2> QED
    BY <2>1, <2>2, <2>3, <2>4
<1> QED
  BY <1>2, <1>3, Quiet DEF MysqlIInv

LEMMA TxnStep ==
  ASSUME MysqlIInv, ResultsInv, ResultsInv', TxnInv, [Mysql!Next]_(Mysql!vars)
  PROVE  TxnInv'
<1>1. handle' \in Handles
  BY DEF ResultsInv, ResultTypes
<1>2. CASE Mysql!query
  <2>1. PICK outcome \in {"ok", "lost", "error"} :
          /\ Mysql!Ready /\ Len(calls) + 1 \in Mysql!Ids
          /\ Mysql!mysql_real_query(Mysql!Write(Len(calls) + 1, 1), outcome)
          /\ Mysql!Return(Len(calls) + 1, outcome = "ok")
          /\ calls' = Append(calls, "query") /\ closed' = Mysql!NewTxn
    BY <1>2 DEF Mysql!query
  <2> QED
    BY <1>1, <2>1, NewCallTxn
<1>3. CASE Mysql!command
  <2>1. PICK outcome \in {"ok", "lost", "error"} :
          /\ Mysql!Ready /\ Len(calls) + 1 \in Mysql!Ids
          /\ Mysql!mysql_real_query(Mysql!Write(Len(calls) + 1, 1), outcome)
          /\ \/ /\ outcome = "lost"
                /\ current' = [n |-> Len(calls) + 1, step |-> "reopen"]
                /\ txn' = [txn EXCEPT !.moved = TRUE]
             \/ Mysql!Return(Len(calls) + 1, outcome = "ok")
          /\ calls' = Append(calls, "command") /\ closed' = Mysql!NewTxn
    BY <1>3 DEF Mysql!command
  <2> QED
    BY <1>1, <2>1, NewCallTxn
<1>4. CASE Mysql!ExecuteLate
  BY <1>4, ExecuteLateTxn DEF MysqlIInv
<1>5. CASE Mysql!Reopen
  BY <1>1, <1>5, ReopenTxn
<1>6. CASE Mysql!Repeat
  BY <1>1, <1>6, RepeatTxn
<1>7. CASE Mysql!autocommit
  BY <1>1, <1>7, AutocommitTxn
<1>8. CASE Mysql!commit
  BY <1>1, <1>8, CommitTxn
<1>9. CASE Mysql!release
  BY <1>1, <1>9, ReleaseTxn
<1>10. CASE \/ Mysql!SessionEnds
            \/ Mysql!AutoMysqlRes \/ Mysql!next \/ Mysql!fetch_row
            \/ Mysql!fetch_next_row \/ Mysql!str_row \/ Mysql!DestroyRes
            \/ UNCHANGED Mysql!vars
  BY <1>1, <1>10, QuietSteps
<1> QED
  BY <1>2, <1>3, <1>4, <1>5, <1>6, <1>7, <1>8, <1>9, <1>10 DEF Mysql!Next

-----------------------------------------------------------------------------
(* When mysql_commit() or autocommit(true) says that a transaction is       *)
(* committed, what is lost of it comes before all that is kept; its last    *)
(* statement is kept if no call of it failed, and all of it is if it had    *)
(* one session all along.                                                   *)
THEOREM CommittedEndIsKept == Mysql!Spec => []CommitKeepsTheEnd
<1>1. MysqlIInv /\ TxnInv => CommitKeepsTheEnd
  <2> SUFFICES ASSUME MysqlIInv, TxnInv PROVE CommitKeepsTheEnd
    OBVIOUS
  <2> DEFINE missing == {n \in closed.ids : effects[n] = 0}
  <2>1. \A n \in closed.ids : n \in Mysql!Ids /\ effects[n] \in Nat
    BY DEF MysqlIInv, MysqlTypes, TxnInv, TxnTypes, Txns
  <2>2. ASSUME NEW m \in missing, NEW n \in closed.ids \ missing PROVE m < n
    <3>1. effects[m] = 0 /\ effects[n] > 0 /\ m \in closed.ids /\ n \in closed.ids
      BY <2>1
    <3> QED
      BY <3>1 DEF TxnInv, InOrder
  <2>3. ASSUME closed.clean, closed.ids # {} PROVE Mysql!Max(closed.ids) \notin missing
    <3>1. PICK last \in closed.ids : IsLast(last, closed.ids)
      BY <2>3 DEF TxnInv, TxnTypes
    <3>2. \A n \in closed.ids : last >= n
      BY <2>1, <3>1 DEF IsLast, Mysql!Ids
    <3>3. \E n \in closed.ids : \A m \in closed.ids : n >= m
      BY <3>2
    <3>4. /\ Mysql!Max(closed.ids) \in closed.ids
          /\ \A m \in closed.ids : Mysql!Max(closed.ids) >= m
      BY <3>3 DEF Mysql!Max
    <3>5. IsLast(Mysql!Max(closed.ids), closed.ids)
      BY <2>1, <3>4 DEF IsLast, Mysql!Ids
    <3>6. effects[Mysql!Max(closed.ids)] > 0
      BY <2>3, <3>4, <3>5 DEF TxnInv, EndIsKept
    <3> QED
      BY <3>6
  <2>4. closed.clean /\ ~closed.moved => missing = {}
    BY DEF TxnInv, EndIsKept
  <2> QED
    BY <2>2, <2>3, <2>4 DEF CommitKeepsTheEnd, Mysql!CommitKeepsTheEnd
<1>2. Mysql!Spec => []MysqlIInv
  BY MysqlInitIInv, MysqlNextIInv, PTL DEF Mysql!Spec
<1>3. Mysql!Spec => []ResultsInv
  BY ResultsInit, ResultsStep, PTL DEF Mysql!Spec
<1>4. MysqlIInv /\ ResultsInv /\ ResultsInv' /\ TxnInv /\ [Mysql!Next]_(Mysql!vars) => TxnInv'
  BY TxnStep
<1>5. Mysql!Spec => []TxnInv
  BY <1>2, <1>3, <1>4, TxnInit, PTL DEF Mysql!Spec
<1> QED
  BY <1>1, <1>2, <1>5, PTL

(***************************************************************************)
(* ConnList: getNextConn() comes to every connection.                      *)
(***************************************************************************)

N == Cardinality(Conns)

ListTypes ==
  /\ connList_ \in Seq(Conns) /\ Len(connList_) <= N
  /\ \A i, j \in 1..Len(connList_) : connList_[i] = connList_[j] => i = j
  /\ next_ \in 0..N
  /\ waited \in [Conns -> Nat] /\ deleted \in [Conns -> Nat]

(* How many calls come before the one that returns the connection at i when *)
(* next_ goes on to at most N first.                                        *)
Before(i, n) == IF i > n THEN i - 1 - n ELSE N - n + i - 1

TurnComes ==
  \A i \in 1..Len(connList_) :
    waited[connList_[i]] + Before(i, next_) < N * (1 + deleted[connList_[i]])

ListIInv == ListTypes /\ TurnComes

LEMMA ConnsCounted == N \in Nat /\ (\A c \in Conns : N > 0)
BY ConnsAssumption, FS_CardinalityType, FS_EmptySet DEF N

LEMMA Multiplied == \A d \in Nat : N * (1 + d) \in Nat
BY ConnsCounted

LEMMA Later ==
  ASSUME NEW w \in Int, NEW b1 \in Int, NEW b2 \in Int, NEW m \in Int,
         w + b1 < m, b2 + 1 <= b1
  PROVE  (w + 1) + b2 < m
OBVIOUS

LEMMA Deleted ==
  ASSUME NEW w \in Int, NEW b1 \in Int, NEW b2 \in Int, NEW m \in Int, NEW k \in Int,
         w + b1 < m, b2 <= b1 + k
  PROVE  w + b2 < m + k
OBVIOUS

LEMMA OneMoreDeletion ==
  ASSUME NEW d \in Nat PROVE N * (1 + (d + 1)) = N * (1 + d) + N /\ N * (1 + 0) = N
                             /\ N * (1 + d) >= N
BY ConnsCounted

(* A sequence in which no connection is twice is not longer than there are  *)
(* connections.                                                             *)
LEMMA DistinctIsShort ==
  ASSUME NEW s \in Seq(Conns), \A i, j \in 1..Len(s) : s[i] = s[j] => i = j
  PROVE  Len(s) <= N
<1>1. Len(s) \in Nat /\ s \in [1..Len(s) -> Conns]
  BY LenProperties
<1>2. s \in Injection(1..Len(s), Conns)
  BY <1>1 DEF Injection, IsInjective
<1>3. Cardinality(1..Len(s)) <= Cardinality(Conns)
  BY <1>2, ConnsAssumption, FS_Injection
<1> QED
  BY <1>1, <1>3, FS_Interval DEF N

LEMMA ListedAt ==
  ASSUME connList_ \in Seq(Conns)
  PROVE  List!Listed = {connList_[i] : i \in 1..Len(connList_)}
BY DEF List!Listed, List!Range

LEMMA AtRemoved ==
  ASSUME NEW s \in Seq(Conns), NEW i \in 1..Len(s)
  PROVE  /\ List!RemoveAt(s, i) \in Seq(Conns)
         /\ Len(List!RemoveAt(s, i)) = Len(s) - 1
         /\ \A j \in 1..(Len(s) - 1) :
              List!RemoveAt(s, i)[j] = IF j < i THEN s[j] ELSE s[j + 1]
<1> DEFINE front == SubSeq(s, 1, i - 1)
           back == SubSeq(s, i + 1, Len(s))
<1>1. Len(s) \in Nat /\ i \in Int /\ \A j \in 1..Len(s) : s[j] \in Conns
  BY LenProperties
<1>2. /\ front \in Seq(Conns) /\ Len(front) = i - 1
      /\ \A j \in 1..(i - 1) : front[j] = s[j]
  <2>1. \A j \in 1..(i - 1) : s[j] \in Conns
    BY <1>1
  <2>2. /\ front \in Seq(Conns) /\ Len(front) = (IF 1 <= i - 1 THEN i - 1 - 1 + 1 ELSE 0)
        /\ \A j \in 1..(i - 1 - 1 + 1) : front[j] = s[1 + j - 1]
    BY <1>1, <2>1, SubSeqProperties
  <2> HIDE DEF front
  <2> QED
    BY <1>1, <2>2
<1>3. /\ back \in Seq(Conns) /\ Len(back) = Len(s) - i
      /\ \A j \in 1..(Len(s) - i) : back[j] = s[i + j]
  <2>1. \A j \in (i + 1)..Len(s) : s[j] \in Conns
    BY <1>1
  <2>2. /\ back \in Seq(Conns)
        /\ Len(back) = (IF i + 1 <= Len(s) THEN Len(s) - (i + 1) + 1 ELSE 0)
        /\ \A j \in 1..(Len(s) - (i + 1) + 1) : back[j] = s[i + 1 + j - 1]
    BY <1>1, <2>1, SubSeqProperties
  <2> HIDE DEF back
  <2> QED
    BY <1>1, <2>2
<1>4. List!RemoveAt(s, i) = front \o back
  BY DEF List!RemoveAt
<1> HIDE DEF front, back
<1>5. /\ front \o back \in Seq(Conns) /\ Len(front \o back) = Len(front) + Len(back)
      /\ \A j \in 1..(Len(front) + Len(back)) :
           (front \o back)[j] = IF j <= Len(front) THEN front[j] ELSE back[j - Len(front)]
  BY <1>2, <1>3, ConcatProperties
<1>6. Len(front) + Len(back) = Len(s) - 1
  BY <1>1, <1>2, <1>3
<1>7. ASSUME NEW j \in 1..(Len(s) - 1)
      PROVE  (front \o back)[j] = IF j < i THEN s[j] ELSE s[j + 1]
  <2>1. CASE j < i
    BY <1>1, <1>2, <1>5, <1>6, <2>1
  <2>2. CASE ~(j < i)
    <3>1. j - Len(front) \in 1..(Len(s) - i) /\ i + (j - Len(front)) = j + 1 /\ ~(j <= Len(front))
      BY <1>1, <1>2, <2>2
    <3>2. (front \o back)[j] = back[j - Len(front)]
      BY <1>5, <1>6, <3>1
    <3> QED
      BY <1>3, <2>2, <3>1, <3>2
  <2> QED
    BY <2>1, <2>2
<1> QED
  BY <1>4, <1>5, <1>6, <1>7

LEMMA WhereItWas ==
  ASSUME NEW s \in Seq(Conns), NEW i \in 1..Len(s)
  PROVE  \A j \in 1..(Len(s) - 1) : \E m \in 1..Len(s) :
           /\ List!RemoveAt(s, i)[j] = s[m] /\ m # i
           /\ (j < i /\ m = j) \/ (~(j < i) /\ m = j + 1)
<1> SUFFICES ASSUME NEW j \in 1..(Len(s) - 1)
             PROVE  \E m \in 1..Len(s) :
                      /\ List!RemoveAt(s, i)[j] = s[m] /\ m # i
                      /\ (j < i /\ m = j) \/ (~(j < i) /\ m = j + 1)
  OBVIOUS
<1>1. Len(s) \in Nat /\ i \in Int /\ j \in Int /\ j + 1 \in 1..Len(s) /\ j \in 1..Len(s)
  BY LenProperties
<1>2. List!RemoveAt(s, i)[j] = IF j < i THEN s[j] ELSE s[j + 1]
  BY AtRemoved
<1>3. CASE j < i
  <2>1. j # i /\ List!RemoveAt(s, i)[j] = s[j]
    BY <1>1, <1>2, <1>3
  <2> QED
    BY <1>1, <1>3, <2>1
<1>4. CASE ~(j < i)
  <2>1. j + 1 # i /\ List!RemoveAt(s, i)[j] = s[j + 1]
    BY <1>1, <1>2, <1>4
  <2> QED
    BY <1>1, <1>4, <2>1
<1> QED
  BY <1>3, <1>4

LEMMA ListInitIInv == List!Init => ListIInv
<1> SUFFICES ASSUME List!Init PROVE ListIInv
  OBVIOUS
<1>1. connList_ = <<>> /\ next_ = 0
  BY DEF List!Init
<1>2. Len(connList_) = 0 /\ connList_ \in Seq(Conns)
  BY <1>1
<1>3. waited \in [Conns -> Nat] /\ deleted \in [Conns -> Nat]
  BY DEF List!Init
<1> QED
  BY <1>1, <1>2, <1>3, ConnsCounted DEF ListIInv, ListTypes, TurnComes

LEMMA GetNextIInv ==
  ASSUME ListIInv, List!getNextConn
  PROVE  ListIInv'
<1> DEFINE L == Len(connList_)
           i == IF next_ >= L THEN 0 ELSE next_
<1>1. /\ connList_ \in Seq(Conns) /\ L \in Nat /\ L <= N /\ N \in Nat /\ next_ \in 0..N
      /\ waited \in [Conns -> Nat] /\ deleted \in [Conns -> Nat]
      /\ \A j \in 1..L : connList_[j] \in Conns
  BY ConnsCounted, LenProperties DEF ListIInv, ListTypes
<1>2. connList_' = connList_
  BY DEF List!getNextConn
<1>3. CASE connList_ = <<>>
  <2>1. L = 0 /\ next_' = 0 /\ waited' = waited /\ deleted' = deleted
    BY <1>3, <1>1 DEF List!getNextConn
  <2> QED
    BY <1>1, <1>2, <2>1 DEF ListIInv, ListTypes, TurnComes
<1>4. CASE connList_ # <<>>
  <2> DEFINE p == connList_[i + 1]
  <2>1. /\ next_' = i + 1
        /\ waited' = [c \in Conns |-> IF c \in List!Listed \ {p} THEN waited[c] + 1 ELSE 0]
        /\ deleted' = [deleted EXCEPT ![p] = 0]
    BY <1>4 DEF List!getNextConn
  <2>2. L > 0
    BY <1>1, <1>4, EmptySeq
  <2>3. i \in 0..(L - 1) /\ i + 1 \in 1..L /\ p \in Conns
    BY <1>1, <2>2
  <2>4. waited' \in [Conns -> Nat] /\ deleted' \in [Conns -> Nat]
    <3>1. \A c \in Conns : waited[c] \in Nat /\ waited[c] + 1 \in Nat
      BY <1>1
    <3> HIDE DEF p
    <3> QED
      BY <1>1, <2>1, <3>1
  <2>5. next_' \in 0..N
    BY <1>1, <2>1, <2>3
  <2>6. ASSUME NEW j \in 1..L
        PROVE  waited'[connList_[j]] + Before(j, next_') < N * (1 + deleted'[connList_[j]])
    <3> DEFINE c == connList_[j]
    <3>1. c \in Conns /\ c \in List!Listed
      BY <1>1, ListedAt
    <3>2. CASE c = p
      <4>1. j = i + 1
        BY <2>3, <3>2 DEF ListIInv, ListTypes
      <4>2. waited'[c] = 0 /\ deleted'[c] = 0
        BY <1>1, <2>1, <3>1, <3>2
      <4>3. Before(j, next_') = N - 1
        BY <1>1, <2>1, <2>3, <4>1 DEF Before
      <4>4. N * (1 + 0) = N
        BY <1>1
      <4> QED
        BY <1>1, <4>2, <4>3, <4>4
    <3>3. CASE c # p
      <4>1. j # i + 1
        BY <3>3
      <4>2. waited'[c] = waited[c] + 1 /\ deleted'[c] = deleted[c]
        BY <1>1, <2>1, <3>1, <3>3
      <4>3. Before(j, next_') + 1 <= Before(j, next_)
        BY <1>1, <2>1, <2>3, <4>1 DEF Before
      <4>4. waited[c] + Before(j, next_) < N * (1 + deleted[c])
        BY DEF ListIInv, TurnComes
      <4>5. N * (1 + deleted[c]) \in Nat /\ waited[c] \in Nat
            /\ Before(j, next_) \in Int /\ Before(j, next_') \in Int
        <5>1. Before(j, next_) \in Int /\ Before(j, next_') \in Int
          BY <1>1, <2>5 DEF Before
        <5>2. deleted[c] \in Nat /\ waited[c] \in Nat
          BY <1>1, <3>1
        <5> QED
          BY <5>1, <5>2, Multiplied
      <4> QED
        BY <4>2, <4>3, <4>4, <4>5, Later
    <3> QED
      BY <3>2, <3>3
  <2> QED
    BY <1>1, <1>2, <2>4, <2>5, <2>6 DEF ListIInv, ListTypes, TurnComes
<1> QED
  BY <1>3, <1>4

LEMMA AddIInv ==
  ASSUME ListIInv, NEW p \in Conns, List!addConn(p)
  PROVE  ListIInv'
<1> DEFINE L == Len(connList_)
<1>1. /\ connList_ \in Seq(Conns) /\ L \in Nat /\ L <= N /\ N \in Nat /\ next_ \in 0..N
      /\ waited \in [Conns -> Nat] /\ deleted \in [Conns -> Nat]
      /\ \A j \in 1..L : connList_[j] \in Conns
  BY ConnsCounted, LenProperties DEF ListIInv, ListTypes
<1>2. /\ connList_' = Append(connList_, p) /\ next_' = next_
      /\ waited' = [waited EXCEPT ![p] = 0] /\ deleted' = [deleted EXCEPT ![p] = 0]
      /\ \A j \in 1..L : connList_[j] # p
  BY <1>1, ListedAt DEF List!addConn
<1>3. /\ connList_' \in Seq(Conns) /\ Len(connList_') = L + 1
      /\ connList_'[L + 1] = p /\ \A j \in 1..L : connList_'[j] = connList_[j]
  BY <1>1, <1>2, AppendProperties
<1>4. \A i, j \in 1..(L + 1) : connList_'[i] = connList_'[j] => i = j
  <2> SUFFICES ASSUME NEW i \in 1..(L + 1), NEW j \in 1..(L + 1),
                      connList_'[i] = connList_'[j]
               PROVE  i = j
    OBVIOUS
  <2>1. (i = L + 1 \/ i \in 1..L) /\ (j = L + 1 \/ j \in 1..L)
    BY <1>1
  <2> QED
    BY <1>2, <1>3, <2>1 DEF ListIInv, ListTypes
<1>5. L + 1 <= N
  BY <1>3, <1>4, DistinctIsShort
<1>6. ASSUME NEW j \in 1..(L + 1)
      PROVE  waited'[connList_'[j]] + Before(j, next_) < N * (1 + deleted'[connList_'[j]])
  <2>1. CASE j = L + 1
    <3>1. waited'[connList_'[j]] = 0 /\ deleted'[connList_'[j]] = 0
      BY <1>1, <1>2, <1>3, <2>1
    <3>2. Before(j, next_) < N /\ Before(j, next_) \in Int
      BY <1>1, <1>5, <2>1 DEF Before
    <3>3. N * (1 + 0) = N
      BY <1>1
    <3> QED
      BY <3>1, <3>2, <3>3
  <2>2. CASE j \in 1..L
    <3>1. connList_'[j] = connList_[j] /\ connList_[j] # p /\ connList_[j] \in Conns
      BY <1>1, <1>2, <1>3, <2>2
    <3>2. /\ waited'[connList_'[j]] = waited[connList_[j]]
          /\ deleted'[connList_'[j]] = deleted[connList_[j]]
      BY <1>1, <1>2, <3>1
    <3> QED
      BY <2>2, <3>2 DEF ListIInv, TurnComes
  <2> QED
    BY <1>1, <2>1, <2>2
<1>7. waited' \in [Conns -> Nat] /\ deleted' \in [Conns -> Nat]
  BY <1>1, <1>2
<1> QED
  BY <1>1, <1>2, <1>3, <1>4, <1>5, <1>6, <1>7 DEF ListIInv, ListTypes, TurnComes

LEMMA DelIInv ==
  ASSUME ListIInv, NEW p \in Conns, List!delConn(p)
  PROVE  ListIInv'
<1> DEFINE L == Len(connList_)
<1>1. /\ connList_ \in Seq(Conns) /\ L \in Nat /\ L <= N /\ N \in Nat /\ next_ \in 0..N
      /\ waited \in [Conns -> Nat] /\ deleted \in [Conns -> Nat]
      /\ \A j \in 1..L : connList_[j] \in Conns
  BY ConnsCounted, LenProperties DEF ListIInv, ListTypes
<1>2. next_' = next_ /\ waited' = waited
  BY DEF List!delConn
<1>3. CASE UNCHANGED <<connList_, deleted>>
  BY <1>2, <1>3 DEF ListIInv, ListTypes, TurnComes
<1>4. ASSUME NEW i \in 1..L, connList_[i] = p,
             connList_' = List!RemoveAt(connList_, i),
             deleted' = [c \in Conns |->
               IF c \in List!Listed \ {p} THEN deleted[c] + 1 ELSE deleted[c]]
      PROVE  ListIInv'
  <2>1. /\ connList_' \in Seq(Conns) /\ Len(connList_') = L - 1
        /\ \A j \in 1..(L - 1) :
             connList_'[j] = IF j < i THEN connList_[j] ELSE connList_[j + 1]
    BY <1>1, <1>4, AtRemoved
  <2>2. deleted' \in [Conns -> Nat]
    BY <1>1, <1>4
  <2>5. \A j \in 1..(L - 1) : \E m \in 1..L :
          /\ connList_'[j] = connList_[m] /\ m # i
          /\ (j < i /\ m = j) \/ (~(j < i) /\ m = j + 1)
    <3>1. connList_' = List!RemoveAt(connList_, i) /\ connList_ \in Seq(Conns)
      BY <1>1, <1>4
    <3>2. i \in 1..Len(connList_)
      BY <1>4
    <3>3. \A j \in 1..(Len(connList_) - 1) : \E m \in 1..Len(connList_) :
            /\ List!RemoveAt(connList_, i)[j] = connList_[m] /\ m # i
            /\ (j < i /\ m = j) \/ (~(j < i) /\ m = j + 1)
      BY <3>1, <3>2, WhereItWas
    <3> QED
      BY <3>1, <3>3
  <2>3. \A j, k \in 1..(L - 1) : connList_'[j] = connList_'[k] => j = k
    <3> SUFFICES ASSUME NEW j \in 1..(L - 1), NEW k \in 1..(L - 1),
                        connList_'[j] = connList_'[k]
                 PROVE  j = k
      OBVIOUS
    <3>1. PICK m \in 1..L : /\ connList_'[j] = connList_[m]
                            /\ (j < i /\ m = j) \/ (~(j < i) /\ m = j + 1)
      BY <2>5
    <3>2. PICK n \in 1..L : /\ connList_'[k] = connList_[n]
                            /\ (k < i /\ n = k) \/ (~(k < i) /\ n = k + 1)
      BY <2>5
    <3>3. m = n
      BY <3>1, <3>2 DEF ListIInv, ListTypes
    <3> QED
      <4>1. j \in Int /\ k \in Int /\ i \in Int
        BY <1>1
      <4> HIDE DEF L
      <4> QED
        BY <3>1, <3>2, <3>3, <4>1
  <2>4. ASSUME NEW j \in 1..(L - 1)
        PROVE  waited[connList_'[j]] + Before(j, next_) < N * (1 + deleted'[connList_'[j]])
    <3>1. PICK was \in 1..L : /\ connList_'[j] = connList_[was] /\ was # i
                              /\ was \in {j, j + 1}
      BY <2>5
    <3> DEFINE c == connList_[was]
    <3>2. c \in Conns /\ c \in List!Listed /\ c # p
      BY <1>1, <1>4, <3>1, ListedAt DEF ListIInv, ListTypes
    <3>3. deleted'[c] = deleted[c] + 1 /\ deleted[c] \in Nat /\ waited[c] \in Nat
      BY <1>1, <1>4, <3>2
    <3>4. waited[c] + Before(was, next_) < N * (1 + deleted[c])
      BY <3>1 DEF ListIInv, TurnComes
    <3>5. /\ Before(j, next_) \in Int /\ Before(was, next_) \in Int
          /\ Before(j, next_) <= Before(was, next_) + N
      <4>1. CASE was = j
        BY <1>1, <4>1 DEF Before
      <4>2. CASE was = j + 1
        BY <1>1, <4>2 DEF Before
      <4> QED
        BY <3>1, <4>1, <4>2
    <3>6. /\ N * (1 + (deleted[c] + 1)) = N * (1 + deleted[c]) + N
          /\ N * (1 + deleted[c]) \in Nat
      BY <3>3, OneMoreDeletion, Multiplied
    <3> QED
      <4>1. waited[c] + Before(j, next_) < N * (1 + deleted[c]) + N
        <5> DEFINE m == N * (1 + deleted[c])
        <5>1. m \in Int /\ waited[c] + Before(was, next_) < m
          BY <3>4, <3>6
        <5> HIDE DEF m
        <5>2. waited[c] + Before(j, next_) < m + N
          <6>1. N \in Int /\ Before(j, next_) \in Int /\ Before(was, next_) \in Int
                /\ waited[c] \in Int
            BY <1>1, <3>3, <3>5
          <6> HIDE DEF c
          <6> QED
            BY <3>5, <5>1, <6>1, Deleted
        <5> QED
          BY <5>2 DEF m
      <4> QED
        BY <1>2, <3>1, <3>3, <3>6, <4>1
  <2>6. ListTypes'
    <3>1. L - 1 <= N
      BY <1>1
    <3> QED
      BY <1>1, <1>2, <2>1, <2>2, <2>3, <3>1 DEF ListTypes
  <2>7. TurnComes'
    BY <1>2, <2>1, <2>4 DEF TurnComes
  <2> QED
    BY <2>6, <2>7 DEF ListIInv
<1> QED
  <2>1. DOMAIN connList_ = 1..L
    BY <1>1
  <2> QED
    BY <1>3, <1>4, <2>1 DEF List!delConn

-----------------------------------------------------------------------------
(* Whatever is added and deleted meanwhile, a connection of the list is     *)
(* returned after as many calls of getNextConn() as there can be            *)
(* connections, and as many again for each that was deleted.                *)
THEOREM NoneIsLeftOut == List!Spec => []ServedInTurn
<1>1. ListIInv /\ [List!Next]_(List!vars) => ListIInv'
  <2> SUFFICES ASSUME ListIInv, [List!Next]_(List!vars) PROVE ListIInv'
    OBVIOUS
  <2>1. CASE UNCHANGED List!vars
    BY <2>1 DEF List!vars, ListIInv, ListTypes, TurnComes
  <2> QED
    BY <2>1, GetNextIInv, AddIInv, DelIInv DEF List!Next
<1>2. ListIInv => ServedInTurn
  <2> SUFFICES ASSUME ListIInv, NEW c \in List!Listed
               PROVE  waited[c] < N * (1 + deleted[c])
    BY DEF ServedInTurn, List!ServedInTurn, N, List!Cardinality, Cardinality
  <2>1. /\ connList_ \in Seq(Conns) /\ Len(connList_) \in Nat
        /\ Len(connList_) <= N /\ N \in Nat /\ next_ \in 0..N
        /\ waited \in [Conns -> Nat] /\ deleted \in [Conns -> Nat]
        /\ \A j \in 1..Len(connList_) : connList_[j] \in Conns
    BY ConnsCounted, LenProperties DEF ListIInv, ListTypes
  <2>2. PICK i \in 1..Len(connList_) : c = connList_[i]
    BY <2>1, ListedAt
  <2>3. Before(i, next_) \in Nat
    BY <2>1 DEF Before
  <2>4. waited[c] \in Nat /\ N * (1 + deleted[c]) \in Nat
    BY <2>1, <2>2, Multiplied
  <2>5. waited[c] + Before(i, next_) < N * (1 + deleted[c])
    BY <2>2 DEF ListIInv, TurnComes
  <2> QED
    BY <2>3, <2>4, <2>5
<1> QED
  BY <1>1, <1>2, ListInitIInv, PTL DEF List!Spec

(***************************************************************************)
(* EventLoopThreadPool: a caller alone in getNextLoop() gets a loop.       *)
(***************************************************************************)

PoolTypes ==
  /\ loop_ \in Nat
  /\ step \in [Callers -> {"none", "reset", "read", "write"}]
  /\ index \in [Callers -> Nat]
  /\ overlapped \in [Callers -> BOOLEAN]

(* A caller that no other met is alone inside.  It has left next_ at a loop *)
(* when it comes to read it, and holds what it read when it comes to write. *)
Lone(t) == step[t] # "none" /\ ~overlapped[t]

PoolIInv ==
  /\ PoolTypes
  /\ \A t, s \in Callers : Lone(t) /\ step[s] # "none" => s = t
  /\ \A t \in Callers : Lone(t) /\ step[t] = "read" => loop_ < Threads
  /\ \A t \in Callers : Lone(t) /\ step[t] = "write" => index[t] < Threads

LEMMA PoolInitIInv == Pool!Init => PoolIInv
  BY DEF Pool!Init, PoolIInv, PoolTypes, Lone

LEMMA PoolNextIInv == Threads \in Nat \ {0} /\ PoolIInv /\ [Pool!Next]_(Pool!vars) => PoolIInv'
<1> SUFFICES ASSUME Threads \in Nat \ {0}, PoolIInv, [Pool!Next]_(Pool!vars) PROVE PoolIInv'
  OBVIOUS
<1> USE DEF PoolIInv, PoolTypes, Lone
<1>1. ASSUME NEW t \in Callers, Pool!Test(t) PROVE PoolIInv'
  <2>1. PoolTypes'
    BY <1>1 DEF Pool!Test
  <2>2. \A s \in Callers : step'[s] = IF s = t THEN step'[t] ELSE step[s]
    BY <1>1 DEF Pool!Test
  <2>3. \A s \in Callers : Lone(s)' => s = t
    BY <1>1, <2>2 DEF Pool!Test, Pool!Inside
  <2>4. Lone(t)' => \A s \in Callers : step[s] = "none"
    BY <1>1 DEF Pool!Test, Pool!Inside
  <2>5. step'[t] = "read" => loop_' < Threads
    BY <1>1 DEF Pool!Test
  <2>6. step'[t] \in {"reset", "read"}
    BY <1>1 DEF Pool!Test
  <2> QED
    BY <2>1, <2>2, <2>3, <2>4, <2>5, <2>6
<1>2. ASSUME NEW t \in Callers, Pool!Reset(t) PROVE PoolIInv'
  BY <1>2 DEF Pool!Reset
<1>3. ASSUME NEW t \in Callers, Pool!Read(t) PROVE PoolIInv'
  BY <1>3 DEF Pool!Read
<1>4. ASSUME NEW t \in Callers, Pool!Write(t) PROVE PoolIInv'
  BY <1>4 DEF Pool!Write
<1>5. CASE UNCHANGED Pool!vars
  BY <1>5 DEF Pool!vars
<1> QED
  BY <1>1, <1>2, <1>3, <1>4, <1>5 DEF Pool!Next

(* With at least one thread in the pool, a caller that nobody else was in   *)
(* getNextLoop() with indexes threads_ within its bounds.                   *)
THEOREM LoneCallerGetsLoop == Threads \in Nat \ {0} => (Pool!Spec => []IndexInRange)
<1> SUFFICES ASSUME Threads \in Nat \ {0} PROVE Pool!Spec => []IndexInRange
  OBVIOUS
<1>1. PoolIInv => IndexInRange
  BY DEF PoolIInv, IndexInRange, Pool!IndexInRange, Lone
<1>2. PoolIInv /\ [Pool!Next]_(Pool!vars) => PoolIInv'
  BY PoolNextIInv
<1> QED
  BY <1>1, <1>2, PoolInitIInv, PTL DEF Pool!Spec

(***************************************************************************)
(* LogFile: what is logged, and where it is.                               *)
(*                                                                         *)
(* A step of append() passes the name of the file, the buffer of its FILE, *)
(* the files and the lost records through several stages.  Good says what  *)
(* is true of them between any two stages; what one stage does to it is a  *)
(* lemma about values, and the steps of the specification put them         *)
(* together.                                                               *)
(***************************************************************************)

(* Quotient and remainder, and multiples that are not the same. *)
LEMMA Division ==
  ASSUME NEW g \in Nat, NEW d \in Nat \ {0}
  PROVE  /\ g \div d \in Nat /\ g % d \in 0..(d - 1)
         /\ g = d * (g \div d) + (g % d)
OBVIOUS

LEMMA Multiples ==
  ASSUME NEW d \in Nat \ {0}, NEW k \in Int, NEW j \in Int, k < j
  PROVE  d * k + d <= d * j
<1>1. j - k - 1 \in Nat
  OBVIOUS
<1>2. d * (j - k - 1) \in Nat
  BY <1>1
<1>3. d * (j - k - 1) = d * j - d * k - d
  OBVIOUS
<1> QED
  BY <1>2, <1>3

(* Two times no further apart than MaxGap are on fewer than DaysPerMonth    *)
(* different days: if the day of the month is the same, so is the day.      *)
LEMMA SameMonthDay ==
  ASSUME NEW g \in Nat, NEW b \in Nat, g <= b, b - g <= MaxGap,
         Log!MonthDay(g) = Log!MonthDay(b)
  PROVE  Log!Day(g) = Log!Day(b)
<1>1. PICK d \in Nat \ {0}, n \in Nat \ {0} : d = SecondsPerDay /\ n = DaysPerMonth
  BY ClockAssumption
<1>2. b - g <= (n - 1) * d
  <2>1. (n - 1) * d \in Nat /\ MaxGap \in Nat
    BY ClockAssumption
  <2> QED
    BY <1>1, <2>1, GapAssumption
<1>3. (g \div d) % n = (b \div d) % n
  BY <1>1 DEF Log!MonthDay, Log!Day
<1>4. PICK x \in Nat, y \in Nat : x = g \div d /\ y = b \div d
  BY Division
<1>5. PICK r \in 0..(d - 1), t \in 0..(d - 1) : g = d * x + r /\ b = d * y + t
  <2>1. /\ g % d \in 0..(d - 1) /\ b % d \in 0..(d - 1)
        /\ g = d * (g \div d) + (g % d) /\ b = d * (b \div d) + (b % d)
    BY Division
  <2> QED
    BY <1>4, <2>1
<1>6. x <= y
  <2> SUFFICES ASSUME y < x PROVE FALSE
    BY <1>4
  <2>1. d * y + d <= d * x
    BY <1>4, Multiples
  <2>2. d * x \in Nat /\ d * y \in Nat
    OBVIOUS
  <2>3. \A p, q \in Nat : g = p + r /\ b = q + t /\ q + d <= p => FALSE
    OBVIOUS
  <2> QED
    BY <1>5, <2>1, <2>2, <2>3
<1>7. y - x < n
  <2> SUFFICES ASSUME n <= y - x PROVE FALSE
    BY <1>4
  <2>1. d * (x + n - 1) + d <= d * y
    BY <1>4, Multiples
  <2>2. d * (x + n - 1) = d * x + (n - 1) * d
    BY <1>4
  <2>3. d * x \in Nat /\ d * y \in Nat /\ (n - 1) * d \in Nat
    BY <1>4
  <2>4. \A p, q, o \in Nat : g = p + r /\ b = q + t /\ b - g <= o /\ p + o + d <= q => FALSE
    OBVIOUS
  <2> QED
    BY <1>5, <1>2, <2>1, <2>2, <2>3, <2>4
<1>8. PICK u \in Nat, v \in Nat, m \in 0..(n - 1) : x = n * u + m /\ y = n * v + m
  <2>1. /\ x % n \in 0..(n - 1) /\ x \div n \in Nat /\ y \div n \in Nat
        /\ x = n * (x \div n) + (x % n) /\ y = n * (y \div n) + (y % n)
    BY Division
  <2>2. x % n = y % n
    BY <1>4, <1>3
  <2> QED
    BY <2>1, <2>2
<1>9. \A p, q, z \in Nat : p + n <= q /\ z < n => ~(q + m - (p + m) <= z)
  OBVIOUS
<1>10. n * u \in Nat /\ n * v \in Nat
  OBVIOUS
<1>11. u = v
  <2>1. ASSUME u < v PROVE FALSE
    <3>1. n * u + n <= n * v
      BY <2>1, Multiples
    <3> QED
      BY <1>6, <1>7, <1>8, <1>9, <1>10, <3>1
  <2>2. ASSUME v < u PROVE FALSE
    <3>1. n * v + n <= n * u
      BY <2>2, Multiples
    <3> QED
      BY <1>6, <1>8, <1>10, <3>1
  <2> QED
    BY <2>1, <2>2
<1> QED
  BY <1>1, <1>4, <1>8, <1>11 DEF Log!Day

-----------------------------------------------------------------------------
(* What a concatenation contains, and in which order. *)

LEMMA ToSetConcat ==
  ASSUME NEW S, NEW s \in Seq(S), NEW t \in Seq(S)
  PROVE  Log!ToSet(s \o t) = Log!ToSet(s) \cup Log!ToSet(t)
<1>1. /\ s \o t \in Seq(S) /\ Len(s \o t) = Len(s) + Len(t)
      /\ \A i \in 1..(Len(s) + Len(t)) :
           (s \o t)[i] = IF i <= Len(s) THEN s[i] ELSE t[i - Len(s)]
  BY ConcatProperties
<1>2. Len(s) \in Nat /\ Len(t) \in Nat /\ DOMAIN s = 1..Len(s) /\ DOMAIN t = 1..Len(t)
      /\ DOMAIN (s \o t) = 1..(Len(s) + Len(t))
  BY <1>1, LenProperties
<1>3. ASSUME NEW x \in Log!ToSet(s \o t) PROVE x \in Log!ToSet(s) \cup Log!ToSet(t)
  BY <1>1, <1>2 DEF Log!ToSet
<1>4. ASSUME NEW x \in Log!ToSet(s) PROVE x \in Log!ToSet(s \o t)
  <2>1. PICK i \in 1..Len(s) : x = s[i]
    BY <1>2 DEF Log!ToSet
  <2>2. i \in DOMAIN (s \o t) /\ (s \o t)[i] = x
    BY <1>1, <1>2, <2>1
  <2> QED
    BY <2>2 DEF Log!ToSet
<1>5. ASSUME NEW x \in Log!ToSet(t) PROVE x \in Log!ToSet(s \o t)
  <2>1. PICK i \in 1..Len(t) : x = t[i]
    BY <1>2 DEF Log!ToSet
  <2>2. i + Len(s) \in DOMAIN (s \o t) /\ (s \o t)[i + Len(s)] = x
    BY <1>1, <1>2, <2>1
  <2> QED
    BY <2>2 DEF Log!ToSet
<1> QED
  BY <1>3, <1>4, <1>5

LEMMA ToSetOne == ASSUME NEW e PROVE Log!ToSet(<<e>>) = {e} /\ Log!ToSet(<<>>) = {}
BY DEF Log!ToSet

LEMMA ToSetIn ==
  ASSUME NEW S, NEW s \in Seq(S)
  PROVE  Log!ToSet(s) \subseteq S /\ (s # <<>> => Log!ToSet(s) # {})
<1>1. DOMAIN s = 1..Len(s) /\ Len(s) \in Nat /\ \A i \in 1..Len(s) : s[i] \in S
  BY LenProperties, ElementOfSeq
<1>2. s # <<>> => 1 \in DOMAIN s
  BY <1>1, EmptySeq
<1> QED
  BY <1>1, <1>2 DEF Log!ToSet

(* x stands before y in s *)
LEMMA PairsIs ==
  ASSUME NEW S, NEW s \in Seq(S), NEW x, NEW y
  PROVE  <<x, y>> \in Log!Pairs(s) <=>
           \E i, j \in 1..Len(s) : i < j /\ s[i] = x /\ s[j] = y
<1>1. DOMAIN s = 1..Len(s) /\ Len(s) \in Nat
  BY LenProperties
<1>2. ASSUME <<x, y>> \in Log!Pairs(s)
      PROVE  \E i, j \in 1..Len(s) : i < j /\ s[i] = x /\ s[j] = y
  <2>1. PICK j \in DOMAIN s : \E i \in 1..(j - 1) : <<x, y>> = <<s[i], s[j]>>
    BY <1>2 DEF Log!Pairs
  <2>2. PICK i \in 1..(j - 1) : <<x, y>> = <<s[i], s[j]>>
    BY <2>1
  <2> QED
    BY <1>1, <2>1, <2>2
<1>3. ASSUME NEW i \in 1..Len(s), NEW j \in 1..Len(s), i < j, s[i] = x, s[j] = y
      PROVE  <<x, y>> \in Log!Pairs(s)
  <2>1. i \in 1..(j - 1) /\ j \in DOMAIN s /\ i \in DOMAIN s
    BY <1>1, <1>3
  <2>2. s[i] \in Log!ToSet(s) /\ s[j] \in Log!ToSet(s)
    BY <2>1 DEF Log!ToSet
  <2> QED
    BY <1>3, <2>1, <2>2 DEF Log!Pairs
<1> QED
  BY <1>2, <1>3

LEMMA PairsConcat ==
  ASSUME NEW S, NEW s \in Seq(S), NEW t \in Seq(S), NEW x, NEW y
  PROVE  <<x, y>> \in Log!Pairs(s \o t) <=>
           \/ <<x, y>> \in Log!Pairs(s) \/ <<x, y>> \in Log!Pairs(t)
           \/ x \in Log!ToSet(s) /\ y \in Log!ToSet(t)
<1> DEFINE n == Len(s)  m == Len(t)  u == s \o t
<1>1. /\ u \in Seq(S) /\ Len(u) = n + m
      /\ \A i \in 1..(n + m) : u[i] = IF i <= n THEN s[i] ELSE t[i - n]
  BY ConcatProperties
<1>2. n \in Nat /\ m \in Nat /\ DOMAIN s = 1..n /\ DOMAIN t = 1..m
  BY LenProperties
<1>3. /\ <<x, y>> \in Log!Pairs(u) <=>
           \E i, j \in 1..(n + m) : i < j /\ u[i] = x /\ u[j] = y
      /\ <<x, y>> \in Log!Pairs(s) <=> \E i, j \in 1..n : i < j /\ s[i] = x /\ s[j] = y
      /\ <<x, y>> \in Log!Pairs(t) <=> \E i, j \in 1..m : i < j /\ t[i] = x /\ t[j] = y
  <2>0. \A v \in Seq(S) : <<x, y>> \in Log!Pairs(v) <=>
           \E i, j \in 1..Len(v) : i < j /\ v[i] = x /\ v[j] = y
    BY PairsIs
  <2>1. u \in Seq(S) /\ Len(u) = n + m
    BY <1>1
  <2> HIDE DEF u
  <2>2. <<x, y>> \in Log!Pairs(u) <=>
           \E i, j \in 1..Len(u) : i < j /\ u[i] = x /\ u[j] = y
    BY <2>0, <2>1
  <2>3. <<x, y>> \in Log!Pairs(s) <=> \E i, j \in 1..n : i < j /\ s[i] = x /\ s[j] = y
    BY PairsIs
  <2>4. <<x, y>> \in Log!Pairs(t) <=> \E i, j \in 1..m : i < j /\ t[i] = x /\ t[j] = y
    BY PairsIs
  <2> QED
    BY <2>1, <2>2, <2>3, <2>4
<1>4. /\ x \in Log!ToSet(s) <=> \E i \in 1..n : s[i] = x
      /\ y \in Log!ToSet(t) <=> \E i \in 1..m : t[i] = y
  BY <1>2 DEF Log!ToSet
<1> HIDE DEF n, m, u
<1>5. ASSUME NEW i \in 1..(n + m), NEW j \in 1..(n + m), i < j, u[i] = x, u[j] = y
      PROVE  \/ <<x, y>> \in Log!Pairs(s) \/ <<x, y>> \in Log!Pairs(t)
             \/ x \in Log!ToSet(s) /\ y \in Log!ToSet(t)
  <2>1. CASE j <= n
    <3>1. i \in 1..n /\ j \in 1..n /\ s[i] = x /\ s[j] = y
      BY <1>1, <1>2, <1>5, <2>1
    <3> QED
      BY <1>3, <1>5, <3>1
  <2>2. CASE i <= n /\ n < j
    <3>1. i \in 1..n /\ j - n \in 1..m /\ s[i] = x /\ t[j - n] = y
      BY <1>1, <1>2, <1>5, <2>2
    <3> QED
      BY <1>4, <3>1
  <2>3. CASE n < i
    <3>1. i - n \in 1..m /\ j - n \in 1..m /\ i - n < j - n /\ t[i - n] = x /\ t[j - n] = y
      BY <1>1, <1>2, <1>5, <2>3
    <3> QED
      BY <1>3, <3>1
  <2> QED
    BY <1>2, <1>5, <2>1, <2>2, <2>3
<1>6. ASSUME <<x, y>> \in Log!Pairs(s) PROVE <<x, y>> \in Log!Pairs(u)
  <2>1. PICK i \in 1..n, j \in 1..n : i < j /\ s[i] = x /\ s[j] = y
    BY <1>3, <1>6
  <2>2. i \in 1..(n + m) /\ j \in 1..(n + m) /\ u[i] = x /\ u[j] = y
    BY <1>1, <1>2, <2>1
  <2> QED
    BY <1>3, <2>1, <2>2
<1>7. ASSUME <<x, y>> \in Log!Pairs(t) PROVE <<x, y>> \in Log!Pairs(u)
  <2>1. PICK i \in 1..m, j \in 1..m : i < j /\ t[i] = x /\ t[j] = y
    BY <1>3, <1>7
  <2>2. /\ i + n \in 1..(n + m) /\ j + n \in 1..(n + m) /\ i + n < j + n
        /\ u[i + n] = x /\ u[j + n] = y
    BY <1>1, <1>2, <2>1
  <2> QED
    BY <1>3, <2>2
<1>8. ASSUME x \in Log!ToSet(s), y \in Log!ToSet(t) PROVE <<x, y>> \in Log!Pairs(u)
  <2>1. PICK i \in 1..n, j \in 1..m : s[i] = x /\ t[j] = y
    BY <1>4, <1>8
  <2>2. /\ i \in 1..(n + m) /\ j + n \in 1..(n + m) /\ i < j + n
    BY <1>2, <2>1
  <2>3. u[i] = x
    BY <1>1, <1>2, <2>1, <2>2
  <2>4. ~(j + n <= n) /\ (j + n) - n = j
    BY <1>2, <2>1
  <2>5. u[j + n] = y
    BY <1>1, <2>1, <2>2, <2>4
  <2> QED
    BY <1>3, <2>2, <2>3, <2>5
<1>9. <<x, y>> \in Log!Pairs(u) =>
        \/ <<x, y>> \in Log!Pairs(s) \/ <<x, y>> \in Log!Pairs(t)
        \/ x \in Log!ToSet(s) /\ y \in Log!ToSet(t)
  BY <1>3, <1>5
<1>10. <<x, y>> \in Log!Pairs(s \o t) <=> <<x, y>> \in Log!Pairs(u)
  BY DEF u
<1> QED
  BY <1>6, <1>7, <1>8, <1>9, <1>10

LEMMA PairsOne == ASSUME NEW e PROVE Log!Pairs(<<e>>) = {} /\ Log!Pairs(<<>>) = {}
<1>1. DOMAIN <<e>> = {1} /\ DOMAIN <<>> = {}
  OBVIOUS
<1>2. \A j \in {1} : 1..(j - 1) = {}
  OBVIOUS
<1> QED
  BY <1>1, <1>2 DEF Log!Pairs

-----------------------------------------------------------------------------
(* What is true between two stages *)

(* All the files, by their names. *)
Disks == UNION {[D -> Seq(Records)] : D \in SUBSET Nat}

LEMMA DiskType ==
  ASSUME NEW d \in Disks
  PROVE  DOMAIN d \subseteq Nat /\ \A n \in DOMAIN d : d[n] \in Seq(Records)
BY DEF Disks

LEMMA WithType ==
  ASSUME NEW d \in Disks, NEW n \in Nat, NEW q \in Seq(Records)
  PROVE  /\ Log!With(d, n, q) \in Disks
         /\ DOMAIN Log!With(d, n, q) = DOMAIN d \cup {n}
         /\ Log!With(d, n, q)[n] = q
         /\ \A m \in DOMAIN d : m # n => Log!With(d, n, q)[m] = d[m]
<1>1. DOMAIN d \cup {n} \in SUBSET Nat /\ \A m \in DOMAIN d : d[m] \in Seq(Records)
  BY DiskType
<1>2. Log!With(d, n, q) \in [DOMAIN d \cup {n} -> Seq(Records)]
  BY <1>1 DEF Log!With
<1>3. Log!With(d, n, q) \in Disks
  BY <1>1, <1>2 DEF Disks
<1> QED
  BY <1>2, <1>3 DEF Log!With

LEMMA WithoutType ==
  ASSUME NEW d \in Disks, NEW old
  PROVE  /\ Log!Without(d, old) \in Disks
         /\ DOMAIN Log!Without(d, old) = DOMAIN d \ old
         /\ \A m \in DOMAIN d \ old : Log!Without(d, old)[m] = d[m]
<1>1. DOMAIN d \ old \in SUBSET Nat /\ \A m \in DOMAIN d : d[m] \in Seq(Records)
  BY DiskType
<1>2. Log!Without(d, old) \in [DOMAIN d \ old -> Seq(Records)]
  BY <1>1 DEF Log!Without
<1>3. Log!Without(d, old) \in Disks
  BY <1>1, <1>2 DEF Disks
<1> QED
  BY <1>2, <1>3 DEF Log!Without

(* What holds of the name nm of the current file, the buffer b of its FILE, *)
(* the files d and the lost records l, when the records A have been logged, *)
(* in the order P and at the times T, all until t.                          *)
(* The current file is the last one, and a buffer belongs to a file.        *)
Shaped(nm, b, d, l, t) ==
  /\ nm \in Nat \cup {none} /\ b \in Seq(Records) /\ d \in Disks /\ l \subseteq Records
  /\ nm # none => nm <= t
  /\ b # <<>> => nm # none
  /\ \A n \in DOMAIN d : n <= t /\ (nm # none => n <= nm)

(* Files and buffer, in the order of their names, keep the order of P. *)
Ordered(b, d, P) ==
  /\ \A x, y : <<x, y>> \in Log!Pairs(b) => <<x, y>> \in P
  /\ \A n \in DOMAIN d : \A x, y : <<x, y>> \in Log!Pairs(d[n]) => <<x, y>> \in P
  /\ \A n \in DOMAIN d : \A x \in Log!ToSet(d[n]), y \in Log!ToSet(b) : <<x, y>> \in P
  /\ \A n, m \in DOMAIN d :
       n < m => \A x \in Log!ToSet(d[n]), y \in Log!ToSet(d[m]) : <<x, y>> \in P

(* Everything is in the file of its day. *)
Dated(nm, b, d, T) ==
  /\ \A n \in DOMAIN d : \A r \in Log!ToSet(d[n]) : T[r] \in Nat /\ Log!Day(T[r]) = Log!Day(n)
  /\ \A r \in Log!ToSet(b) : T[r] \in Nat /\ Log!Day(T[r]) = Log!Day(nm)

(* Every record is in a file, in the buffer, or lost, and never lost as well. *)
Accounted(b, d, l, A) ==
  /\ \A r \in A : r \in l \/ r \in Log!ToSet(b) \/ \E n \in DOMAIN d : r \in Log!ToSet(d[n])
  /\ l \subseteq A
  /\ \A r \in Log!ToSet(b) : r \in A /\ r \notin l
  /\ \A n \in DOMAIN d : \A r \in Log!ToSet(d[n]) : r \in A /\ r \notin l

(* No record comes before itself: none is logged twice. *)
Strict(P) == \A x \in Records : <<x, x>> \notin P

Good(nm, b, d, l, T, P, A, t) ==
  /\ Shaped(nm, b, d, l, t) /\ Ordered(b, d, P) /\ Dated(nm, b, d, T)
  /\ Accounted(b, d, l, A)

(* The first records of the buffer are written to the file. *)
LEMMA WriteGood ==
  ASSUME NEW nm, NEW d, NEW l, NEW T, NEW P, NEW A, NEW t,
         NEW q \in Seq(Records), NEW b \in Seq(Records),
         Good(nm, q \o b, d, l, T, P, A, t), nm \in DOMAIN d
  PROVE  Good(nm, b, Log!With(d, nm, d[nm] \o q), l, T, P, A, t)
<1> DEFINE e == Log!With(d, nm, d[nm] \o q)
<1>1. /\ d \in Disks /\ DOMAIN d \subseteq Nat /\ nm \in Nat /\ nm # none
      /\ d[nm] \in Seq(Records) /\ l \subseteq Records /\ nm <= t
      /\ \A n \in DOMAIN d : n <= t /\ n <= nm
  BY DiskType, NoneAssumption DEF Good, Shaped
<1>2. d[nm] \o q \in Seq(Records)
  BY <1>1, ConcatProperties
<1>3. e \in Disks /\ DOMAIN e = DOMAIN d /\ e[nm] = d[nm] \o q
      /\ \A m \in DOMAIN d : m # nm => e[m] = d[m]
  <2>1. \A w \in Seq(Records) :
          /\ Log!With(d, nm, w) \in Disks /\ DOMAIN Log!With(d, nm, w) = DOMAIN d \cup {nm}
          /\ Log!With(d, nm, w)[nm] = w
          /\ \A m \in DOMAIN d : m # nm => Log!With(d, nm, w)[m] = d[m]
    BY <1>1, WithType, ZenonT(30)
  <2> QED
    BY <1>2, <2>1
<1>4. /\ Log!ToSet(q \o b) = Log!ToSet(q) \cup Log!ToSet(b)
      /\ Log!ToSet(d[nm] \o q) = Log!ToSet(d[nm]) \cup Log!ToSet(q)
      /\ \A x, y : <<x, y>> \in Log!Pairs(q \o b) <=>
           \/ <<x, y>> \in Log!Pairs(q) \/ <<x, y>> \in Log!Pairs(b)
           \/ x \in Log!ToSet(q) /\ y \in Log!ToSet(b)
      /\ \A x, y : <<x, y>> \in Log!Pairs(d[nm] \o q) <=>
           \/ <<x, y>> \in Log!Pairs(d[nm]) \/ <<x, y>> \in Log!Pairs(q)
           \/ x \in Log!ToSet(d[nm]) /\ y \in Log!ToSet(q)
  BY <1>1, ToSetConcat, PairsConcat
<1>5. Log!ToSet(e[nm]) = Log!ToSet(d[nm]) \cup Log!ToSet(q)
  BY <1>3, <1>4
<1> HIDE DEF e
<1>6. Shaped(nm, b, e, l, t)
  BY <1>1, <1>3 DEF Shaped
<1>7. Ordered(b, e, P)
  <2>1. Ordered(q \o b, d, P)
    BY DEF Good
  <2>2. \A x, y : <<x, y>> \in Log!Pairs(b) => <<x, y>> \in P
    BY <2>1, <1>4 DEF Ordered
  <2>3. ASSUME NEW n \in DOMAIN e, NEW x, NEW y, <<x, y>> \in Log!Pairs(e[n])
        PROVE  <<x, y>> \in P
    BY <2>1, <2>3, <1>3, <1>4 DEF Ordered
  <2>4. ASSUME NEW n \in DOMAIN e, NEW x \in Log!ToSet(e[n]), NEW y \in Log!ToSet(b)
        PROVE  <<x, y>> \in P
    <3>1. CASE n = nm /\ x \in Log!ToSet(q)
      BY <2>1, <2>4, <3>1, <1>4 DEF Ordered
    <3>2. CASE x \in Log!ToSet(d[n])
      BY <2>1, <2>4, <3>2, <1>3, <1>4 DEF Ordered
    <3> QED
      BY <2>4, <3>1, <3>2, <1>3, <1>5
  <2>5. ASSUME NEW n \in DOMAIN e, NEW m \in DOMAIN e, n < m,
               NEW x \in Log!ToSet(e[n]), NEW y \in Log!ToSet(e[m])
        PROVE  <<x, y>> \in P
    <3>1. n # nm /\ n \in DOMAIN d /\ m \in DOMAIN d /\ x \in Log!ToSet(d[n])
      BY <2>5, <1>1, <1>3
    <3>2. CASE m = nm /\ y \in Log!ToSet(q)
      BY <2>1, <3>1, <3>2, <1>4 DEF Ordered
    <3>3. CASE y \in Log!ToSet(d[m])
      BY <2>1, <2>5, <3>1, <3>3 DEF Ordered
    <3> QED
      BY <2>5, <3>2, <3>3, <1>3, <1>5
  <2> QED
    BY <2>2, <2>3, <2>4, <2>5 DEF Ordered
<1>8. Dated(nm, b, e, T)
  BY <1>3, <1>4, <1>5 DEF Good, Dated
<1>9. Accounted(b, e, l, A)
  <2>1. Accounted(q \o b, d, l, A)
    BY DEF Good
  <2>2. ASSUME NEW r \in A, r \notin l, r \notin Log!ToSet(b)
        PROVE  \E n \in DOMAIN e : r \in Log!ToSet(e[n])
    BY <2>1, <2>2, <1>3, <1>4, <1>5 DEF Accounted
  <2>3. ASSUME NEW n \in DOMAIN e, NEW r \in Log!ToSet(e[n]) PROVE r \in A /\ r \notin l
    BY <2>1, <2>3, <1>3, <1>4, <1>5 DEF Accounted
  <2> QED
    BY <2>1, <2>2, <2>3, <1>4 DEF Accounted
<1> QED
  BY <1>6, <1>7, <1>8, <1>9 DEF Good, e

(* They go to a file that no name leads to. *)
LEMMA LoseGood ==
  ASSUME NEW nm, NEW d, NEW l, NEW T, NEW P, NEW A, NEW t,
         NEW q \in Seq(Records), NEW b \in Seq(Records),
         Good(nm, q \o b, d, l, T, P, A, t), Strict(P)
  PROVE  Good(nm, b, d, l \cup Log!ToSet(q), T, P, A, t)
<1>1. /\ Log!ToSet(q \o b) = Log!ToSet(q) \cup Log!ToSet(b)
      /\ \A x, y : <<x, y>> \in Log!Pairs(q \o b) <=>
           \/ <<x, y>> \in Log!Pairs(q) \/ <<x, y>> \in Log!Pairs(b)
           \/ x \in Log!ToSet(q) /\ y \in Log!ToSet(b)
  BY ToSetConcat, PairsConcat
<1>2. /\ Log!ToSet(q) \subseteq Records
      /\ q \o b = <<>> => b = <<>>
  BY ToSetIn, ConcatProperties, EmptySeq
<1>3. Shaped(nm, b, d, l \cup Log!ToSet(q), t)
  BY <1>2 DEF Good, Shaped
<1>4. Ordered(b, d, P) /\ Dated(nm, b, d, T)
  BY <1>1 DEF Good, Ordered, Dated
<1>5. Accounted(b, d, l \cup Log!ToSet(q), A)
  <2>1. Accounted(q \o b, d, l, A) /\ Ordered(q \o b, d, P)
    BY DEF Good
  <2>2. ASSUME NEW r \in Log!ToSet(b) PROVE r \notin Log!ToSet(q)
    BY <1>1, <1>2, <2>1, <2>2 DEF Ordered, Strict
  <2>3. ASSUME NEW n \in DOMAIN d, NEW r \in Log!ToSet(d[n]) PROVE r \notin Log!ToSet(q)
    BY <1>1, <1>2, <2>1, <2>3 DEF Ordered, Strict
  <2> QED
    BY <1>1, <2>1, <2>2, <2>3 DEF Accounted
<1> QED
  BY <1>3, <1>4, <1>5 DEF Good

(* Files are removed. *)
LEMMA RemoveGood ==
  ASSUME NEW nm, NEW b, NEW d, NEW l, NEW T, NEW P, NEW A, NEW t, NEW old,
         Good(nm, b, d, l, T, P, A, t), Strict(P), old \subseteq DOMAIN d
  PROVE  Good(nm, b, Log!Without(d, old), l \cup UNION {Log!ToSet(d[n]) : n \in old}, T, P, A, t)
<1> DEFINE e == Log!Without(d, old)  k == UNION {Log!ToSet(d[n]) : n \in old}
<1>1. d \in Disks /\ DOMAIN d \subseteq Nat /\ \A n \in DOMAIN d : d[n] \in Seq(Records)
  BY DiskType DEF Good, Shaped
<1>2. e \in Disks /\ DOMAIN e = DOMAIN d \ old /\ \A m \in DOMAIN e : e[m] = d[m]
  BY <1>1, WithoutType
<1>3. \A r : r \in k <=> \E n \in old : r \in Log!ToSet(d[n])
  OBVIOUS
<1>4. \A n \in DOMAIN d : Log!ToSet(d[n]) \subseteq Records
  BY <1>1, ToSetIn
<1>5. k \subseteq Records
  BY <1>3, <1>4
<1> HIDE DEF e, k
<1>6. Shaped(nm, b, e, l \cup k, t)
  BY <1>2, <1>5 DEF Good, Shaped
<1>7. Ordered(b, e, P)
  BY <1>2 DEF Good, Ordered
<1>8. Dated(nm, b, e, T)
  BY <1>2 DEF Good, Dated
<1>9. Accounted(b, e, l \cup k, A)
  <2>1. Accounted(b, d, l, A) /\ Ordered(b, d, P)
    BY DEF Good
  <2>2. ASSUME NEW r \in Log!ToSet(b), r \in k PROVE FALSE
    <3>1. PICK n \in old : r \in Log!ToSet(d[n])
      BY <1>3, <2>2
    <3> QED
      BY <1>4, <2>1, <2>2, <3>1 DEF Ordered, Strict
  <2>3. ASSUME NEW m \in DOMAIN e, NEW r \in Log!ToSet(e[m]), r \in k PROVE FALSE
    <3>1. PICK n \in old : r \in Log!ToSet(d[n])
      BY <1>3, <2>3
    <3>2. m \in DOMAIN d /\ n \in DOMAIN d /\ m # n /\ r \in Log!ToSet(d[m]) /\ r \in Records
      BY <1>2, <1>4, <2>3, <3>1
    <3>3. n < m \/ m < n
      BY <1>1, <3>2
    <3> QED
      BY <2>1, <3>1, <3>2, <3>3 DEF Ordered, Strict
  <2>4. ASSUME NEW r \in A, r \notin l \cup k, r \notin Log!ToSet(b)
        PROVE  \E n \in DOMAIN e : r \in Log!ToSet(e[n])
    <3>1. PICK n \in DOMAIN d : r \in Log!ToSet(d[n])
      BY <2>1, <2>4 DEF Accounted
    <3>2. n \in DOMAIN e
      BY <1>2, <1>3, <2>4, <3>1
    <3> QED
      BY <1>2, <3>1, <3>2
  <2>5. k \subseteq A
    BY <1>3, <2>1 DEF Accounted
  <2>6. ASSUME NEW m \in DOMAIN e, NEW r \in Log!ToSet(e[m]) PROVE r \in A /\ r \notin l
    BY <1>2, <2>1, <2>6 DEF Accounted
  <2> QED
    BY <2>1, <2>2, <2>3, <2>4, <2>5, <2>6 DEF Accounted
<1> QED
  BY <1>6, <1>7, <1>8, <1>9 DEF Good, e, k

(* A file is begun, or not: then its name leads nowhere. *)
LEMMA OpenGood ==
  ASSUME NEW nm, NEW d, NEW l, NEW T, NEW P, NEW A, NEW t \in Nat, NEW n \in Nat, n <= t,
         Good(nm, <<>>, d, l, T, P, A, t), \A m \in DOMAIN d : m <= n
  PROVE  /\ Good(n, <<>>, d, l, T, P, A, t)
         /\ n \notin DOMAIN d => Good(n, <<>>, Log!With(d, n, <<>>), l, T, P, A, t)
<1>1. n # none /\ <<>> \in Seq(Records) /\ d \in Disks /\ Log!ToSet(<<>>) = {} /\ Log!Pairs(<<>>) = {}
  BY NoneAssumption, ToSetOne, PairsOne DEF Good, Shaped
<1>2. Good(n, <<>>, d, l, T, P, A, t)
  BY <1>1 DEF Good, Shaped, Dated
<1>3. ASSUME n \notin DOMAIN d
      PROVE  Good(n, <<>>, Log!With(d, n, <<>>), l, T, P, A, t)
  <2> DEFINE e == Log!With(d, n, <<>>)
  <2>1. e \in Disks /\ DOMAIN e = DOMAIN d \cup {n} /\ e[n] = <<>>
        /\ \A m \in DOMAIN d : e[m] = d[m]
    <3>1. /\ e \in Disks /\ DOMAIN e = DOMAIN d \cup {n} /\ e[n] = <<>>
          /\ \A m \in DOMAIN d : m # n => e[m] = d[m]
      BY <1>1, WithType, ZenonT(30)
    <3> QED
      BY <1>3, <3>1
  <2> HIDE DEF e
  <2>2. Shaped(n, <<>>, e, l, t)
    BY <1>1, <1>2, <2>1 DEF Good, Shaped
  <2>3. Ordered(<<>>, e, P)
    BY <1>1, <1>2, <2>1 DEF Good, Ordered
  <2>4. Dated(n, <<>>, e, T)
    BY <1>1, <1>2, <2>1 DEF Good, Dated
  <2>5. Accounted(<<>>, e, l, A)
    BY <1>1, <1>2, <2>1 DEF Good, Accounted
  <2> QED
    BY <2>2, <2>3, <2>4, <2>5 DEF Good, e
<1> QED
  BY <1>2, <1>3

(* A record is logged, at a time of the day of the file. *)
LEMMA AddGood ==
  ASSUME NEW nm, NEW b, NEW d, NEW l, NEW T, NEW P, NEW A, NEW t,
         Good(nm, b, d, l, T, P, A, t), nm # none,
         NEW r \in Records, r \notin A, NEW U, NEW Q,
         U[r] \in Nat, Log!Day(U[r]) = Log!Day(nm), \A x \in A : U[x] = T[x],
         \A x, y : <<x, y>> \in P => <<x, y>> \in Q, \A x \in A : <<x, r>> \in Q
  PROVE  /\ Good(nm, Append(b, r), d, l, U, Q, A \cup {r}, t)
         /\ Good(nm, b, d, l \cup {r}, U, Q, A \cup {r}, t)
<1>1. b \in Seq(Records) /\ <<r>> \in Seq(Records) /\ Append(b, r) = b \o <<r>>
      /\ Append(b, r) \in Seq(Records)
  BY AppendIsConcat, AppendProperties DEF Good, Shaped
<1>2. Log!ToSet(<<r>>) = {r} /\ Log!Pairs(<<r>>) = {}
  BY ToSetOne, PairsOne
<1>3. /\ Log!ToSet(Append(b, r)) = Log!ToSet(b) \cup {r}
      /\ \A x, y : <<x, y>> \in Log!Pairs(Append(b, r)) <=>
           \/ <<x, y>> \in Log!Pairs(b)
           \/ x \in Log!ToSet(b) /\ y \in {r}
  <2>1. Log!ToSet(b \o <<r>>) = Log!ToSet(b) \cup Log!ToSet(<<r>>)
    BY <1>1, ToSetConcat, ZenonT(30)
  <2>2. \A x, y : <<x, y>> \in Log!Pairs(b \o <<r>>) <=>
           \/ <<x, y>> \in Log!Pairs(b) \/ <<x, y>> \in Log!Pairs(<<r>>)
           \/ x \in Log!ToSet(b) /\ y \in Log!ToSet(<<r>>)
    BY <1>1, PairsConcat
  <2> QED
    BY <1>1, <1>2, <2>1, <2>2
<1>4. Shaped(nm, Append(b, r), d, l, t) /\ Shaped(nm, b, d, l \cup {r}, t)
  BY <1>1 DEF Good, Shaped
<1>5. Accounted(b, d, l, A)
  BY DEF Good
<1>6. /\ Accounted(Append(b, r), d, l, A \cup {r})
      /\ Accounted(b, d, l \cup {r}, A \cup {r})
  BY <1>3, <1>5 DEF Accounted
<1>7. Dated(nm, Append(b, r), d, U) /\ Dated(nm, b, d, U)
  BY <1>3, <1>5 DEF Good, Dated, Accounted
<1>8. Ordered(b, d, Q)
  BY DEF Good, Ordered
<1>9. Ordered(Append(b, r), d, Q)
  <2>1. \A n \in DOMAIN d : \A x \in Log!ToSet(d[n]) : <<x, r>> \in Q
    BY <1>5 DEF Accounted
  <2>2. \A x \in Log!ToSet(b) : <<x, r>> \in Q
    BY <1>5 DEF Accounted
  <2> QED
    BY <1>3, <1>8, <2>1, <2>2 DEF Ordered
<1> QED
  BY <1>4, <1>6, <1>7, <1>8, <1>9 DEF Good

-----------------------------------------------------------------------------
(* The stages of append() *)

(* What State and the stages return. *)
Stages == [name : Nat \cup {none}, written : Nat, buffer : Seq(Records),
           disk : Disks, lost : SUBSET Records]

GoodStage(s, T, P, A, t) == Good(s.name, s.buffer, s.disk, s.lost, T, P, A, t)

(* Writing a FILE out leaves an empty buffer; what a file got is not lost. *)
LEMMA EmptyStage ==
  ASSUME NEW s \in Stages, NEW T, NEW P, NEW A, NEW t,
         GoodStage(s, T, P, A, t), Strict(P), NEW a \in BOOLEAN, a => Log!Linked(s)
  PROVE  /\ Log!Empty(s, a) \in Stages
         /\ Log!Empty(s, a).name = s.name /\ Log!Empty(s, a).written = s.written
         /\ Log!Empty(s, a).buffer = <<>> /\ DOMAIN Log!Empty(s, a).disk = DOMAIN s.disk
         /\ GoodStage(Log!Empty(s, a), T, P, A, t)
         /\ a => Log!Empty(s, a).lost = s.lost
         /\ Log!Empty(s, a).lost \subseteq s.lost \cup Log!ToSet(s.buffer)
<1>1. /\ s.buffer \in Seq(Records) /\ s.disk \in Disks /\ s.lost \subseteq Records
      /\ <<>> \in Seq(Records) /\ s.buffer \o <<>> = s.buffer
      /\ Log!ToSet(s.buffer) \subseteq Records
  BY ToSetIn, ConcatEmptySeq DEF Stages
<1>2. Good(s.name, s.buffer \o <<>>, s.disk, s.lost, T, P, A, t)
  BY <1>1 DEF GoodStage
<1>3. CASE a
  <2> DEFINE w == s.disk[s.name] \o s.buffer
  <2>1. s.name \in DOMAIN s.disk /\ s.name \in Nat /\ s.disk[s.name] \in Seq(Records)
    BY <1>1, <1>3, DiskType DEF Log!Linked
  <2>2. w \in Seq(Records)
    BY <1>1, <2>1, ConcatProperties
  <2> HIDE DEF w
  <2>3. Log!With(s.disk, s.name, w) \in Disks /\ DOMAIN Log!With(s.disk, s.name, w) = DOMAIN s.disk
    <3>1. Log!With(s.disk, s.name, w) \in Disks
      BY <1>1, <2>1, <2>2, WithType
    <3> QED
      BY <2>1, <3>1 DEF Log!With
  <2>4. Log!Empty(s, a) = [s EXCEPT !.buffer = <<>>, !.disk = Log!With(s.disk, s.name, w)]
    BY <1>3 DEF Log!Empty, w
  <2>5. Good(s.name, <<>>, Log!With(s.disk, s.name, w), s.lost, T, P, A, t)
    BY <1>1, <1>2, <2>1, WriteGood DEF w
  <2> QED
    BY <1>1, <2>3, <2>4, <2>5 DEF Stages, GoodStage
<1>4. CASE ~a
  <2>1. Log!Empty(s, a) = [s EXCEPT !.buffer = <<>>, !.lost = s.lost \cup Log!ToSet(s.buffer)]
    BY <1>4 DEF Log!Empty
  <2>2. Good(s.name, <<>>, s.disk, s.lost \cup Log!ToSet(s.buffer), T, P, A, t)
    BY <1>1, <1>2, LoseGood
  <2> QED
    BY <1>1, <1>4, <2>1, <2>2 DEF Stages, GoodStage
<1> QED
  BY <1>3, <1>4

(* fflush(), which may fail. *)
LEMMA FlushStage ==
  ASSUME NEW s \in Stages, NEW T, NEW P, NEW A, NEW t,
         GoodStage(s, T, P, A, t), Strict(P), NEW k \in BOOLEAN
  PROVE  /\ Log!fflush(s, k) \in Stages
         /\ Log!fflush(s, k).name = s.name /\ Log!fflush(s, k).written = s.written
         /\ Log!fflush(s, k).buffer = <<>> /\ DOMAIN Log!fflush(s, k).disk = DOMAIN s.disk
         /\ GoodStage(Log!fflush(s, k), T, P, A, t)
         /\ Log!Linked(s) /\ k => Log!fflush(s, k).lost = s.lost
         /\ Log!fflush(s, k).lost \subseteq s.lost \cup Log!ToSet(s.buffer)
<1>1. PICK a \in BOOLEAN : a = (Log!Linked(s) /\ k)
  OBVIOUS
<1>2. Log!fflush(s, k) = Log!Empty(s, a)
  BY <1>1 DEF Log!fflush
<1>3. a => Log!Linked(s)
  BY <1>1
<1>4. /\ Log!Empty(s, a) \in Stages
      /\ Log!Empty(s, a).name = s.name /\ Log!Empty(s, a).written = s.written
      /\ Log!Empty(s, a).buffer = <<>> /\ DOMAIN Log!Empty(s, a).disk = DOMAIN s.disk
      /\ GoodStage(Log!Empty(s, a), T, P, A, t)
      /\ a => Log!Empty(s, a).lost = s.lost
      /\ Log!Empty(s, a).lost \subseteq s.lost \cup Log!ToSet(s.buffer)
  BY <1>3, EmptyStage
<1> QED
  BY <1>1, <1>2, <1>4

(* rmFile() loses only what was logged on the day that has expired. *)
LEMMA RemoveStage ==
  ASSUME NEW s \in Stages, NEW T, NEW P, NEW A, NEW t,
         GoodStage(s, T, P, A, t), Strict(P)
  PROVE  /\ Log!rmFile(s) \in Stages
         /\ Log!rmFile(s).name = s.name /\ Log!rmFile(s).buffer = s.buffer
         /\ DOMAIN Log!rmFile(s).disk = {n \in DOMAIN s.disk : ~Log!Expired(n)}
         /\ GoodStage(Log!rmFile(s), T, P, A, t)
         /\ \A r \in Log!rmFile(s).lost \ s.lost :
              T[r] \in Nat /\ Log!Day(T[r]) + AutoRm = Log!Day(now)
<1> DEFINE old == {n \in DOMAIN s.disk : Log!Expired(n)}
           k == UNION {Log!ToSet(s.disk[n]) : n \in old}
<1>1. Log!rmFile(s) = [s EXCEPT !.disk = Log!Without(s.disk, old), !.lost = s.lost \cup k]
  BY DEF Log!rmFile
<1>2. Good(s.name, s.buffer, s.disk, s.lost, T, P, A, t)
  BY DEF GoodStage
<1>3. s.disk \in Disks /\ old \subseteq DOMAIN s.disk
  BY DEF Stages
<1>4. Log!Without(s.disk, old) \in Disks /\ DOMAIN Log!Without(s.disk, old) = DOMAIN s.disk \ old
  BY <1>3, WithoutType
<1>5. Good(s.name, s.buffer, Log!Without(s.disk, old), s.lost \cup k, T, P, A, t)
  BY <1>2, <1>3, RemoveGood
<1>6. s.lost \cup k \subseteq Records
  BY <1>5 DEF Good, Shaped
<1>7. ASSUME NEW r \in k PROVE T[r] \in Nat /\ Log!Day(T[r]) + AutoRm = Log!Day(now)
  <2>1. PICK n \in old : r \in Log!ToSet(s.disk[n])
    BY <1>7
  <2> QED
    BY <1>2, <2>1 DEF Good, Dated, Log!Expired
<1>8. DOMAIN s.disk \ old = {n \in DOMAIN s.disk : ~Log!Expired(n)}
  OBVIOUS
<1> HIDE DEF old, k
<1> QED
  BY <1>1, <1>4, <1>5, <1>6, <1>7, <1>8 DEF Stages, GoodStage

(* The old FILE may as well be closed before the new one is opened. *)
LEMMA RollIs ==
  ASSUME NEW s \in Stages, NEW c \in BOOLEAN, NEW k \in BOOLEAN, now \in Nat
  PROVE  Log!rollFile(s, c, k) = [Log!fopen(Log!fflush(s, k), now, c) EXCEPT !.written = 0]
<1>1. s.disk \in Disks /\ s.buffer \in Seq(Records)
  BY DEF Stages
<1>2. CASE Log!Linked(s) /\ k
  <2> DEFINE w == s.disk[s.name] \o s.buffer
  <2>1. s.name \in DOMAIN s.disk /\ s.name \in Nat /\ s.disk[s.name] \in Seq(Records)
    BY <1>1, <1>2, DiskType DEF Log!Linked
  <2>2. w \in Seq(Records)
    BY <1>1, <2>1, ConcatProperties
  <2>3. DOMAIN Log!With(s.disk, s.name, w) = DOMAIN s.disk
    BY <2>1 DEF Log!With
  <2>4. ASSUME now \notin DOMAIN s.disk
        PROVE  /\ Log!With(s.disk, now, <<>>)[s.name] = s.disk[s.name]
               /\ Log!With(Log!With(s.disk, now, <<>>), s.name, w)
                    = Log!With(Log!With(s.disk, s.name, w), now, <<>>)
    BY <2>1, <2>4 DEF Log!With
  <2>5. Log!fflush(s, k) = [s EXCEPT !.buffer = <<>>, !.disk = Log!With(s.disk, s.name, w)]
    BY <1>2 DEF Log!fflush, Log!Empty
  <2>6. CASE c /\ now \notin DOMAIN s.disk
    BY <1>2, <2>3, <2>4, <2>5, <2>6 DEF Log!rollFile, Log!fopen, Log!Empty, Stages
  <2>7. CASE ~(c /\ now \notin DOMAIN s.disk)
    BY <1>2, <2>3, <2>5, <2>7 DEF Log!rollFile, Log!fopen, Log!Empty, Stages
  <2> QED
    BY <2>6, <2>7
<1>3. CASE ~(Log!Linked(s) /\ k)
  BY <1>3 DEF Log!rollFile, Log!fflush, Log!fopen, Log!Empty, Stages
<1> QED
  BY <1>2, <1>3

(* rollFile() ends with an empty buffer; the old one goes where its file is. *)
LEMMA RollStage ==
  ASSUME now \in Nat, NEW s \in Stages, NEW T, NEW P, NEW A,
         GoodStage(s, T, P, A, now), Strict(P), NEW c \in BOOLEAN, NEW k \in BOOLEAN
  PROVE  /\ Log!rollFile(s, c, k) \in Stages
         /\ Log!rollFile(s, c, k).name = now /\ Log!rollFile(s, c, k).buffer = <<>>
         /\ GoodStage(Log!rollFile(s, c, k), T, P, A, now)
         /\ Log!Linked(s) /\ k => Log!rollFile(s, c, k).lost = s.lost
         /\ Log!rollFile(s, c, k).lost \subseteq s.lost \cup Log!ToSet(s.buffer)
<1> DEFINE f == Log!fflush(s, k)
<1>1. /\ f \in Stages /\ f.name = s.name /\ f.buffer = <<>>
      /\ GoodStage(f, T, P, A, now)
      /\ Log!Linked(s) /\ k => f.lost = s.lost
      /\ f.lost \subseteq s.lost \cup Log!ToSet(s.buffer)
  BY FlushStage
<1>2. Log!rollFile(s, c, k) = [Log!fopen(f, now, c) EXCEPT !.written = 0]
  BY RollIs
<1> HIDE DEF f
<1>3. f.disk \in Disks /\ <<>> \in Seq(Records)
  BY <1>1 DEF Stages
<1>4. Log!With(f.disk, now, <<>>) \in Disks
  BY <1>3, WithType
<1>5. Good(f.name, <<>>, f.disk, f.lost, T, P, A, now) /\ \A m \in DOMAIN f.disk : m <= now
  BY <1>1 DEF GoodStage, Good, Shaped
<1>6. /\ Good(now, <<>>, f.disk, f.lost, T, P, A, now)
      /\ now \notin DOMAIN f.disk =>
           Good(now, <<>>, Log!With(f.disk, now, <<>>), f.lost, T, P, A, now)
  BY <1>5, OpenGood
<1>7. CASE c /\ now \notin DOMAIN f.disk
  <2>1. Log!rollFile(s, c, k) = [name |-> now, written |-> 0, buffer |-> f.buffer,
                          disk |-> Log!With(f.disk, now, <<>>), lost |-> f.lost]
    BY <1>1, <1>2, <1>7 DEF Log!fopen, Stages
  <2>2. /\ Log!rollFile(s, c, k) \in Stages /\ Log!rollFile(s, c, k).name = now
        /\ Log!rollFile(s, c, k).buffer = <<>> /\ Log!rollFile(s, c, k).lost = f.lost
        /\ Log!rollFile(s, c, k).disk = Log!With(f.disk, now, <<>>)
    BY <1>1, <1>4, <2>1 DEF Stages
  <2> QED
    BY <1>1, <1>6, <1>7, <2>2 DEF GoodStage
<1>8. CASE ~(c /\ now \notin DOMAIN f.disk)
  <2>1. Log!rollFile(s, c, k) = [name |-> now, written |-> 0, buffer |-> f.buffer,
                          disk |-> f.disk, lost |-> f.lost]
    BY <1>1, <1>2, <1>8 DEF Log!fopen, Stages
  <2>2. /\ Log!rollFile(s, c, k) \in Stages /\ Log!rollFile(s, c, k).name = now
        /\ Log!rollFile(s, c, k).buffer = <<>> /\ Log!rollFile(s, c, k).lost = f.lost
        /\ Log!rollFile(s, c, k).disk = f.disk
    BY <1>1, <2>1 DEF Stages
  <2> QED
    BY <1>1, <1>6, <2>2 DEF GoodStage
<1> QED
  BY <1>7, <1>8

(* The file is opened again if it is not there. *)
LEMMA ReopenStage ==
  ASSUME NEW s \in Stages, NEW T, NEW P, NEW A, NEW t \in Nat, NEW c \in BOOLEAN,
         GoodStage(s, T, P, A, t), s.name # none, s.buffer = <<>>
  PROVE  /\ Log!fopen(s, s.name, c) \in Stages
         /\ Log!fopen(s, s.name, c).name = s.name /\ Log!fopen(s, s.name, c).buffer = <<>>
         /\ Log!fopen(s, s.name, c).lost = s.lost
         /\ GoodStage(Log!fopen(s, s.name, c), T, P, A, t)
<1>1. s.disk \in Disks /\ <<>> \in Seq(Records) /\ s.name \in Nat
  BY DEF Stages
<1>2. Log!With(s.disk, s.name, <<>>) \in Disks
  BY <1>1, WithType
<1>3. /\ Good(s.name, <<>>, s.disk, s.lost, T, P, A, t) /\ s.name <= t
      /\ \A m \in DOMAIN s.disk : m <= s.name
  BY DEF GoodStage, Good, Shaped
<1>4. s.name \notin DOMAIN s.disk =>
        Good(s.name, <<>>, Log!With(s.disk, s.name, <<>>), s.lost, T, P, A, t)
  BY <1>1, <1>3, OpenGood
<1>5. CASE c /\ s.name \notin DOMAIN s.disk
  <2>1. Log!fopen(s, s.name, c) = [s EXCEPT !.disk = Log!With(s.disk, s.name, <<>>)]
    BY <1>5 DEF Log!fopen, Stages
  <2> QED
    BY <1>2, <1>4, <1>5, <2>1 DEF Stages, GoodStage
<1>6. CASE ~(c /\ s.name \notin DOMAIN s.disk)
  <2>1. Log!fopen(s, s.name, c) = s
    BY <1>6 DEF Log!fopen, Stages
  <2> QED
    BY <2>1
<1> QED
  BY <1>5, <1>6

(* U and Q are the times and the order when r is logged on the day of n. *)
Adds(r, n, T, P, A, U, Q) ==
  /\ r \in Records /\ r \notin A
  /\ U[r] \in Nat /\ Log!Day(U[r]) = Log!Day(n) /\ \A x \in A : U[x] = T[x]
  /\ \A x, y : <<x, y>> \in P => <<x, y>> \in Q
  /\ \A x \in A : <<x, r>> \in Q

(* Then w is what fwrite() makes of s: what it loses was in the buffer of a *)
(* FILE without a file, or is r itself, if there is still no file, unless   *)
(* the write fails (~k).                                                    *)
Wrote(s, r, k, w, U, Q, A, t) ==
  /\ w \in Stages /\ w.name = s.name
  /\ Log!ToSet(w.buffer) \subseteq Log!ToSet(s.buffer) \cup {r}
  /\ GoodStage(w, U, Q, A \cup {r}, t)
  /\ \A x \in w.lost \ s.lost :
       ~k \/ (~Log!Linked(s) /\ (x \in Log!ToSet(s.buffer) \/ ~Log!Linked(w)))

LEMMA WriteStage ==
  ASSUME NEW s \in Stages, NEW T, NEW P, NEW A, NEW t \in Nat, NEW c \in BOOLEAN,
         GoodStage(s, T, P, A, t), Strict(P), s.name # none, NEW k \in BOOLEAN,
         NEW r, NEW U, NEW Q, Adds(r, s.name, T, P, A, U, Q), Strict(Q)
  PROVE  Wrote(s, r, k, Log!fwrite(s, r, c, k), U, Q, A, t)
<1>1. PICK z \in Stages :
        /\ z = IF Log!Linked(s) THEN s ELSE Log!fopen(Log!Empty(s, FALSE), s.name, c)
        /\ z.name = s.name /\ GoodStage(z, T, P, A, t)
        /\ z.buffer = <<>> \/ z.buffer = s.buffer
        /\ Log!Linked(s) => z.lost = s.lost
        /\ z.lost \subseteq s.lost \cup Log!ToSet(s.buffer)
  <2>1. CASE Log!Linked(s)
    BY <2>1
  <2>2. CASE ~Log!Linked(s)
    <3>1. PICK f \in Stages :
            /\ f = Log!Empty(s, FALSE) /\ f.name = s.name /\ f.buffer = <<>>
            /\ GoodStage(f, T, P, A, t) /\ f.lost \subseteq s.lost \cup Log!ToSet(s.buffer)
      BY EmptyStage
    <3>2. /\ Log!fopen(f, f.name, c) \in Stages
          /\ Log!fopen(f, f.name, c).name = f.name /\ Log!fopen(f, f.name, c).buffer = <<>>
          /\ Log!fopen(f, f.name, c).lost = f.lost
          /\ GoodStage(Log!fopen(f, f.name, c), T, P, A, t)
      BY <3>1, ReopenStage
    <3> QED
      BY <2>2, <3>1, <3>2
  <2> QED
    BY <2>1, <2>2
<1>2. Log!Size(r) \in Nat /\ r \in Records
  BY DEF Log!Size, Adds
<1>3. PICK put : put = [z EXCEPT !.written = z.written + Log!Size(r), !.buffer = Append(z.buffer, r)]
  OBVIOUS
<1>4. Log!fwrite(s, r, c, k) =
        IF ~Log!Linked(z) THEN [z EXCEPT !.lost = z.lost \cup {r}]
        ELSE IF k THEN put ELSE Log!Empty(put, FALSE)
  <2>1. put = [[z EXCEPT !.written = @ + Log!Size(r)] EXCEPT !.buffer = Append(@, r)]
    BY <1>1, <1>3 DEF Stages
  <2> QED
    BY <1>1, <2>1 DEF Log!fwrite
<1>5. /\ Good(z.name, Append(z.buffer, r), z.disk, z.lost, U, Q, A \cup {r}, t)
      /\ Good(z.name, z.buffer, z.disk, z.lost \cup {r}, U, Q, A \cup {r}, t)
  <2>1. Good(z.name, z.buffer, z.disk, z.lost, T, P, A, t) /\ z.name # none
        /\ Adds(r, z.name, T, P, A, U, Q)
    BY <1>1 DEF GoodStage
  <2>2. /\ r \in Records /\ r \notin A
        /\ U[r] \in Nat /\ Log!Day(U[r]) = Log!Day(z.name) /\ \A x \in A : U[x] = T[x]
        /\ \A x, y : <<x, y>> \in P => <<x, y>> \in Q
        /\ \A x \in A : <<x, r>> \in Q
    BY <2>1 DEF Adds
  <2> QED
    BY <2>1, <2>2, AddGood
<1>6. z.buffer \in Seq(Records) /\ Append(z.buffer, r) \in Seq(Records)
      /\ Log!ToSet(Append(z.buffer, r)) = Log!ToSet(z.buffer) \cup {r}
      /\ Log!ToSet(z.buffer) \subseteq Log!ToSet(s.buffer)
  <2>1. z.buffer \in Seq(Records) /\ <<r>> \in Seq(Records)
        /\ Append(z.buffer, r) = z.buffer \o <<r>> /\ Append(z.buffer, r) \in Seq(Records)
    BY <1>2, AppendIsConcat, AppendProperties DEF Stages
  <2>2. \A u, v \in Seq(Records) : Log!ToSet(u \o v) = Log!ToSet(u) \cup Log!ToSet(v)
    BY ToSetConcat
  <2>3. Log!ToSet(Append(z.buffer, r)) = Log!ToSet(z.buffer) \cup Log!ToSet(<<r>>)
    BY <2>1, <2>2
  <2>4. Log!ToSet(<<r>>) = {r} /\ Log!ToSet(<<>>) = {}
    BY ToSetOne
  <2>5. Log!ToSet(z.buffer) \subseteq Log!ToSet(s.buffer)
    BY <1>1, <2>4
  <2> QED
    BY <2>1, <2>3, <2>4, <2>5
<1>7. ASSUME Log!Linked(z)
      PROVE  /\ put \in Stages /\ put.name = z.name /\ put.buffer = Append(z.buffer, r)
             /\ put.disk = z.disk /\ put.lost = z.lost /\ GoodStage(put, U, Q, A \cup {r}, t)
  <2>1. put = [name |-> z.name, written |-> z.written + Log!Size(r),
             buffer |-> Append(z.buffer, r), disk |-> z.disk, lost |-> z.lost]
    BY <1>3 DEF Stages
  <2>2. /\ put \in Stages /\ put.name = z.name /\ put.buffer = Append(z.buffer, r)
        /\ put.disk = z.disk /\ put.lost = z.lost
    <3>1. /\ z.name \in Nat \cup {none} /\ z.written + Log!Size(r) \in Nat
          /\ z.disk \in Disks /\ z.lost \subseteq Records
      BY <1>2 DEF Stages
    <3> QED
      BY <1>6, <2>1, <3>1 DEF Stages
  <2> QED
    BY <1>5, <2>2 DEF GoodStage
<1>8. CASE Log!Linked(z) /\ k
  <2>1. PICK w : w = Log!fwrite(s, r, c, k) /\ w = put
    BY <1>8, <1>4
  <2> QED
    BY <1>1, <1>6, <1>8, <1>7, <2>1 DEF Wrote
<1>9. CASE Log!Linked(z) /\ ~k
  <2>1. PICK w : w = Log!fwrite(s, r, c, k) /\ w = Log!Empty(put, FALSE)
    BY <1>4, <1>9
  <2>4. put \in Stages /\ GoodStage(put, U, Q, A \cup {r}, t) /\ FALSE \in BOOLEAN
    BY <1>7, <1>9
  <2>5. /\ Log!Empty(put, FALSE) \in Stages /\ Log!Empty(put, FALSE).name = put.name
        /\ Log!Empty(put, FALSE).buffer = <<>>
        /\ GoodStage(Log!Empty(put, FALSE), U, Q, A \cup {r}, t)
    BY <2>4, EmptyStage
  <2>2. /\ w \in Stages /\ w.name = put.name /\ w.buffer = <<>>
        /\ GoodStage(w, U, Q, A \cup {r}, t)
    BY <2>1, <2>5
  <2>3. Log!ToSet(<<>>) = {}
    BY ToSetOne
  <2> QED
    BY <1>1, <1>7, <1>9, <2>1, <2>2, <2>3 DEF Wrote
<1>10. CASE ~Log!Linked(z)
  <2>1. Log!fwrite(s, r, c, k) = [z EXCEPT !.lost = z.lost \cup {r}]
    BY <1>10, <1>4
  <2>2. ~Log!Linked(s)
    BY <1>1, <1>10
  <2> DEFINE w == Log!fwrite(s, r, c, k)
  <2>3. /\ w \in Stages /\ w.name = z.name /\ w.buffer = z.buffer
        /\ w.disk = z.disk /\ w.lost = z.lost \cup {r}
    BY <1>2, <2>1 DEF Stages
  <2> HIDE DEF w
  <2>4. ~Log!Linked(w) /\ GoodStage(w, U, Q, A \cup {r}, t)
    BY <1>5, <1>10, <2>3 DEF Log!Linked, GoodStage
  <2> QED
    BY <1>1, <1>6, <2>2, <2>3, <2>4 DEF w, Wrote
<1> QED
  BY <1>8, <1>10, <1>9

-----------------------------------------------------------------------------
(* The invariant *)

(* append() is called often enough; lastFlush_ is never ahead of it. *)
LogClock ==
  /\ {now, lastFlush_, lastCall, writtenBytes_} \subseteq Nat
  /\ lastFlush_ <= lastCall /\ lastCall <= now /\ now - lastCall <= MaxGap
  /\ time \in [Records -> Nat \cup {none}]

(* A record is logged once. *)
LogOnce ==
  /\ appended \in Seq(Records)
  /\ \A r \in Log!ToSet(appended) : time[r] # none
  /\ Strict(Log!Pairs(appended))

(* Files, buffer and lost records are as they are between two stages. *)
LogWhole == Good(name, buffer, disk, lost, time, Log!Pairs(appended), Log!ToSet(appended), lastCall)

(* The current file is of the day on which append() was last called, and    *)
(* fileDay_ is of that file.                                                *)
LogToday == name # none => Log!Day(name) = Log!Day(lastCall) /\ fileDay_ = Log!MonthDay(name)

(* What is buffered was logged since the last flush, which was not long     *)
(* before the last call.                                                    *)
LogYoung ==
  \A r \in Log!ToSet(buffer) :
    lastCall - lastFlush_ <= FlushInterval /\ lastFlush_ <= time[r]

LogIInv == LogClock /\ LogOnce /\ LogWhole /\ LogToday /\ LogYoung

LEMMA LogInitIInv == Log!Init => LogIInv
<1> SUFFICES ASSUME Log!Init PROVE LogIInv
  OBVIOUS
<1>1. Log!ToSet(<<>>) = {} /\ Log!Pairs(<<>>) = {} /\ <<>> \in Seq(Records)
  BY ToSetOne, PairsOne, EmptySeq
<1>2. MaxGap \in Nat /\ FlushInterval \in Nat
  BY ClockAssumption
<1>3. LogClock /\ LogToday
  BY <1>2 DEF Log!Init, LogClock, LogToday
<1>4. LogOnce /\ LogYoung
  BY <1>1 DEF Log!Init, LogOnce, LogYoung, Strict
<1>5. <<>> \in Disks
  <2>1. DOMAIN <<>> = {} /\ <<>> \in [{} -> Seq(Records)]
    OBVIOUS
  <2> QED
    BY <2>1 DEF Disks
<1>6. DOMAIN <<>> = {}
  OBVIOUS
<1>7. Good(none, <<>>, <<>>, {}, time, {}, {}, lastCall)
  BY <1>1, <1>5, <1>6 DEF Good, Shaped, Ordered, Dated, Accounted
<1>8. LogWhole
  BY <1>1, <1>7 DEF Log!Init, LogWhole
<1> QED
  BY <1>3, <1>4, <1>8 DEF LogIInv

(* Time passes. *)
LEMMA LaterGood ==
  ASSUME NEW nm, NEW b, NEW d, NEW l, NEW T, NEW P, NEW A, NEW t \in Nat,
         NEW u \in Nat, t <= u, Good(nm, b, d, l, T, P, A, t)
  PROVE  Good(nm, b, d, l, T, P, A, u)
<1>1. Shaped(nm, b, d, l, u)
  <2>1. DOMAIN d \subseteq Nat
    BY DiskType DEF Good, Shaped
  <2> QED
    BY <2>1 DEF Good, Shaped
<1> QED
  BY <1>1 DEF Good

(* A record that is not in a sequence is added at its end. *)
LEMMA OnceMore ==
  ASSUME NEW s \in Seq(Records), NEW r \in Records, r \notin Log!ToSet(s), Strict(Log!Pairs(s))
  PROVE  /\ Append(s, r) \in Seq(Records)
         /\ Log!ToSet(Append(s, r)) = Log!ToSet(s) \cup {r}
         /\ \A x, y : <<x, y>> \in Log!Pairs(s) => <<x, y>> \in Log!Pairs(Append(s, r))
         /\ \A x \in Log!ToSet(s) : <<x, r>> \in Log!Pairs(Append(s, r))
         /\ Strict(Log!Pairs(Append(s, r)))
<1>1. <<r>> \in Seq(Records) /\ Append(s, r) = s \o <<r>> /\ Append(s, r) \in Seq(Records)
  BY AppendIsConcat, AppendProperties
<1>2. Log!ToSet(<<r>>) = {r} /\ Log!Pairs(<<r>>) = {}
  BY ToSetOne, PairsOne
<1>3. Log!ToSet(s \o <<r>>) = Log!ToSet(s) \cup Log!ToSet(<<r>>)
  BY <1>1, ToSetConcat, ZenonT(30)
<1>4. \A x, y : <<x, y>> \in Log!Pairs(s \o <<r>>) <=>
           \/ <<x, y>> \in Log!Pairs(s) \/ <<x, y>> \in Log!Pairs(<<r>>)
           \/ x \in Log!ToSet(s) /\ y \in Log!ToSet(<<r>>)
  BY <1>1, PairsConcat
<1>5. \A x, y : <<x, y>> \in Log!Pairs(Append(s, r)) <=>
           \/ <<x, y>> \in Log!Pairs(s)
           \/ x \in Log!ToSet(s) /\ y = r
  BY <1>1, <1>2, <1>4
<1> QED
  BY <1>1, <1>2, <1>3, <1>5 DEF Strict

(* Why append() may lose record x: it expired, or the file was deleted, or  *)
(* writing may fail.                                                        *)
Cause(x) ==
  \/ time[x] # none /\ Log!Day(time[x]) + AutoRm = Log!Day(now)
  \/ name \notin DOMAIN disk
  \/ full

(* append() begins with something that is Good at the present time. *)
LEMMA StateGood ==
  ASSUME LogIInv
  PROVE  /\ Log!State \in Stages /\ now \in Nat
         /\ GoodStage(Log!State, time, Log!Pairs(appended), Log!ToSet(appended), now)
         /\ Strict(Log!Pairs(appended))
<1>1. Good(name, buffer, disk, lost, time, Log!Pairs(appended), Log!ToSet(appended), now)
  BY LaterGood DEF LogIInv, LogClock, LogWhole
<1>2. now \in Nat /\ Strict(Log!Pairs(appended)) /\ writtenBytes_ \in Nat
  BY DEF LogIInv, LogClock, LogOnce
<1> QED
  BY <1>1, <1>2 DEF Log!State, Stages, GoodStage, Good, Shaped

(* After rolling, if there is need, the file is one of today: the day of the *)
(* month that append() looks at is enough, because it was called lately.     *)
LEMMA RollStep ==
  ASSUME LogIInv, NEW len, NEW c \in BOOLEAN, NEW k \in BOOLEAN, k \/ full
  PROVE  \E s \in Stages :
           /\ s = IF Log!MustRoll(len) THEN Log!rollFile(Log!rmFile(Log!State), c, k) ELSE Log!State
           /\ s.name \in Nat /\ Log!Day(s.name) = Log!Day(now)
           /\ GoodStage(s, time, Log!Pairs(appended), Log!ToSet(appended), now)
           /\ s.buffer = <<>> \/ s = Log!State
           /\ (IF Log!MustRoll(len) THEN Log!MonthDay(now) ELSE fileDay_) = Log!MonthDay(s.name)
           /\ \A x \in s.lost \ lost : Cause(x)
<1>1. PICK T, P, A : T = time /\ P = Log!Pairs(appended) /\ A = Log!ToSet(appended)
  OBVIOUS
<1>2. /\ Log!State \in Stages /\ now \in Nat /\ GoodStage(Log!State, T, P, A, now) /\ Strict(P)
      /\ Log!State.name = name /\ Log!State.buffer = buffer /\ Log!State.disk = disk /\ Log!State.lost = lost
  BY <1>1, StateGood DEF Log!State
<1>3. CASE Log!MustRoll(len)
  <2>1. PICK s \in Stages :
          /\ s = Log!rmFile(Log!State) /\ s.name = name /\ s.buffer = buffer
          /\ DOMAIN s.disk = {n \in DOMAIN disk : ~Log!Expired(n)}
          /\ GoodStage(s, T, P, A, now)
          /\ \A r \in s.lost \ lost : T[r] \in Nat /\ Log!Day(T[r]) + AutoRm = Log!Day(now)
    BY <1>2, RemoveStage
  <2>2. /\ Log!rollFile(s, c, k) \in Stages
        /\ Log!rollFile(s, c, k).name = now /\ Log!rollFile(s, c, k).buffer = <<>>
        /\ GoodStage(Log!rollFile(s, c, k), T, P, A, now)
        /\ Log!Linked(s) /\ k => Log!rollFile(s, c, k).lost = s.lost
        /\ Log!rollFile(s, c, k).lost \subseteq s.lost \cup Log!ToSet(s.buffer)
    BY <1>2, <2>1, RollStage
  <2>3. ASSUME NEW x \in Log!rollFile(s, c, k).lost \ lost PROVE Cause(x)
    <3>1. CASE x \in s.lost
      BY <1>1, <2>1, <3>1, NoneAssumption DEF Cause
    <3>2. CASE x \notin s.lost /\ name \in DOMAIN disk /\ k
      <4>1. x \in Log!ToSet(buffer) /\ Log!Expired(name)
        BY <2>1, <2>2, <2>3, <3>2 DEF Log!Linked
      <4>2. T[x] \in Nat /\ Log!Day(T[x]) = Log!Day(name)
        BY <1>2, <4>1 DEF GoodStage, Good, Dated
      <4> QED
        BY <1>1, <4>1, <4>2, NoneAssumption DEF Cause, Log!Expired
    <3> QED
      BY <3>1, <3>2 DEF Cause
  <2> QED
    BY <1>1, <1>2, <1>3, <2>1, <2>2, <2>3
<1>4. CASE ~Log!MustRoll(len)
  <2>1. name \in Nat /\ fileDay_ = Log!MonthDay(now) /\ fileDay_ = Log!MonthDay(name)
        /\ Log!Day(name) = Log!Day(lastCall)
    BY <1>2, <1>4 DEF Log!MustRoll, LogIInv, LogToday, LogWhole, Good, Shaped
  <2>2. lastCall \in Nat /\ lastCall <= now /\ now - lastCall <= MaxGap
    BY DEF LogIInv, LogClock
  <2>3. Log!MonthDay(lastCall) = Log!MonthDay(now)
    BY <2>1 DEF Log!MonthDay
  <2>4. Log!Day(lastCall) = Log!Day(now)
    BY <1>2, <2>2, <2>3, SameMonthDay
  <2> QED
    BY <1>1, <1>2, <1>4, <2>1, <2>4
<1> QED
  BY <1>3, <1>4

(* append() keeps the invariant, and what it loses has a cause. *)
LEMMA AppendStep ==
  ASSUME LogIInv, NEW r \in Records \cup {none}, Log!append(r)
  PROVE  LogIInv' /\ \A x \in lost' \ lost : Cause(x) \/ name' \notin DOMAIN disk'
<1> DEFINE len == IF r = none THEN 0 ELSE Log!Size(r)
<1>1. PICK o \in Log!OkUnless(Log!MustRoll(len)), cl \in Log!OkUnless(full /\ Log!MustRoll(len)),
           ro \in Log!OkUnless(r # none), wr \in Log!OkUnless(full /\ r # none),
           fl \in Log!OkUnless(full /\ Log!MustFlush(r)) :
        LET s1 == IF Log!MustRoll(len) THEN Log!rollFile(Log!rmFile(Log!State), o, cl) ELSE Log!State
            s2 == Log!Write(s1, r, ro, wr)
            s3 == IF Log!MustFlush(r) THEN Log!fflush(s2, fl) ELSE s2 IN
          /\ name' = s3.name /\ writtenBytes_' = s3.written
          /\ buffer' = s3.buffer /\ disk' = s3.disk /\ lost' = s3.lost
          /\ fileDay_' = IF Log!MustRoll(len) THEN Log!MonthDay(now) ELSE fileDay_
  BY DEF Log!append
<1>2. /\ {o, ro, cl, wr, fl} \subseteq BOOLEAN
       /\ (cl \/ full) /\ (wr \/ full) /\ (fl \/ full)
  BY DEF Log!OkUnless
<1>3. /\ lastFlush_' = IF Log!MustFlush(r) THEN now ELSE lastFlush_
      /\ IF r = none
           THEN time' = time /\ appended' = appended
           ELSE /\ time[r] = none /\ time' = [time EXCEPT ![r] = now]
                /\ appended' = Append(appended, r)
      /\ lastCall' = now /\ now' = now
  BY DEF Log!append
<1> HIDE DEF len
<1>4. PICK T, P, A, U, Q, B :
        /\ T = time /\ P = Log!Pairs(appended) /\ A = Log!ToSet(appended)
        /\ U = time' /\ Q = Log!Pairs(appended') /\ B = Log!ToSet(appended')
  OBVIOUS
<1>5. /\ now \in Nat /\ Strict(P) /\ LogClock /\ LogOnce /\ LogYoung
      /\ GoodStage(Log!State, T, P, A, now)
      /\ Log!State.name = name /\ Log!State.buffer = buffer /\ Log!State.disk = disk
      /\ Log!State.lost = lost
  BY <1>4, StateGood DEF LogIInv, Log!State
<1>6. PICK s1 \in Stages :
        /\ s1 = IF Log!MustRoll(len) THEN Log!rollFile(Log!rmFile(Log!State), o, cl) ELSE Log!State
        /\ s1.name \in Nat /\ Log!Day(s1.name) = Log!Day(now)
        /\ GoodStage(s1, T, P, A, now)
        /\ s1.buffer = <<>> \/ s1 = Log!State
        /\ (IF Log!MustRoll(len) THEN Log!MonthDay(now) ELSE fileDay_) = Log!MonthDay(s1.name)
        /\ \A x \in s1.lost \ lost : Cause(x)
  <2>1. o \in BOOLEAN /\ cl \in BOOLEAN /\ (cl \/ full)
    BY <1>2
  <2> QED
    BY <1>4, <2>1, RollStep
<1>7. s1.name # none /\ none \notin Records /\ Log!ToSet(<<>>) = {}
  BY <1>6, NoneAssumption, ToSetOne
<1>8. Log!ToSet(s1.buffer) \subseteq Log!ToSet(buffer)
  BY <1>5, <1>6, <1>7
<1>9. LogOnce' /\ Strict(Q) /\ (r # none => r \in Records /\ r \notin A /\ B = A \cup {r})
      /\ (r = none => U = T /\ Q = P /\ B = A)
      /\ (r # none => /\ U[r] = now /\ \A x \in A : U[x] = T[x]
                      /\ \A x, y : <<x, y>> \in P => <<x, y>> \in Q
                      /\ \A x \in A : <<x, r>> \in Q)
  <2>1. CASE r = none
    BY <1>3, <1>4, <1>5, <2>1 DEF LogOnce
  <2>2. CASE r # none
    <3>1. r \in Records /\ time[r] = none /\ appended' = Append(appended, r)
          /\ time' = [time EXCEPT ![r] = now]
      BY <1>3, <2>2
    <3>2. r \notin Log!ToSet(appended) /\ appended \in Seq(Records) /\ Strict(Log!Pairs(appended))
          /\ Log!ToSet(appended) \subseteq Records /\ time \in [Records -> Nat \cup {none}]
      BY <1>5, <3>1, ToSetIn DEF LogOnce, LogClock
    <3>3. /\ appended' \in Seq(Records)
          /\ Log!ToSet(appended') = Log!ToSet(appended) \cup {r}
          /\ \A x, y : <<x, y>> \in Log!Pairs(appended) => <<x, y>> \in Log!Pairs(appended')
          /\ \A x \in Log!ToSet(appended) : <<x, r>> \in Log!Pairs(appended')
          /\ Strict(Log!Pairs(appended'))
      BY <3>1, <3>2, OnceMore
    <3>4. time'[r] = now /\ \A x \in Log!ToSet(appended) : time'[x] = time[x]
      BY <3>1, <3>2
    <3>5. \A x \in Log!ToSet(appended') : time'[x] # none
      BY <1>5, <3>3, <3>4, NoneAssumption DEF LogOnce
    <3> QED
      BY <1>4, <2>2, <3>1, <3>2, <3>3, <3>4, <3>5 DEF LogOnce
  <2> QED
    BY <2>1, <2>2
<1>10. PICK s2 \in Stages :
        /\ s2 = Log!Write(s1, r, ro, wr) /\ s2.name = s1.name
        /\ \A x \in Log!ToSet(s2.buffer) : x \in Log!ToSet(s1.buffer) \/ (r # none /\ x = r)
        /\ GoodStage(s2, U, Q, B, now)
        /\ \A x \in s2.lost \ s1.lost : ~Log!Linked(s2) \/ Cause(x)
  <2>1. CASE r = none
    BY <1>6, <1>9, <2>1 DEF Log!Write
  <2>2. CASE r # none
    <3>1. Log!Write(s1, r, ro, wr) = Log!fwrite(s1, r, ro, wr)
      BY <2>2 DEF Log!Write
    <3>2. Log!Day(U[r]) = Log!Day(s1.name) /\ U[r] \in Nat
      BY <1>5, <1>6, <1>9, <2>2
    <3>3. Adds(r, s1.name, T, P, A, U, Q)
      BY <1>9, <2>2, <3>2 DEF Adds
    <3>4. Wrote(s1, r, wr, Log!fwrite(s1, r, ro, wr), U, Q, A, now)
      <4>1. ro \in BOOLEAN /\ wr \in BOOLEAN
        BY <1>2
      <4> QED
        BY <1>5, <1>6, <1>7, <1>9, <3>3, <4>1, WriteStage
    <3>5. PICK w : w = Log!fwrite(s1, r, ro, wr) /\ Wrote(s1, r, wr, w, U, Q, A, now)
      BY <3>4
    <3>6. ASSUME NEW x \in w.lost \ s1.lost, Log!Linked(w), wr PROVE Cause(x)
      <4>1. ~Log!Linked(s1) /\ x \in Log!ToSet(s1.buffer)
        BY <3>5, <3>6 DEF Wrote
      <4>2. s1 = Log!State
        BY <1>6, <1>7, <4>1
      <4> QED
        BY <1>5, <4>1, <4>2 DEF Log!Linked, Cause
    <3> QED
      <4>1. \A x \in w.lost \ s1.lost : ~Log!Linked(w) \/ Cause(x)
        BY <1>2, <3>6 DEF Cause
      <4> QED
        BY <1>9, <2>2, <3>1, <3>5, <4>1 DEF Wrote
  <2> QED
    BY <2>1, <2>2
<1>11. PICK s3 \in Stages :
         /\ s3 = (IF Log!MustFlush(r) THEN Log!fflush(s2, fl) ELSE s2) /\ s3.name = s2.name
         /\ DOMAIN s3.disk = DOMAIN s2.disk
         /\ s3.buffer = <<>> \/ (~Log!MustFlush(r) /\ s3.buffer = s2.buffer)
         /\ GoodStage(s3, U, Q, B, now)
         /\ Log!Linked(s2) /\ fl => s3.lost = s2.lost
  <2>1. CASE Log!MustFlush(r)
    <3>1. /\ Log!fflush(s2, fl) \in Stages
          /\ Log!fflush(s2, fl).name = s2.name /\ Log!fflush(s2, fl).buffer = <<>>
          /\ DOMAIN Log!fflush(s2, fl).disk = DOMAIN s2.disk
          /\ GoodStage(Log!fflush(s2, fl), U, Q, B, now)
          /\ Log!Linked(s2) /\ fl => Log!fflush(s2, fl).lost = s2.lost
      <4>1. fl \in BOOLEAN
        BY <1>2
      <4> QED
        BY <1>9, <1>10, <4>1, FlushStage
    <3> QED
      BY <2>1, <3>1
  <2>2. CASE ~Log!MustFlush(r)
    BY <1>10, <2>2
  <2> QED
    BY <2>1, <2>2
<1>12. /\ name' = s3.name /\ writtenBytes_' = s3.written
       /\ buffer' = s3.buffer /\ disk' = s3.disk /\ lost' = s3.lost
       /\ fileDay_' = IF Log!MustRoll(len) THEN Log!MonthDay(now) ELSE fileDay_
  BY <1>1, <1>6, <1>10, <1>11
<1>13. LogWhole'
  <2>1. Good(s3.name, s3.buffer, s3.disk, s3.lost, U, Q, B, now)
    BY <1>11 DEF GoodStage
  <2> QED
    BY <1>3, <1>4, <1>12, <2>1 DEF LogWhole
<1>14. LogClock'
  <2>1. writtenBytes_' \in Nat
    BY <1>12 DEF Stages
  <2>2. MaxGap \in Nat
    BY ClockAssumption
  <2>3. time' \in [Records -> Nat \cup {none}]
    BY <1>3, <1>5 DEF LogClock
  <2> QED
    BY <1>3, <1>5, <2>1, <2>2, <2>3 DEF LogClock
<1>15. LogToday'
  <2>1. name' = s1.name /\ lastCall' = now /\ fileDay_' = Log!MonthDay(s1.name)
    BY <1>3, <1>6, <1>10, <1>11, <1>12
  <2> QED
    BY <1>6, <2>1 DEF LogToday
<1>16. LogYoung'
  <2>1. ASSUME NEW x \in Log!ToSet(buffer')
        PROVE  now - lastFlush_' <= FlushInterval /\ lastFlush_' <= time'[x]
    <3>1. x \in Log!ToSet(s2.buffer) /\ ~Log!MustFlush(r) /\ lastFlush_' = lastFlush_
      BY <1>3, <1>7, <1>11, <1>12, <2>1
    <3>2. now - lastFlush_ <= FlushInterval
      <4>1. FlushInterval \in Nat /\ now - lastFlush_ \in Int
        BY <1>5, ClockAssumption DEF LogClock
      <4> QED
        BY <3>1, <4>1 DEF Log!MustFlush
    <3>3. CASE x \in Log!ToSet(s1.buffer)
      <4>1. x \in Log!ToSet(buffer)
        BY <1>8, <3>3
      <4>2. x \in A /\ lastFlush_ <= T[x]
        BY <1>4, <1>5, <4>1 DEF GoodStage, Good, Accounted, LogYoung
      <4>3. U[x] = T[x]
        BY <1>9, <4>2
      <4> QED
        BY <1>4, <3>1, <3>2, <4>2, <4>3
    <3>4. CASE r # none /\ x = r
      BY <1>4, <1>5, <1>9, <3>1, <3>2, <3>4 DEF LogClock
    <3> QED
      BY <1>10, <3>1, <3>3, <3>4
  <2> QED
    BY <1>3, <2>1 DEF LogYoung
<1>17. ASSUME NEW x \in lost' \ lost PROVE Cause(x) \/ name' \notin DOMAIN disk'
  <2>1. x \in s3.lost /\ x \notin lost
    BY <1>12
  <2>2. Log!Linked(s2) /\ fl => name' \in DOMAIN disk' /\ x \in s2.lost
    BY <1>11, <1>12, <2>1 DEF Log!Linked
  <2>3. ~Log!Linked(s2) => name' \notin DOMAIN disk'
    BY <1>11, <1>12 DEF Log!Linked
  <2>4. ~fl => Cause(x)
    BY <1>2 DEF Cause
  <2> QED
    BY <1>6, <1>10, <2>1, <2>2, <2>3, <2>4
<1> QED
  BY <1>9, <1>13, <1>14, <1>15, <1>16, <1>17 DEF LogIInv

(* The other steps *)

LEMMA TickStep == LogIInv /\ Log!Tick => LogIInv' /\ lost' = lost
<1> SUFFICES ASSUME LogIInv, Log!Tick PROVE LogIInv' /\ lost' = lost
  OBVIOUS
<1>1. MaxGap \in Nat
  BY ClockAssumption
<1>2. /\ now' = now + 1 /\ now - lastCall < MaxGap
      /\ UNCHANGED <<name, writtenBytes_, fileDay_, lastFlush_, buffer, disk,
                     time, appended, lost, lastCall>>
  BY DEF Log!Tick
<1>3. LogClock'
  BY <1>1, <1>2 DEF LogIInv, LogClock
<1>4. LogOnce' /\ LogWhole' /\ LogToday' /\ LogYoung'
  BY <1>2 DEF LogIInv, LogOnce, LogWhole, LogToday, LogYoung
<1> QED
  BY <1>2, <1>3, <1>4 DEF LogIInv

(* A sequence cut in two. *)
LEMMA Split ==
  ASSUME NEW s \in Seq(Records), NEW n \in 1..Len(s)
  PROVE  /\ SubSeq(s, 1, n) \in Seq(Records) /\ SubSeq(s, n + 1, Len(s)) \in Seq(Records)
         /\ s = SubSeq(s, 1, n) \o SubSeq(s, n + 1, Len(s))
<1> DEFINE q == SubSeq(s, 1, n)  b == SubSeq(s, n + 1, Len(s))
<1>1. Len(s) \in Nat /\ n \in Nat /\ n <= Len(s) /\ DOMAIN s = 1..Len(s)
  BY LenProperties
<1>2. /\ q \in Seq(Records) /\ Len(q) = n /\ \A i \in 1..n : q[i] = s[i]
  <2>1. \A i \in 1..n : s[i] \in Records
    BY <1>1, ElementOfSeq
  <2> QED
    BY <1>1, <2>1, SubSeqProperties
<1>3. /\ b \in Seq(Records) /\ Len(b) = Len(s) - n
      /\ \A i \in 1..(Len(s) - n) : b[i] = s[n + i]
  <2>1. \A i \in (n + 1)..Len(s) : s[i] \in Records
    BY <1>1, ElementOfSeq
  <2>2. n + 1 \in Int /\ Len(s) \in Int
    BY <1>1
  <2>3. /\ b \in Seq(Records)
        /\ Len(b) = IF n + 1 <= Len(s) THEN Len(s) - (n + 1) + 1 ELSE 0
        /\ \A i \in 1..(Len(s) - (n + 1) + 1) : b[i] = s[(n + 1) + i - 1]
    BY <2>1, <2>2, SubSeqProperties
  <2> HIDE DEF b
  <2>4. Len(b) = Len(s) - n
    <3>1. PICK k \in Nat, m \in Nat : k = Len(s) /\ m = n /\ m <= k
      BY <1>1
    <3>2. (IF m + 1 <= k THEN k - (m + 1) + 1 ELSE 0) = k - m
      BY <3>1
    <3> QED
      BY <2>3, <3>1, <3>2
  <2>5. ASSUME NEW i \in 1..(Len(s) - n) PROVE b[i] = s[n + i]
    <3>1. i \in 1..(Len(s) - (n + 1) + 1) /\ (n + 1) + i - 1 = n + i
      BY <1>1
    <3> QED
      BY <2>3, <3>1
  <2> QED
    BY <2>3, <2>4, <2>5
<1> HIDE DEF q, b
<1>4. /\ q \o b \in Seq(Records) /\ Len(q \o b) = Len(q) + Len(b)
      /\ \A i \in 1..(Len(q) + Len(b)) :
           (q \o b)[i] = IF i <= Len(q) THEN q[i] ELSE b[i - Len(q)]
  BY <1>2, <1>3, ConcatProperties
<1>5. Len(q \o b) = Len(s)
  BY <1>1, <1>2, <1>3, <1>4
<1>6. ASSUME NEW i \in 1..Len(s) PROVE (q \o b)[i] = s[i]
  <2>1. CASE i <= n
    BY <1>1, <1>2, <1>3, <1>4, <2>1
  <2>2. CASE n < i
    <3>1. i - n \in 1..(Len(s) - n) /\ ~(i <= n)
      BY <1>1, <2>2
    <3>2. b[i - n] = s[n + (i - n)] /\ n + (i - n) = i
      BY <1>1, <1>3, <3>1
    <3> QED
      BY <1>1, <1>2, <1>3, <1>4, <3>1, <3>2
  <2>3. i <= n \/ n < i
    BY <1>1
  <2> QED
    BY <2>1, <2>2, <2>3
<1>7. q \o b = s
  BY <1>4, <1>5, <1>6, SeqEqual
<1> QED
  BY <1>2, <1>3, <1>7 DEF q, b

LEMMA WriteOutStep ==
  ASSUME LogIInv, NEW n \in 1..Len(buffer), Log!WriteOut(n)
  PROVE  LogIInv'
<1> DEFINE q == SubSeq(buffer, 1, n)  b == SubSeq(buffer, n + 1, Len(buffer))
<1>1. PICK T, P, A : T = time /\ P = Log!Pairs(appended) /\ A = Log!ToSet(appended)
  OBVIOUS
<1>2. Good(name, buffer, disk, lost, T, P, A, lastCall) /\ Strict(P) /\ buffer \in Seq(Records)
  BY <1>1 DEF LogIInv, LogWhole, LogOnce, Good, Shaped
<1>3. q \in Seq(Records) /\ b \in Seq(Records) /\ buffer = q \o b
  BY <1>2, Split
<1>4. Log!ToSet(q \o b) = Log!ToSet(q) \cup Log!ToSet(b)
  BY <1>3, ToSetConcat, ZenonT(30)
<1>5. Log!ToSet(b) \subseteq Log!ToSet(buffer)
  BY <1>3, <1>4
<1>6. /\ buffer' = b
      /\ IF name \in DOMAIN disk
           THEN disk' = Log!With(disk, name, disk[name] \o q) /\ lost' = lost
           ELSE lost' = lost \cup Log!ToSet(q) /\ disk' = disk
      /\ UNCHANGED <<now, name, writtenBytes_, fileDay_, lastFlush_, time,
                     appended, lastCall>>
  BY DEF Log!WriteOut
<1> HIDE DEF q, b
<1>7. Good(name, b, disk', lost', T, P, A, lastCall)
  <2>1. Good(name, q \o b, disk, lost, T, P, A, lastCall)
    BY <1>2, <1>3
  <2>2. CASE name \in DOMAIN disk
    <3>1. Good(name, b, Log!With(disk, name, disk[name] \o q), lost, T, P, A, lastCall)
      BY <1>3, <2>1, <2>2, WriteGood
    <3> QED
      BY <1>6, <2>2, <3>1
  <2>3. CASE name \notin DOMAIN disk
    <3>1. Good(name, b, disk, lost \cup Log!ToSet(q), T, P, A, lastCall)
      BY <1>2, <1>3, <2>1, LoseGood
    <3> QED
      BY <1>6, <2>3, <3>1
  <2> QED
    BY <2>2, <2>3
<1>8. LogWhole'
  BY <1>1, <1>6, <1>7 DEF LogWhole
<1>9. LogClock' /\ LogOnce' /\ LogToday'
  BY <1>6 DEF LogIInv, LogClock, LogOnce, LogToday
<1>10. LogYoung'
  BY <1>5, <1>6 DEF LogIInv, LogYoung
<1> QED
  BY <1>8, <1>9, <1>10 DEF LogIInv

LEMMA DeleteStep ==
  ASSUME LogIInv, NEW n \in DOMAIN disk, Log!Delete(n)
  PROVE  LogIInv'
<1>1. PICK T, P, A : T = time /\ P = Log!Pairs(appended) /\ A = Log!ToSet(appended)
  OBVIOUS
<1>2. Good(name, buffer, disk, lost, T, P, A, lastCall) /\ Strict(P)
  BY <1>1 DEF LogIInv, LogWhole, LogOnce
<1>3. /\ disk' = Log!Without(disk, {n}) /\ lost' = lost \cup Log!ToSet(disk[n])
      /\ UNCHANGED <<now, name, writtenBytes_, fileDay_, lastFlush_, buffer,
                     time, appended, lastCall>>
  BY DEF Log!Delete
<1>4. Good(name, buffer, Log!Without(disk, {n}), lost \cup UNION {Log!ToSet(disk[m]) : m \in {n}},
           T, P, A, lastCall)
  BY <1>2, RemoveGood
<1>5. UNION {Log!ToSet(disk[m]) : m \in {n}} = Log!ToSet(disk[n])
  OBVIOUS
<1>6. LogWhole'
  BY <1>1, <1>3, <1>4, <1>5 DEF LogWhole
<1>7. LogClock' /\ LogOnce' /\ LogToday' /\ LogYoung'
  BY <1>3 DEF LogIInv, LogClock, LogOnce, LogToday, LogYoung
<1> QED
  BY <1>6, <1>7 DEF LogIInv

LEMMA RestartStep ==
  ASSUME LogIInv, NEW crash \in BOOLEAN, Log!Restart(crash)
  PROVE  LogIInv'
<1>1. PICK T, P, A : T = time /\ P = Log!Pairs(appended) /\ A = Log!ToSet(appended)
  OBVIOUS
<1>2. Log!State \in Stages /\ GoodStage(Log!State, T, P, A, now) /\ Strict(P)
  BY <1>1, StateGood
<1>3. /\ Log!State.name = name /\ Log!State.buffer = buffer /\ Log!State.disk = disk
      /\ Log!State.lost = lost
  BY DEF Log!State
<1>4. Good(name, buffer, disk, lost, T, P, A, lastCall)
  BY <1>1 DEF LogIInv, LogWhole
<1>5. PICK s \in Stages :
        /\ s = IF crash THEN Log!State ELSE Log!fflush(Log!State, TRUE)
        /\ Good(s.name, s.buffer, s.disk, s.lost, T, P, A, now)
        /\ DOMAIN s.disk = DOMAIN disk
  <2>1. CASE crash
    BY <1>2, <1>3, <2>1 DEF GoodStage
  <2>2. CASE ~crash
    <3>1. Log!fflush(Log!State, TRUE) \in Stages /\ DOMAIN Log!fflush(Log!State, TRUE).disk = DOMAIN Log!State.disk
          /\ GoodStage(Log!fflush(Log!State, TRUE), T, P, A, now)
      BY <1>2, FlushStage
    <3> QED
      BY <1>3, <2>2, <3>1 DEF GoodStage
  <2> QED
    BY <2>1, <2>2
<1>6. /\ disk' = s.disk /\ lost' = s.lost \cup Log!ToSet(s.buffer)
      /\ name' = none /\ buffer' = <<>> /\ writtenBytes_' = 0 /\ lastFlush_' = 0
      /\ UNCHANGED <<now, time, appended, lastCall>>
  BY <1>5 DEF Log!Restart
<1>7. <<>> \in Seq(Records) /\ Log!ToSet(<<>>) = {} /\ Log!Pairs(<<>>) = {}
  BY EmptySeq, ToSetOne, PairsOne
<1>8. Good(s.name, <<>>, s.disk, s.lost \cup Log!ToSet(s.buffer), T, P, A, now)
  <2>1. s.buffer \in Seq(Records) /\ s.buffer \o <<>> = s.buffer
    BY ConcatEmptySeq DEF Stages
  <2>2. Good(s.name, s.buffer \o <<>>, s.disk, s.lost, T, P, A, now)
    BY <1>5, <2>1
  <2> QED
    BY <1>2, <1>7, <2>1, <2>2, LoseGood
<1>9. \A n \in DOMAIN s.disk : n <= lastCall
  BY <1>4, <1>5 DEF Good, Shaped
<1>10. Good(none, <<>>, s.disk, s.lost \cup Log!ToSet(s.buffer), T, P, A, lastCall)
  BY <1>7, <1>8, <1>9 DEF Good, Shaped, Dated
<1>11. LogWhole'
  BY <1>1, <1>6, <1>10 DEF LogWhole
<1>12. LogClock' /\ LogOnce' /\ LogToday' /\ LogYoung'
  BY <1>6, <1>7 DEF LogIInv, LogClock, LogOnce, LogToday, LogYoung
<1> QED
  BY <1>11, <1>12 DEF LogIInv

LEMMA LogNextIInv == LogIInv /\ [Log!Next]_(Log!vars) => LogIInv'
<1> SUFFICES ASSUME LogIInv, [Log!Next]_(Log!vars) PROVE LogIInv'
  OBVIOUS
<1>1. ASSUME NEW r \in Records \cup {none}, Log!append(r) PROVE LogIInv'
  BY <1>1, AppendStep
<1>2. CASE Log!Tick
  BY <1>2, TickStep
<1>3. ASSUME NEW n \in 1..Len(buffer), Log!WriteOut(n) PROVE LogIInv'
  BY <1>3, WriteOutStep
<1>4. ASSUME NEW n \in DOMAIN disk, Log!Delete(n) PROVE LogIInv'
  BY <1>4, DeleteStep
<1>5. ASSUME NEW crash \in BOOLEAN, Log!Restart(crash) PROVE LogIInv'
  BY <1>5, RestartStep
<1>6. CASE Log!Fill
  BY <1>6 DEF Log!Fill, LogIInv, LogClock, LogOnce, LogWhole, LogToday, LogYoung
<1>7. CASE UNCHANGED Log!vars
  BY <1>7 DEF Log!vars, LogIInv, LogClock, LogOnce, LogWhole, LogToday, LogYoung
<1> QED
  BY <1>1, <1>2, <1>3, <1>4, <1>5, <1>7, <1>6 DEF Log!Next

LEMMA LogInvariance == Log!Spec => []LogIInv
  BY LogInitIInv, LogNextIInv, PTL DEF Log!Spec

(* The files, in the order of their names, and the buffer behind them hold  *)
(* the records in the order in which append() was called with them, each    *)
(* once, and all but those known to be lost: through rolling, partial       *)
(* writes of the C library, deleted files, files that cannot be opened,     *)
(* crashes and restarts.                                                    *)
THEOREM FilesKeepTheOrder == Log!Spec => []FilesInOrder
<1>1. LogIInv => FilesInOrder
  <2> SUFFICES ASSUME LogIInv PROVE FilesInOrder
    OBVIOUS
  <2>1. Ordered(buffer, disk, Log!Pairs(appended)) /\ Accounted(buffer, disk, lost, Log!ToSet(appended))
    BY DEF LogIInv, LogWhole, Good
  <2>2. Log!Kept = Log!ToSet(appended) \ lost
    BY <2>1 DEF Log!Kept, Accounted
  <2>3. ASSUME NEW s, \A x, y : <<x, y>> \in Log!Pairs(s) => <<x, y>> \in Log!Pairs(appended)
        PROVE  Log!Pairs(s) \subseteq Log!Pairs(appended)
    BY <2>3 DEF Log!Pairs
  <2>4. Log!Pairs(buffer) \subseteq Log!Pairs(appended)
    BY <2>1, <2>3 DEF Ordered
  <2>5. ASSUME NEW n \in DOMAIN disk
        PROVE  /\ Log!Pairs(disk[n]) \subseteq Log!Pairs(appended)
               /\ Log!ToSet(disk[n]) \X Log!ToSet(buffer) \subseteq Log!Pairs(appended)
    BY <2>1, <2>3 DEF Ordered
  <2>6. ASSUME NEW n \in DOMAIN disk, NEW m \in DOMAIN disk, n < m
        PROVE  Log!ToSet(disk[n]) \X Log!ToSet(disk[m]) \subseteq Log!Pairs(appended)
    BY <2>1, <2>6 DEF Ordered
  <2> QED
    BY <2>2, <2>4, <2>5, <2>6 DEF FilesInOrder, Log!FilesInOrder
<1> QED
  BY <1>1, LogInvariance, PTL

(* Every record is in the file of the day on which it was logged, although  *)
(* append() compares the day of the month only.                             *)
THEOREM FilesOfTheirDay == Log!Spec => []RightDay
<1>1. LogIInv => RightDay
  BY DEF LogIInv, LogWhole, Good, Dated, RightDay, Log!RightDay
<1> QED
  BY <1>1, LogInvariance, PTL

(* What is still in the buffer, and lost by a crash, is no older than the   *)
(* flush interval and the time between two calls of append().               *)
THEOREM RecentLoss == Log!Spec => []BufferIsYoung
<1>1. LogIInv => BufferIsYoung
  <2> SUFFICES ASSUME LogIInv, NEW r \in Log!ToSet(buffer)
               PROVE  now - time[r] <= FlushInterval + MaxGap
    BY DEF BufferIsYoung, Log!BufferIsYoung
  <2>1. time[r] \in Nat
    BY DEF LogIInv, LogWhole, Good, Dated
  <2>2. FlushInterval \in Nat /\ MaxGap \in Nat
    BY ClockAssumption
  <2> QED
    BY <2>1, <2>2 DEF LogIInv, LogClock, LogYoung
<1> QED
  BY <1>1, LogInvariance, PTL

(* A call of append() loses a record only with the directory of the day     *)
(* that has expired, because its file was deleted or not opened, or while   *)
(* the file system refuses writes.                                          *)
THEOREM LossExplained == Log!Spec => LossHasCause
<1>1. LogIInv /\ [Log!Next]_(Log!vars) =>
        [lost' # lost /\ (\E r \in Records \cup {none} : Log!append(r)) =>
           \A r \in lost' \ lost :
             \/ time[r] # none /\ Log!Day(time[r]) + AutoRm = Log!Day(now)
             \/ name \notin DOMAIN disk
             \/ name' \notin DOMAIN disk'
             \/ full]_(Log!vars)
  BY AppendStep DEF Cause
<1> QED
  BY <1>1, LogInvariance, PTL DEF Log!Spec, LossHasCause, Log!LossHasCause
=============================================================================
