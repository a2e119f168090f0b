------------------------------ MODULE FileNotify ------------------------------
(***************************************************************************)
(* base/FileNotify.{h,cpp}: callbacks for files that change, from inotify. *)
(* All of it runs in one loop's thread; the files are changed by others,   *)
(* between any two of its steps.                                           *)
(*                                                                         *)
(* External: inotify.  It watches inodes, not names: a name is looked up   *)
(* once, by inotify_add_watch(), which returns the descriptor of an inode  *)
(* that is watched already, and else a new one.  When an inode goes, so    *)
(* does its watch, and IN_IGNORED is the last event of its descriptor, as  *)
(* it is after inotify_rm_watch().  IN_MODIFY is not queued twice in a row *)
(* unless the first has been read.                                         *)
(*                                                                         *)
(* A file is replaced by one that is not watched (an editor's new copy),   *)
(* and no two names lead to one inode.  Callbacks read the file they are   *)
(* called for; they may watch files and remove watches, but not the one    *)
(* they are called for, as that destroys the entry onRead() is using.  All *)
(* callbacks for a name are the same.                                      *)
(***************************************************************************)
EXTENDS Integers, Sequences

CONSTANTS
  Names,        \* the files
  MaxChanges,   \* how often files change
  MaxWd         \* how many watches are made

VARIABLES
  changes,      \* the changes of files so far, which number inodes and contents
  inode,        \* inode[f]: the inode of name f, or 0
  version,      \* version[f]: the contents that a reader of f finds
  lastWd,
  watch,        \* watch[wd]: the inode that inotify watches, or 0
  events,       \* the events that onRead() has not read, as [wd, mask]
  notifyMap_,   \* notifyMap_[wd]: the name in its entry, or NoName
  fileMap_,     \* fileMap_[f]: a descriptor, or 0
  et,           \* the event onRead() is at, whose callback has read, or NoEvent
  wanted,       \* the names that were watched and not removed since
  seen,         \* seen[f]: the contents the application read last
  missed,       \* the names that changed while onRead() was between two watches
  gone          \* the names whose file went while it was watched

vars == <<changes, inode, version, lastWd, watch, events, notifyMap_, fileMap_,
          et, wanted, seen, missed, gone>>

files == <<changes, inode, version>>
application == <<wanted, seen, missed, gone>>

NoName == "none"

ASSUME NoNameAssumption == NoName \notin Names
ASSUME BoundsAssumption == MaxChanges \in Nat /\ MaxWd \in Nat

NoEvent == [wd |-> 0, mask |-> "none"]
Event(wd, mask) == [wd |-> wd, mask |-> mask]
Wds == 1..MaxWd

Init ==
  /\ inode = [f \in Names |-> 0]
  /\ version = [f \in Names |-> 0]
  /\ changes = 0 /\ lastWd = 0
  /\ watch = [wd \in Wds |-> 0]
  /\ events = <<>>
  /\ notifyMap_ = [wd \in Wds |-> NoName]
  /\ fileMap_ = [f \in Names |-> 0]
  /\ et = NoEvent
  /\ wanted = {}
  /\ seen = [f \in Names |-> 0]
  /\ missed = {}
  /\ gone = {}

-----------------------------------------------------------------------------
(* The files, changed by other programs *)

Watched(f) == \E wd \in Wds : watch[wd] # 0 /\ watch[wd] = inode[f]

(* onRead() has called back for the old file of f, and has not yet watched *)
(* the new one.                                                            *)
BetweenWatches(f) == et.mask = "ignored" /\ notifyMap_[et.wd] = f

Change(f) ==
  /\ changes < MaxChanges
  /\ changes' = changes + 1
  /\ version' = [version EXCEPT ![f] = changes']
  /\ missed' = IF BetweenWatches(f) THEN missed \cup {f} ELSE missed
  /\ UNCHANGED <<lastWd, notifyMap_, fileMap_, et, wanted, seen>>

(* An event of the watch of inode i, if there is one. *)
Notify(i, mask) ==
  IF \E wd \in Wds : watch[wd] = i
    THEN \E wd \in {w \in Wds : watch[w] = i} :
           \/ events' = Append(events, Event(wd, mask))
           \/ /\ mask = "modify" /\ events # <<>>
              /\ events[Len(events)] = Event(wd, mask)
              /\ UNCHANGED events
    ELSE UNCHANGED events

Modify(f) ==
  /\ inode[f] # 0
  /\ Change(f)
  /\ Notify(inode[f], "modify")
  /\ UNCHANGED <<inode, watch, gone>>

(* The inode of f goes, with its watch. *)
Unlink(f) ==
  /\ inode[f] # 0
  /\ Notify(inode[f], "ignored")
  /\ watch' = [wd \in Wds |-> IF watch[wd] = inode[f] THEN 0 ELSE watch[wd]]
  /\ gone' = IF Watched(f) THEN gone \cup {f} ELSE gone

Replace(f) ==
  /\ Change(f)
  /\ inode' = [inode EXCEPT ![f] = changes']
  /\ IF inode[f] = 0 THEN UNCHANGED <<watch, events, gone>> ELSE Unlink(f)

Remove(f) ==
  /\ Unlink(f)
  /\ Change(f)
  /\ inode' = [inode EXCEPT ![f] = 0]

-----------------------------------------------------------------------------
(* FileNotify *)

(* addWatch(): neither insert() replaces an entry that is there; after it  *)
(* the entry of `erased' goes, if it is not 0.                             *)
addWatch(f, erased) ==
  LET WatchAs(wd) ==
        /\ watch' = [watch EXCEPT ![wd] = inode[f]]
        /\ notifyMap_' = [w \in Wds |->
             IF w = erased THEN NoName
             ELSE IF w = wd /\ notifyMap_[w] = NoName THEN f ELSE notifyMap_[w]]
        /\ fileMap_' = [fileMap_ EXCEPT ![f] = IF @ = 0 THEN wd ELSE @]
  IN
  IF inode[f] = 0
    THEN /\ fileMap_' = [fileMap_ EXCEPT ![f] = 0]
         /\ notifyMap_' = [w \in Wds |-> IF w = erased THEN NoName ELSE notifyMap_[w]]
         /\ UNCHANGED <<watch, lastWd>>
    ELSE \/ /\ \E wd \in Wds : watch[wd] = inode[f] /\ WatchAs(wd)
            /\ UNCHANGED lastWd
         \/ /\ ~Watched(f)
            /\ lastWd < MaxWd
            /\ lastWd' = lastWd + 1
            /\ WatchAs(lastWd')

(* The application watches f, if it exists, and reads it: outside onRead()  *)
(* or in the callback onRead() has called, for that file or another one.   *)
AddWatch(f) ==
  /\ addWatch(f, 0)
  /\ wanted' = IF inode[f] = 0 THEN wanted ELSE wanted \cup {f}
  /\ seen' = [seen EXCEPT ![f] = version[f]]
  /\ missed' = missed \ {f}
  /\ UNCHANGED <<files, events, et, gone>>

\* fault: the entry is left to the IN_IGNORED that follows.
rmWatch_LeaveEntry(f) ==
  LET wd == fileMap_[f] IN
  /\ et # NoEvent => notifyMap_[et.wd] # f
  /\ f \in wanted
  /\ watch' = [w \in Wds |-> IF w = wd THEN 0 ELSE watch[w]]
  /\ events' = IF wd = 0 \/ watch[wd] = 0 THEN events
                                         ELSE Append(events, Event(wd, "ignored"))
  /\ fileMap_' = [fileMap_ EXCEPT ![f] = 0]
  /\ wanted' = wanted \ {f}
  /\ UNCHANGED <<files, lastWd, notifyMap_, et, seen, missed, gone>>

rmWatch(f) ==
  LET wd == fileMap_[f] IN
  /\ et # NoEvent => notifyMap_[et.wd] # f
  /\ f \in wanted
  /\ IF wd = 0
       THEN UNCHANGED <<watch, events, notifyMap_>>
       ELSE /\ notifyMap_' = [notifyMap_ EXCEPT ![wd] = NoName]
            /\ watch' = [watch EXCEPT ![wd] = 0]
            /\ events' = IF watch[wd] = 0 THEN events
                                          ELSE Append(events, Event(wd, "ignored"))
  /\ fileMap_' = [fileMap_ EXCEPT ![f] = 0]
  /\ wanted' = wanted \ {f}
  /\ UNCHANGED <<files, lastWd, et, seen, missed, gone>>

\* fault: the callback is called for IN_MODIFY alone.
onRead_ModifyOnly ==
  /\ et = NoEvent
  /\ events # <<>>
  /\ events' = Tail(events)
  /\ LET f == notifyMap_[Head(events).wd] IN
     /\ et' = IF f = NoName THEN et ELSE Head(events)
     /\ seen' = IF f # NoName /\ Head(events).mask = "modify"
                  THEN [seen EXCEPT ![f] = version[f]] ELSE seen
  /\ UNCHANGED <<files, lastWd, watch, notifyMap_, fileMap_, wanted, missed, gone>>

(* onRead(): one event is read, and the callback called. *)
onRead ==
  /\ et = NoEvent
  /\ events # <<>>
  /\ events' = Tail(events)
  /\ LET f == notifyMap_[Head(events).wd] IN
     IF f = NoName
       THEN UNCHANGED <<et, seen, missed>>
       ELSE /\ et' = Head(events)
            /\ seen' = [seen EXCEPT ![f] = version[f]]
            /\ missed' = missed \ {f}
  /\ UNCHANGED <<files, lastWd, watch, notifyMap_, fileMap_, wanted, gone>>

\* fault: the entry of the old descriptor stays.
AfterCallback_KeepEntry ==
  /\ et # NoEvent
  /\ et' = NoEvent
  /\ IF et.mask = "ignored"
       THEN addWatch(notifyMap_[et.wd], 0)
       ELSE UNCHANGED <<watch, lastWd, notifyMap_, fileMap_>>
  /\ UNCHANGED <<files, events, wanted, seen, missed, gone>>

(* onRead(): the rest of its loop, for the same event. *)
AfterCallback ==
  /\ et # NoEvent
  /\ et' = NoEvent
  /\ IF et.mask = "ignored"
       THEN addWatch(notifyMap_[et.wd], et.wd)
       ELSE UNCHANGED <<watch, lastWd, notifyMap_, fileMap_>>
  /\ UNCHANGED <<files, events, wanted, seen, missed, gone>>

Next ==
  \/ \E f \in Names : Modify(f) \/ Replace(f) \/ Remove(f)
  \/ \E f \in Names : AddWatch(f) \/ rmWatch(f)
  \/ onRead \/ AfterCallback

Spec == Init /\ [][Next]_vars

-----------------------------------------------------------------------------
TypeOK ==
  /\ inode \in [Names -> Nat] /\ version \in [Names -> Nat]
  /\ changes \in 0..MaxChanges /\ lastWd \in 0..MaxWd
  /\ watch \in [Wds -> Nat]
  /\ events \in Seq([wd : Wds, mask : {"modify", "ignored"}])
  /\ notifyMap_ \in [Wds -> Names \cup {NoName}]
  /\ fileMap_ \in [Names -> 0..MaxWd]
  /\ et \in [wd : Wds, mask : {"modify", "ignored"}] \cup {NoEvent}
  /\ wanted \in SUBSET Names /\ seen \in [Names -> Nat]
  /\ missed \in SUBSET Names /\ gone \in SUBSET Names

Queued(e, s) == \E k \in DOMAIN s : s[k] = e

Pending(wd) ==
  et = Event(wd, "ignored") \/ Queued(Event(wd, "ignored"), events)

(* Every watch of inotify has an entry in notifyMap_, so that its events   *)
(* find a callback, and an entry without a watch is about to be removed:   *)
(* its IN_IGNORED is queued or at hand.                                    *)
EntriesMatchWatches ==
  \A wd \in Wds :
    /\ watch[wd] # 0 => notifyMap_[wd] # NoName
    /\ notifyMap_[wd] # NoName /\ watch[wd] = 0 => Pending(wd)

(* When no event is left, the application has read the present contents of *)
(* every file it watches, unless the file changed just when onRead() was   *)
(* moving from the old file of that name to the new one.                   *)
NothingUnseen ==
  events = <<>> /\ et = NoEvent =>
    \A f \in wanted : Watched(f) => seen[f] = version[f] \/ f \in missed

(* No callback is called for a name after rmWatch(), unless its file was   *)
(* replaced or removed while it was watched: fileMap_ keeps the descriptor *)
(* of the old file, or none, so that rmWatch() does not find the entry     *)
(* that is left.                                                           *)
CalledIfWanted ==
  et # NoEvent =>
    notifyMap_[et.wd] \in wanted \cup gone
=============================================================================
