----------------------------- MODULE ConfigReader -----------------------------
(***************************************************************************)
(* base/ConfigReader.{h,cpp}: a map of configuration values that is read   *)
(* from a file by the constructor and written back, whole, by every        *)
(* SetConfigValue().  The process may die at any time, also between the    *)
(* opening of the file, which empties it, and its closing, and is started  *)
(* again.  Opening the file may fail, for reading or for writing, and so   *)
(* may writing to it.                                                      *)
(*                                                                         *)
(* A text is a sequence of words; Long is a word that does not fit, with   *)
(* its key, into the 128 bytes _WriteFIle() has for a pair, nor does what  *)
(* follows it.  Blank is a space or a tab; there are no carriage returns.  *)
(* No other object writes the file at the same time, and the lines are     *)
(* shorter than the 256 bytes of _LoadFile().  A file that is cut short is *)
(* cut between words.                                                      *)
(***************************************************************************)
EXTENDS Integers, Sequences, SequencesExt

CONSTANTS
  KeyOrder,     \* the keys, as std::map sorts them
  Texts,        \* the values SetConfigValue() is called with
  Files         \* what the file holds at first

VARIABLES
  file,         \* the words in the file
  cfgMap_,
  state,        \* "idle", "unread" (idle, but the file was not read), "writing"
                \* or "down"
  given,        \* the values the application may expect to find
  durable       \* the keys whose values, as last written, are read as they are

vars == <<file, cfgMap_, state, given, durable>>

Keys == Range(KeyOrder)
Blank == " "
Newline == "\n"
Long == "long"
Empty == [k \in {} |-> <<>>]

-----------------------------------------------------------------------------
(* _LoadFile() *)

(* Where lines start: each after a newline. *)
Starts(text) == {0} \cup {i \in DOMAIN text : text[i] = Newline}

(* The part of a text before the first of a word, or all of it. *)
Before(text, word) ==
  SubSeq(text, 1, Min({i \in DOMAIN text : text[i] = word} \cup {Len(text) + 1}) - 1)

Line(text, start) == Before(SubSeq(text, start + 1, Len(text)), Newline)

_TrimSpace(text) ==
  LET kept == {i \in DOMAIN text : text[i] # Blank} IN
  IF kept = {} THEN <<>> ELSE SubSeq(text, Min(kept), Max(kept))

(* _ParseLine(): what a line says, of one key at most. *)
_ParseLine(line) ==
  LET text == Before(line, "#")
      key == _TrimSpace(Before(text, "="))
      value == _TrimSpace(SubSeq(text, Len(Before(text, "=")) + 2, Len(text)))
  IN IF Contains(text, "=") /\ key # <<>> /\ value # <<>>
       THEN [k \in {key} |-> value]
       ELSE Empty

(* What _LoadFile() makes of a file that it can open.  Of the lines about a *)
(* key, the first is in effect: insert() keeps it.                          *)
_LoadFile(text) ==
  LET said == [i \in Starts(text) |-> _ParseLine(Line(text, i))]
      First(key) == Min({i \in Starts(text) : key \in DOMAIN said[i]})
  IN [key \in UNION {DOMAIN said[i] : i \in Starts(text)} |-> said[First(key)][key]]

(* A file that cannot be opened is reported, and the map left empty. *)
Init ==
  /\ file \in Files
  /\ \/ cfgMap_ = _LoadFile(file) /\ state = "idle"
     \/ cfgMap_ = Empty /\ state = "unread"
  /\ given = Empty
  /\ durable = {}

-----------------------------------------------------------------------------
(* _WriteFIle() *)

(* snprintf() into szPaire: what does not fit is lost, newline included. *)
szPaire(key, value) ==
  LET line == key \o <<"=">> \o value \o <<Newline>> IN
  SubSeq(line, 1, Min({i \in DOMAIN line : line[i] = Long} \cup {Len(line)}))

_WriteFIle(map) ==
  FlattenSeq([i \in DOMAIN KeyOrder |->
    IF KeyOrder[i] \in DOMAIN map THEN szPaire(KeyOrder[i], map[KeyOrder[i]]) ELSE <<>>])

With(map, key, value) ==
  [k \in DOMAIN map \cup {key} |-> IF k = key THEN value ELSE map[k]]

\* fault: a value that is there already stays.
SetConfigValue_Insert(key, value) ==
  /\ state = "idle"
  /\ UNCHANGED durable
  /\ cfgMap_' = IF key \in DOMAIN cfgMap_ THEN cfgMap_ ELSE With(cfgMap_, key, value)
  /\ file' = <<>>
  /\ state' = "writing"
  /\ given' = With(given, key, value)

(* SetConfigValue(), until the file is open, and what it held is gone; it   *)
(* may not be opened.                                                       *)
SetConfigValue(key, value) ==
  /\ state \in {"idle", "unread"}
  /\ UNCHANGED durable
  /\ cfgMap_' = With(cfgMap_, key, value)
  /\ \/ /\ file' = <<>>
        /\ state' = "writing"
        /\ given' = With(IF state = "unread" THEN Empty ELSE given, key, value)
     \/ /\ given' = [k \in DOMAIN given \ {key} |-> given[k]]
        /\ UNCHANGED <<file, state>>

(* A text that is read as it was written: on one line, without comment, and *)
(* with no blanks at its ends.                                              *)
Faithful(text) ==
  /\ text # <<>>
  /\ Range(text) \cap {"#", Newline, Long} = {}
  /\ text[1] # Blank /\ text[Len(text)] # Blank

(* The places, in the order of the map, of the pairs before that of a key. *)
PlacesBefore(key) ==
  {j \in DOMAIN KeyOrder :
     /\ KeyOrder[j] \in DOMAIN cfgMap_
     /\ \E i \in DOMAIN KeyOrder : j < i /\ KeyOrder[i] = key}

(* The pairs before that of the key do not spill into its line. *)
OwnLine(key) ==
  \A j \in PlacesBefore(key) :
    /\ ~Contains(cfgMap_[KeyOrder[j]], Newline)
    /\ Contains(cfgMap_[KeyOrder[j]], Long) => \E i \in PlacesBefore(key) : j < i

FinishWrite ==
  /\ state = "writing"
  /\ file' = _WriteFIle(cfgMap_)
  /\ state' = "idle"
  /\ durable' = {k \in DOMAIN cfgMap_ : Faithful(cfgMap_[k]) /\ OwnLine(k)}
  /\ UNCHANGED <<cfgMap_, given>>

CutShort(text) == {SubSeq(text, 1, n) : n \in 0..Len(text)}

(* fwrite() fails, which ends the writing, or fclose(), which nobody sees: *)
(* the file stays cut short, the map as it was to be written.              *)
FailWrite ==
  /\ state = "writing"
  /\ file' \in CutShort(_WriteFIle(cfgMap_))
  /\ state' = "idle"
  /\ durable' = {}
  /\ UNCHANGED <<cfgMap_, given>>

-----------------------------------------------------------------------------
(* The process dies; a file that it was writing is cut short. *)
Crash ==
  /\ state # "down"
  /\ state' = "down"
  /\ IF state = "writing"
       THEN file' \in CutShort(_WriteFIle(cfgMap_)) /\ given' = Empty
       ELSE UNCHANGED file /\ given' = [k \in durable \cap DOMAIN given |-> given[k]]
  /\ UNCHANGED <<cfgMap_, durable>>

(* ConfigReader::ConfigReader() *)
Restart ==
  /\ state = "down"
  /\ \/ cfgMap_' = _LoadFile(file) /\ state' = "idle"
     \/ cfgMap_' = Empty /\ state' = "unread"
  /\ UNCHANGED <<file, given, durable>>

Next ==
  \/ \E key \in Keys, value \in Texts : SetConfigValue(key, value)
  \/ FinishWrite
  \/ FailWrite
  \/ Crash
  \/ Restart

Spec == Init /\ [][Next]_vars

-----------------------------------------------------------------------------
(* Once the file has been read, a value that was set is the value that is  *)
(* found, across restarts and failures.  Lost are all values when the      *)
(* process died while it was writing the file, when the last write before  *)
(* it died had failed, or when a value was set after the file could not be *)
(* read; and one, when the file could not be opened to write it, when it   *)
(* does not read as it is written, or when the lines before it were too    *)
(* long and lost their newline, or hold several.                           *)
ValuesKept ==
  state = "idle" =>
    \A k \in DOMAIN given : k \in DOMAIN cfgMap_ /\ cfgMap_[k] = given[k]
=============================================================================
