------------------------------- MODULE StringOps -------------------------------
(***************************************************************************)
(* base/StringOps.{h,cpp}: splitex(), utf8_substr() and the sprintfex()    *)
(* family, as functions, and what they are for.  Positions in a string are *)
(* those of the code, from 0; npos is the largest size_t.                  *)
(***************************************************************************)
EXTENDS Integers, Sequences, FiniteSets, SequencesExt

CONSTANTS
  Delim,        \* the character that splits
  npos,
  Buffer        \* the bytes that sprintfex() tries first

(* std::string *)

At(str, i) == str[i + 1]
substr(str, pos, len) == SubSeq(str, pos + 1, IF len > Len(str) - pos THEN Len(str) ELSE pos + len)
MinusOne(i) == IF i = 0 THEN npos ELSE i - 1
DelimsOf(str) == {i \in 0..(Len(str) - 1) : At(str, i) = Delim}

find_first_of(str, from) ==
  LET found == {i \in DelimsOf(str) : i >= from} IN IF found = {} THEN npos ELSE Min(found)

find_last_of(str, from) ==
  LET found == {i \in DelimsOf(str) : i <= from} IN IF found = {} THEN npos ELSE Max(found)

NonEmpty(str) == IF str = <<>> THEN <<>> ELSE <<str>>

-----------------------------------------------------------------------------
(* splitex() *)

\* fault: the rest after the last delimiter is left out.
splitex_NoRest(str) ==
  LET ret[last \in 0..Len(str)] ==
        LET index == find_first_of(str, last) IN
        IF index = npos THEN <<>>
        ELSE NonEmpty(substr(str, last, index - last)) \o ret[index + 1]
  IN ret[0]

(* The version that returns all parts. *)
splitex(str) ==
  LET ret[last \in 0..Len(str)] ==
        LET index == find_first_of(str, last) IN
        IF index = npos THEN NonEmpty(substr(str, last, npos))
        ELSE NonEmpty(substr(str, last, index - last)) \o ret[index + 1]
  IN ret[0]

(* The version that returns part n, from the front when n > 0, from the     *)
(* back when n < 0: part i is at hand when the loop is at `last'.           *)
FromFront(str, n) ==
  LET ret[i \in 1..n, last \in 0..Len(str)] ==
        LET index == find_first_of(str, last) IN
        IF index = npos THEN (IF i = n THEN substr(str, last, npos) ELSE <<>>)
        ELSE IF i = n THEN substr(str, last, index - last)
        ELSE ret[i + 1, index + 1]
  IN ret[1, 0]

FromBack(str, n) ==
  LET ret[i \in 1..n, last \in 0..Len(str) \cup {npos}] ==
        LET index == find_last_of(str, last) IN
        IF index = npos THEN (IF i = n THEN substr(str, 0, MinusOne(last)) ELSE <<>>)
        ELSE IF i = n THEN substr(str, index + 1, last - index)
        ELSE ret[i + 1, MinusOne(index)]
  IN ret[1, Len(str)]

splitexN(str, n) ==
  IF n > 0 THEN FromFront(str, n) ELSE IF n < 0 THEN FromBack(str, -n) ELSE <<>>

(* The parts of a string, empty ones included: what is between two          *)
(* delimiters that follow each other, or an end of the string.              *)
Parts(str) ==
  LET ends == SetToSortSeq(DelimsOf(str) \cup {-1, Len(str)}, <) IN
  [k \in 1..(Len(ends) - 1) |-> SubSeq(str, ends[k] + 2, ends[k + 1])]

PartOf(str, k) == IF k \in DOMAIN Parts(str) THEN Parts(str)[k] ELSE <<>>

(* splitex() returns the parts that are not empty, and part n from the      *)
(* front.  From the back it returns the right part except when that is the  *)
(* first one, which loses characters, and when there is none in a string    *)
(* that begins with a delimiter, where it starts over from the end.         *)
SplitsAgree(str, n) ==
  LET k == Len(Parts(str)) + 1 + n IN
  /\ splitex(str) = SelectSeq(Parts(str), LAMBDA part : part # <<>>)
  /\ n > 0 => splitexN(str, n) = PartOf(str, n)
  /\ n < 0 /\ (k > 1 \/ (k < 1 /\ 0 \notin DelimsOf(str))) => splitexN(str, n) = PartOf(str, k)

-----------------------------------------------------------------------------
(* utf8_substr(): the bytes of a string are the lengths that lead bytes     *)
(* announce, and 0 for those that follow.                                   *)

Char(width) == [i \in 1..width |-> IF i = 1 THEN width ELSE 0]
Encoded(widths) == FlattenSeq([k \in DOMAIN widths |-> Char(widths[k])])

Within(q, pos, len) == q <= pos + len \/ len = npos

utf8_substr(str, pos, len) ==
  LET ends[i \in 0..Len(str), q \in 0..Len(str), min \in 0..npos, max \in 0..npos] ==
        LET min1 == IF q = pos THEN i ELSE min
            max1 == IF Within(q, pos, len) THEN i ELSE max
        IN IF i = Len(str) THEN <<min, max1>>
           ELSE ends[i + At(str, i), q + 1, min1, max1]
      bounds == ends[0, 0, npos, npos]
  IN IF len = 0 \/ npos \in Range(bounds) THEN <<>>
     ELSE substr(str, bounds[1], bounds[2] - bounds[1])

(* utf8_substr() returns whole characters: those at pos and after it, len   *)
(* of them or as many as there are.                                         *)
SubstrAgrees(widths, pos, len) ==
  utf8_substr(Encoded(widths), pos, len) =
    Encoded(SubSeq(widths, pos + 1, IF len > Len(widths) - pos THEN Len(widths) ELSE pos + len))

-----------------------------------------------------------------------------
(* sprintfex(), strprintfex(), vsprintfex() and vstrprintfex(): a text of   *)
(* `length' characters; what is not one of them is 0.                       *)

vsnprintf(size, length) ==
  [i \in 1..size |-> IF i < size /\ i <= length THEN i ELSE 0]

Resized(str, size) == [i \in 1..size |-> IF i <= Len(str) THEN str[i] ELSE 0]

sprintfex(length) ==
  IF length >= Buffer THEN Resized(vsnprintf(length + 1, length), length)
                      ELSE Resized(vsnprintf(Buffer, length), length)

(* The text comes out whole, whatever its length, with nothing after it. *)
FormatsWhole(length) == sprintfex(length) = [i \in 1..length |-> i]
=============================================================================
