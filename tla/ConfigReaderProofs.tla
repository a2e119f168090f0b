------------------------- MODULE ConfigReaderProofs -------------------------
(* What the application gave ConfigReader survives Load() and Save(), for   *)
(* any files, keys and values that meet the assumptions of MCSequential.    *)
EXTENDS MCSequential, FiniteSetTheorems, SequenceTheorems,
        WellFoundedInduction, TLAPS

LEMMA LeastNatural ==
  ASSUME NEW T, T \subseteq Nat, T # {}
  PROVE  \E x \in T : \A y \in T : x <= y
<1> DEFINE Less == OpToRel(<, Nat)
<1>1. IsWellFoundedOn(Less, Nat)
  BY NatLessThanWellFounded
<1> HIDE DEF Less
<1>2. PICK x \in T : \A y \in T : <<y, x>> \notin Less
  BY <1>1, WFMin
<1>3. \A m, n \in Nat : m < n => <<m, n>> \in Less
  BY DEF Less, OpToRel
<1>4. ASSUME NEW y \in T
      PROVE  x <= y
  <2>1. ~(y < x)
    BY <1>2, <1>3
  <2> QED
    BY <2>1
<1> QED
  BY <1>4

LEMMA MinIs ==
  ASSUME NEW T, T \subseteq Nat, NEW x \in T, \A y \in T : x <= y
  PROVE  Config!Min(T) = x
<1>1. \A z \in T : (\A y \in T : z <= y) => z = x
  OBVIOUS
<1> QED
  BY <1>1 DEF Config!Min

LEMMA MaxIs ==
  ASSUME NEW T, T \subseteq Nat, NEW x \in T, \A y \in T : y <= x
  PROVE  Config!Max(T) = x
<1>1. \A z \in T : (\A y \in T : z >= y) => z = x
  OBVIOUS
<1>2. \A y \in T : x >= y
  OBVIOUS
<1> QED
  BY <1>1, <1>2 DEF Config!Max

LEMMA MinExists ==
  ASSUME NEW T, T \subseteq Nat, T # {}
  PROVE  Config!Min(T) \in T /\ \A y \in T : Config!Min(T) <= y
<1>1. PICK x \in T : \A y \in T : x <= y
  BY LeastNatural
<1> QED
  BY <1>1, MinIs

LEMMA MaxExists ==
  ASSUME NEW n \in Nat, NEW T, T \subseteq 0..n, T # {}
  PROVE  Config!Max(T) \in T /\ \A y \in T : y <= Config!Max(T)
<1> DEFINE U == {n - y : y \in T}
<1>1. U \subseteq Nat
  OBVIOUS
<1>11. U # {}
  <2>1. PICK z \in T : TRUE
    OBVIOUS
  <2>2. n - z \in U
    BY <2>1
  <2> QED BY <2>2
<1> HIDE DEF U
<1>2. PICK u \in U : \A w \in U : u <= w
  BY <1>1, <1>11, LeastNatural
<1>3. PICK x \in T : u = n - x
  BY DEF U
<1>4. \A y \in T : y <= x
  <2> SUFFICES ASSUME NEW y \in T
              PROVE  y <= x
    OBVIOUS
  <2>1. n - y \in U
    BY DEF U
  <2>2. n - x <= n - y
    BY <1>2, <1>3, <2>1
  <2>3. x \in Int /\ y \in Int
    OBVIOUS
  <2> QED
    BY <2>2, <2>3
<1>5. T \subseteq Nat
  OBVIOUS
<1> QED
  BY <1>4, <1>5, MaxIs

(* Before(): the part up to the place of the word, or to the end. *)
Ends(text, word, n) ==
  /\ n \in 0..Len(text)
  /\ \A i \in 1..n : text[i] # word
  /\ n = Len(text) \/ text[n + 1] = word

LEMMA BeforeIs ==
  ASSUME NEW S, NEW text \in Seq(S), NEW word, NEW n, Ends(text, word, n)
  PROVE  Config!Before(text, word) = SubSeq(text, 1, n)
<1> DEFINE T == {i \in DOMAIN text : text[i] = word} \cup {Len(text) + 1}
<1>1. Len(text) \in Nat /\ DOMAIN text = 1..Len(text)
  BY LenProperties
<1>20. n \in 0..Len(text)
  BY DEF Ends
<1>2. n \in Nat /\ n <= Len(text)
  BY <1>1, <1>20
<1>21. \A i \in 1..n : text[i] # word
  BY DEF Ends
<1>22. n = Len(text) \/ text[n + 1] = word
  BY DEF Ends
<1>3. T \subseteq Nat
  BY <1>1
<1>31. n + 1 \in T
  <2>1. CASE n = Len(text)
    BY <2>1
  <2>2. CASE n # Len(text)
    <3>0. Len(text) \in Nat
      BY <1>1
    <3>1. n + 1 \in 1..Len(text)
      BY <1>2, <2>2, <3>0
    <3>2. text[n + 1] = word
      BY <1>22, <2>2
    <3> QED BY <1>1, <1>2, <3>1, <3>2
  <2> QED BY <2>1, <2>2
<1>4. \A y \in T : n + 1 <= y
  BY <1>1, <1>2, <1>21
<1> HIDE DEF T
<1>5. Config!Min(T) = n + 1
  BY <1>3, <1>31, <1>4, MinIs
<1>6. (n + 1) - 1 = n
  BY <1>1, <1>2
<1>7. Config!Before(text, word) = SubSeq(text, 1, Config!Min(T) - 1)
  BY DEF Config!Before, T
<1> QED
  BY <1>5, <1>6, <1>7

LEMMA BeforeEnds ==
  ASSUME NEW S, NEW text \in Seq(S), NEW word
  PROVE  \E n : Ends(text, word, n)
<1> DEFINE T == {i \in DOMAIN text : text[i] = word} \cup {Len(text) + 1}
<1>1. Len(text) \in Nat /\ DOMAIN text = 1..Len(text)
  BY LenProperties
<1>2. T \subseteq Nat /\ T # {}
  BY <1>1
<1>3. Len(text) + 1 \in T /\ \A i \in 1..Len(text) : text[i] = word => i \in T
  BY <1>1
<1>31. \A x \in T : x \in 1..Len(text) + 1 /\ (x = Len(text) + 1 \/ text[x] = word)
  BY <1>1
<1> HIDE DEF T
<1>4. PICK x \in T : \A y \in T : x <= y
  BY <1>2, LeastNatural
<1>5. x \in 1..Len(text) + 1 /\ (x = Len(text) + 1 \/ text[x] = word)
  BY <1>31
<1>6. \A i \in 1..x - 1 : text[i] # word
  BY <1>1, <1>3, <1>4, <1>5
<1>7. Ends(text, word, x - 1)
  BY <1>1, <1>5, <1>6 DEF Ends
<1> QED
  BY <1>7

(* The first part of a text. *)
LEMMA FrontFacts ==
  ASSUME NEW S, NEW text \in Seq(S), NEW n \in 0..Len(text)
  PROVE  /\ SubSeq(text, 1, n) \in Seq(S)
         /\ Len(SubSeq(text, 1, n)) = n
         /\ \A i \in 1..n : SubSeq(text, 1, n)[i] = text[i]
<1>1. Len(text) \in Nat /\ \A i \in 1..n : text[i] \in S
  BY LenProperties, ElementOfSeq
<1>2. n \in Int /\ n - 1 + 1 = n /\ (1 <= n \/ n = 0)
  BY <1>1
<1>3. \A i \in 1..n : 1 + i - 1 = i
  BY <1>1
<1> QED
  BY <1>1, <1>2, <1>3, SubSeqProperties

(* The last part of a text. *)
LEMMA BackFacts ==
  ASSUME NEW S, NEW text \in Seq(S), NEW n \in 0..Len(text)
  PROVE  /\ SubSeq(text, n + 1, Len(text)) \in Seq(S)
         /\ Len(SubSeq(text, n + 1, Len(text))) = Len(text) - n
         /\ \A i \in 1..Len(text) - n : SubSeq(text, n + 1, Len(text))[i] = text[n + i]
<1>1. Len(text) \in Nat /\ \A i \in n + 1..Len(text) : text[i] \in S
  BY LenProperties, ElementOfSeq
<1>2. n + 1 \in Int /\ Len(text) \in Int
  BY <1>1
<1> DEFINE back == SubSeq(text, n + 1, Len(text))
<1>3. /\ back \in Seq(S)
      /\ Len(back) = IF n + 1 <= Len(text) THEN Len(text) - (n + 1) + 1 ELSE 0
      /\ \A i \in 1..Len(text) - (n + 1) + 1 : back[i] = text[(n + 1) + i - 1]
  <2> HIDE DEF back
  <2> QED BY <1>1, <1>2, SubSeqProperties DEF back
<1> HIDE DEF back
<1>4. Len(back) = Len(text) - n
  BY <1>1, <1>3
<1>5. \A i \in 1..Len(text) - n : (n + 1) + i - 1 = n + i /\ i \in 1..Len(text) - (n + 1) + 1
  BY <1>1
<1>6. \A i \in 1..Len(text) - n : back[i] = text[n + i]
  BY <1>3, <1>5
<1> QED
  BY <1>3, <1>4, <1>6 DEF back

(* Lines and what they say. *)

GoodKey(key) ==
  key \in Seq(Words) /\ Config!Faithful(key) /\ ~Config!Contains(key, "=")

LEMMA FaithfulFacts ==
  ASSUME NEW text \in Seq(Words), Config!Faithful(text)
  PROVE  /\ Len(text) \in Nat \ {0}
         /\ \A i \in 1..Len(text) :
              text[i] # "#" /\ text[i] # Config!Newline /\ text[i] # Config!Long
         /\ text[1] # Config!Blank /\ text[Len(text)] # Config!Blank
<1>1. Len(text) \in Nat /\ DOMAIN text = 1..Len(text) /\ text # <<>>
  BY LenProperties DEF Config!Faithful
<1>2. Len(text) # 0
  BY <1>1, EmptySeq
<1>3. \A i \in 1..Len(text) : text[i] \in Config!Range(text)
  BY <1>1 DEF Config!Range
<1>4. Config!Range(text) \cap {"#", Config!Newline, Config!Long} = {}
  BY DEF Config!Faithful
<1>5. text[1] # Config!Blank /\ text[Len(text)] # Config!Blank
  BY DEF Config!Faithful
<1> QED
  BY <1>1, <1>2, <1>3, <1>4, <1>5

LEMMA GoodKeyFacts ==
  ASSUME NEW key, GoodKey(key)
  PROVE  /\ key \in Seq(Words) /\ Len(key) \in Nat \ {0} /\ key # <<>>
         /\ \A i \in 1..Len(key) :
              /\ key[i] # "#" /\ key[i] # Config!Newline /\ key[i] # Config!Long
              /\ key[i] # "="
         /\ key[1] # Config!Blank /\ key[Len(key)] # Config!Blank
<1>1. key \in Seq(Words) /\ Config!Faithful(key) /\ key # <<>>
  BY DEF GoodKey, Config!Faithful
<1>2. \A i \in 1..Len(key) : key[i] # "="
  BY DEF GoodKey, Config!Contains
<1> QED
  BY <1>1, <1>2, FaithfulFacts

LEMMA TrimKeeps ==
  ASSUME NEW text \in Seq(Words), Len(text) # 0,
         text[1] # Config!Blank, text[Len(text)] # Config!Blank
  PROVE  Config!_TrimSpace(text) = text
<1> DEFINE kept == {i \in DOMAIN text : text[i] # Config!Blank}
<1>1. Len(text) \in Nat /\ DOMAIN text = 1..Len(text)
  BY LenProperties
<1>2. kept \subseteq 1..Len(text) /\ 1 \in kept /\ Len(text) \in kept
  BY <1>1
<1> HIDE DEF kept
<1>3. kept \subseteq Nat /\ kept # {}
  BY <1>1, <1>2
<1>4. \A y \in kept : 1 <= y /\ y <= Len(text)
  BY <1>1, <1>2
<1>5. Config!Min(kept) = 1
  BY <1>2, <1>3, <1>4, MinIs
<1>6. Config!Max(kept) = Len(text)
  BY <1>2, <1>3, <1>4, MaxIs
<1>7. Config!_TrimSpace(text) = IF kept = {} THEN <<>>
                                ELSE SubSeq(text, Config!Min(kept), Config!Max(kept))
  BY DEF kept, Config!_TrimSpace
<1> QED
  BY <1>3, <1>5, <1>6, <1>7, SubSeqFull

LEMMA TrimTyped ==
  ASSUME NEW text \in Seq(Words)
  PROVE  Config!_TrimSpace(text) \in Seq(Words)
<1> DEFINE kept == {i \in DOMAIN text : text[i] # Config!Blank}
<1>1. Len(text) \in Nat /\ DOMAIN text = 1..Len(text)
      /\ \A i \in 1..Len(text) : text[i] \in Words
  BY LenProperties, ElementOfSeq
<1>2. kept \subseteq 0..Len(text) /\ kept \subseteq 1..Len(text)
  BY <1>1
<1> HIDE DEF kept
<1>7. Config!_TrimSpace(text) = IF kept = {} THEN <<>>
                                ELSE SubSeq(text, Config!Min(kept), Config!Max(kept))
  BY DEF kept, Config!_TrimSpace
<1>3. CASE kept = {}
  BY <1>3, <1>7, EmptySeq
<1>4. CASE kept # {}
  <2>1. kept \subseteq Nat
    BY <1>2
  <2>2. Config!Min(kept) \in 1..Len(text)
    BY <1>2, <1>4, <2>1, MinExists
  <2>3. Config!Max(kept) \in 1..Len(text)
    BY <1>1, <1>2, <1>4, MaxExists
  <2>4. \A i \in Config!Min(kept)..Config!Max(kept) : text[i] \in Words
    BY <1>1, <2>2, <2>3
  <2>5. SubSeq(text, Config!Min(kept), Config!Max(kept)) \in Seq(Words)
    BY <2>2, <2>3, <2>4, SubSeqProperties
  <2> QED
    BY <1>4, <1>7, <2>5
<1> QED
  BY <1>3, <1>4

LEMMA BeforeTyped ==
  ASSUME NEW text \in Seq(Words), NEW word
  PROVE  Config!Before(text, word) \in Seq(Words)
<1>1. PICK n : Ends(text, word, n)
  BY BeforeEnds
<1>2. n \in 0..Len(text)
  BY <1>1 DEF Ends
<1>3. Config!Before(text, word) = SubSeq(text, 1, n)
  BY <1>1, BeforeIs
<1> QED
  BY <1>2, <1>3, FrontFacts

(* A text that begins with a key and a `=', and has no comment before them. *)
Begins(text, key) ==
  /\ Len(text) >= Len(key) + 1
  /\ \A i \in 1..Len(key) : text[i] = key[i]
  /\ text[Len(key) + 1] = "="

LEMMA KeyOfLine ==
  ASSUME NEW line \in Seq(Words), NEW key, GoodKey(key), Begins(line, key)
  PROVE  LET text == Config!Before(line, "#") IN
         /\ text \in Seq(Words) /\ Begins(text, key)
         /\ Config!Before(text, "=") = key
<1> DEFINE text == Config!Before(line, "#")
<1>1. PICK n : Ends(line, "#", n)
  BY BeforeEnds
<1>2. Len(line) \in Nat /\ n \in 0..Len(line) /\ (n = Len(line) \/ line[n + 1] = "#")
  BY <1>1, LenProperties DEF Ends
<1>3. text = SubSeq(line, 1, n)
  BY <1>1, BeforeIs
<1> HIDE DEF text
<1>4. text \in Seq(Words) /\ Len(text) = n /\ \A i \in 1..n : text[i] = line[i]
  BY <1>2, <1>3, FrontFacts
<1>5. key \in Seq(Words) /\ Len(key) \in Nat /\ \A i \in 1..Len(key) : key[i] # "#" /\ key[i] # "="
  BY GoodKeyFacts
<1>6. n >= Len(key) + 1
  <2>1. SUFFICES ASSUME n <= Len(key)
                 PROVE  FALSE
    BY <1>2, <1>5
  <2>2. n # Len(line) /\ n + 1 \in 1..Len(key) + 1
    BY <1>2, <1>5, <2>1 DEF Begins
  <2>3. line[n + 1] = "#"
    BY <1>2, <2>2
  <2>4. line[n + 1] # "#"
    <3>1. CASE n + 1 = Len(key) + 1
      BY <3>1 DEF Begins
    <3>2. CASE n + 1 \in 1..Len(key)
      BY <1>5, <3>2 DEF Begins
    <3> QED BY <1>5, <2>2, <3>1, <3>2
  <2> QED BY <2>3, <2>4
<1>7. Begins(text, key)
  BY <1>2, <1>4, <1>5, <1>6 DEF Begins
<1>8. Ends(text, "=", Len(key))
  <2>1. Len(key) \in 0..Len(text)
    BY <1>2, <1>4, <1>5, <1>6
  <2>2. \A i \in 1..Len(key) : text[i] # "="
    BY <1>5, <1>7 DEF Begins
  <2> QED BY <2>1, <2>2, <1>7 DEF Ends, Begins
<1>9. Config!Before(text, "=") = SubSeq(text, 1, Len(key))
  BY <1>4, <1>8, BeforeIs
<1>10. SubSeq(text, 1, Len(key)) = key
  <2> DEFINE front == SubSeq(text, 1, Len(key))
  <2>1. /\ front \in Seq(Words) /\ Len(front) = Len(key)
        /\ \A i \in 1..Len(key) : front[i] = text[i]
    <3>1. Len(key) \in 0..Len(text)
      BY <1>2, <1>4, <1>5, <1>6
    <3> QED BY <3>1, <1>4, FrontFacts
  <2> HIDE DEF front
  <2>2. \A i \in 1..Len(key) : front[i] = key[i]
    BY <2>1, <1>7 DEF Begins
  <2>3. front = key
    BY <1>5, <2>1, <2>2, SeqEqual
  <2> QED BY <2>3 DEF front
<1> QED
  BY <1>4, <1>7, <1>9, <1>10 DEF text

(* Such a line says nothing about any other key. *)
LEMMA LineOfKey ==
  ASSUME NEW line \in Seq(Words), NEW key, GoodKey(key), Begins(line, key)
  PROVE  DOMAIN Config!_ParseLine(line) \subseteq {key}
<1> DEFINE text == Config!Before(line, "#")
           found == Config!_TrimSpace(Config!Before(text, "="))
           value == Config!_TrimSpace(SubSeq(text, Len(Config!Before(text, "=")) + 2, Len(text)))
<1>1. Config!Before(text, "=") = key
  BY KeyOfLine
<1>2. found = key
  <2>1. Config!_TrimSpace(key) = key
    BY GoodKeyFacts, TrimKeeps
  <2> QED BY <1>1, <2>1
<1>3. Config!_ParseLine(line) =
        IF Config!Contains(text, "=") /\ found # <<>> /\ value # <<>>
          THEN [k \in {found} |-> value] ELSE Config!Empty
  BY DEF Config!_ParseLine
<1> HIDE DEF text, found, value
<1>4. DOMAIN [k \in {found} |-> value] = {key}
  BY <1>2
<1>5. DOMAIN Config!Empty = {}
  BY DEF Config!Empty
<1> QED
  BY <1>3, <1>4, <1>5

(* What a text holds after a place. *)
HoldsAt(text, start, part_) ==
  /\ start + Len(part_) <= Len(text)
  /\ \A i \in 1..Len(part_) : text[start + i] = part_[i]

(* A line with a value that is read as it was written says so. *)
LEMMA LineOfPair ==
  ASSUME NEW line \in Seq(Words), NEW key, GoodKey(key), Begins(line, key),
         NEW v \in Seq(Words), Config!Faithful(v),
         Len(line) = Len(key) + 1 + Len(v),
         HoldsAt(line, Len(key) + 1, v)
  PROVE  DOMAIN Config!_ParseLine(line) = {key} /\ Config!_ParseLine(line)[key] = v
<1> DEFINE text == Config!Before(line, "#")
           found == Config!_TrimSpace(Config!Before(text, "="))
           back == SubSeq(text, Len(Config!Before(text, "=")) + 2, Len(text))
           value == Config!_TrimSpace(back)
<1>1. Config!Before(text, "=") = key
  BY KeyOfLine
<1>2. found = key
  <2>1. Config!_TrimSpace(key) = key
    BY GoodKeyFacts, TrimKeeps
  <2> QED BY <1>1, <2>1
<1>3. Config!_ParseLine(line) =
        IF Config!Contains(text, "=") /\ found # <<>> /\ value # <<>>
          THEN [k \in {found} |-> value] ELSE Config!Empty
  BY DEF Config!_ParseLine
<1>4. text = line
  <2>1. Len(line) \in Nat /\ Len(key) \in Nat \ {0} /\ Len(v) \in Nat \ {0}
    BY LenProperties, GoodKeyFacts, FaithfulFacts
  <2>2. ASSUME NEW i \in 1..Len(line)
        PROVE  line[i] # "#"
    <3>1. CASE i \in 1..Len(key)
      BY <3>1, GoodKeyFacts DEF Begins
    <3>2. CASE i = Len(key) + 1
      BY <3>2 DEF Begins
    <3>3. CASE i \in Len(key) + 2..Len(line)
      <4>1. i - (Len(key) + 1) \in 1..Len(v)
        BY <2>1, <3>3
      <4>2. Len(key) + 1 + (i - (Len(key) + 1)) = i
        BY <2>1, <3>3
      <4>3. line[i] = v[i - (Len(key) + 1)]
        BY <4>1, <4>2 DEF HoldsAt
      <4> QED BY <4>1, <4>3, FaithfulFacts
    <3> QED BY <2>1, <3>1, <3>2, <3>3
  <2>3. Ends(line, "#", Len(line))
    BY <2>1, <2>2 DEF Ends
  <2>4. text = SubSeq(line, 1, Len(line))
    BY <2>3, BeforeIs
  <2> QED BY <2>4, SubSeqFull
<1>5. back = v
  <2>1. Len(line) \in Nat /\ Len(key) \in Nat \ {0} /\ Len(v) \in Nat \ {0}
    BY LenProperties, GoodKeyFacts, FaithfulFacts
  <2> DEFINE n == Len(key) + 1
  <2>2. n \in 0..Len(line) /\ Len(key) + 2 = n + 1 /\ Len(line) - n = Len(v)
    BY <2>1
  <2>3. back = SubSeq(line, n + 1, Len(line))
    BY <1>1, <1>4, <2>2
  <2> HIDE DEF back, text, found, n
  <2>4. back \in Seq(Words) /\ Len(back) = Len(v) /\ \A i \in 1..Len(v) : back[i] = line[n + i]
    BY <2>2, <2>3, BackFacts
  <2>5. \A i \in 1..Len(v) : back[i] = v[i]
    BY <2>4 DEF n, HoldsAt
  <2> QED BY <2>4, <2>5, SeqEqual
<1>6. value = v /\ v # <<>> /\ key # <<>>
  <2>1. Config!_TrimSpace(v) = v
    BY FaithfulFacts, TrimKeeps
  <2> QED BY <1>5, <2>1, GoodKeyFacts DEF Config!Faithful
<1>7. Config!Contains(text, "=")
  <2>1. Len(key) + 1 \in 1..Len(line)
    BY LenProperties, GoodKeyFacts DEF Begins
  <2>2. line[Len(key) + 1] = "="
    BY DEF Begins
  <2> QED BY <1>4, <2>1, <2>2 DEF Config!Contains
<1> HIDE DEF text, found, back, value
<1> QED
  BY <1>2, <1>3, <1>6, <1>7

(* The line that starts somewhere in a text and ends at e. *)
LineEnds(text, start, e) ==
  /\ e \in Nat /\ start <= e /\ e <= Len(text)
  /\ \A i \in start + 1..e : text[i] # Config!Newline
  /\ e = Len(text) \/ text[e + 1] = Config!Newline

LEMMA LineIs ==
  ASSUME NEW text \in Seq(Words), NEW start \in Nat, NEW e \in Nat,
         LineEnds(text, start, e)
  PROVE  /\ Config!Line(text, start) \in Seq(Words)
         /\ Len(Config!Line(text, start)) = e - start
         /\ \A i \in 1..e - start : Config!Line(text, start)[i] = text[start + i]
<1> DEFINE rest == SubSeq(text, start + 1, Len(text))
           n == e - start
<1>0. Len(text) \in Nat
  BY LenProperties
<1>1. start <= e /\ e <= Len(text)
  BY DEF LineEnds
<1>2. start \in 0..Len(text) /\ n \in Nat
  BY <1>0, <1>1
<1>3. /\ rest \in Seq(Words) /\ Len(rest) = Len(text) - start
      /\ \A i \in 1..Len(text) - start : rest[i] = text[start + i]
  BY <1>2, BackFacts
<1>4. n <= Len(rest) /\ Len(rest) \in Nat
  BY <1>0, <1>1, <1>3
<1>5. \A i \in 1..n : rest[i] = text[start + i] /\ rest[i] # Config!Newline
  <2> SUFFICES ASSUME NEW i \in 1..n
               PROVE  rest[i] = text[start + i] /\ rest[i] # Config!Newline
    OBVIOUS
  <2>1. i \in 1..Len(text) - start /\ start + i \in start + 1..e
    BY <1>0, <1>1, <1>2
  <2>2. text[start + i] # Config!Newline
    BY <2>1 DEF LineEnds
  <2> HIDE DEF rest
  <2> QED BY <1>3, <2>1, <2>2
<1>6. n = Len(rest) \/ rest[n + 1] = Config!Newline
  <2>1. CASE e = Len(text)
    BY <1>0, <1>3, <2>1
  <2>2. CASE e # Len(text)
    <3>1. text[e + 1] = Config!Newline
      BY <2>2 DEF LineEnds
    <3>2. n + 1 \in 1..Len(text) - start /\ start + (n + 1) = e + 1
      BY <1>0, <1>1, <1>2, <2>2
    <3> HIDE DEF rest
    <3>3. rest[n + 1] = text[e + 1]
      BY <1>3, <3>2
    <3> QED BY <3>1, <3>3
  <2> QED BY <2>1, <2>2
<1> HIDE DEF rest
<1>7. Ends(rest, Config!Newline, n)
  <2>1. n \in 0..Len(rest)
    BY <1>2, <1>4
  <2> HIDE DEF n
  <2> QED BY <1>5, <1>6, <2>1 DEF Ends
<1>8. Config!Line(text, start) = SubSeq(rest, 1, n)
  <2>1. Config!Before(rest, Config!Newline) = SubSeq(rest, 1, n)
    <3> HIDE DEF n
    <3> QED BY <1>3, <1>7, BeforeIs
  <2> QED BY <2>1 DEF Config!Line, rest
<1>9. /\ SubSeq(rest, 1, n) \in Seq(Words) /\ Len(SubSeq(rest, 1, n)) = n
      /\ \A i \in 1..n : SubSeq(rest, 1, n)[i] = rest[i]
  <2>1. n \in 0..Len(rest)
    BY <1>2, <1>4
  <2> HIDE DEF n
  <2> QED BY <1>3, <2>1, FrontFacts
<1>10. \A i \in 1..n : SubSeq(rest, 1, n)[i] = text[start + i]
  <2> HIDE DEF n
  <2> QED BY <1>5, <1>9
<1> QED
  BY <1>8, <1>9, <1>10

LEMMA LineEndExists ==
  ASSUME NEW text \in Seq(Words), NEW start \in Nat, start <= Len(text)
  PROVE  \E e \in Nat : LineEnds(text, start, e)
<1> DEFINE T == {e \in Nat : start <= e /\ e <= Len(text)
                              /\ (e = Len(text) \/ text[e + 1] = Config!Newline)}
<1>0. Len(text) \in Nat
  BY LenProperties
<1>1. T \subseteq Nat /\ Len(text) \in T
  BY <1>0
<1>2. T # {}
  BY <1>1
<1>3. \A e \in T : /\ e \in Nat /\ start <= e /\ e <= Len(text)
                    /\ (e = Len(text) \/ text[e + 1] = Config!Newline)
  OBVIOUS
<1>4. \A e \in Nat : start <= e /\ e <= Len(text) /\ text[e + 1] = Config!Newline => e \in T
  OBVIOUS
<1> HIDE DEF T
<1>5. PICK e \in T : \A f \in T : e <= f
  BY <1>1, <1>2, LeastNatural
<1>6. e \in Nat /\ start <= e /\ e <= Len(text)
  BY <1>3
<1>7. ASSUME NEW i \in start + 1..e
      PROVE  text[i] # Config!Newline
  <2> SUFFICES ASSUME text[i] = Config!Newline
               PROVE  FALSE
    OBVIOUS
  <2>1. i \in Nat /\ start + 1 <= i /\ i <= e
    BY <1>6
  <2>2. i - 1 \in Nat /\ start <= i - 1 /\ i - 1 <= Len(text) /\ (i - 1) + 1 = i /\ i - 1 < e
    BY <1>0, <1>6, <2>1
  <2>3. i - 1 \in T
    <3>1. text[(i - 1) + 1] = Config!Newline
      BY <2>2
    <3> QED BY <1>4, <2>2, <3>1
  <2>4. e <= i - 1
    BY <1>5, <2>3
  <2> QED BY <1>6, <2>2, <2>4
<1>8. e = Len(text) \/ text[e + 1] = Config!Newline
  BY <1>3
<1>9. LineEnds(text, start, e)
  BY <1>6, <1>7, <1>8 DEF LineEnds
<1> QED
  BY <1>6, <1>9

(* Where a line begins with a key and a `=', nothing is said of other keys. *)
LEMMA SaidOfKey ==
  ASSUME NEW text \in Seq(Words), NEW start \in Nat, NEW key, GoodKey(key),
         HoldsAt(text, start, key), start + Len(key) + 1 <= Len(text),
         text[start + Len(key) + 1] = "="
  PROVE  /\ Config!Line(text, start) \in Seq(Words)
         /\ Begins(Config!Line(text, start), key)
         /\ DOMAIN Config!_ParseLine(Config!Line(text, start)) \subseteq {key}
<1>0. Len(text) \in Nat /\ Len(key) \in Nat
  BY LenProperties, GoodKeyFacts
<1>1. PICK e \in Nat : LineEnds(text, start, e)
  BY <1>0, LineEndExists
<1>2. start <= e /\ e <= Len(text)
  BY <1>1 DEF LineEnds
<1>3. e >= start + Len(key) + 1
  <2> SUFFICES ASSUME e <= start + Len(key)
               PROVE  FALSE
    BY <1>0
  <2>1. e # Len(text)
    BY <1>0
  <2>2. text[e + 1] = Config!Newline
    BY <1>1, <2>1 DEF LineEnds
  <2>3. CASE e = start + Len(key)
    <3>1. text[e + 1] = "="
      BY <1>0, <2>3
    <3> QED BY <2>2, <3>1 DEF Config!Newline
  <2>4. CASE e < start + Len(key)
    <3>1. e + 1 - start \in 1..Len(key) /\ start + (e + 1 - start) = e + 1
      BY <1>0, <1>2, <2>4
    <3>2. text[e + 1] = key[e + 1 - start]
      BY <3>1 DEF HoldsAt
    <3>3. key[e + 1 - start] # Config!Newline
      BY <3>1, GoodKeyFacts
    <3> QED BY <2>2, <3>2, <3>3
  <2> QED BY <1>0, <2>3, <2>4
<1> DEFINE line == Config!Line(text, start)
<1>4. /\ line \in Seq(Words) /\ Len(line) = e - start
      /\ \A i \in 1..e - start : line[i] = text[start + i]
  BY <1>1, LineIs
<1> HIDE DEF line
<1>5. Begins(line, key)
  <2>1. Len(line) >= Len(key) + 1
    BY <1>0, <1>2, <1>3, <1>4
  <2>2. ASSUME NEW i \in 1..Len(key)
        PROVE  line[i] = key[i]
    <3>1. i \in 1..e - start
      BY <1>0, <1>2, <1>3
    <3> QED BY <1>4, <3>1 DEF HoldsAt
  <2>3. line[Len(key) + 1] = "="
    <3>1. Len(key) + 1 \in 1..e - start /\ start + (Len(key) + 1) = start + Len(key) + 1
      BY <1>0, <1>2, <1>3
    <3> QED BY <1>4, <3>1
  <2> QED BY <2>1, <2>2, <2>3 DEF Begins
<1>6. DOMAIN Config!_ParseLine(line) \subseteq {key}
  BY <1>4, <1>5, LineOfKey
<1> QED
  BY <1>4, <1>5, <1>6 DEF line

(* Where a line holds a pair that is read as it is written, it is read. *)
LEMMA SaidOfPair ==
  ASSUME NEW text \in Seq(Words), NEW start \in Nat, NEW key, GoodKey(key),
         NEW v \in Seq(Words), Config!Faithful(v),
         HoldsAt(text, start, key),
         text[start + Len(key) + 1] = "=",
         HoldsAt(text, start + Len(key) + 1, v),
         start + Len(key) + Len(v) + 2 <= Len(text),
         text[start + Len(key) + Len(v) + 2] = Config!Newline
  PROVE  /\ DOMAIN Config!_ParseLine(Config!Line(text, start)) = {key}
         /\ Config!_ParseLine(Config!Line(text, start))[key] = v
<1>0. Len(text) \in Nat /\ Len(key) \in Nat /\ Len(v) \in Nat \ {0}
  BY LenProperties, GoodKeyFacts, FaithfulFacts
<1> DEFINE line == Config!Line(text, start)
           e == start + Len(key) + 1 + Len(v)
<1>1. line \in Seq(Words) /\ Begins(line, key)
  <2>1. start + Len(key) + 1 <= Len(text)
    BY <1>0
  <2> HIDE DEF line, e
  <2> QED BY <2>1, SaidOfKey DEF line
<1>2. LineEnds(text, start, e)
  <2>1. e \in Nat /\ start <= e /\ e <= Len(text) /\ e + 1 = start + Len(key) + Len(v) + 2
    BY <1>0
  <2>2. ASSUME NEW i \in start + 1..e
        PROVE  text[i] # Config!Newline
    <3>1. CASE i <= start + Len(key)
      <4>1. i - start \in 1..Len(key) /\ start + (i - start) = i
        BY <1>0, <3>1
      <4>2. text[i] = key[i - start]
        BY <4>1 DEF HoldsAt
      <4> QED BY <4>1, <4>2, GoodKeyFacts
    <3>2. CASE i = start + Len(key) + 1
      BY <3>2 DEF Config!Newline
    <3>3. CASE i > start + Len(key) + 1
      <4>1. /\ i - (start + Len(key) + 1) \in 1..Len(v)
            /\ (start + Len(key) + 1) + (i - (start + Len(key) + 1)) = i
        BY <1>0, <3>3
      <4>2. text[i] = v[i - (start + Len(key) + 1)]
        BY <4>1 DEF HoldsAt
      <4> QED BY <4>1, <4>2, FaithfulFacts
    <3> QED BY <1>0, <3>1, <3>2, <3>3
  <2>3. text[e + 1] = Config!Newline
    BY <2>1
  <2> HIDE DEF e
  <2> QED BY <2>1, <2>2, <2>3 DEF LineEnds
<1>3. Len(line) = e - start /\ \A i \in 1..e - start : line[i] = text[start + i]
  <2>1. e \in Nat
    BY <1>0
  <2> HIDE DEF e
  <2> QED BY <1>2, <2>1, LineIs
<1>4. e - start = Len(key) + 1 + Len(v)
  BY <1>0
<1> HIDE DEF line, e
<1>5. ASSUME NEW i \in 1..Len(v)
      PROVE  line[Len(key) + 1 + i] = v[i]
  <2>1. Len(key) + 1 + i \in 1..e - start
    BY <1>0, <1>4
  <2>2. start + (Len(key) + 1 + i) = (start + Len(key) + 1) + i
    BY <1>0
  <2>3. line[Len(key) + 1 + i] = text[(start + Len(key) + 1) + i]
    BY <1>3, <2>1, <2>2
  <2> QED BY <2>3 DEF HoldsAt
<1>6. Len(line) = Len(key) + 1 + Len(v)
  BY <1>3, <1>4
<1>7. DOMAIN Config!_ParseLine(line) = {key} /\ Config!_ParseLine(line)[key] = v
  <2>1. HoldsAt(line, Len(key) + 1, v)
    BY <1>0, <1>5, <1>6 DEF HoldsAt
  <2> QED BY <1>1, <1>6, <2>1, LineOfPair
<1> QED
  BY <1>7 DEF line

(* The texts of a sequence of texts, one after the other. *)
Sums(c, n, f) ==
  /\ DOMAIN f = 0..n
  /\ f[0] = <<>>
  /\ \A i \in 1..n : f[i] = f[i - 1] \o c[i]

LEMMA SumsExist ==
  ASSUME NEW S, NEW c \in Seq(Seq(S)), NEW n \in 0..Len(c)
  PROVE  \E f : Sums(c, n, f)
<1> DEFINE T == {m \in Nat : m <= Len(c) /\ ~\E f : Sums(c, m, f)}
<1>0. Len(c) \in Nat
  BY LenProperties
<1> SUFFICES ASSUME T # {}
             PROVE  FALSE
  BY <1>0
<1>1. T \subseteq Nat
  OBVIOUS
<1>2. PICK m \in T : \A k \in T : m <= k
  BY <1>1, LeastNatural
<1>3. m \in Nat /\ m <= Len(c) /\ ~\E f : Sums(c, m, f)
  OBVIOUS
<1>4. m # 0
  <2> DEFINE f == [i \in 0..0 |-> <<>>]
  <2>1. Sums(c, 0, f)
    BY DEF Sums
  <2> QED BY <1>3, <2>1
<1>5. m - 1 \in Nat /\ m - 1 <= Len(c) /\ ~(m <= m - 1)
  BY <1>0, <1>3, <1>4
<1>6. PICK f : Sums(c, m - 1, f)
  BY <1>2, <1>5
<1> HIDE DEF T
<1> DEFINE g == [i \in 0..m |-> IF i = m THEN f[m - 1] \o c[m] ELSE f[i]]
<1>7. DOMAIN g = 0..m /\ g[0] = <<>>
  BY <1>3, <1>4, <1>6 DEF Sums
<1>8. ASSUME NEW i \in 1..m
      PROVE  g[i] = g[i - 1] \o c[i]
  <2>1. i - 1 \in 0..m /\ i \in 0..m /\ i - 1 # m
    BY <1>3
  <2>2. g[i - 1] = f[i - 1]
    BY <2>1
  <2>3. CASE i = m
    BY <2>1, <2>2, <2>3
  <2>4. CASE i # m
    <3>1. i \in 1..m - 1
      BY <1>3, <2>4
    <3>2. f[i] = f[i - 1] \o c[i]
      BY <1>6, <3>1 DEF Sums
    <3> QED BY <2>1, <2>2, <2>4, <3>2
  <2> QED BY <2>3, <2>4
<1> HIDE DEF g
<1>9. Sums(c, m, g)
  BY <1>7, <1>8 DEF Sums
<1> QED
  BY <1>3, <1>9

LEMMA SumsTyped ==
  ASSUME NEW S, NEW c \in Seq(Seq(S)), NEW f, Sums(c, Len(c), f), NEW n \in 0..Len(c)
  PROVE  f[n] \in Seq(S)
<1> DEFINE T == {m \in Nat : m <= Len(c) /\ f[m] \notin Seq(S)}
<1>0. Len(c) \in Nat
  BY LenProperties
<1> SUFFICES ASSUME T # {}
             PROVE  FALSE
  BY <1>0
<1>1. T \subseteq Nat
  OBVIOUS
<1>2. PICK m \in T : \A k \in T : m <= k
  BY <1>1, LeastNatural
<1>3. m \in Nat /\ m <= Len(c) /\ f[m] \notin Seq(S)
  OBVIOUS
<1>4. m # 0
  BY <1>3, EmptySeq DEF Sums
<1>5. m - 1 \in Nat /\ m - 1 <= Len(c) /\ ~(m <= m - 1) /\ m \in 1..Len(c)
  BY <1>0, <1>3, <1>4
<1>6. f[m - 1] \in Seq(S)
  BY <1>2, <1>5
<1>7. c[m] \in Seq(S)
  BY <1>5, ElementOfSeq
<1>8. f[m] = f[m - 1] \o c[m]
  BY <1>5 DEF Sums
<1> QED
  BY <1>3, <1>6, <1>7, <1>8, ConcatProperties

LEMMA FlattenIsLastSum ==
  ASSUME NEW S, NEW c \in Seq(Seq(S)), NEW f, Sums(c, Len(c), f)
  PROVE  Config!FlattenSeq(c) = f[Len(c)]
<1> DEFINE n == Len(c)
<1>0. n \in Nat
  BY LenProperties
<1>1. CASE n = 0
  <2>1. c = <<>>
    BY <1>1, EmptySeq
  <2>2. Config!FlattenSeq(c) = c
    BY <1>1 DEF Config!FlattenSeq
  <2>3. f[0] = <<>>
    BY DEF Sums
  <2> QED BY <1>1, <2>1, <2>2, <2>3
<1>2. CASE n # 0
  <2> DEFINE flatten[i \in 1..n] == IF i = 1 THEN c[i] ELSE flatten[i - 1] \o c[i]
             h == [i \in 1..n |-> f[i]]
             Eq(g) == g = [i \in 1..n |-> IF i = 1 THEN c[i] ELSE g[i - 1] \o c[i]]
  <2>1. Config!FlattenSeq(c) = flatten[n]
    BY <1>2 DEF Config!FlattenSeq
  <2>2. Eq(h)
    <3> SUFFICES ASSUME NEW i \in 1..n
                 PROVE  f[i] = IF i = 1 THEN c[i] ELSE h[i - 1] \o c[i]
      OBVIOUS
    <3>1. f[i] = f[i - 1] \o c[i]
      BY DEF Sums
    <3>2. CASE i = 1
      <4>1. f[i - 1] = <<>>
        BY <3>2 DEF Sums
      <4>2. c[i] \in Seq(S)
        BY ElementOfSeq
      <4> QED BY <3>1, <3>2, <4>1, <4>2, ConcatEmptySeq
    <3>3. CASE i # 1
      <4>1. i - 1 \in 1..n
        BY <1>0, <3>3
      <4> QED BY <3>1, <3>3, <4>1
    <3> QED BY <3>2, <3>3
  <2>3. flatten = CHOOSE g : Eq(g)
    OBVIOUS
  <2> HIDE DEF flatten, h
  <2>4. Eq(flatten)
    <3> HIDE DEF Eq
    <3> QED BY <2>2, <2>3
  <2> DEFINE T == {m \in Nat : m \in 1..n /\ flatten[m] # f[m]}
  <2>5. T = {}
    <3> SUFFICES ASSUME T # {}
                 PROVE  FALSE
      OBVIOUS
    <3>1. PICK m \in T : \A k \in T : m <= k
      <4>1. T \subseteq Nat
        OBVIOUS
      <4> HIDE DEF T
      <4> QED BY <4>1, LeastNatural
    <3>2. m \in 1..n /\ flatten[m] # f[m]
      OBVIOUS
    <3>3. flatten[m] = IF m = 1 THEN c[m] ELSE flatten[m - 1] \o c[m]
      BY <2>4, <3>2
    <3>4. f[m] = f[m - 1] \o c[m]
      BY <3>2 DEF Sums
    <3>5. CASE m = 1
      <4>1. f[m - 1] = <<>>
        BY <3>5 DEF Sums
      <4>2. c[m] \in Seq(S)
        BY <3>2, ElementOfSeq
      <4> QED BY <3>2, <3>3, <3>4, <3>5, <4>1, <4>2, ConcatEmptySeq
    <3>6. CASE m # 1
      <4>1. m - 1 \in 1..n /\ m - 1 \in Nat /\ ~(m <= m - 1)
        BY <1>0, <3>2, <3>6
      <4>2. flatten[m - 1] = f[m - 1]
        BY <3>1, <4>1
      <4> QED BY <3>2, <3>3, <3>4, <3>6, <4>2
    <3> QED BY <3>5, <3>6
  <2>6. flatten[n] = f[n]
    BY <1>0, <1>2, <2>5
  <2> QED BY <2>1, <2>6
<1> QED
  BY <1>1, <1>2

LEMMA ConcatFacts ==
  ASSUME NEW S, NEW s \in Seq(S), NEW t \in Seq(S)
  PROVE  /\ s \o t \in Seq(S) /\ Len(s) \in Nat /\ Len(t) \in Nat
         /\ Len(s \o t) = Len(s) + Len(t)
         /\ \A i \in 1..Len(s) : (s \o t)[i] = s[i]
         /\ \A i \in 1..Len(t) : (s \o t)[Len(s) + i] = t[i]
<1>1. Len(s) \in Nat /\ Len(t) \in Nat
  BY LenProperties
<1>2. /\ s \o t \in Seq(S) /\ Len(s \o t) = Len(s) + Len(t)
      /\ \A i \in 1..Len(s) + Len(t) :
           (s \o t)[i] = IF i <= Len(s) THEN s[i] ELSE t[i - Len(s)]
  BY ConcatProperties
<1>3. ASSUME NEW i \in 1..Len(s)
      PROVE  (s \o t)[i] = s[i]
  <2>1. i \in 1..Len(s) + Len(t) /\ i <= Len(s)
    BY <1>1
  <2> QED BY <1>2, <2>1
<1>4. ASSUME NEW i \in 1..Len(t)
      PROVE  (s \o t)[Len(s) + i] = t[i]
  <2>1. Len(s) + i \in 1..Len(s) + Len(t) /\ ~(Len(s) + i <= Len(s)) /\ (Len(s) + i) - Len(s) = i
    BY <1>1
  <2> QED BY <1>2, <2>1
<1> QED
  BY <1>1, <1>2, <1>3, <1>4

LEMMA ConcatOf ==
  ASSUME NEW S, NEW s \in Seq(S), NEW t \in Seq(S), NEW u, u = s \o t
  PROVE  /\ u \in Seq(S) /\ Len(u) \in Nat /\ Len(s) \in Nat /\ Len(t) \in Nat
         /\ Len(u) = Len(s) + Len(t)
         /\ \A i \in 1..Len(s) : u[i] = s[i]
         /\ \A i \in 1..Len(t) : u[Len(s) + i] = t[i]
BY ConcatFacts

(* One sum after the other. *)
Grows(S, c, f, j) ==
  /\ f[j] \in Seq(S) /\ f[j - 1] \in Seq(S) /\ c[j] \in Seq(S)
  /\ f[j] = f[j - 1] \o c[j]
  /\ Len(f[j]) \in Nat /\ Len(f[j - 1]) \in Nat /\ Len(c[j]) \in Nat
  /\ Len(f[j]) = Len(f[j - 1]) + Len(c[j])
  /\ \A i \in 1..Len(f[j - 1]) : f[j][i] = f[j - 1][i]
  /\ \A i \in 1..Len(c[j]) : f[j][Len(f[j - 1]) + i] = c[j][i]

LEMMA SumStep ==
  ASSUME NEW S, NEW c \in Seq(Seq(S)), NEW f, Sums(c, Len(c), f), NEW j \in 1..Len(c)
  PROVE  Grows(S, c, f, j)
<1>0. Len(c) \in Nat
  BY LenProperties
<1>1. j - 1 \in 0..Len(c)
  BY <1>0
<1> DEFINE s == f[j - 1]
           t == c[j]
           u == f[j]
<1>2. s \in Seq(S) /\ t \in Seq(S) /\ u = s \o t
  BY <1>1, SumsTyped, ElementOfSeq DEF Sums
<1> HIDE DEF s, t, u
<1>3. /\ u \in Seq(S) /\ Len(u) \in Nat /\ Len(s) \in Nat /\ Len(t) \in Nat
      /\ Len(u) = Len(s) + Len(t)
      /\ \A i \in 1..Len(s) : u[i] = s[i]
      /\ \A i \in 1..Len(t) : u[Len(s) + i] = t[i]
  BY <1>2, ConcatOf
<1> QED
  BY <1>2, <1>3 DEF s, t, u, Grows

LEMMA SumsGrow ==
  ASSUME NEW S, NEW c \in Seq(Seq(S)), NEW f, Sums(c, Len(c), f),
         NEW n \in 0..Len(c), NEW m \in n..Len(c)
  PROVE  Len(f[n]) <= Len(f[m]) /\ \A i \in 1..Len(f[n]) : f[m][i] = f[n][i]
<1> DEFINE Extends(k) == Len(f[n]) <= Len(f[k]) /\ \A i \in 1..Len(f[n]) : f[k][i] = f[n][i]
           T == {k \in Nat : n <= k /\ k <= Len(c) /\ ~Extends(k)}
<1>0. Len(c) \in Nat /\ n \in Nat /\ m \in Nat /\ n <= m /\ m <= Len(c)
  BY LenProperties
<1>1. SUFFICES ASSUME T # {}
               PROVE  FALSE
  <2>1. m \notin T => Extends(m)
    BY <1>0
  <2> QED BY <2>1
<1>2. PICK k \in T : \A j \in T : k <= j
  <2>1. T \subseteq Nat
    OBVIOUS
  <2> HIDE DEF T
  <2> QED BY <1>1, <2>1, LeastNatural
<1>3. k \in Nat /\ n <= k /\ k <= Len(c) /\ ~Extends(k)
  OBVIOUS
<1>4. f[n] \in Seq(S) /\ Len(f[n]) \in Nat
  BY <1>0, SumsTyped, LenProperties
<1>5. k # n
  BY <1>3, <1>4
<1>6. k - 1 \in Nat /\ n <= k - 1 /\ k - 1 <= Len(c) /\ ~(k <= k - 1) /\ k \in 1..Len(c)
  BY <1>0, <1>3, <1>5
<1>7. Extends(k - 1)
  BY <1>2, <1>6
<1>9. /\ Len(f[k - 1]) \in Nat /\ Len(c[k]) \in Nat
      /\ Len(f[k]) = Len(f[k - 1]) + Len(c[k])
      /\ \A i \in 1..Len(f[k - 1]) : f[k][i] = f[k - 1][i]
  <2>1. k \in 1..Len(c)
    BY <1>6
  <2>2. Grows(S, c, f, k)
    BY <2>1, SumStep
  <2> QED BY <2>2 DEF Grows
<1>10. Len(f[n]) <= Len(f[k - 1]) /\ \A i \in 1..Len(f[n]) : f[k - 1][i] = f[n][i]
  BY <1>7
<1>11. Len(f[n]) <= Len(f[k])
  <2>1. Len(f[n]) <= Len(f[k - 1])
    BY <1>10
  <2> DEFINE x == Len(f[n])
             y == Len(f[k - 1])
             z == Len(c[k])
             w == Len(f[k])
  <2>2. x \in Nat /\ y \in Nat /\ z \in Nat /\ w = y + z /\ x <= y
    BY <1>4, <1>9, <2>1
  <2> HIDE DEF x, y, z, w
  <2>3. x <= w
    BY <2>2
  <2> QED BY <2>3 DEF x, w
<1>12. ASSUME NEW i \in 1..Len(f[n])
       PROVE  f[k][i] = f[n][i]
  <2>1. i \in 1..Len(f[k - 1])
    BY <1>4, <1>9, <1>10
  <2> QED BY <1>9, <1>10, <2>1
<1> QED
  BY <1>3, <1>11, <1>12

LEMMA HoldsPart ==
  ASSUME NEW text, NEW start \in Nat, NEW whole, NEW at \in Nat, NEW one,
         Len(text) \in Nat, Len(whole) \in Nat, Len(one) \in Nat,
         HoldsAt(text, start, whole), HoldsAt(whole, at, one)
  PROVE  HoldsAt(text, start + at, one)
<1>1. start + at + Len(one) <= Len(text)
  BY DEF HoldsAt
<1>2. ASSUME NEW i \in 1..Len(one)
      PROVE  text[(start + at) + i] = one[i]
  <2>1. at + i \in 1..Len(whole) /\ start + (at + i) = (start + at) + i
    BY DEF HoldsAt
  <2>2. text[start + (at + i)] = whole[at + i]
    BY <2>1 DEF HoldsAt
  <2>3. whole[at + i] = one[i]
    BY DEF HoldsAt
  <2> QED BY <2>1, <2>2, <2>3
<1> QED
  BY <1>1, <1>2 DEF HoldsAt

(* Each text is found where the sum of those before it ends. *)
LEMMA SumHolds ==
  ASSUME NEW S, NEW c \in Seq(Seq(S)), NEW f, Sums(c, Len(c), f), NEW j \in 1..Len(c)
  PROVE  HoldsAt(f[Len(c)], Len(f[j - 1]), c[j])
<1>0. Len(c) \in Nat
  BY LenProperties
<1>1. j - 1 \in 0..Len(c) /\ j \in 0..Len(c) /\ Len(c) \in j..Len(c) /\ Len(c) \in 0..Len(c)
  BY <1>0
<1>3. /\ Len(f[j - 1]) \in Nat /\ Len(c[j]) \in Nat
      /\ Len(f[j]) = Len(f[j - 1]) + Len(c[j])
      /\ \A i \in 1..Len(c[j]) : f[j][Len(f[j - 1]) + i] = c[j][i]
  <2>1. Grows(S, c, f, j)
    BY SumStep
  <2> QED BY <2>1 DEF Grows
<1>4. Len(f[Len(c)]) \in Nat
  <2>1. f[Len(c)] \in Seq(S)
    BY <1>1, SumsTyped
  <2> QED BY <2>1, LenProperties
<1>5. Len(f[j]) <= Len(f[Len(c)]) /\ \A i \in 1..Len(f[j]) : f[Len(c)][i] = f[j][i]
  BY <1>1, SumsGrow
<1>6. ASSUME NEW i \in 1..Len(c[j])
      PROVE  f[Len(c)][Len(f[j - 1]) + i] = c[j][i]
  <2> DEFINE q == Len(f[j - 1])
             r == Len(c[j])
  <2>1. q \in Nat /\ r \in Nat /\ i \in 1..r /\ Len(f[j]) = q + r
    BY <1>3
  <2> HIDE DEF q, r
  <2>2. q + i \in 1..Len(f[j])
    BY <2>1
  <2>3. f[Len(c)][q + i] = f[j][q + i]
    BY <1>5, <2>2
  <2> QED BY <1>3, <2>3 DEF q
<1>7. Len(f[j - 1]) + Len(c[j]) <= Len(f[Len(c)])
  BY <1>3, <1>5
<1> QED
  BY <1>6, <1>7 DEF HoldsAt

-----------------------------------------------------------------------------
(* What _WriteFIle() writes for one pair. *)

LEMMA FaithfulHolds ==
  ASSUME NEW v \in Seq(Words), Config!Faithful(v)
  PROVE  ~Config!Contains(v, Config!Newline) /\ ~Config!Contains(v, Config!Long)
BY FaithfulFacts DEF Config!Contains

LEMMA PairFacts ==
  ASSUME NEW key, GoodKey(key), NEW v \in Seq(Words)
  PROVE  LET c == Config!szPaire(key, v) IN
         /\ c \in Seq(Words) /\ Len(c) \in Nat
         /\ Len(c) >= Len(key) + 2
         /\ HoldsAt(c, 0, key) /\ c[Len(key) + 1] = "="
         /\ ~Config!Contains(v, Config!Newline) =>
              \A i \in 1..Len(c) : c[i] = Config!Newline => i = Len(c)
         /\ ~Config!Contains(v, Config!Long) =>
              /\ Len(c) = Len(key) + Len(v) + 2
              /\ HoldsAt(c, Len(key) + 1, v)
              /\ c[Len(c)] = Config!Newline
<1> DEFINE line == key \o <<"=">> \o v \o <<Config!Newline>>
           T == {i \in DOMAIN line : line[i] = Config!Long} \cup {Len(line)}
           n == Config!Min(T)
           c == Config!szPaire(key, v)
<1>0. /\ key \in Seq(Words) /\ Len(key) \in Nat \ {0} /\ Len(v) \in Nat
      /\ \A i \in 1..Len(key) : key[i] # Config!Newline /\ key[i] # Config!Long
  BY GoodKeyFacts, LenProperties
<1>1. /\ line \in Seq(Words) /\ Len(line) = Len(key) + Len(v) + 2
      /\ \A i \in 1..Len(key) : line[i] = key[i]
      /\ line[Len(key) + 1] = "="
      /\ \A i \in 1..Len(v) : line[Len(key) + 1 + i] = v[i]
      /\ line[Len(key) + Len(v) + 2] = Config!Newline
  <2>1. /\ <<"=">> \in Seq(Words) /\ Len(<<"=">>) = 1 /\ <<"=">>[1] = "="
        /\ <<Config!Newline>> \in Seq(Words) /\ Len(<<Config!Newline>>) = 1
        /\ <<Config!Newline>>[1] = Config!Newline
    <3>1. "=" \in Words /\ Config!Newline \in Words
      BY WordsAssumption
    <3> HIDE DEF line
    <3> QED BY <3>1
  <2> DEFINE l1 == key \o <<"=">>
             l2 == l1 \o v
  <2>2. /\ l1 \in Seq(Words) /\ Len(l1) = Len(key) + 1
        /\ \A i \in 1..Len(key) : l1[i] = key[i]
        /\ l1[Len(key) + 1] = "="
    <3>1. /\ l1 \in Seq(Words) /\ Len(l1) = Len(key) + 1
          /\ \A i \in 1..Len(key) + 1 :
               l1[i] = IF i <= Len(key) THEN key[i] ELSE <<"=">>[i - Len(key)]
      BY <1>0, <2>1, ConcatProperties
    <3> HIDE DEF l1
    <3>2. Len(key) + 1 \in 1..Len(key) + 1 /\ ~(Len(key) + 1 <= Len(key))
          /\ (Len(key) + 1) - Len(key) = 1
      BY <1>0
    <3>3. l1[Len(key) + 1] = "="
      BY <2>1, <3>1, <3>2
    <3> QED BY <1>0, <3>1, <3>3
  <2> HIDE DEF l1
  <2>3. /\ l2 \in Seq(Words) /\ Len(l2) = Len(key) + 1 + Len(v)
        /\ \A i \in 1..Len(key) + 1 : l2[i] = l1[i]
        /\ \A i \in 1..Len(v) : l2[Len(key) + 1 + i] = v[i]
    <3>1. l1 \in Seq(Words) /\ l2 = l1 \o v
      BY <2>2
    <3> HIDE DEF l2, line
    <3>2. /\ l2 \in Seq(Words) /\ Len(l2) = Len(l1) + Len(v)
          /\ \A i \in 1..Len(l1) : l2[i] = l1[i]
          /\ \A i \in 1..Len(v) : l2[Len(l1) + i] = v[i]
      BY <3>1, ConcatOf
    <3> QED BY <2>2, <3>2
  <2> HIDE DEF l2
  <2>4. /\ line \in Seq(Words) /\ Len(line) = Len(key) + Len(v) + 2
        /\ \A i \in 1..Len(key) + 1 + Len(v) : line[i] = l2[i]
        /\ line[Len(key) + Len(v) + 2] = Config!Newline
    <3> DEFINE m == l2 \o <<Config!Newline>>
    <3>0. line = m
      BY DEF l1, l2
    <3>1. /\ m \in Seq(Words) /\ Len(m) = Len(l2) + 1
          /\ \A i \in 1..Len(l2) + 1 :
               m[i] = IF i <= Len(l2) THEN l2[i] ELSE <<Config!Newline>>[i - Len(l2)]
      BY <2>1, <2>3, ConcatProperties
    <3> HIDE DEF m, line
    <3>2. /\ Len(key) + Len(v) + 2 \in 1..Len(l2) + 1
          /\ ~(Len(key) + Len(v) + 2 <= Len(l2))
          /\ (Len(key) + Len(v) + 2) - Len(l2) = 1
      BY <1>0, <2>3
    <3>3. m[Len(key) + Len(v) + 2] = Config!Newline
      BY <2>1, <3>1, <3>2
    <3>4. \A i \in 1..Len(key) + 1 + Len(v) : m[i] = l2[i]
      BY <1>0, <2>3, <3>1
    <3>5. Len(m) = Len(key) + Len(v) + 2
      BY <1>0, <2>3, <3>1
    <3> QED BY <3>0, <3>1, <3>3, <3>4, <3>5
  <2> HIDE DEF line
  <2>5. \A i \in 1..Len(key) : line[i] = key[i]
    <3> SUFFICES ASSUME NEW i \in 1..Len(key)
                 PROVE  line[i] = key[i]
      OBVIOUS
    <3>1. i \in 1..Len(key) + 1 + Len(v) /\ i \in 1..Len(key) + 1
      BY <1>0
    <3> QED BY <2>2, <2>3, <2>4, <3>1
  <2>6. line[Len(key) + 1] = "="
    <3>1. Len(key) + 1 \in 1..Len(key) + 1 + Len(v) /\ Len(key) + 1 \in 1..Len(key) + 1
      BY <1>0
    <3> QED BY <2>2, <2>3, <2>4, <3>1
  <2>7. \A i \in 1..Len(v) : line[Len(key) + 1 + i] = v[i]
    <3> SUFFICES ASSUME NEW i \in 1..Len(v)
                 PROVE  line[Len(key) + 1 + i] = v[i]
      OBVIOUS
    <3>1. Len(key) + 1 + i \in 1..Len(key) + 1 + Len(v)
      BY <1>0
    <3> QED BY <2>3, <2>4, <3>1
  <2> QED BY <2>4, <2>5, <2>6, <2>7
<1> HIDE DEF line
<1>2. DOMAIN line = 1..Len(line) /\ Len(line) \in Nat
  BY <1>1, LenProperties
<1>3. T \subseteq Nat /\ T # {}
  BY <1>2
<1>4. \A i \in T : i \in 1..Len(line)
  BY <1>0, <1>1, <1>2
<1>5. \A i \in T : i >= Len(key) + 2
  <2> SUFFICES ASSUME NEW i \in T, i < Len(key) + 2
               PROVE  FALSE
    BY <1>0, <1>2
  <2>1. i \in 1..Len(line) /\ i # Len(line)
    BY <1>0, <1>1, <1>4
  <2>2. line[i] = Config!Long
    BY <2>1
  <2>3. CASE i \in 1..Len(key)
    BY <1>0, <1>1, <2>2, <2>3
  <2>4. CASE i = Len(key) + 1
    BY <1>1, <2>2, <2>4 DEF Config!Long
  <2> QED BY <1>0, <2>1, <2>3, <2>4
<1>6. ~Config!Contains(v, Config!Long) => \A i \in T : i = Len(line)
  <2> SUFFICES ASSUME ~Config!Contains(v, Config!Long), NEW i \in T, i # Len(line)
               PROVE  FALSE
    OBVIOUS
  <2>1. i \in 1..Len(line) /\ i >= Len(key) + 2 /\ line[i] = Config!Long
    BY <1>4, <1>5
  <2>2. i - (Len(key) + 1) \in 1..Len(v) /\ Len(key) + 1 + (i - (Len(key) + 1)) = i
    <3>1. i \in Int /\ i >= Len(key) + 2 /\ i < Len(key) + Len(v) + 2
      <4>1. Len(line) = Len(key) + Len(v) + 2 /\ i \in 1..Len(line) /\ i >= Len(key) + 2
        BY <1>1, <2>1
      <4>2. Len(key) \in Nat /\ Len(v) \in Nat /\ Len(line) \in Nat
        BY <1>0, <1>2
      <4>3. i # Len(line)
        OBVIOUS
      <4> QED BY <4>1, <4>2, <4>3
    <3> QED BY <1>0, <3>1
  <2>3. v[i - (Len(key) + 1)] = Config!Long
    BY <1>1, <2>1, <2>2
  <2> QED BY <2>2, <2>3 DEF Config!Contains
<1>7. c = SubSeq(line, 1, n)
  BY DEF Config!szPaire, line
<1> HIDE DEF T
<1>8. n \in T
  BY <1>3, MinExists
<1>9. n \in 1..Len(line) /\ n >= Len(key) + 2
  BY <1>4, <1>5, <1>8
<1>10. n \in 0..Len(line)
  BY <1>9
<1> HIDE DEF n, c
<1>11. c \in Seq(Words) /\ Len(c) = n /\ \A i \in 1..n : c[i] = line[i]
  BY <1>1, <1>7, <1>10, FrontFacts
<1>12. n \in Nat /\ n <= Len(line)
  BY <1>2, <1>9
<1>13. HoldsAt(c, 0, key)
  <2>1. ASSUME NEW i \in 1..Len(key)
        PROVE  c[0 + i] = key[i]
    <3>1. i \in 1..n /\ 0 + i = i
      BY <1>0, <1>9
    <3> QED BY <1>1, <1>11, <3>1
  <2>2. 0 + Len(key) <= Len(c)
    BY <1>0, <1>9, <1>11
  <2> QED BY <2>1, <2>2 DEF HoldsAt
<1>14. c[Len(key) + 1] = "="
  <2>1. Len(key) + 1 \in 1..n
    BY <1>0, <1>9, <1>12
  <2> QED BY <1>1, <1>11, <2>1
<1>15. ASSUME ~Config!Contains(v, Config!Newline), NEW i \in 1..Len(c), c[i] = Config!Newline
       PROVE  i = Len(c)
  <2>1. i \in 1..n /\ line[i] = Config!Newline
    BY <1>11, <1>15
  <2>2. CASE i \in 1..Len(key)
    BY <1>0, <1>1, <2>1, <2>2
  <2>3. CASE i = Len(key) + 1
    BY <1>1, <2>1, <2>3 DEF Config!Newline
  <2>4. CASE i >= Len(key) + 2 /\ i # Len(line)
    <3>1. i - (Len(key) + 1) \in 1..Len(v) /\ Len(key) + 1 + (i - (Len(key) + 1)) = i
      <4>1. i \in Int /\ i >= Len(key) + 2 /\ i < Len(key) + Len(v) + 2
        <5>1. Len(line) = Len(key) + Len(v) + 2 /\ n <= Len(line) /\ i \in 1..n
          BY <1>1, <1>12, <2>1
        <5>2. Len(key) \in Nat /\ Len(v) \in Nat /\ Len(line) \in Nat /\ n \in Nat
          BY <1>0, <1>2, <1>12
        <5> QED BY <2>4, <5>1, <5>2
      <4> QED BY <1>0, <4>1
    <3>2. v[i - (Len(key) + 1)] = Config!Newline
      BY <1>1, <2>1, <3>1
    <3> QED BY <1>15, <3>1, <3>2 DEF Config!Contains
  <2>5. CASE i = Len(line)
    BY <1>11, <1>12, <2>1, <2>5
  <2> QED BY <1>0, <2>1, <2>2, <2>3, <2>4, <2>5
<1>16. ASSUME ~Config!Contains(v, Config!Long)
       PROVE  /\ Len(c) = Len(key) + Len(v) + 2
              /\ HoldsAt(c, Len(key) + 1, v)
              /\ c[Len(c)] = Config!Newline
  <2>1. n = Len(line)
    BY <1>6, <1>8, <1>16
  <2>2. Len(c) = Len(key) + Len(v) + 2
    BY <1>1, <1>11, <2>1
  <2>3. ASSUME NEW i \in 1..Len(v)
        PROVE  c[Len(key) + 1 + i] = v[i]
    <3>1. Len(key) + 1 + i \in 1..n
      BY <1>0, <1>1, <2>1
    <3> QED BY <1>1, <1>11, <3>1
  <2>4. Len(key) + 1 + Len(v) <= Len(c)
    BY <1>0, <2>2
  <2>5. c[Len(c)] = Config!Newline
    <3>1. Len(key) + Len(v) + 2 \in 1..n
      BY <1>0, <1>1, <2>1
    <3> QED BY <1>1, <1>11, <2>2, <3>1
  <2> QED BY <2>2, <2>3, <2>4, <2>5 DEF HoldsAt
<1>17. Len(c) \in Nat /\ Len(c) >= Len(key) + 2
  BY <1>9, <1>11, <1>12
<1> QED
  BY <1>11, <1>13, <1>14, <1>15, <1>16, <1>17 DEF c

-----------------------------------------------------------------------------
(* What _WriteFIle() writes for the whole map. *)

Present(j) == KeyOrder[j] \in DOMAIN cfgMap_
PairAt(j) == Config!szPaire(KeyOrder[j], cfgMap_[KeyOrder[j]])
Pairs == [i \in DOMAIN KeyOrder |-> IF Present(i) THEN PairAt(i) ELSE <<>>]
MapTyped == \A k \in DOMAIN cfgMap_ : cfgMap_[k] \in Seq(Words)

LEMMA KeysGood ==
  /\ Len(KeyOrder) \in Nat /\ DOMAIN KeyOrder = 1..Len(KeyOrder)
  /\ \A i \in 1..Len(KeyOrder) : GoodKey(KeyOrder[i])
<1>1. KeyOrder \in Seq(Seq(Words))
  BY KeysAssumption
<1>2. Len(KeyOrder) \in Nat /\ DOMAIN KeyOrder = 1..Len(KeyOrder)
  BY <1>1, LenProperties
<1>3. ASSUME NEW i \in 1..Len(KeyOrder)
      PROVE  GoodKey(KeyOrder[i])
  <2>1. KeyOrder[i] \in Seq(Words)
    BY <1>1, ElementOfSeq
  <2>2. Config!Faithful(KeyOrder[i]) /\ ~Config!Contains(KeyOrder[i], "=")
    BY <1>2, KeysAssumption
  <2> QED BY <2>1, <2>2 DEF GoodKey
<1> QED
  BY <1>2, <1>3

LEMMA PairsTyped ==
  ASSUME MapTyped
  PROVE  /\ Pairs \in Seq(Seq(Words)) /\ Len(Pairs) = Len(KeyOrder)
         /\ \A j \in 1..Len(KeyOrder) :
              /\ Present(j) => Pairs[j] = PairAt(j) /\ cfgMap_[KeyOrder[j]] \in Seq(Words)
              /\ ~Present(j) => Pairs[j] = <<>>
<1>1. \A j \in 1..Len(KeyOrder) :
              /\ Present(j) => Pairs[j] = PairAt(j) /\ cfgMap_[KeyOrder[j]] \in Seq(Words)
              /\ ~Present(j) => Pairs[j] = <<>>
  BY KeysGood DEF Pairs, MapTyped, Present
<1>2. ASSUME NEW j \in 1..Len(KeyOrder)
      PROVE  (IF Present(j) THEN PairAt(j) ELSE <<>>) \in Seq(Words)
  <2>1. CASE Present(j)
    <3>1. PairAt(j) \in Seq(Words)
      BY <1>1, <2>1, KeysGood, PairFacts DEF PairAt
    <3> QED BY <2>1, <3>1
  <2>2. CASE ~Present(j)
    BY <2>2, EmptySeq
  <2> QED BY <2>1, <2>2
<1>3. Pairs = [i \in 1..Len(KeyOrder) |-> IF Present(i) THEN PairAt(i) ELSE <<>>]
  BY KeysGood DEF Pairs
<1>4. Pairs \in Seq(Seq(Words)) /\ Len(Pairs) = Len(KeyOrder)
  <2>1. Pairs \in [1..Len(KeyOrder) -> Seq(Words)]
    BY <1>2, <1>3
  <2>2. Len(KeyOrder) \in Nat
    BY KeysGood
  <2>3. Pairs \in Seq(Seq(Words))
    BY <2>1, <2>2, IsASeq
  <2>4. DOMAIN Pairs = 1..Len(Pairs) /\ Len(Pairs) \in Nat
    BY <2>3, LenProperties
  <2>5. DOMAIN Pairs = 1..Len(KeyOrder)
    BY <1>3
  <2> QED BY <2>2, <2>3, <2>4, <2>5
<1> QED
  BY <1>1, <1>4

LEMMA StartsFacts ==
  ASSUME NEW text \in Seq(Words)
  PROVE  /\ Config!Starts(text) \subseteq Nat
         /\ 0 \in Config!Starts(text)
         /\ \A i \in 1..Len(text) : text[i] = Config!Newline => i \in Config!Starts(text)
         /\ \A i \in Config!Starts(text) :
              i = 0 \/ (i \in 1..Len(text) /\ text[i] = Config!Newline)
<1>1. DOMAIN text = 1..Len(text)
  BY LenProperties
<1> QED
  BY <1>1 DEF Config!Starts

(* Without newlines in the values, lines start where pairs do. *)
LEMMA StartsOfPairs ==
  ASSUME MapTyped, NEW f, Sums(Pairs, Len(Pairs), f), NEW n \in 0..Len(KeyOrder),
         \A j \in 1..n :
           Present(j) => ~Config!Contains(cfgMap_[KeyOrder[j]], Config!Newline)
  PROVE  \A i \in Config!Starts(f[n]) :
           i < Len(f[n]) => \E j \in 1..n : Present(j) /\ i = Len(f[j - 1])
<1> DEFINE P(m) == \A i \in Config!Starts(f[m]) :
                     i < Len(f[m]) => \E j \in 1..m : Present(j) /\ i = Len(f[j - 1])
           T == {m \in Nat : m <= n /\ ~P(m)}
<1>0. /\ Len(KeyOrder) \in Nat /\ n \in Nat /\ n <= Len(KeyOrder)
      /\ Pairs \in Seq(Seq(Words)) /\ Len(Pairs) = Len(KeyOrder)
  BY KeysGood, PairsTyped
<1>1. SUFFICES ASSUME T # {}
               PROVE  FALSE
  <2>1. n \notin T => P(n)
    BY <1>0
  <2> QED BY <2>1
<1>2. PICK m \in T : \A j \in T : m <= j
  <2>1. T \subseteq Nat
    OBVIOUS
  <2> HIDE DEF T
  <2> QED BY <1>1, <2>1, LeastNatural
<1>3. m \in Nat /\ m <= n /\ ~P(m)
  OBVIOUS
<1>4. m # 0
  <2>1. P(0)
    <3>1. f[0] = <<>> /\ <<>> \in Seq(Words) /\ Len(<<>>) = 0
      BY EmptySeq DEF Sums
    <3>2. \A i \in Config!Starts(f[0]) : i = 0 \/ i \in 1..0
      BY <3>1, StartsFacts
    <3> QED BY <3>1, <3>2
  <2> HIDE DEF P, T
  <2> QED BY <1>3, <2>1
<1>5. m - 1 \in Nat /\ m - 1 <= n /\ ~(m <= m - 1) /\ m \in 1..Len(Pairs) /\ m \in 1..n
      /\ m \in 1..Len(KeyOrder)
  BY <1>0, <1>3, <1>4
<1>6. P(m - 1)
  <2>1. m - 1 \notin T
    <3> HIDE DEF T
    <3> QED BY <1>2, <1>5
  <2> HIDE DEF P
  <2> QED BY <1>5, <2>1
<1>7. Grows(Words, Pairs, f, m)
  BY <1>0, <1>5, SumStep
<1>8. PICK i \in Config!Starts(f[m]) :
        i < Len(f[m]) /\ ~\E j \in 1..m : Present(j) /\ i = Len(f[j - 1])
  BY <1>3
<1> HIDE DEF T
<1> DEFINE q == Len(f[m - 1])
           r == Len(Pairs[m])
<1>9. q \in Nat /\ r \in Nat /\ Len(f[m]) = q + r
  BY <1>7 DEF Grows
<1>10. f[m] \in Seq(Words) /\ f[m - 1] \in Seq(Words) /\ Pairs[m] \in Seq(Words)
  BY <1>7 DEF Grows
<1>11. /\ \A x \in 1..q : f[m][x] = f[m - 1][x]
       /\ \A x \in 1..r : f[m][q + x] = Pairs[m][x]
  BY <1>7 DEF Grows
<1>111. Present(m) => i # q
  <2>1. m \in 1..m
    BY <1>5
  <2> QED BY <1>8, <2>1
<1>112. i < Len(f[m]) /\ \A j \in 1..m : Present(j) => i # Len(f[j - 1])
  BY <1>8
<1>113. i < q /\ i \in Config!Starts(f[m - 1]) =>
          \E j \in 1..m - 1 : Present(j) /\ i = Len(f[j - 1])
  BY <1>6
<1> HIDE DEF q, r
<1>12. i \in Nat /\ (i = 0 \/ (i \in 1..q + r /\ f[m][i] = Config!Newline))
  BY <1>9, <1>10, StartsFacts
<1>121. i < q + r
  BY <1>9, <1>112
<1>13. CASE i < q
  <2>1. i \in Config!Starts(f[m - 1])
    <3>1. CASE i = 0
      BY <3>1, <1>10, StartsFacts
    <3>2. CASE i # 0
      <4>1. i \in 1..q
        BY <1>9, <1>12, <1>13, <3>2
      <4>2. f[m - 1][i] = Config!Newline
        BY <1>11, <1>12, <3>2, <4>1
      <4> QED BY <1>10, <4>1, <4>2, StartsFacts DEF q
    <3> QED BY <3>1, <3>2
  <2>2. PICK j \in 1..m - 1 : Present(j) /\ i = Len(f[j - 1])
    BY <1>13, <1>113, <2>1
  <2>3. j \in 1..m
    BY <1>5
  <2> QED BY <1>112, <2>2, <2>3
<1>14. CASE i >= q
  <2>1. r # 0
    BY <1>9, <1>12, <1>121, <1>14
  <2>2. Present(m)
    <3>1. ~Present(m) => Pairs[m] = <<>>
      BY <1>5, PairsTyped
    <3>2. Pairs[m] = <<>> => r = 0
      BY EmptySeq DEF r
    <3> QED BY <2>1, <3>1, <3>2
  <2>3. i # q
    BY <1>111, <2>2
  <2>4. i - q \in 1..r /\ i - q # r /\ q + (i - q) = i /\ i # 0
    BY <1>9, <1>12, <1>121, <1>14, <2>3
  <2>5. Pairs[m][i - q] = Config!Newline
    BY <1>11, <1>12, <2>4
  <2>6. /\ Pairs[m] = Config!szPaire(KeyOrder[m], cfgMap_[KeyOrder[m]])
        /\ cfgMap_[KeyOrder[m]] \in Seq(Words) /\ GoodKey(KeyOrder[m])
        /\ ~Config!Contains(cfgMap_[KeyOrder[m]], Config!Newline)
    BY <1>5, <2>2, PairsTyped, KeysGood DEF PairAt
  <2> DEFINE c == Config!szPaire(KeyOrder[m], cfgMap_[KeyOrder[m]])
  <2>7. \A x \in 1..Len(c) : c[x] = Config!Newline => x = Len(c)
    BY <2>6, PairFacts
  <2>8. Pairs[m] = c
    BY <2>6
  <2> HIDE DEF c
  <2>9. i - q = r
    BY <2>4, <2>5, <2>7, <2>8 DEF r
  <2> QED BY <2>4, <2>9
<1> QED
  BY <1>9, <1>12, <1>13, <1>14

(* What is written up to a place ends with the last pair there is. *)
LEMMA LastPair ==
  ASSUME MapTyped, NEW f, Sums(Pairs, Len(Pairs), f), NEW n \in 0..Len(KeyOrder)
  PROVE  \/ f[n] = <<>>
         \/ \E j \in 1..n : /\ Present(j) /\ f[n] = f[j]
                            /\ \A i \in j + 1..n : ~Present(i)
<1> DEFINE P(m) == \/ f[m] = <<>>
                   \/ \E j \in 1..m : /\ Present(j) /\ f[m] = f[j]
                                      /\ \A i \in j + 1..m : ~Present(i)
           T == {m \in Nat : m <= n /\ ~P(m)}
<1>0. /\ Len(KeyOrder) \in Nat /\ n \in Nat /\ n <= Len(KeyOrder)
      /\ Pairs \in Seq(Seq(Words)) /\ Len(Pairs) = Len(KeyOrder)
  BY KeysGood, PairsTyped
<1>1. SUFFICES ASSUME T # {}
               PROVE  FALSE
  <2>1. n \notin T => P(n)
    BY <1>0
  <2> QED BY <2>1
<1>2. PICK m \in T : \A j \in T : m <= j
  <2>1. T \subseteq Nat
    OBVIOUS
  <2> HIDE DEF T
  <2> QED BY <1>1, <2>1, LeastNatural
<1>3. m \in Nat /\ m <= n /\ ~P(m)
  OBVIOUS
<1>4. m # 0
  <2>1. P(0)
    BY DEF Sums
  <2> HIDE DEF P, T
  <2> QED BY <1>3, <2>1
<1>5. m - 1 \in Nat /\ m - 1 <= n /\ ~(m <= m - 1) /\ m \in 1..Len(Pairs)
      /\ m \in 1..Len(KeyOrder)
  BY <1>0, <1>3, <1>4
<1>6. P(m - 1)
  <2>1. m - 1 \notin T
    <3> HIDE DEF T
    <3> QED BY <1>2, <1>5
  <2> HIDE DEF P
  <2> QED BY <1>5, <2>1
<1>7. Grows(Words, Pairs, f, m)
  BY <1>0, <1>5, SumStep
<1> HIDE DEF T
<1>8. CASE Present(m)
  <2>1. m \in 1..m /\ \A i \in m + 1..m : ~Present(i)
    BY <1>5
  <2> QED BY <1>3, <1>8, <2>1
<1>9. CASE ~Present(m)
  <2>1. f[m] = f[m - 1]
    <3>1. Pairs[m] = <<>>
      BY <1>5, <1>9, PairsTyped
    <3>2. f[m] = f[m - 1] \o <<>> /\ f[m - 1] \in Seq(Words)
      BY <1>7, <3>1 DEF Grows
    <3> QED BY <3>2, ConcatEmptySeq
  <2>2. CASE f[m - 1] = <<>>
    BY <1>3, <2>1, <2>2
  <2>3. CASE \E j \in 1..m - 1 : /\ Present(j) /\ f[m - 1] = f[j]
                                /\ \A i \in j + 1..m - 1 : ~Present(i)
    <3>1. PICK j \in 1..m - 1 : /\ Present(j) /\ f[m - 1] = f[j]
                                /\ \A i \in j + 1..m - 1 : ~Present(i)
      BY <2>3
    <3>2. j \in 1..m
      BY <1>5
    <3>3. ASSUME NEW i \in j + 1..m
          PROVE  ~Present(i)
      <4>1. i = m \/ i \in j + 1..m - 1
        BY <1>5
      <4> QED BY <1>9, <3>1, <4>1
    <3> QED BY <1>3, <2>1, <3>1, <3>2, <3>3
  <2> QED BY <1>6, <2>2, <2>3
<1> QED
  BY <1>8, <1>9

(* What is written is a text, and every pair is in it where it belongs. *)
LEMMA WrittenPairs ==
  ASSUME MapTyped
  PROVE  \E f : /\ Sums(Pairs, Len(Pairs), f)
                /\ Config!_WriteFIle(cfgMap_) = f[Len(KeyOrder)]
                /\ f[Len(KeyOrder)] \in Seq(Words)
<1>1. Pairs \in Seq(Seq(Words)) /\ Len(Pairs) = Len(KeyOrder) /\ Len(Pairs) \in Nat
  BY PairsTyped, KeysGood
<1>2. Len(Pairs) \in 0..Len(Pairs)
  BY <1>1
<1>3. PICK f : Sums(Pairs, Len(Pairs), f)
  BY <1>1, <1>2, SumsExist
<1>4. Config!FlattenSeq(Pairs) = f[Len(Pairs)]
  BY <1>1, <1>3, FlattenIsLastSum
<1>5. f[Len(Pairs)] \in Seq(Words)
  BY <1>1, <1>2, <1>3, SumsTyped
<1>6. Config!_WriteFIle(cfgMap_) = Config!FlattenSeq(Pairs)
  BY DEF Config!_WriteFIle, Pairs, PairAt, Present
<1> QED
  BY <1>1, <1>3, <1>4, <1>5, <1>6

(* A pair that has its line for itself, with a value that is read as it is  *)
(* written, is read from what is written.                                   *)
LEMMA WrittenIsRead ==
  ASSUME MapTyped, NEW p \in 1..Len(KeyOrder), Present(p),
         Config!Faithful(cfgMap_[KeyOrder[p]]), Config!OwnLine(KeyOrder[p])
  PROVE  LET read == Config!_LoadFile(Config!_WriteFIle(cfgMap_)) IN
         KeyOrder[p] \in DOMAIN read /\ read[KeyOrder[p]] = cfgMap_[KeyOrder[p]]
<1> DEFINE key == KeyOrder[p]
           v == cfgMap_[key]
           N == Len(KeyOrder)
<1>1. PICK f : /\ Sums(Pairs, Len(Pairs), f)
               /\ Config!_WriteFIle(cfgMap_) = f[Len(KeyOrder)]
               /\ f[Len(KeyOrder)] \in Seq(Words)
  BY WrittenPairs
<1> DEFINE text == f[N]
           start == Len(f[p - 1])
           said == [i \in Config!Starts(text) |-> Config!_ParseLine(Config!Line(text, i))]
<1>2. /\ N \in Nat /\ DOMAIN KeyOrder = 1..N /\ Pairs \in Seq(Seq(Words)) /\ Len(Pairs) = N
      /\ \A j \in 1..N : GoodKey(KeyOrder[j])
  BY KeysGood, PairsTyped
<1>3. \A i, j \in 1..N : KeyOrder[i] = KeyOrder[j] => i = j
  BY <1>2, KeysAssumption
<1>4. p - 1 \in 0..N /\ N \in p - 1..N /\ p \in 1..N
  BY <1>2
<1>5. /\ text \in Seq(Words) /\ f[p - 1] \in Seq(Words)
      /\ Len(text) \in Nat /\ start \in Nat
  <2>1. text \in Seq(Words)
    BY <1>1
  <2>2. f[p - 1] \in Seq(Words)
    BY <1>1, <1>2, <1>4, SumsTyped
  <2> HIDE DEF text
  <2>3. Len(text) \in Nat
    BY <2>1, LenProperties
  <2>4. start \in Nat
    <3>1. \A x \in Seq(Words) : Len(x) \in Nat
      BY LenProperties
    <3> QED BY <2>2, <3>1
  <2> QED BY <2>1, <2>2, <2>3, <2>4
<1>6. start <= Len(text) /\ \A i \in 1..start : text[i] = f[p - 1][i]
  <2>1. p - 1 \in 0..Len(Pairs) /\ N \in p - 1..Len(Pairs)
    BY <1>2, <1>4
  <2> HIDE DEF N
  <2>2. /\ Len(f[p - 1]) <= Len(f[N])
        /\ \A i \in 1..Len(f[p - 1]) : f[N][i] = f[p - 1][i]
    BY <1>1, <1>2, <2>1, SumsGrow
  <2> QED BY <2>2
<1>7. GoodKey(key) /\ v \in Seq(Words) /\ Config!Faithful(v)
      /\ Len(key) \in Nat /\ Len(v) \in Nat
  <2>1. GoodKey(key) /\ v \in Seq(Words) /\ Config!Faithful(v)
    BY <1>2 DEF MapTyped, Present
  <2> HIDE DEF key, v
  <2> QED BY <2>1, GoodKeyFacts, LenProperties
<1>8. ASSUME NEW j \in 1..p - 1, Present(j)
      PROVE  /\ ~Config!Contains(cfgMap_[KeyOrder[j]], Config!Newline)
             /\ Config!Contains(cfgMap_[KeyOrder[j]], Config!Long) =>
                  \E i \in j + 1..p - 1 : Present(i)
  <2>1. j \in Config!PlacesBefore(key)
    <3>1. j \in DOMAIN KeyOrder /\ p \in DOMAIN KeyOrder /\ j < p
      BY <1>2, <1>4
    <3> QED BY <1>8, <3>1 DEF Config!PlacesBefore, Present
  <2>2. /\ ~Config!Contains(cfgMap_[KeyOrder[j]], Config!Newline)
        /\ Config!Contains(cfgMap_[KeyOrder[j]], Config!Long) =>
             \E i \in Config!PlacesBefore(key) : j < i
    BY <2>1 DEF Config!OwnLine
  <2>3. ASSUME NEW i \in Config!PlacesBefore(key), j < i
        PROVE  i \in j + 1..p - 1 /\ Present(i)
    <3>1. PICK k \in DOMAIN KeyOrder : i < k /\ KeyOrder[k] = key
      BY DEF Config!PlacesBefore
    <3>2. k = p
      BY <1>2, <1>3, <1>4, <3>1
    <3>3. i \in 1..N /\ Present(i)
      BY <1>2 DEF Config!PlacesBefore, Present
    <3> QED BY <1>2, <2>3, <3>1, <3>2, <3>3
  <2> QED BY <2>2, <2>3
<1>9. start \in Config!Starts(text)
  <2>1. CASE f[p - 1] = <<>>
    <3>1. start = 0
      BY <2>1, EmptySeq
    <3> HIDE DEF text, start
    <3> QED BY <1>5, <3>1, StartsFacts
  <2>2. CASE \E j \in 1..p - 1 : /\ Present(j) /\ f[p - 1] = f[j]
                                /\ \A i \in j + 1..p - 1 : ~Present(i)
    <3>1. PICK j \in 1..p - 1 : /\ Present(j) /\ f[p - 1] = f[j]
                                /\ \A i \in j + 1..p - 1 : ~Present(i)
      BY <2>2
    <3>2. ~Config!Contains(cfgMap_[KeyOrder[j]], Config!Long)
      BY <1>8, <3>1
    <3>3. j \in 1..N /\ j \in 1..Len(Pairs)
      BY <1>2, <1>4
    <3>4. Grows(Words, Pairs, f, j)
      BY <1>1, <1>2, <3>3, SumStep
    <3>5. /\ Pairs[j] = Config!szPaire(KeyOrder[j], cfgMap_[KeyOrder[j]])
          /\ cfgMap_[KeyOrder[j]] \in Seq(Words) /\ GoodKey(KeyOrder[j])
      BY <1>2, <3>1, <3>3, PairsTyped DEF PairAt
    <3> DEFINE c == Pairs[j]
               q == Len(f[j - 1])
               r == Len(c)
    <3>6. c[r] = Config!Newline /\ r >= Len(KeyOrder[j]) + 2 /\ Len(KeyOrder[j]) \in Nat
      BY <3>2, <3>5, PairFacts, GoodKeyFacts
    <3>7. q \in Nat /\ r \in Nat /\ start = q + r
          /\ \A i \in 1..r : f[j][q + i] = c[i]
      BY <3>1, <3>4 DEF Grows
    <3> HIDE DEF c, q, r, start, text
    <3>8. r \in 1..r /\ start \in 1..start
      BY <3>6, <3>7
    <3>9. f[p - 1][start] = Config!Newline
      BY <3>1, <3>6, <3>7, <3>8
    <3>10. text[start] = Config!Newline /\ start \in 1..Len(text)
      BY <1>5, <1>6, <3>8, <3>9
    <3> QED BY <1>5, <3>10, StartsFacts
  <2> QED BY <1>1, <1>4, <2>1, <2>2, LastPair
<1>10. DOMAIN said[start] = {key} /\ said[start][key] = v
  <2> DEFINE c == Config!szPaire(key, v)
  <2>1. /\ c \in Seq(Words) /\ Len(c) \in Nat
        /\ HoldsAt(c, 0, key) /\ c[Len(key) + 1] = "="
        /\ Len(c) = Len(key) + Len(v) + 2
        /\ HoldsAt(c, Len(key) + 1, v)
        /\ c[Len(c)] = Config!Newline
    <3> HIDE DEF key, v
    <3> QED BY <1>7, FaithfulHolds, PairFacts
  <2>2. HoldsAt(text, start, c)
    <3>1. Pairs[p] = c
      BY <1>4, PairsTyped DEF PairAt
    <3>2. HoldsAt(f[Len(Pairs)], Len(f[p - 1]), Pairs[p])
      BY <1>1, <1>2, <1>4, SumHolds
    <3> HIDE DEF c
    <3> QED BY <1>2, <3>1, <3>2
  <2> HIDE DEF c, text, start, key, v, said
  <2>3. HoldsAt(text, start, key)
    <3>1. HoldsAt(text, start + 0, key)
      BY <1>5, <1>7, <2>1, <2>2, HoldsPart
    <3>2. start + 0 = start
      BY <1>5
    <3> QED BY <3>1, <3>2
  <2>4. HoldsAt(text, start + Len(key) + 1, v)
    <3>1. HoldsAt(text, start + (Len(key) + 1), v)
      BY <1>5, <1>7, <2>1, <2>2, HoldsPart
    <3>2. start + (Len(key) + 1) = start + Len(key) + 1
      BY <1>5, <1>7
    <3> QED BY <3>1, <3>2
  <2>5. start + Len(c) <= Len(text) /\ \A i \in 1..Len(c) : text[start + i] = c[i]
    BY <2>2 DEF HoldsAt
  <2>6. text[start + Len(key) + 1] = "="
    <3>1. Len(key) + 1 \in 1..Len(c) /\ start + (Len(key) + 1) = start + Len(key) + 1
      BY <1>5, <1>7, <2>1
    <3> QED BY <2>1, <2>5, <3>1
  <2>7. /\ text[start + Len(key) + Len(v) + 2] = Config!Newline
        /\ start + Len(key) + Len(v) + 2 <= Len(text)
    <3>1. Len(c) \in 1..Len(c) /\ start + Len(c) = start + Len(key) + Len(v) + 2
      BY <1>5, <1>7, <2>1
    <3> QED BY <2>1, <2>5, <3>1
  <2>8. /\ DOMAIN Config!_ParseLine(Config!Line(text, start)) = {key}
        /\ Config!_ParseLine(Config!Line(text, start))[key] = v
    BY <1>5, <1>7, <2>3, <2>4, <2>6, <2>7, SaidOfPair
  <2>9. said[start] = Config!_ParseLine(Config!Line(text, start))
    BY <1>9 DEF said
  <2> QED BY <2>8, <2>9
<1>11. ASSUME NEW i \in Config!Starts(text), i < start
       PROVE  key \notin DOMAIN said[i]
  <2>1. i \in Nat /\ i \in Config!Starts(f[p - 1])
    <3> HIDE DEF text, start
    <3>1. i = 0 \/ (i \in 1..Len(text) /\ text[i] = Config!Newline)
      BY <1>5, StartsFacts
    <3>2. CASE i = 0
      BY <1>5, <3>2, StartsFacts
    <3>3. CASE i # 0
      <4>1. i \in 1..start
        BY <1>5, <1>11, <3>1, <3>3
      <4>2. f[p - 1][i] = Config!Newline
        BY <1>6, <3>1, <3>3, <4>1
      <4> QED BY <1>5, <4>1, <4>2, StartsFacts DEF start
    <3> QED BY <3>2, <3>3
  <2>2. PICK j \in 1..p - 1 : Present(j) /\ i = Len(f[j - 1])
    <3>1. \A j \in 1..p - 1 : Present(j) => ~Config!Contains(cfgMap_[KeyOrder[j]], Config!Newline)
      BY <1>8
    <3>2. \A x \in Config!Starts(f[p - 1]) :
            x < Len(f[p - 1]) => \E j \in 1..p - 1 : Present(j) /\ x = Len(f[j - 1])
      BY <1>1, <1>4, <3>1, StartsOfPairs
    <3> QED BY <1>11, <2>1, <3>2
  <2> DEFINE other == KeyOrder[j]
             c == Config!szPaire(other, cfgMap_[other])
  <2>3. j \in 1..N /\ j \in 1..Len(Pairs) /\ j # p
    BY <1>2, <1>4
  <2>4. Pairs[j] = c /\ cfgMap_[other] \in Seq(Words) /\ GoodKey(other) /\ other # key
    BY <1>2, <1>3, <1>4, <2>2, <2>3, PairsTyped DEF PairAt
  <2>5. /\ c \in Seq(Words) /\ Len(c) \in Nat /\ Len(c) >= Len(other) + 2
        /\ HoldsAt(c, 0, other) /\ c[Len(other) + 1] = "=" /\ Len(other) \in Nat
    <3> HIDE DEF other
    <3> QED BY <2>4, PairFacts, GoodKeyFacts
  <2>6. HoldsAt(text, i, c)
    <3>1. HoldsAt(f[Len(Pairs)], Len(f[j - 1]), Pairs[j])
      BY <1>1, <1>2, <2>3, SumHolds
    <3> HIDE DEF c
    <3> QED BY <1>2, <2>2, <2>4, <3>1
  <2> HIDE DEF c, other, text, key, said
  <2>7. HoldsAt(text, i, other)
    <3>1. HoldsAt(text, i + 0, other)
      BY <1>5, <2>1, <2>5, <2>6, HoldsPart
    <3>2. i + 0 = i
      BY <2>1
    <3> QED BY <3>1, <3>2
  <2>8. text[i + Len(other) + 1] = "=" /\ i + Len(other) + 1 <= Len(text)
    <3>1. Len(other) + 1 \in 1..Len(c) /\ i + (Len(other) + 1) = i + Len(other) + 1
      BY <2>1, <2>5
    <3>2. i + Len(c) <= Len(text) /\ text[i + (Len(other) + 1)] = c[Len(other) + 1]
      BY <2>6, <3>1 DEF HoldsAt
    <3>3. i + Len(other) + 1 <= Len(text)
      BY <1>5, <2>1, <2>5, <3>2
    <3> QED BY <2>5, <3>1, <3>2, <3>3
  <2>9. DOMAIN Config!_ParseLine(Config!Line(text, i)) \subseteq {other}
    BY <1>5, <2>1, <2>4, <2>7, <2>8, SaidOfKey
  <2>10. said[i] = Config!_ParseLine(Config!Line(text, i))
    BY DEF said
  <2> QED BY <2>4, <2>9, <2>10
<1> DEFINE T == {i \in Config!Starts(text) : key \in DOMAIN said[i]}
<1>12. Config!Min(T) = start
  <2> HIDE DEF text, start, key, said
  <2>1. T \subseteq Nat
    BY <1>5, StartsFacts
  <2>2. start \in T
    BY <1>9, <1>10
  <2>3. ASSUME NEW y \in T
        PROVE  start <= y
    <3>1. y \in Nat /\ ~(y < start)
      BY <1>11, <2>1
    <3> QED BY <1>5, <3>1
  <2> HIDE DEF T
  <2> QED BY <2>1, <2>2, <2>3, MinIs
<1>13. Config!_LoadFile(text) =
         [k \in UNION {DOMAIN said[i] : i \in Config!Starts(text)} |->
            said[Config!Min({i \in Config!Starts(text) : k \in DOMAIN said[i]})][k]]
  <2> HIDE DEF text
  <2> QED BY DEF Config!_LoadFile
<1>14. key \in UNION {DOMAIN said[i] : i \in Config!Starts(text)}
  <2> HIDE DEF text, start, key, said
  <2> QED BY <1>9, <1>10
<1>15. key \in DOMAIN Config!_LoadFile(text) /\ Config!_LoadFile(text)[key] = said[start][key]
  <2> HIDE DEF text, start, key, said
  <2> QED BY <1>12, <1>13, <1>14 DEF T
<1> QED
  <2> HIDE DEF said
  <2> QED BY <1>1, <1>10, <1>15

(* What is read from a text are texts. *)
LEMMA ParsedTyped ==
  ASSUME NEW line \in Seq(Words)
  PROVE  \A k \in DOMAIN Config!_ParseLine(line) : Config!_ParseLine(line)[k] \in Seq(Words)
<1> DEFINE text == Config!Before(line, "#")
           key == Config!_TrimSpace(Config!Before(text, "="))
           back == SubSeq(text, Len(Config!Before(text, "=")) + 2, Len(text))
           value == Config!_TrimSpace(back)
<1>1. text \in Seq(Words)
  BY BeforeTyped
<1>2. Config!_ParseLine(line) =
        IF Config!Contains(text, "=") /\ key # <<>> /\ value # <<>>
          THEN [k \in {key} |-> value] ELSE Config!Empty
  BY DEF Config!_ParseLine
<1> HIDE DEF text, key
<1>3. back \in Seq(Words)
  <2> DEFINE n == Len(Config!Before(text, "="))
  <2>1. n \in Nat
    <3>1. Config!Before(text, "=") \in Seq(Words)
      BY <1>1, BeforeTyped
    <3> QED BY <3>1, LenProperties
  <2>2. Len(text) \in Nat /\ \A i \in 1..Len(text) : text[i] \in Words
    BY <1>1, LenProperties, ElementOfSeq
  <2> HIDE DEF n
  <2>3. n + 2 \in Int /\ Len(text) \in Int /\ \A i \in n + 2..Len(text) : text[i] \in Words
    BY <2>1, <2>2
  <2>4. SubSeq(text, n + 2, Len(text)) \in Seq(Words)
    BY <2>3, SubSeqProperties
  <2> QED BY <2>4 DEF n
<1> HIDE DEF back
<1>4. value \in Seq(Words)
  BY <1>3, TrimTyped
<1> HIDE DEF value
<1>5. DOMAIN Config!Empty = {}
  BY DEF Config!Empty
<1>6. \A k \in {key} : [x \in {key} |-> value][k] \in Seq(Words)
  BY <1>4
<1> QED
  BY <1>2, <1>5, <1>6

LEMMA LoadTyped ==
  ASSUME NEW text \in Seq(Words)
  PROVE  \A k \in DOMAIN Config!_LoadFile(text) : Config!_LoadFile(text)[k] \in Seq(Words)
<1> DEFINE said == [i \in Config!Starts(text) |-> Config!_ParseLine(Config!Line(text, i))]
           T(k) == {i \in Config!Starts(text) : k \in DOMAIN said[i]}
<1>1. Config!_LoadFile(text) =
        [k \in UNION {DOMAIN said[i] : i \in Config!Starts(text)} |->
           said[Config!Min({i \in Config!Starts(text) : k \in DOMAIN said[i]})][k]]
  BY DEF Config!_LoadFile
<1>2. ASSUME NEW i \in Config!Starts(text)
      PROVE  \A k \in DOMAIN said[i] : said[i][k] \in Seq(Words)
  <2>0. Len(text) \in Nat
    BY LenProperties
  <2>1. i \in Nat /\ i <= Len(text)
    BY <2>0, StartsFacts
  <2>2. PICK e \in Nat : LineEnds(text, i, e)
    BY <2>1, LineEndExists
  <2>3. Config!Line(text, i) \in Seq(Words)
    BY <2>1, <2>2, LineIs
  <2>4. \A k \in DOMAIN Config!_ParseLine(Config!Line(text, i)) :
          Config!_ParseLine(Config!Line(text, i))[k] \in Seq(Words)
    BY <2>3, ParsedTyped
  <2> QED BY <2>4
<1> HIDE DEF said
<1> SUFFICES ASSUME NEW k \in UNION {DOMAIN said[i] : i \in Config!Starts(text)}
             PROVE  said[Config!Min(T(k))][k] \in Seq(Words)
  BY <1>1
<1>3. T(k) \subseteq Nat /\ T(k) # {}
  BY StartsFacts
<1>4. Config!Min(T(k)) \in T(k)
  <2> HIDE DEF T
  <2> QED BY <1>3, MinExists
<1>5. Config!Min(T(k)) \in Config!Starts(text) /\ k \in DOMAIN said[Config!Min(T(k))]
  BY <1>4
<1> HIDE DEF T
<1> QED
  BY <1>2, <1>5

-----------------------------------------------------------------------------

(* What a restart would find of the values that are to be found. *)
GivenIn(map) ==
  \A k \in DOMAIN given : k \in DOMAIN map /\ map[k] = given[k]

ConfigIInv ==
  /\ file \in Seq(Words) /\ MapTyped
  /\ state \in {"idle", "unread", "writing", "down"}
  /\ DOMAIN given \subseteq Config!Keys
  /\ state \in {"idle", "writing"} => GivenIn(cfgMap_)
  /\ state = "down" => GivenIn(Config!_LoadFile(file))
  /\ state \in {"idle", "unread"} =>
       \A k \in durable \cap DOMAIN given :
         /\ k \in DOMAIN Config!_LoadFile(file)
         /\ Config!_LoadFile(file)[k] = given[k]

LEMMA ConfigInit == Config!Init => ConfigIInv
<1> SUFFICES ASSUME Config!Init
             PROVE  ConfigIInv
  OBVIOUS
<1>1. file \in Seq(Words)
  BY TextsAssumption DEF Config!Init
<1>2. MapTyped
  <2>1. DOMAIN Config!Empty = {}
    BY DEF Config!Empty
  <2> QED
    BY <1>1, <2>1, LoadTyped DEF Config!Init, MapTyped
<1>3. DOMAIN given = {}
  BY DEF Config!Init, Config!Empty
<1>4. state \in {"idle", "unread"}
  BY DEF Config!Init
<1> QED
  BY <1>1, <1>2, <1>3, <1>4 DEF ConfigIInv, GivenIn

LEMMA ConfigSet ==
  ASSUME ConfigIInv, NEW key \in Config!Keys, NEW value \in Texts,
         Config!SetConfigValue(key, value)
  PROVE  ConfigIInv'
<1>1. state \in {"idle", "unread"} /\ durable' = durable /\ cfgMap_' = Config!With(cfgMap_, key, value)
  BY DEF Config!SetConfigValue
<1>2. MapTyped'
  <2>1. value \in Seq(Words)
    BY TextsAssumption
  <2>2. \A k \in DOMAIN cfgMap_' : cfgMap_'[k] \in Seq(Words)
    BY <1>1, <2>1 DEF ConfigIInv, MapTyped, Config!With
  <2> QED BY <2>2 DEF MapTyped
<1> DEFINE kept == IF state = "unread" THEN Config!Empty ELSE given
<1>3. \A k \in DOMAIN kept : state = "idle" /\ k \in DOMAIN given /\ kept[k] = given[k]
  BY <1>1 DEF Config!Empty
<1>4. CASE file' = <<>> /\ state' = "writing" /\ given' = Config!With(kept, key, value)
  <2>1. file' \in Seq(Words)
    BY <1>4, EmptySeq
  <2>2. DOMAIN given' \subseteq Config!Keys
    <3> HIDE DEF kept
    <3> QED BY <1>4, <1>3 DEF ConfigIInv, Config!With
  <2>3. ASSUME NEW k \in DOMAIN given'
        PROVE  k \in DOMAIN cfgMap_' /\ cfgMap_'[k] = given'[k]
    <3>1. CASE k = key
      BY <1>1, <1>4, <3>1 DEF Config!With
    <3>2. CASE k # key
      <4>1. k \in DOMAIN given /\ given'[k] = given[k] /\ state = "idle"
        <5> HIDE DEF kept
        <5> QED BY <1>4, <1>3, <3>2 DEF Config!With
      <4>2. k \in DOMAIN cfgMap_ /\ cfgMap_[k] = given[k]
        BY <1>1, <4>1 DEF ConfigIInv, GivenIn
      <4> QED BY <1>1, <3>2, <4>1, <4>2 DEF Config!With
    <3> QED BY <3>1, <3>2
  <2>4. GivenIn(cfgMap_)'
    BY <2>3 DEF GivenIn
  <2> QED BY <1>2, <1>4, <2>1, <2>2, <2>4 DEF ConfigIInv
<1>5. CASE /\ given' = [k \in DOMAIN given \ {key} |-> given[k]]
           /\ UNCHANGED <<file, state>>
  <2>1. \A k \in DOMAIN given' : k \in DOMAIN given /\ k # key /\ given'[k] = given[k]
    BY <1>5
  <2>2. ASSUME state = "idle" PROVE GivenIn(cfgMap_)'
    <3> SUFFICES ASSUME NEW k \in DOMAIN given'
                 PROVE  k \in DOMAIN cfgMap_' /\ cfgMap_'[k] = given'[k]
      BY DEF GivenIn
    <3>1. k \in DOMAIN cfgMap_ /\ cfgMap_[k] = given[k]
      BY <1>1, <2>1, <2>2 DEF ConfigIInv, GivenIn
    <3> QED BY <1>1, <2>1, <3>1 DEF Config!With
  <2>3. \A k \in durable' \cap DOMAIN given' :
          k \in DOMAIN Config!_LoadFile(file) /\ Config!_LoadFile(file)[k] = given'[k]
    BY <1>1, <2>1 DEF ConfigIInv
  <2>4. file' = file /\ state' = state /\ DOMAIN given' \subseteq Config!Keys
    BY <1>1, <1>5, <2>1 DEF ConfigIInv
  <2>5. \A k \in durable' \cap DOMAIN given' :
          k \in DOMAIN Config!_LoadFile(file') /\ Config!_LoadFile(file')[k] = given'[k]
    BY <2>3, <2>4
  <2>6. file' \in Seq(Words)
    BY <2>4 DEF ConfigIInv
  <2> QED BY <1>1, <1>2, <2>2, <2>4, <2>5, <2>6 DEF ConfigIInv
<1> QED
  BY <1>4, <1>5 DEF Config!SetConfigValue

LEMMA ConfigFinish ==
  ASSUME ConfigIInv, Config!FinishWrite
  PROVE  ConfigIInv'
<1>1. /\ state = "writing" /\ state' = "idle" /\ file' = Config!_WriteFIle(cfgMap_)
      /\ durable' = {k \in DOMAIN cfgMap_ :
                       Config!Faithful(cfgMap_[k]) /\ Config!OwnLine(k)}
      /\ cfgMap_' = cfgMap_ /\ given' = given
  BY DEF Config!FinishWrite
<1>2. MapTyped /\ GivenIn(cfgMap_) /\ DOMAIN given \subseteq Config!Keys
  BY <1>1 DEF ConfigIInv
<1>3. Config!_WriteFIle(cfgMap_) \in Seq(Words)
  BY <1>2, WrittenPairs
<1>4. ASSUME NEW k \in durable' \cap DOMAIN given
      PROVE  /\ k \in DOMAIN Config!_LoadFile(Config!_WriteFIle(cfgMap_))
             /\ Config!_LoadFile(Config!_WriteFIle(cfgMap_))[k] = given[k]
  <2>1. k \in DOMAIN cfgMap_ /\ Config!Faithful(cfgMap_[k]) /\ Config!OwnLine(k)
        /\ cfgMap_[k] = given[k]
    BY <1>1, <1>2 DEF GivenIn
  <2>2. PICK p \in 1..Len(KeyOrder) : KeyOrder[p] = k
    BY <1>2, KeysGood DEF Config!Keys, Config!Range
  <2>3. Present(p)
    BY <2>1, <2>2 DEF Present
  <2> DEFINE read == Config!_LoadFile(Config!_WriteFIle(cfgMap_))
  <2>4. KeyOrder[p] \in DOMAIN read /\ read[KeyOrder[p]] = cfgMap_[KeyOrder[p]]
    BY <1>2, <2>1, <2>2, <2>3, WrittenIsRead
  <2> HIDE DEF read
  <2>5. k \in DOMAIN read /\ read[k] = given[k]
    BY <2>1, <2>2, <2>4
  <2> QED BY <2>5 DEF read
<1>5. \A k \in durable' \cap DOMAIN given' :
        /\ k \in DOMAIN Config!_LoadFile(file')
        /\ Config!_LoadFile(file')[k] = given'[k]
  BY <1>1, <1>4
<1>6. MapTyped' /\ GivenIn(cfgMap_)'
  BY <1>1, <1>2 DEF MapTyped, GivenIn
<1> QED
  BY <1>1, <1>2, <1>3, <1>5, <1>6 DEF ConfigIInv

(* What a write that fails leaves in the file. *)
LEMMA CutShortTyped ==
  ASSUME MapTyped
  PROVE  Config!CutShort(Config!_WriteFIle(cfgMap_)) \subseteq Seq(Words)
<1> DEFINE text == Config!_WriteFIle(cfgMap_)
<1>1. text \in Seq(Words)
  BY WrittenPairs
<1> HIDE DEF text
<1>2. ASSUME NEW n \in 0..Len(text) PROVE SubSeq(text, 1, n) \in Seq(Words)
  <2>1. Len(text) \in Nat /\ \A i \in 1..n : text[i] \in Words
    BY <1>1, LenProperties, ElementOfSeq
  <2>2. 1 \in Int /\ n \in Int
    BY <2>1
  <2> QED BY <2>1, <2>2, SubSeqProperties
<1>3. Config!CutShort(text) \subseteq Seq(Words)
  BY <1>2 DEF Config!CutShort
<1> QED
  BY <1>3 DEF text

LEMMA ConfigFail ==
  ASSUME ConfigIInv, Config!FailWrite
  PROVE  ConfigIInv'
<1>1. /\ state = "writing" /\ state' = "idle" /\ durable' = {}
      /\ file' \in Config!CutShort(Config!_WriteFIle(cfgMap_))
      /\ cfgMap_' = cfgMap_ /\ given' = given
  BY DEF Config!FailWrite
<1>2. MapTyped /\ GivenIn(cfgMap_) /\ DOMAIN given \subseteq Config!Keys
  BY <1>1 DEF ConfigIInv
<1>3. file' \in Seq(Words)
  BY <1>1, <1>2, CutShortTyped
<1>4. MapTyped' /\ GivenIn(cfgMap_)'
  BY <1>1, <1>2 DEF MapTyped, GivenIn
<1> QED
  BY <1>1, <1>2, <1>3, <1>4 DEF ConfigIInv

LEMMA ConfigCrash ==
  ASSUME ConfigIInv, Config!Crash
  PROVE  ConfigIInv'
<1>1. /\ state' = "down" /\ cfgMap_' = cfgMap_ /\ durable' = durable
      /\ state # "writing" => file' = file
  BY DEF Config!Crash
<1>2. MapTyped /\ file \in Seq(Words)
  BY DEF ConfigIInv
<1>3. MapTyped' /\ file' \in Seq(Words)
  <2>1. file' = file \/ file' \in Config!CutShort(Config!_WriteFIle(cfgMap_))
    BY DEF Config!Crash
  <2> QED BY <1>1, <1>2, <2>1, CutShortTyped DEF MapTyped
<1>4. DOMAIN given' \subseteq DOMAIN given
  BY DEF Config!Crash, Config!Empty
<1>5. GivenIn(Config!_LoadFile(file))'
  <2> SUFFICES ASSUME NEW k \in DOMAIN given'
               PROVE  k \in DOMAIN Config!_LoadFile(file') /\ Config!_LoadFile(file')[k] = given'[k]
    BY DEF GivenIn
  <2>1. state \in {"idle", "unread"} /\ file' = file
    BY <1>1 DEF ConfigIInv, Config!Crash, Config!Empty
  <2>2. k \in durable \cap DOMAIN given /\ given'[k] = given[k]
    BY <2>1 DEF Config!Crash
  <2> QED BY <2>1, <2>2 DEF ConfigIInv
<1>6. DOMAIN given \subseteq Config!Keys
  BY DEF ConfigIInv
<1> QED
  BY <1>1, <1>3, <1>4, <1>5, <1>6 DEF ConfigIInv

LEMMA ConfigRestart ==
  ASSUME ConfigIInv, Config!Restart
  PROVE  ConfigIInv'
<1>1. /\ state = "down" /\ state' \in {"idle", "unread"} /\ file' = file /\ given' = given
      /\ durable' = durable
      /\ state' = "idle" => cfgMap_' = Config!_LoadFile(file)
      /\ state' = "unread" => DOMAIN cfgMap_' = {}
  BY DEF Config!Restart, Config!Empty
<1>2. file \in Seq(Words) /\ GivenIn(Config!_LoadFile(file)) /\ DOMAIN given \subseteq Config!Keys
  BY <1>1 DEF ConfigIInv
<1>3. MapTyped'
  BY <1>1, <1>2, LoadTyped DEF MapTyped
<1>4. state' = "idle" => GivenIn(cfgMap_)'
  BY <1>1, <1>2 DEF GivenIn
<1>5. \A k \in durable' \cap DOMAIN given' :
        /\ k \in DOMAIN Config!_LoadFile(file')
        /\ Config!_LoadFile(file')[k] = given'[k]
  BY <1>1, <1>2 DEF GivenIn
<1> QED
  BY <1>1, <1>2, <1>3, <1>4, <1>5 DEF ConfigIInv

(* Across crashes, restarts and writes that fail, a value that was set is   *)
(* the value that is found, with the exceptions of ConfigReader, for any    *)
(* keys and values: a pair that _WriteFIle() gives a line of its own is     *)
(* what _LoadFile() finds first of its key, and what the file still holds   *)
(* is found again after a start that could not read it.                     *)
THEOREM ValuesSurvive == Config!Spec => []ValuesKept
<1>1. ConfigIInv /\ [Config!Next]_(Config!vars) => ConfigIInv'
  <2> SUFFICES ASSUME ConfigIInv, [Config!Next]_(Config!vars)
               PROVE  ConfigIInv'
    OBVIOUS
  <2>1. CASE UNCHANGED Config!vars
    BY <2>1 DEF Config!vars, ConfigIInv, MapTyped, GivenIn
  <2>2. CASE Config!Next
    BY <2>2, ConfigSet, ConfigFinish, ConfigFail, ConfigCrash, ConfigRestart DEF Config!Next
  <2> QED BY <2>1, <2>2
<1>2. ConfigIInv => ValuesKept
  BY DEF ConfigIInv, GivenIn, ValuesKept, Config!ValuesKept
<1> QED
  BY <1>1, <1>2, ConfigInit, PTL DEF Config!Spec

=============================================================================
