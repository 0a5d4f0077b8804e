-------------------------- MODULE RoomEntryProofs --------------------------
(***************************************************************************)
(* Proofs about RoomEntry, for any digits, rooms and bounds.               *)
(***************************************************************************)
EXTENDS RoomEntry, SequenceTheorems, TLAPS

-----------------------------------------------------------------------------
(* Types *)

\* What fits into the field.
LEMMA TextIs ==
  ASSUME NEW t
  PROVE  t \in Text <=> t \in Seq(Digit) /\ Len(t) <= MaxLength
PROOF
  <1>1. ASSUME t \in Text PROVE t \in Seq(Digit) /\ Len(t) <= MaxLength
    <2>1. PICK m \in 0..MaxLength : t \in [1..m -> Digit]
      BY <1>1 DEF Text, SeqOf
    <2> QED
      BY <2>1, EntryAssumption
  <1>2. ASSUME t \in Seq(Digit), Len(t) <= MaxLength PROVE t \in Text
    <2>1. Len(t) \in 0..MaxLength /\ t \in [1..Len(t) -> Digit]
      BY <1>2, EntryAssumption
    <2> QED
      BY <2>1 DEF Text, SeqOf
  <1> QED
    BY <1>1, <1>2

\* One element less, at the end or anywhere.
LEMMA FrontIs ==
  ASSUME NEW S, NEW s \in Seq(S), s # <<>>
  PROVE  /\ Front(s) \in Seq(S) /\ Len(Front(s)) = Len(s) - 1
         /\ Len(s) \in Nat /\ Len(s) > 0
PROOF
  <1>1. /\ Len(s) \in Nat /\ Len(s) > 0 /\ Len(s) - 1 \in Int
        /\ \A i \in 1..(Len(s) - 1) : s[i] \in S
    OBVIOUS
  <1>2. Len(SubSeq(s, 1, Len(s) - 1)) = Len(s) - 1 /\ SubSeq(s, 1, Len(s) - 1) \in Seq(S)
    <2> DEFINE n == Len(s) - 1
    <2>1. n \in Nat /\ \A i \in 1..n : s[i] \in S
      BY <1>1
    <2> HIDE DEF n
    <2>2. /\ SubSeq(s, 1, n) \in Seq(S)
          /\ Len(SubSeq(s, 1, n)) = IF 1 <= n THEN n - 1 + 1 ELSE 0
      BY <2>1, SubSeqProperties
    <2>3. (IF 1 <= n THEN n - 1 + 1 ELSE 0) = n
      BY <2>1
    <2>4. SubSeq(s, 1, n) \in Seq(S) /\ Len(SubSeq(s, 1, n)) = n
      BY <2>2, <2>3
    <2> QED
      BY <2>4, Zenon DEF n
  <1> QED
    BY <1>1, <1>2, Zenon DEF Front

LEMMA RemoveAtIs ==
  ASSUME NEW S, NEW s \in Seq(S), NEW i \in DOMAIN s
  PROVE  RemoveAt(s, i) \in Seq(S) /\ Len(RemoveAt(s, i)) = Len(s) - 1
PROOF
  <1>1. /\ i \in 1..Len(s) /\ Len(s) \in Nat
        /\ SubSeq(s, 1, i - 1) \in Seq(S) /\ Len(SubSeq(s, 1, i - 1)) = i - 1
        /\ SubSeq(s, i + 1, Len(s)) \in Seq(S)
        /\ Len(SubSeq(s, i + 1, Len(s))) = Len(s) - i
    OBVIOUS
  <1> DEFINE before == SubSeq(s, 1, i - 1)
             after == SubSeq(s, i + 1, Len(s))
  <1>2. before \o after \in Seq(S) /\ Len(before \o after) = Len(before) + Len(after)
    BY <1>1, ConcatProperties
  <1>3. Len(before) + Len(after) = Len(s) - 1
    BY <1>1
  <1> QED
    BY <1>2, <1>3, Zenon DEF RemoveAt

\* An edit of the field that leaves no more in it than fits.
LEMMA NumberChangedTyped ==
  ASSUME TypeOK, NEW new \in Text, Typing, NumberChanged(new)
  PROVE  TypeOK'
PROOF
  <1>1. edits' \in 0..MaxEdits
    BY EntryAssumption DEF Typing, NumberChanged, TypeOK
  <1>2. circles' \in 0..4
    <2>1. Len(new) \in Nat
      BY TextIs
    <2>2. \A n \in Nat : (IF n < 4 THEN n ELSE 4) \in 0..4
      OBVIOUS
    <2> QED
      BY <2>1, <2>2, Zenon DEF NumberChanged
  <1>3. lookups' \in Seq(Text)
    BY DEF NumberChanged, TypeOK
  <1>4. hurried' \in BOOLEAN
    BY DEF NumberChanged, TypeOK
  <1> QED
    BY <1>1, <1>2, <1>3, <1>4 DEF NumberChanged, TypeOK

LEMMA TypeDigitFits ==
  ASSUME TypeOK, NEW d \in Digit, TypeDigit(d)
  PROVE  Append(text, d) \in Text
PROOF
  <1>1. text \in Seq(Digit) /\ Len(text) < MaxLength
    BY TextIs DEF TypeOK, TypeDigit
  <1>2. Append(text, d) \in Seq(Digit) /\ Len(Append(text, d)) <= MaxLength
    BY <1>1, EntryAssumption
  <1> QED
    BY <1>2, TextIs

LEMMA DeleteDigitFits ==
  ASSUME TypeOK, DeleteDigit
  PROVE  Front(text) \in Text
PROOF
  <1>1. text \in Seq(Digit) /\ Len(text) <= MaxLength /\ text # <<>>
    BY TextIs DEF TypeOK, DeleteDigit
  <1> QED
    BY <1>1, FrontIs, TextIs, EntryAssumption

\* An answer and a step back leave the field as it is, or empty it.
LEMMA EmptyFits == <<>> \in Text
PROOF
  <1>1. <<>> \in Seq(Digit) /\ Len(<<>>) <= MaxLength
    BY EntryAssumption
  <1> QED
    BY <1>1, TextIs, Zenon

LEMMA TypeStep == ASSUME TypeOK, [Next]_vars PROVE TypeOK'
PROOF
  <1>1. ASSUME NEW d \in Digit, TypeDigit(d) PROVE TypeOK'
    BY <1>1, TypeDigitFits, NumberChangedTyped DEF TypeDigit
  <1>2. CASE DeleteDigit
    BY <1>2, DeleteDigitFits, NumberChangedTyped DEF DeleteDigit
  <1>3. ASSUME NEW room \in Room, MacStarts(room) PROVE TypeOK'
    BY <1>3 DEF MacStarts, TypeOK
  <1>4. CASE LookupAnswered
    <2>1. PICK i \in DOMAIN lookups :
            /\ lookups' = RemoveAt(lookups, i)
            /\ IF lookups[i] \in rooms THEN OpenSlides ELSE Refuse
      BY <1>4 DEF LookupAnswered
    <2>2. lookups' \in Seq(Text)
      BY <2>1, RemoveAtIs DEF TypeOK
    <2>3. ASSUME OpenSlides PROVE TypeOK'
      <3>1. screens' \in Seq(Text)
        BY <2>3 DEF OpenSlides, TypeOK
      <3>2. crashed' \in BOOLEAN
        BY <2>3 DEF OpenSlides
      <3> QED
        BY <1>4, <2>2, <2>3, <3>1, <3>2 DEF LookupAnswered, OpenSlides, TypeOK
    <2>4. ASSUME Refuse PROVE TypeOK'
      <3>1. text' \in Text /\ circles' \in 0..4
        BY <2>4, EmptyFits DEF Refuse, EmptyField
      <3>2. alert' \in BOOLEAN
        BY <2>4 DEF Refuse, TypeOK
      <3> QED
        BY <1>4, <2>2, <2>4, <3>1, <3>2 DEF LookupAnswered, Refuse, TypeOK
    <2> QED
      BY <2>1, <2>3, <2>4, Zenon
  <1>5. CASE DismissAlert
    BY <1>5 DEF DismissAlert, TypeOK
  <1>6. CASE Back
    <2>1. screens' \in Seq(Text)
      BY <1>6, FrontIs DEF Back, TypeOK
    <2>2. text' \in Text /\ circles' \in 0..4
      BY <1>6, EmptyFits DEF Back, EmptyField, TypeOK
    <2> QED
      BY <1>6, <2>1, <2>2 DEF Back, TypeOK
  <1>7. CASE UNCHANGED vars
    BY <1>7 DEF vars, TypeOK
  <1> QED
    BY <1>1, <1>2, <1>3, <1>4, <1>5, <1>6, <1>7 DEF Next

\* Every variable has its type: no more than fits is ever in the field, and
\* codes looked up or opened fitted into it.
THEOREM TypeCorrect == Spec => []TypeOK
PROOF
  <1>1. Init => TypeOK
    <2>1. <<>> \in Seq(Text) /\ 0 \in 0..4 /\ 0 \in 0..MaxEdits
      BY EntryAssumption
    <2> QED
      BY <2>1, EmptyFits DEF Init, TypeOK
  <1>2. TypeOK /\ [Next]_vars => TypeOK'
    BY TypeStep
  <1> QED
    BY <1>1, <1>2, PTL DEF Spec

-----------------------------------------------------------------------------
(* The circles, and the codes left in the field *)

LEMMA CirclesStep ==
  ASSUME TypeOK, CirclesFollow, [Next]_vars
  PROVE  CirclesFollow'
PROOF
  <1>1. ASSUME NEW new, NumberChanged(new) PROVE CirclesFollow'
    BY <1>1 DEF NumberChanged, CirclesFollow
  <1>2. ASSUME EmptyField PROVE CirclesFollow'
    BY <1>2 DEF EmptyField, CirclesFollow
  <1>3. ASSUME UNCHANGED <<text, circles>> PROVE CirclesFollow'
    BY <1>3 DEF CirclesFollow
  <1>4. CASE LookupAnswered
    BY <1>2, <1>3, <1>4 DEF LookupAnswered, OpenSlides, Refuse
  <1>5. CASE Back
    BY <1>2, <1>3, <1>5 DEF Back
  <1> QED
    BY <1>1, <1>3, <1>4, <1>5
       DEF Next, TypeDigit, DeleteDigit, MacStarts, DismissAlert, vars

\* The circles tell how much is in the field, through every edit and every
\* emptying that numberChanged does not see.
THEOREM CirclesTell == Spec => []CirclesFollow
PROOF
  <1>1. Init => CirclesFollow
    BY DEF Init, CirclesFollow
  <1> QED
    BY <1>1, CirclesStep, TypeCorrect, PTL DEF Spec

LEMMA StuckStep ==
  ASSUME TypeOK, NeverStuck, [Next]_vars
  PROVE  NeverStuck'
PROOF
  <1>1. ASSUME NEW new, NumberChanged(new) PROVE NeverStuck'
    <2>1. Len(new) >= 4 => Len(lookups') = Len(lookups) + 1
      BY <1>1 DEF NumberChanged, TypeOK
    <2> QED
      BY <1>1, <2>1 DEF NumberChanged, NeverStuck, TypeOK
  <1>2. ASSUME EmptyField PROVE NeverStuck'
    BY <1>2 DEF EmptyField, NeverStuck
  <1>3. ASSUME UNCHANGED <<text, lookups, screens>> PROVE NeverStuck'
    BY <1>3 DEF NeverStuck
  <1>4. ASSUME OpenSlides PROVE NeverStuck'
    BY <1>4 DEF OpenSlides, NeverStuck, TypeOK
  <1>5. CASE LookupAnswered
    BY <1>2, <1>4, <1>5, Zenon DEF LookupAnswered, Refuse
  <1>6. CASE Back
    <2>1. CASE Len(screens) = 1
      BY <1>2, <1>6, <2>1 DEF Back
    <2>2. CASE Len(screens) # 1
      <3>1. screens' = Front(screens) /\ screens # <<>> /\ screens \in Seq(Text)
        BY <1>6 DEF Back, TypeOK
      <3>2. screens' # <<>>
        <4>1. Len(Front(screens)) = Len(screens) - 1 /\ Len(screens) \in Nat /\ Len(screens) > 0
          BY <3>1, FrontIs
        <4>2. Len(Front(screens)) # 0
          BY <2>2, <4>1
        <4> QED
          BY <3>1, <4>2
      <3> QED
        BY <3>2 DEF NeverStuck
    <2> QED
      BY <2>1, <2>2
  <1> QED
    BY <1>1, <1>3, <1>5, <1>6
       DEF Next, TypeDigit, DeleteDigit, MacStarts, DismissAlert, vars

\* A full code in the field is being looked up, or has opened a slide screen.
THEOREM NothingStuck == Spec => []NeverStuck
PROOF
  <1>1. Init => NeverStuck
    BY DEF Init, NeverStuck
  <1> QED
    BY <1>1, StuckStep, TypeCorrect, PTL DEF Spec

-----------------------------------------------------------------------------
(* The user who waits *)

\* With every answer waited for, at most the code in the field is looked up,
\* under no slide screen, and at most one slide screen is open.
Unhurried ==
  /\ ~crashed
  /\ lookups = <<>> \/ (lookups = <<text>> /\ screens = <<>> /\ text # <<>>)
  /\ screens = <<>> \/ \E code \in rooms : screens = <<code>>

UInv == ~hurried => Unhurried

\* An edit that does not hurry finds no lookup without an answer.
LEMMA EditKeeps ==
  ASSUME Unhurried, NEW new \in Text, Typing, NumberChanged(new), ~hurried'
  PROVE  Unhurried'
PROOF
  <1>1. /\ lookups = <<>> /\ screens = <<>> /\ text' = new
        /\ UNCHANGED <<crashed, screens>>
    BY DEF NumberChanged, Typing
  <1>2. CASE Len(new) >= 4
    BY <1>1, <1>2 DEF NumberChanged, Unhurried
  <1>3. CASE ~ (Len(new) >= 4)
    BY <1>1, <1>3 DEF NumberChanged, Unhurried
  <1> QED
    BY <1>2, <1>3

LEMMA AnswerKeeps ==
  ASSUME Unhurried, LookupAnswered
  PROVE  Unhurried'
PROOF
  <1>1. PICK i \in DOMAIN lookups :
          /\ lookups' = RemoveAt(lookups, i)
          /\ IF lookups[i] \in rooms THEN OpenSlides ELSE Refuse
    BY DEF LookupAnswered
  <1>2. lookups = <<text>> /\ screens = <<>> /\ text # <<>> /\ i = 1
    BY <1>1 DEF Unhurried
  <1>3. lookups' = <<>>
    <2>1. Len(<<text>>) = 1 /\ SubSeq(<<text>>, 1, 0) = <<>> /\ SubSeq(<<text>>, 2, 1) = <<>>
      OBVIOUS
    <2> QED
      BY <1>1, <1>2, <2>1 DEF RemoveAt
  <1>4. UNCHANGED rooms
    BY DEF LookupAnswered
  <1>5. CASE text \in rooms
    <2>1. OpenSlides
      BY <1>1, <1>2, <1>5, Zenon
    <2>2. screens' = <<text>>
      BY <1>2, <2>1 DEF OpenSlides
    <2>3. ~crashed'
      BY <1>2, <2>1, Zenon DEF OpenSlides
    <2> QED
      BY <1>3, <1>4, <1>5, <2>2, <2>3 DEF Unhurried
  <1>6. CASE text \notin rooms
    <2>1. Refuse
      BY <1>1, <1>2, <1>6, Zenon
    <2> QED
      BY <1>2, <1>3, <2>1 DEF Refuse, Unhurried
  <1> QED
    BY <1>5, <1>6

LEMMA BackKeeps ==
  ASSUME Unhurried, Back
  PROVE  Unhurried'
PROOF
  <1>1. PICK code \in rooms : screens = <<code>>
    BY DEF Unhurried, Back
  <1>2. lookups = <<>> /\ UNCHANGED <<lookups, crashed>>
    BY <1>1 DEF Unhurried, Back
  <1>3. screens' = <<>>
    <2>1. SubSeq(<<code>>, 1, 0) = <<>>
      OBVIOUS
    <2> QED
      BY <1>1, <2>1 DEF Back, Front
  <1> QED
    BY <1>2, <1>3 DEF Unhurried

LEMMA NextKeeps == ASSUME UInv, TypeOK, [Next]_vars PROVE UInv'
PROOF
  <1> SUFFICES ASSUME ~hurried' PROVE Unhurried'
    BY DEF UInv
  <1>1. ASSUME NEW d \in Digit, TypeDigit(d) PROVE Unhurried'
    <2>1. Append(text, d) \in Text
      BY <1>1, TypeDigitFits
    <2>2. Typing /\ NumberChanged(Append(text, d)) /\ ~hurried
      BY <1>1, Zenon DEF TypeDigit, NumberChanged
    <2> QED
      BY <2>1, <2>2, EditKeeps, Zenon DEF UInv
  <1>2. CASE DeleteDigit
    <2>1. Front(text) \in Text
      BY <1>2, DeleteDigitFits
    <2>2. Typing /\ NumberChanged(Front(text)) /\ ~hurried
      BY <1>2, Zenon DEF DeleteDigit, NumberChanged
    <2> QED
      BY <2>1, <2>2, EditKeeps, Zenon DEF UInv
  <1>3. ASSUME NEW room \in Room, MacStarts(room) PROVE Unhurried'
    BY <1>3 DEF MacStarts, UInv, Unhurried
  <1>4. CASE LookupAnswered
    BY <1>4, AnswerKeeps DEF LookupAnswered, UInv
  <1>5. CASE DismissAlert
    BY <1>5 DEF DismissAlert, UInv, Unhurried
  <1>6. CASE Back
    BY <1>6, BackKeeps DEF Back, UInv
  <1>7. CASE UNCHANGED vars
    BY <1>7 DEF vars, UInv, Unhurried
  <1> QED
    BY <1>1, <1>2, <1>3, <1>4, <1>5, <1>6, <1>7 DEF Next

\* A user who waits for each answer only gets to rooms that exist, one screen
\* at a time, and never loses the application.
THEOREM UnhurriedSafe == Spec => []UnhurriedIsSafe
PROOF
  <1>1. Init => UInv
    BY DEF Init, UInv, Unhurried
  <1>2. UInv /\ TypeOK /\ [Next]_vars => UInv'
    BY NextKeeps
  <1>3. UInv => UnhurriedIsSafe
    <2> SUFFICES ASSUME Unhurried
                 PROVE  /\ Len(screens) <= 1
                        /\ \A i \in DOMAIN screens : screens[i] \in rooms
      BY Zenon DEF UInv, Unhurried, UnhurriedIsSafe
    <2>1. CASE screens = <<>>
      BY <2>1
    <2>2. ASSUME NEW code \in rooms, screens = <<code>>
          PROVE  /\ Len(screens) <= 1
                 /\ \A i \in DOMAIN screens : screens[i] \in rooms
      BY <2>2
    <2> QED
      BY <2>1, <2>2 DEF Unhurried
  <1> QED
    BY <1>1, <1>2, <1>3, TypeCorrect, PTL DEF Spec
=============================================================================
