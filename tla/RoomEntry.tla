----------------------------- MODULE RoomEntry ------------------------------
(***************************************************************************)
(* The first screen of the phone (RoomNumberViewController): digits are    *)
(* typed into a hidden field and shown as four circles; from the fourth    *)
(* digit on every edit looks the code up in the database, and the answer   *)
(* opens the slide screen of the room or raises an alert.  The button of   *)
(* startSlidingBtnPressed is not in the storyboard: numberChanged is its   *)
(* only caller, and never with an empty field.                             *)
(***************************************************************************)
EXTENDS Naturals, SequencesExt

CONSTANTS
  Digit,      \* the keys of the number pad
  Room,       \* the codes Macs may have generated, all of four digits
  MaxLength,  \* bound: digits in the field
  MaxEdits    \* bound: edits in a behaviour

ASSUME EntryAssumption ==
  /\ Room \subseteq [1..4 -> Digit]
  /\ MaxLength \in Nat /\ MaxLength >= 4
  /\ MaxEdits \in Nat

VARIABLES
  rooms,      \* the rooms there are in the database
  text,       \* roomNumberTextField.text
  circles,    \* how many circles are filled
  lookups,    \* the codes whose lookup has no answer yet, oldest first
  alert,      \* the alert is shown
  screens,    \* currentRoomNumber of the slide screens pushed, oldest first
  crashed,    \* the application is gone
  edits,      \* how many edits were made
  hurried     \* an edit was made while a lookup had no answer

vars == <<rooms, text, circles, lookups, alert, screens, crashed, edits, hurried>>

Text == SeqOf(Digit, MaxLength)

-----------------------------------------------------------------------------
Init ==
  /\ rooms = {}
  /\ text = <<>>
  /\ circles = 0
  /\ lookups = <<>>
  /\ alert = FALSE
  /\ screens = <<>>
  /\ crashed = FALSE
  /\ edits = 0
  /\ hurried = FALSE

\* The keyboard is up unless an alert or a slide screen covers it.
Typing == ~crashed /\ ~alert /\ screens = <<>> /\ edits < MaxEdits

\* Fault: as many circles as digits.
NumberChangedUncapped(new) ==
  /\ text' = new
  /\ circles' = Len(new)
  /\ lookups' = IF Len(new) >= 4 THEN Append(lookups, new) ELSE lookups
  /\ edits' = edits + 1
  /\ hurried' = (hurried \/ lookups # <<>>)
  /\ UNCHANGED <<rooms, alert, screens, crashed>>

\* numberChanged, on every edit of the field.
NumberChanged(new) ==
  /\ text' = new
  /\ circles' = IF Len(new) < 4 THEN Len(new) ELSE 4
  /\ lookups' = IF Len(new) >= 4 THEN Append(lookups, new) ELSE lookups
  /\ edits' = edits + 1
  /\ hurried' = (hurried \/ lookups # <<>>)
  /\ UNCHANGED <<rooms, alert, screens, crashed>>

TypeDigit(d) == Typing /\ Len(text) < MaxLength /\ NumberChanged(Append(text, d))

DeleteDigit == Typing /\ text # <<>> /\ NumberChanged(Front(text))

\* A Mac is started and writes the first settings of its room.
MacStarts(room) ==
  /\ ~crashed
  /\ room \notin rooms
  /\ rooms' = rooms \cup {room}
  /\ UNCHANGED <<text, circles, lookups, alert, screens, crashed, edits, hurried>>

\* Fault: the circles are not emptied with the field.
EmptyFieldOnly == text' = <<>> /\ UNCHANGED circles

\* The field and the circles are emptied; no edit is reported for that.
EmptyField == text' = <<>> /\ circles' = 0

\* Fault: the field is emptied before its code is used.
OpenSlidesEmptied ==
  /\ EmptyField
  /\ screens' = Append(screens, text')
  /\ crashed' = (text' = <<>>)
  /\ UNCHANGED alert

\* The room exists: the slide screen is opened for what is in the field now.
\* There is no child of that name if the field was emptied: an exception.
OpenSlides ==
  /\ screens' = Append(screens, text)
  /\ crashed' = (text = <<>>)
  /\ UNCHANGED <<text, circles, alert>>

\* Fault: the field is left as it is.
RefuseKeeping ==
  /\ alert' = (alert \/ screens = <<>>)
  /\ UNCHANGED <<text, circles, screens, crashed>>

\* There is no such room.  The alert cannot be shown under a slide screen.
Refuse ==
  /\ EmptyField
  /\ alert' = (alert \/ screens = <<>>)
  /\ UNCHANGED <<screens, crashed>>

\* An answer, in any order: listens are sent again out of a dictionary when
\* the connection was lost.
LookupAnswered ==
  /\ ~crashed
  /\ \E i \in DOMAIN lookups :
       /\ lookups' = RemoveAt(lookups, i)
       /\ IF lookups[i] \in rooms THEN OpenSlides ELSE Refuse
  /\ UNCHANGED <<rooms, edits, hurried>>

DismissAlert ==
  /\ ~crashed /\ alert
  /\ alert' = FALSE
  /\ UNCHANGED <<rooms, text, circles, lookups, screens, crashed, edits, hurried>>

\* Back from a slide screen; under the last of them viewWillAppear empties
\* the field.
Back ==
  /\ ~crashed /\ ~alert /\ screens # <<>>
  /\ screens' = Front(screens)
  /\ IF Len(screens) = 1 THEN EmptyField ELSE UNCHANGED <<text, circles>>
  /\ UNCHANGED <<rooms, lookups, alert, crashed, edits, hurried>>

Next ==
  \/ \E d \in Digit : TypeDigit(d)
  \/ DeleteDigit
  \/ \E room \in Room : MacStarts(room)
  \/ LookupAnswered
  \/ DismissAlert
  \/ Back

Spec == Init /\ [][Next]_vars

-----------------------------------------------------------------------------
(* Properties *)

TypeOK ==
  /\ rooms \subseteq Room
  /\ text \in Text
  /\ circles \in 0..4
  /\ lookups \in Seq(Text)
  /\ alert \in BOOLEAN
  /\ screens \in Seq(Text)
  /\ crashed \in BOOLEAN
  /\ edits \in 0..MaxEdits
  /\ hurried \in BOOLEAN

\* The circles are all the user sees of the field: they tell how much is in
\* it, though it is emptied behind the back of numberChanged in two places.
CirclesFollow == circles = (IF Len(text) < 4 THEN Len(text) ELSE 4)

\* A user who waits for each answer only gets to rooms that exist, to one
\* screen at a time, and never loses the application.
UnhurriedIsSafe ==
  ~hurried => /\ Len(screens) <= 1
              /\ \A i \in DOMAIN screens : screens[i] \in rooms
              /\ ~crashed

\* No full code is left in the field that nothing will come of: the user could
\* not tell it from one being looked up.
NeverStuck ==
  Len(text) >= 4 /\ lookups = <<>> => screens # <<>>

\* RoomNumberViewController.swift:94: a code that is not the one of a Mac is
\* refused, so a slide screen is always that of a room that exists.
OpenedRoomExists == \A i \in DOMAIN screens : screens[i] \in rooms
=============================================================================
