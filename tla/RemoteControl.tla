--------------------------- MODULE RemoteControl ----------------------------
(***************************************************************************)
(* The slide screen of the phone (the iOS ViewController): its buttons and *)
(* gestures send commands, a finger on the slide moves the pointer, and    *)
(* every new screenshot address is downloaded.                             *)
(***************************************************************************)
EXTENDS Room

CONSTANTS
  MaxTouches,   \* bound: touches on the slide, over all phones
  MaxToggles,   \* bound: presses of the pointer button
  MaxRequests   \* bound: requests for a screenshot by the refresh button

ASSUME RemoteAssumption ==
  MaxTouches \in Nat /\ MaxToggles \in Nat /\ MaxRequests \in Nat

VARIABLES
  joined,     \* joined[r]: the slide screen is open
  made,       \* how many commands were sent
  pointer,    \* pointer[r]: actionEnabled is "pointer"
  finger,     \* finger[r]: a finger is on the slide
  touches,    \* how many touches were delivered
  toggles,    \* how often the pointer button was pressed
  requests,   \* how often a screenshot was asked for with the button
  downloads,  \* downloads[r][url]: running downloads of that address at r
  image       \* image[r]: the screenshot r shows

remoteVars ==
  <<joined, made, pointer, finger, touches, toggles, requests, downloads, image>>

\* A touch or a button only dispatches a write: the rest of the client waits.
Send(r, write) ==
  /\ joined[r]
  /\ Dispatch(r, <<write>>)
  /\ UNCHANGED <<serverVars, pending, held, unacked, cache, loaded, mainq, online, drops>>

-----------------------------------------------------------------------------
\* viewDidLoad begins to listen, viewDidAppear asks for a screenshot.  The
\* room was found in the database before the screen was opened.
OpenScreen(r) ==
  /\ ~joined[r]
  /\ server # EmptyTree
  /\ joined' = [joined EXCEPT ![r] = TRUE]
  /\ Dispatch(r, <<SetWants("true")>>)
  /\ UNCHANGED <<serverVars, pending, held, unacked, cache, loaded, mainq, online, drops>>
  /\ UNCHANGED <<made, pointer, finger, touches, toggles, requests, downloads, image>>

\* prevSlide, nextSlide, playPauseBtnPressed, blankBtnPressed, swipeUp and
\* swipeDown differ in the action only.
SendCommand(r, action) ==
  /\ made < Len(PressIds)
  /\ made' = made + 1
  /\ Send(r, SetAction(PressIds[made + 1], action))
  /\ UNCHANGED <<joined, pointer, finger, touches, toggles, requests, downloads, image>>

ForceRefresh(r) ==
  /\ requests < MaxRequests
  /\ requests' = requests + 1
  /\ Send(r, SetWants("true"))
  /\ UNCHANGED <<joined, made, pointer, finger, touches, toggles, downloads, image>>

\* touchesBegan and touchesMoved: with the pointer enabled, a touch inside the
\* slide is sent; any other is not.
Touch(r) ==
  /\ joined[r]
  /\ touches < MaxTouches
  /\ touches' = touches + 1
  /\ finger' = [finger EXCEPT ![r] = TRUE]
  /\ \/ pointer[r] /\ \E place \in Point : Send(r, MergeCoord(place))
     \/ UNCHANGED syncVars
  /\ UNCHANGED <<joined, made, pointer, toggles, requests, downloads, image>>

\* touchesEnded: sent only if the pointer is enabled at that moment.
TouchesEnded(r) ==
  /\ finger[r]
  /\ finger' = [finger EXCEPT ![r] = FALSE]
  /\ IF pointer[r] THEN Send(r, MergeCoord(Off)) ELSE UNCHANGED syncVars
  /\ UNCHANGED <<joined, made, pointer, touches, toggles, requests, downloads, image>>

\* The system takes the touch away: the screen does not handle it.
TouchCancelled(r) ==
  /\ finger[r]
  /\ finger' = [finger EXCEPT ![r] = FALSE]
  /\ UNCHANGED <<syncVars, joined, made, pointer, touches, toggles, requests, downloads, image>>

PointerBtnPressed(r) ==
  /\ joined[r]
  /\ toggles < MaxToggles
  /\ toggles' = toggles + 1
  /\ pointer' = [pointer EXCEPT ![r] = ~@]
  /\ UNCHANGED <<syncVars, joined, made, finger, touches, requests, downloads, image>>

-----------------------------------------------------------------------------
\* Fault: one download at a time.
UrlCallbackBusy(r) ==
  /\ mainq[r] # <<>>
  /\ LET url == Head(mainq[r]).tree["url"] IN
       downloads' = IF url = None \/ \E other \in Address : downloads[r][other] > 0
                    THEN downloads
                    ELSE [downloads EXCEPT ![r][url] = @ + 1]
  /\ mainq' = [mainq EXCEPT ![r] = Tail(@)]
  /\ UNCHANGED <<serverVars, calls, pending, held, unacked, cache, loaded, online, drops>>
  /\ UNCHANGED <<joined, made, pointer, finger, touches, toggles, requests, image>>

\* The listener of screenshot_url: an address is downloaded, in the background.
UrlCallback(r) ==
  /\ mainq[r] # <<>>
  /\ LET url == Head(mainq[r]).tree["url"] IN
       downloads' = IF url = None THEN downloads
                    ELSE [downloads EXCEPT ![r][url] = @ + 1]
  /\ mainq' = [mainq EXCEPT ![r] = Tail(@)]
  /\ UNCHANGED <<serverVars, calls, pending, held, unacked, cache, loaded, online, drops>>
  /\ UNCHANGED <<joined, made, pointer, finger, touches, toggles, requests, image>>

\* A download ends, in any order: its picture is shown, or it failed, or it
\* was no picture, like the address the room begins with.
DownloadEnds(r) ==
  \E url \in Address :
    /\ downloads[r][url] > 0
    /\ downloads' = [downloads EXCEPT ![r][url] = @ - 1]
    /\ \/ /\ url # FirstUrl
          /\ image' = [image EXCEPT ![r] = url]
       \/ UNCHANGED image
    /\ UNCHANGED <<syncVars, joined, made, pointer, finger, touches, toggles, requests>>

ScreenInit ==
  /\ pointer = [r \in Remote |-> FALSE]
  /\ finger = [r \in Remote |-> FALSE]
  /\ downloads = [r \in Remote |-> [url \in Address |-> 0]]

Untouched ==
  /\ made = 0 /\ touches = 0 /\ toggles = 0 /\ requests = 0
  /\ image = [r \in Remote |-> None]

RemoteInit == joined = [r \in Remote |-> FALSE] /\ ScreenInit /\ Untouched

UserStep(r) ==
  \/ OpenScreen(r)
  \/ \E action \in Action : SendCommand(r, action)
  \/ ForceRefresh(r)
  \/ Touch(r)
  \/ TouchesEnded(r)
  \/ TouchCancelled(r)
  \/ PointerBtnPressed(r)

PhoneStep(r) == UrlCallback(r) \/ DownloadEnds(r)

RemoteTypeOK ==
  /\ joined \in [Remote -> BOOLEAN]
  /\ made \in 0..Len(PressIds)
  /\ pointer \in [Remote -> BOOLEAN]
  /\ finger \in [Remote -> BOOLEAN]
  /\ touches \in 0..MaxTouches
  /\ toggles \in 0..MaxToggles
  /\ requests \in 0..MaxRequests
  /\ downloads \in [Remote -> [Address -> Nat]]
  /\ image \in [Remote -> Range(Urls) \cup {None}]
=============================================================================
