----------------------------- MODULE Dictation ------------------------------
(***************************************************************************)
(* The microphone of the slide screen: the button starts a recognition     *)
(* task, and a result with "next" or "previous" in it sends the command    *)
(* and starts over with a new task.                                        *)
(*                                                                         *)
(* The speech recognizer and the audio engine are external.  A task gives  *)
(* results, which wait for the main queue, until it is cancelled or ends   *)
(* by itself; whether a result that already waits is still delivered after *)
(* the task was cancelled is not said, so here it may be.  A second tap on *)
(* the input ends the application with an exception.                       *)
(***************************************************************************)
EXTENDS Naturals, Sequences

CONSTANTS
  MaxTasks,    \* bound: recognition tasks started
  MaxResults,  \* bound: results given
  MaxToggles   \* bound: presses of the microphone button

ASSUME DictationAssumption ==
  MaxTasks \in Nat /\ MaxResults \in Nat /\ MaxToggles \in Nat

VARIABLES
  audioEnabled,     \* what the button shows
  recognitionTask,  \* the task of the last start, 0 for nil
  tasks,            \* the tasks that run
  tap,              \* a tap is installed on the input
  running,          \* the audio engine runs
  results,          \* results waiting for the main queue
  sent,             \* commands sent
  crashed,          \* the application is gone
  late,             \* a command was heard with the button off
  started, given, toggles  \* how many tasks, results and presses there were

vars == <<audioEnabled, recognitionTask, tasks, tap, running, results, sent,
          crashed, late, started, given, toggles>>

Command == {"next", "previous"}
Result == [task : 1..MaxTasks, words : SUBSET Command]

Init ==
  /\ audioEnabled = FALSE
  /\ recognitionTask = 0
  /\ tasks = {}
  /\ tap = FALSE /\ running = FALSE
  /\ results = <<>>
  /\ sent = 0
  /\ crashed = FALSE
  /\ late = FALSE
  /\ started = 0 /\ given = 0 /\ toggles = 0

-----------------------------------------------------------------------------
(* startRecording, called with the tap and the engine as tapped and engine *)

\* The audio session cannot be set up: nothing but the cancelling was done.
SessionFails(tapped, engine) ==
  /\ tasks' = tasks \ {recognitionTask}
  /\ recognitionTask' = 0
  /\ tap' = tapped /\ running' = engine
  /\ UNCHANGED <<crashed, started>>

\* A tap is there already.
TapFails(tapped, engine) ==
  /\ tapped
  /\ tasks' = tasks \ {recognitionTask}
  /\ recognitionTask' = 0
  /\ tap' = tapped /\ running' = engine
  /\ crashed' = TRUE
  /\ UNCHANGED started

\* The engine does not start: the tap stays.
EngineFails(tapped, engine) ==
  /\ ~tapped
  /\ tasks' = tasks \ {recognitionTask}
  /\ recognitionTask' = 0
  /\ tap' = TRUE /\ running' = FALSE
  /\ UNCHANGED <<crashed, started>>

\* Fault: the previous task is not cancelled.
StartsBeside(tapped, engine) ==
  /\ ~tapped
  /\ started < MaxTasks
  /\ started' = started + 1
  /\ tasks' = tasks \cup {started'}
  /\ recognitionTask' = started'
  /\ tap' = TRUE /\ running' = TRUE
  /\ UNCHANGED crashed

\* Fault: the reference kept is not that of the new task.
StartsMisnumbered(tapped, engine) ==
  /\ ~tapped
  /\ started < MaxTasks
  /\ started' = started + 1
  /\ tasks' = (tasks \ {recognitionTask}) \cup {started'}
  /\ recognitionTask' = started' + 1
  /\ tap' = TRUE /\ running' = TRUE
  /\ UNCHANGED crashed

Starts(tapped, engine) ==
  /\ ~tapped
  /\ started < MaxTasks
  /\ started' = started + 1
  /\ tasks' = (tasks \ {recognitionTask}) \cup {started'}
  /\ recognitionTask' = started'
  /\ tap' = TRUE /\ running' = TRUE
  /\ UNCHANGED crashed

StartRecording(tapped, engine) ==
  \/ SessionFails(tapped, engine)
  \/ TapFails(tapped, engine)
  \/ EngineFails(tapped, engine)
  \/ Starts(tapped, engine)

-----------------------------------------------------------------------------
\* toggleMicInputPressed.  The button changes even if recording fails, and
\* switching off does not touch the task.
SwitchOn ==
  /\ ~crashed /\ ~audioEnabled /\ toggles < MaxToggles
  /\ toggles' = toggles + 1
  /\ StartRecording(tap, running)
  /\ audioEnabled' = TRUE
  /\ UNCHANGED <<results, sent, late, given>>

\* Fault: the tap is left on the input.
SwitchOffTapped ==
  /\ ~crashed /\ audioEnabled /\ toggles < MaxToggles
  /\ toggles' = toggles + 1
  /\ running' = FALSE
  /\ audioEnabled' = FALSE
  /\ UNCHANGED <<recognitionTask, tasks, tap, results, sent, crashed, late, started, given>>

SwitchOff ==
  /\ ~crashed /\ audioEnabled /\ toggles < MaxToggles
  /\ toggles' = toggles + 1
  /\ running' = FALSE /\ tap' = FALSE
  /\ audioEnabled' = FALSE
  /\ UNCHANGED <<recognitionTask, tasks, results, sent, crashed, late, started, given>>

\* The recognizer has a result of a running task.
Recognize ==
  /\ ~crashed /\ given < MaxResults
  /\ given' = given + 1
  /\ \E t \in tasks, words \in SUBSET Command :
       results' = Append(results, [task |-> t, words |-> words])
  /\ UNCHANGED <<audioEnabled, recognitionTask, tasks, tap, running, sent, crashed, late,
                 started, toggles>>

\* A task ends by itself, with a final result or an error: nobody is told.
TaskEnds ==
  /\ ~crashed
  /\ \E t \in tasks : tasks' = tasks \ {t}
  /\ UNCHANGED <<audioEnabled, recognitionTask, tap, running, results, sent, crashed, late,
                 started, given, toggles>>

\* The handler of a result without a command does nothing.
NothingFound ==
  /\ ~crashed /\ results # <<>>
  /\ Head(results).words = {}
  /\ results' = Tail(results)
  /\ UNCHANGED <<audioEnabled, recognitionTask, tasks, tap, running, sent, crashed, late,
                 started, given, toggles>>

\* A result with commands: they are sent, next before previous, and recording
\* starts over, whatever the button shows.
CommandHeard ==
  /\ ~crashed /\ results # <<>>
  /\ LET words == Head(results).words IN
       /\ words # {}
       /\ sent' = sent + (IF words = Command THEN 2 ELSE 1)
  /\ results' = Tail(results)
  /\ late' = (late \/ ~audioEnabled)
  /\ StartRecording(FALSE, FALSE)
  /\ UNCHANGED <<audioEnabled, given, toggles>>

Next ==
  \/ SwitchOn \/ SwitchOff
  \/ Recognize \/ TaskEnds
  \/ NothingFound \/ CommandHeard

Spec == Init /\ [][Next]_vars

-----------------------------------------------------------------------------
(* Properties *)

TypeOK ==
  /\ audioEnabled \in BOOLEAN
  /\ recognitionTask \in 0..MaxTasks
  /\ tasks \subseteq 1..MaxTasks
  /\ tap \in BOOLEAN /\ running \in BOOLEAN
  /\ results \in Seq(Result)
  /\ sent \in Nat
  /\ crashed \in BOOLEAN /\ late \in BOOLEAN
  /\ started \in 0..MaxTasks
  /\ given \in 0..MaxResults
  /\ toggles \in 0..MaxToggles

\* ViewController.swift:182, "Cancel the previous task if it's running": no
\* two tasks run, and the one that runs can be cancelled, through failed
\* starts, late results and tasks that end.
OneTask == \A t \in tasks : t = recognitionTask

\* Only a command heard with the button off makes the application end: the
\* button and the commands by themselves never install a second tap.
CrashOnlyIfLate == crashed => late
=============================================================================
