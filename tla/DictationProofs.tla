-------------------------- MODULE DictationProofs --------------------------
(***************************************************************************)
(* Proofs about Dictation, for any number of tasks, results and presses.   *)
(***************************************************************************)
EXTENDS Dictation, SequenceTheorems, TLAPS

-----------------------------------------------------------------------------
(* Types *)

\* A start gives the next number to its task, or gives none.
LEMMA StartTyped ==
  ASSUME TypeOK, NEW tapped \in BOOLEAN, NEW engine \in BOOLEAN,
         StartRecording(tapped, engine)
  PROVE  /\ recognitionTask' \in 0..MaxTasks /\ tasks' \subseteq 1..MaxTasks
         /\ tap' \in BOOLEAN /\ running' \in BOOLEAN /\ crashed' \in BOOLEAN
         /\ started' \in 0..MaxTasks
PROOF
  <1>1. CASE Starts(tapped, engine)
    <2>1. started' \in 1..MaxTasks
      BY <1>1, DictationAssumption DEF Starts, TypeOK
    <2> QED
      BY <1>1, <2>1 DEF Starts, TypeOK
  <1>2. CASE ~Starts(tapped, engine)
    <2>1. /\ tasks' = tasks \ {recognitionTask} /\ recognitionTask' = 0
          /\ UNCHANGED started
          /\ tap' = tapped \/ tap' = TRUE
          /\ running' = engine \/ running' = FALSE
          /\ crashed' = crashed \/ crashed' = TRUE
      BY <1>2, Zenon DEF StartRecording, SessionFails, TapFails, EngineFails
    <2>2. 0 \in 0..MaxTasks
      BY DictationAssumption
    <2> QED
      BY <2>1, <2>2 DEF TypeOK
  <1> QED
    BY <1>1, <1>2

LEMMA TypeStep == ASSUME TypeOK, [Next]_vars PROVE TypeOK'
PROOF
  <1>1. CASE SwitchOn
    <2>1. StartRecording(tap, running) /\ tap \in BOOLEAN /\ running \in BOOLEAN
      BY <1>1 DEF SwitchOn, TypeOK
    <2>2. toggles' \in 0..MaxToggles
      BY <1>1, DictationAssumption DEF SwitchOn, TypeOK
    <2> QED
      BY <1>1, <2>1, <2>2, StartTyped DEF SwitchOn, TypeOK
  <1>2. CASE SwitchOff
    <2>1. toggles' \in 0..MaxToggles
      BY <1>2, DictationAssumption DEF SwitchOff, TypeOK
    <2> QED
      BY <1>2, <2>1 DEF SwitchOff, TypeOK
  <1>3. CASE Recognize
    <2>1. given' \in 0..MaxResults
      BY <1>3, DictationAssumption DEF Recognize, TypeOK
    <2>2. PICK t \in tasks, words \in SUBSET Command :
            results' = Append(results, [task |-> t, words |-> words])
      BY <1>3 DEF Recognize
    <2>3. results' \in Seq(Result)
      BY <2>2 DEF TypeOK, Result
    <2> QED
      BY <1>3, <2>1, <2>3 DEF Recognize, TypeOK
  <1>4. CASE TaskEnds
    BY <1>4 DEF TaskEnds, TypeOK
  <1>5. CASE NothingFound
    <2>1. results' \in Seq(Result)
      BY <1>5, HeadTailProperties DEF NothingFound, TypeOK
    <2> QED
      BY <1>5, <2>1 DEF NothingFound, TypeOK
  <1>6. CASE CommandHeard
    <2>1. results' \in Seq(Result)
      BY <1>6, HeadTailProperties DEF CommandHeard, TypeOK
    <2>2. StartRecording(FALSE, FALSE) /\ UNCHANGED <<audioEnabled, given, toggles>>
      BY <1>6 DEF CommandHeard
    <2>3. sent' \in Nat
      BY <1>6 DEF CommandHeard, TypeOK
    <2>4. late' \in BOOLEAN
      BY <1>6 DEF CommandHeard, TypeOK
    <2> QED
      BY <2>1, <2>2, <2>3, <2>4, StartTyped DEF TypeOK
  <1>7. CASE UNCHANGED vars
    BY <1>7 DEF vars, TypeOK
  <1> QED
    BY <1>1, <1>2, <1>3, <1>4, <1>5, <1>6, <1>7 DEF Next

\* Every variable has its type: no task is numbered beyond those started.
THEOREM TypeCorrect == Spec => []TypeOK
PROOF
  <1>1. Init => TypeOK
    <2>1. 0 \in 0..MaxTasks /\ 0 \in 0..MaxResults /\ 0 \in 0..MaxToggles
      BY DictationAssumption
    <2>2. <<>> \in Seq(Result) /\ 0 \in Nat
      OBVIOUS
    <2> QED
      BY <2>1, <2>2, Zenon DEF Init, TypeOK
  <1>2. TypeOK /\ [Next]_vars => TypeOK'
    BY TypeStep
  <1> QED
    BY <1>1, <1>2, PTL DEF Spec

-----------------------------------------------------------------------------
(* One task, and when the application ends *)

\* With the button off the tap is gone, unless a late command put it back.
OffUntapped == ~audioEnabled /\ ~late => ~tap

\* The engine runs with a tap only: what is heard gets to a request.
HeardThroughTap == running => tap

IInv == OneTask /\ HeardThroughTap /\ OffUntapped /\ CrashOnlyIfLate

\* Every way startRecording ends leaves at most the task it keeps a reference
\* to, and an engine that runs with a tap only.
LEMMA StartKeeps ==
  ASSUME NEW tapped \in BOOLEAN, NEW engine \in BOOLEAN, engine => tapped,
         OneTask, StartRecording(tapped, engine)
  PROVE  /\ OneTask' /\ HeardThroughTap'
         /\ ~tapped => crashed' = crashed
PROOF
  <1>1. CASE SessionFails(tapped, engine)
    BY <1>1 DEF SessionFails, OneTask, HeardThroughTap
  <1>2. CASE TapFails(tapped, engine)
    BY <1>2 DEF TapFails, OneTask, HeardThroughTap
  <1>3. CASE EngineFails(tapped, engine)
    BY <1>3 DEF EngineFails, OneTask, HeardThroughTap
  <1>4. CASE Starts(tapped, engine)
    BY <1>4 DEF Starts, OneTask, HeardThroughTap
  <1> QED
    BY <1>1, <1>2, <1>3, <1>4 DEF StartRecording

LEMMA SwitchOnKeeps ==
  ASSUME IInv, tap \in BOOLEAN, running \in BOOLEAN, SwitchOn
  PROVE  IInv'
PROOF
  <1>1. StartRecording(tap, running) /\ (running => tap)
    BY DEF SwitchOn, IInv, HeardThroughTap
  <1>2. OneTask' /\ HeardThroughTap' /\ (~tap => crashed' = crashed)
    BY <1>1, StartKeeps DEF IInv
  <1>3. OffUntapped'
    BY DEF SwitchOn, OffUntapped
  <1>4. CrashOnlyIfLate'
    BY <1>2, Zenon DEF SwitchOn, IInv, OffUntapped, CrashOnlyIfLate
  <1> QED
    BY <1>2, <1>3, <1>4 DEF IInv

LEMMA CommandHeardKeeps ==
  ASSUME IInv, CommandHeard
  PROVE  IInv'
PROOF
  <1>1. StartRecording(FALSE, FALSE)
    BY DEF CommandHeard
  <1>2. OneTask' /\ HeardThroughTap' /\ crashed' = crashed
    BY <1>1, StartKeeps DEF IInv
  <1>3. UNCHANGED audioEnabled /\ late' = (late \/ ~audioEnabled) /\ ~crashed
    BY DEF CommandHeard
  <1>4. OffUntapped' /\ CrashOnlyIfLate'
    BY <1>2, <1>3, Zenon DEF OffUntapped, CrashOnlyIfLate
  <1> QED
    BY <1>2, <1>4 DEF IInv

LEMMA NextKeeps == ASSUME IInv, TypeOK, [Next]_vars PROVE IInv'
PROOF
  <1>1. CASE SwitchOn
    BY <1>1, SwitchOnKeeps DEF TypeOK
  <1>2. CASE SwitchOff
    BY <1>2 DEF SwitchOff, IInv, OneTask, HeardThroughTap, OffUntapped, CrashOnlyIfLate
  <1>3. CASE Recognize \/ NothingFound \/ UNCHANGED vars
    <2>1. UNCHANGED <<audioEnabled, recognitionTask, tasks, tap, running, crashed, late>>
      BY <1>3, SMT DEF Recognize, NothingFound, vars
    <2> QED
      BY <2>1 DEF IInv, OneTask, HeardThroughTap, OffUntapped, CrashOnlyIfLate
  <1>4. CASE TaskEnds
    BY <1>4 DEF TaskEnds, IInv, OneTask, HeardThroughTap, OffUntapped, CrashOnlyIfLate
  <1>5. CASE CommandHeard
    BY <1>5, CommandHeardKeeps
  <1> QED
    BY <1>1, <1>2, <1>3, <1>4, <1>5 DEF Next

THEOREM Invariance == Spec => []IInv
PROOF
  <1>1. Init => IInv
    BY DEF Init, IInv, OneTask, HeardThroughTap, OffUntapped, CrashOnlyIfLate
  <1>2. IInv /\ TypeOK /\ [Next]_vars => IInv'
    BY NextKeeps
  <1> QED
    BY <1>1, <1>2, TypeCorrect, PTL DEF Spec

\* At most the task that can be cancelled runs.
THEOREM OneTaskRuns == Spec => []OneTask
PROOF
  <1>1. IInv => OneTask
    BY DEF IInv
  <1> QED
    BY <1>1, Invariance, PTL

\* The application ends with a second tap only if a command was heard with the
\* button off.
THEOREM CrashNeedsLate == Spec => []CrashOnlyIfLate
PROOF
  <1>1. IInv => CrashOnlyIfLate
    BY DEF IInv
  <1> QED
    BY <1>1, Invariance, PTL
=============================================================================
