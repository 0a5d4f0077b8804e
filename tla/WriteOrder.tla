---------------------------- MODULE WriteOrder ------------------------------
(***************************************************************************)
(* What DB::Write promises to its callers, whoever carries the write out:  *)
(* writes reach the log in the order in which they were called, each at    *)
(* most once, and one that is answered "ok" is in the log, and on the      *)
(* medium if that was asked for.                                           *)
(***************************************************************************)
EXTENDS Naturals, SequencesExt

CONSTANTS Call, SyncCalls

VARIABLES
  waiting,   \* the calls not carried out yet, in order
  log,       \* the calls whose batch is in the log, in order
  durable,   \* how many of them are on the medium
  answer     \* of each call: "none", "ok" or "error"

orderVars == <<waiting, log, durable, answer>>

OrderInit ==
  /\ waiting = <<>> /\ log = <<>> /\ durable = 0
  /\ answer = [c \in Call |-> "none"]

Enqueue(c) ==
  /\ answer[c] = "none" /\ c \notin Range(waiting) \cup Range(log)
  /\ waiting' = Append(waiting, c)
  /\ UNCHANGED <<log, durable, answer>>

\* The calls at the head go to the log together, or none of them does.
TakeGroup(n) ==
  /\ waiting' = SubSeq(waiting, n + 1, Len(waiting))
  /\ log' \in {log, log \o SubSeq(waiting, 1, n)}
  /\ durable' \in durable..Len(log')
  /\ UNCHANGED answer

Answer(cs) ==
  /\ cs \subseteq Call \ Range(waiting)
  /\ \E status \in {"ok", "error"} :
       /\ status = "ok" =>
            /\ cs \subseteq Range(log)
            /\ cs \cap SyncCalls \subseteq Range(SubSeq(log, 1, durable))
       /\ answer' = [c \in Call |-> IF c \in cs THEN status ELSE answer[c]]
  /\ \A c \in cs : answer[c] = "none"
  /\ UNCHANGED <<waiting, log, durable>>

OrderNext ==
  \/ \E c \in Call : Enqueue(c)
  \/ \E n \in 1..Len(waiting) : TakeGroup(n)
  \/ \E cs \in SUBSET Call : Answer(cs)

OrderSpec == OrderInit /\ [][OrderNext]_orderVars

-----------------------------------------------------------------------------
\* What callers may build on: a call answered "ok" is in the log, within the
\* durable part if it asked for that; and no call is in the log twice, or in
\* the log while it still waits (DB::Write, WriteOptions::sync).
Acknowledged ==
  \A c \in Call : answer[c] = "ok" =>
    \E i \in 1..Len(log) : log[i] = c /\ (c \in SyncCalls => i <= durable)

OnceEach ==
  /\ IsInjective(log) /\ IsInjective(waiting)
  /\ Range(log) \cap Range(waiting) = {}

=============================================================================
