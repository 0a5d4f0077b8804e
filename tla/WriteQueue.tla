---------------------------- MODULE WriteQueue ------------------------------
(***************************************************************************)
(* The threads of leveldb's DBImpl: callers of Write and of                *)
(* TEST_CompactMemTable in the queue writers_, and the background thread,  *)
(* with mutex_, the condition variable of each writer and bg_cv_.          *)
(*                                                                         *)
(* The writer at the head carries out the batches of those behind it and   *)
(* lets go of the mutex while it does.  A caller that waits is in "queued" *)
(* or "stalled"; it goes on only after it was signalled and has the mutex. *)
(* What is in the files is the matter of LevelStore; here the memtables    *)
(* are the calls whose batches they hold.                                  *)
(***************************************************************************)
EXTENDS Naturals, FiniteSets, SequencesExt

CONSTANTS
  Thread,       \* the callers
  MaxCalls,     \* bound: calls of Write, numbered as they come
  BatchCalls,   \* those with a batch; the others compact the memtable
  SyncCalls,    \* those with WriteOptions::sync
  WriteBuffer,  \* batches that fill a memtable, for write_buffer_size
  GroupLimit,   \* batches of a group, for the size BuildBatchGroup allows
  L0Trigger, L0Slowdown, L0Stop,  \* config::kL0_...Trigger
  Faults        \* "add", "sync", "newlog", "flush", "compact" may fail

ASSUME QueueAssumption ==
  /\ MaxCalls \in Nat /\ BatchCalls \subseteq 1..MaxCalls
  /\ SyncCalls \subseteq BatchCalls
  /\ WriteBuffer \in Nat /\ GroupLimit \in Nat \ {0}
  /\ {L0Trigger, L0Slowdown, L0Stop} \subseteq Nat
  /\ 0 < L0Trigger /\ L0Trigger <= L0Slowdown /\ L0Slowdown <= L0Stop
  /\ Faults \subseteq {"add", "sync", "newlog", "flush", "compact"}

Call == 1..MaxCalls
Free == "free"

VARIABLES
  holder,     \* who has mutex_
  queue,      \* writers_: the threads, the first is at the head
  pc,         \* where each caller is
  call,       \* the call of each caller, 0 for none
  force,      \* force of MakeRoomForWrite
  mayDelay,   \* allow_delay of MakeRoomForWrite
  signalled,  \* the callers whose condition variable was signalled
  group,      \* the calls that the head carries out
  lastWriter, \* last_writer: the thread the group ends with
  done,       \* Writer::done
  failed,     \* status of the call is an error
  log,        \* the calls in the log, in order
  durable,    \* how many of them are synced
  mem, imm,   \* mem_ and imm_, the latter empty for NULL
  flushed,    \* the calls in tables, in order
  level0,     \* NumLevelFiles(0)
  bg,         \* what the background thread does
  scheduled,  \* bg_compaction_scheduled_
  bgError,    \* bg_error_ is set
  calls,      \* how many calls were made
  answer      \* what each call was answered

queueVars == <<queue, pc, call, force, mayDelay, group, lastWriter, done, failed>>
logVars == <<log, durable>>
memVars == <<mem, imm, flushed, level0>>
bgVars == <<bg, scheduled, bgError>>
clientVars == <<calls, answer>>
vars == <<holder, queueVars, signalled, logVars, memVars, bgVars, clientVars>>

\* Fault: a NULL batch is taken for one.
BatchesAll(ts) == [i \in DOMAIN ts |-> call[ts[i]]]

\* The k-th of a set of places.
Nth(places, k) == CHOOSE i \in places : Cardinality({j \in places : j <= i}) = k

\* The calls of those threads that have a batch, in order.
Batches(ts) ==
  LET places == {i \in DOMAIN ts : call[ts[i]] \in BatchCalls}
  IN  [k \in 1..Cardinality(places) |-> call[ts[Nth(places, k)]]]

-----------------------------------------------------------------------------
(* Signals and the schedule of background work                             *)

\* bg_cv_: the callers in MakeRoomForWrite or behind the memtable.
BgWaiters == {t \in Thread : pc[t] \in {"stalled", "flushing"}}

\* versions_->NeedsCompaction(), as far as level 0 asks for it.
NeedsCompaction(l0) == l0 >= L0Trigger

\* Fault: a memtable to be flushed is not thought of.
MaybeScheduleLevels(already, error, immutable, l0) ==
  \/ already
  \/ ~error /\ NeedsCompaction(l0)

\* MaybeScheduleCompaction.
MaybeSchedule(already, error, immutable, l0) ==
  \/ already
  \/ ~error /\ (immutable # <<>> \/ NeedsCompaction(l0))

-----------------------------------------------------------------------------
(* DBImpl::Write                                                           *)

\* Fault: nobody is waited for.
NobodyWaitedFor == TRUE

NobodyAhead == queue = <<>>

\* A call of Write, or of TEST_CompactMemTable, takes the mutex and its place.
\* It waits if there is another before it.
Write(t) ==
  /\ holder = Free /\ pc[t] = "idle" /\ calls < MaxCalls
  /\ calls' = calls + 1
  /\ call' = [call EXCEPT ![t] = calls + 1]
  /\ queue' = Append(queue, t)
  /\ done' = [done EXCEPT ![t] = FALSE]
  /\ force' = [force EXCEPT ![t] = calls + 1 \notin BatchCalls]
  /\ mayDelay' = [mayDelay EXCEPT ![t] = calls + 1 \in BatchCalls]
  /\ IF NobodyAhead
     THEN holder' = t /\ pc' = [pc EXCEPT ![t] = "room"]
     ELSE holder' = Free /\ pc' = [pc EXCEPT ![t] = "queued"]
  /\ UNCHANGED <<group, lastWriter, failed, signalled, logVars, memVars,
                 bgVars, answer>>

\* What the caller is told, at the end of Write; TEST_CompactMemTable goes on
\* to wait for imm_.
Return(ts, status) ==
  /\ pc' = [t \in Thread |-> IF t \notin ts THEN pc[t]
              ELSE IF call[t] \in BatchCalls \/ status = "error" THEN "idle"
              ELSE "written"]
  /\ answer' = [c \in Call |->
       IF \E t \in ts : call[t] = c /\ (c \in BatchCalls \/ status = "error")
       THEN status ELSE answer[c]]

\* A writer in the queue was signalled: its batch was carried out, or it is
\* the head.
Wake(t) ==
  /\ holder = Free /\ pc[t] = "queued" /\ t \in signalled
  /\ signalled' = signalled \ {t}
  /\ \/ /\ done[t]
        /\ Return({t}, IF failed[t] THEN "error" ELSE "ok")
        /\ UNCHANGED holder
     \/ /\ ~done[t] /\ Head(queue) = t
        /\ holder' = t /\ pc' = [pc EXCEPT ![t] = "room"]
        /\ UNCHANGED answer
  /\ UNCHANGED <<queue, call, force, mayDelay, group, lastWriter, done,
                 failed, logVars, memVars, bgVars, calls>>

-----------------------------------------------------------------------------
(* MakeRoomForWrite: one disjunct of its loop at a time                    *)

InRoom(t) == holder = t /\ pc[t] = "room"

Full == Len(mem) > WriteBuffer

Delay(t) == mayDelay[t] /\ level0 >= L0Slowdown

\* It yields the error of the background.
RoomFails(t) ==
  /\ InRoom(t) /\ bgError
  /\ failed' = [failed EXCEPT ![t] = TRUE]
  /\ lastWriter' = t /\ group' = <<>>
  /\ pc' = [pc EXCEPT ![t] = "finish"]
  /\ UNCHANGED <<holder, queue, call, force, mayDelay, done, signalled,
                 logVars, memVars, bgVars, clientVars>>

\* It sleeps for a millisecond, once, without the mutex.
SlowDown(t) ==
  /\ InRoom(t) /\ ~bgError /\ Delay(t)
  /\ holder' = Free
  /\ mayDelay' = [mayDelay EXCEPT ![t] = FALSE]
  /\ pc' = [pc EXCEPT ![t] = "delayed"]
  /\ UNCHANGED <<queue, call, force, group, lastWriter, done, failed,
                 signalled, logVars, memVars, bgVars, clientVars>>

EndDelay(t) ==
  /\ holder = Free /\ pc[t] = "delayed"
  /\ holder' = t
  /\ pc' = [pc EXCEPT ![t] = "room"]
  /\ UNCHANGED <<queue, call, force, mayDelay, group, lastWriter, done,
                 failed, signalled, logVars, memVars, bgVars, clientVars>>

\* Fault: the memtable before it is not waited for.
MustStallForFiles == level0 >= L0Stop

\* Whether a caller of MakeRoomForWrite has to wait for the background.
MustStall == imm # <<>> \/ level0 >= L0Stop

Stall(t) ==
  /\ InRoom(t) /\ ~bgError /\ ~Delay(t) /\ (force[t] \/ Full)
  /\ MustStall
  /\ holder' = Free
  /\ pc' = [pc EXCEPT ![t] = "stalled"]
  /\ signalled' = signalled \ {t}
  /\ UNCHANGED <<queue, call, force, mayDelay, group, lastWriter, done,
                 failed, logVars, memVars, bgVars, clientVars>>

EndStall(t) ==
  /\ holder = Free /\ pc[t] = "stalled" /\ t \in signalled
  /\ holder' = t
  /\ signalled' = signalled \ {t}
  /\ pc' = [pc EXCEPT ![t] = "room"]
  /\ UNCHANGED <<queue, call, force, mayDelay, group, lastWriter, done,
                 failed, logVars, memVars, bgVars, clientVars>>

\* A new log and a new memtable.  A forced switch of an empty memtable has
\* nothing to flush and is passed over.
SwitchMemTable(t) ==
  /\ InRoom(t) /\ ~bgError /\ ~Delay(t) /\ (force[t] \/ Full)
  /\ ~MustStall
  /\ imm' = mem /\ mem' = <<>>
  /\ force' = [force EXCEPT ![t] = FALSE]
  /\ scheduled' = MaybeSchedule(scheduled, bgError, imm', level0)
  /\ UNCHANGED <<holder, queue, pc, call, mayDelay, group, lastWriter, done,
                 failed, signalled, logVars, flushed, level0, bg, bgError,
                 clientVars>>

\* The new log cannot be made.
NewLogFails(t) ==
  /\ "newlog" \in Faults
  /\ InRoom(t) /\ ~bgError /\ ~Delay(t) /\ (force[t] \/ Full)
  /\ ~MustStall
  /\ failed' = [failed EXCEPT ![t] = TRUE]
  /\ lastWriter' = t /\ group' = <<>>
  /\ pc' = [pc EXCEPT ![t] = "finish"]
  /\ UNCHANGED <<holder, queue, call, force, mayDelay, done, signalled,
                 logVars, memVars, bgVars, clientVars>>

-----------------------------------------------------------------------------
(* BuildBatchGroup and the log                                             *)

\* Fault: a write that asks for a sync joins any other.
GroupSizeAnySync ==
  CHOOSE n \in 1..Len(queue) :
    /\ Len(Batches(SubSeq(queue, 1, n))) <= GroupLimit
    /\ n = Len(queue) \/ Len(Batches(SubSeq(queue, 1, n + 1))) > GroupLimit

\* The writers behind the head that may join it: up to the first that asks
\* for a sync when the head does not, or that makes the batch too big.  A
\* NULL batch adds nothing.
GroupSize ==
  LET joins(i) == /\ call[queue[i]] \in SyncCalls => call[queue[1]] \in SyncCalls
                  /\ call[queue[i]] \in BatchCalls =>
                       Len(Batches(SubSeq(queue, 1, i))) <= GroupLimit
  IN  CHOOSE n \in 1..Len(queue) :
        /\ \A i \in 2..n : joins(i)
        /\ n = Len(queue) \/ ~joins(n + 1)

\* There is room.  A NULL batch has nothing to log; the others let go of the
\* mutex.
BuildBatchGroup(t) ==
  /\ InRoom(t) /\ ~bgError /\ ~Delay(t) /\ ~force[t] /\ ~Full
  /\ IF call[t] \in BatchCalls
     THEN /\ group' = Batches(SubSeq(queue, 1, GroupSize))
          /\ lastWriter' = queue[GroupSize]
          /\ pc' = [pc EXCEPT ![t] = "logging"]
          /\ holder' = Free
     ELSE /\ group' = <<>> /\ lastWriter' = t
          /\ pc' = [pc EXCEPT ![t] = "finish"]
          /\ UNCHANGED holder
  /\ failed' = [failed EXCEPT ![t] = FALSE]
  /\ UNCHANGED <<queue, call, force, mayDelay, done, signalled, logVars,
                 memVars, bgVars, clientVars>>

\* Without the mutex: the log, the sync if the head asks for it, and the
\* memtable.
LogGroup(t) ==
  /\ pc[t] = "logging"
  /\ log' = log \o group
  /\ durable' = IF call[t] \in SyncCalls THEN Len(log') ELSE durable
  /\ mem' = mem \o group
  /\ pc' = [pc EXCEPT ![t] = "logged"]
  /\ UNCHANGED <<holder, queue, call, force, mayDelay, group, lastWriter, done,
                 failed, signalled, imm, flushed, level0, bgVars, clientVars>>

\* The record is not added; the log may have it all the same.
AddRecordFails(t) ==
  /\ "add" \in Faults
  /\ pc[t] = "logging"
  /\ log' \in {log, log \o group}
  /\ failed' = [failed EXCEPT ![t] = TRUE]
  /\ pc' = [pc EXCEPT ![t] = "logged"]
  /\ UNCHANGED <<holder, queue, call, force, mayDelay, group, lastWriter, done,
                 signalled, durable, memVars, bgVars, clientVars>>

\* The record is added and its sync fails.
SyncFails(t) ==
  /\ "sync" \in Faults
  /\ pc[t] = "logging" /\ call[t] \in SyncCalls
  /\ log' = log \o group
  /\ failed' = [failed EXCEPT ![t] = TRUE]
  /\ pc' = [pc EXCEPT ![t] = "unsynced"]
  /\ UNCHANGED <<holder, queue, call, force, mayDelay, group, lastWriter, done,
                 signalled, durable, memVars, bgVars, clientVars>>

\* With the mutex again; a failed sync is recorded for all to see.
Relock(t) ==
  /\ holder = Free /\ pc[t] \in {"logged", "unsynced"}
  /\ holder' = t
  /\ pc' = [pc EXCEPT ![t] = "finish"]
  /\ bgError' = (bgError \/ pc[t] = "unsynced")
  /\ signalled' = IF pc[t] = "unsynced" /\ ~bgError
                  THEN signalled \cup BgWaiters ELSE signalled
  /\ UNCHANGED <<queue, call, force, mayDelay, group, lastWriter, done, failed,
                 logVars, memVars, bg, scheduled, clientVars>>

\* Fault: the new head is left asleep.
NoSuccessor(rest) == {}

Successor(rest) == IF rest = <<>> THEN {} ELSE {Head(rest)}

\* The group leaves the queue with the status of its head; its writers and
\* the new head are signalled.
Finish(t) ==
  /\ holder = t /\ pc[t] = "finish"
  /\ LET n == CHOOSE i \in DOMAIN queue : queue[i] = lastWriter
         followers == {queue[i] : i \in 2..n}
         rest == SubSeq(queue, n + 1, Len(queue))
     IN  /\ queue' = rest
         /\ done' = [u \in Thread |-> u \in followers \/ done[u]]
         /\ failed' = [u \in Thread |->
                         IF u \in followers THEN failed[t] ELSE failed[u]]
         /\ signalled' = signalled \cup followers \cup Successor(rest)
  /\ holder' = Free
  /\ group' = <<>> /\ lastWriter' = Free
  /\ Return({t}, IF failed[t] THEN "error" ELSE "ok")
  /\ UNCHANGED <<call, force, mayDelay, logVars, memVars, bgVars, calls>>

\* TEST_CompactMemTable after its Write: it waits until imm_ is flushed or an
\* error is recorded.
CompactMemTableWaits(t) ==
  /\ holder = Free
  /\ pc[t] = "written" \/ (pc[t] = "flushing" /\ t \in signalled)
  /\ signalled' = signalled \ {t}
  /\ IF imm # <<>> /\ ~bgError
     THEN pc' = [pc EXCEPT ![t] = "flushing"] /\ UNCHANGED answer
     ELSE /\ pc' = [pc EXCEPT ![t] = "idle"]
          /\ answer' = [answer EXCEPT ![call[t]] =
                          IF imm # <<>> THEN "error" ELSE "ok"]
  /\ UNCHANGED <<holder, queue, call, force, mayDelay, group, lastWriter, done,
                 failed, logVars, memVars, bgVars, calls>>

-----------------------------------------------------------------------------
(* The background thread                                                   *)

\* BackgroundCall up to the work that is done without the mutex.
BackgroundCall ==
  /\ holder = Free /\ bg = "none" /\ scheduled
  /\ bg' = IF bgError THEN "finish"
           ELSE IF imm # <<>> THEN "flush"
           ELSE IF NeedsCompaction(level0) THEN "compact" ELSE "finish"
  /\ UNCHANGED <<holder, queueVars, signalled, logVars, memVars, scheduled,
                 bgError, clientVars>>

\* The table of the memtable goes to level 0, or further down.
Flushed ==
  /\ flushed' = flushed \o imm
  /\ imm' = <<>>
  /\ level0' \in {level0, level0 + 1}
  /\ UNCHANGED mem

\* The end of CompactMemTable for the background alone.
CompactMemTable ==
  /\ holder = Free /\ bg = "flush"
  /\ \/ Flushed /\ UNCHANGED <<bgError, signalled>>
     \/ /\ "flush" \in Faults
        /\ bgError' = TRUE
        /\ signalled' = IF bgError THEN signalled ELSE signalled \cup BgWaiters
        /\ UNCHANGED memVars
  /\ bg' = "finish"
  /\ UNCHANGED <<holder, queueVars, logVars, scheduled, clientVars>>

\* A compaction stops for a memtable that is full, between two entries.
CompactMemTableFirst ==
  /\ holder = Free /\ bg = "compact" /\ imm # <<>>
  /\ \/ /\ Flushed
        /\ UNCHANGED bgError
     \/ /\ "flush" \in Faults
        /\ bgError' = TRUE
        /\ UNCHANGED memVars
  /\ signalled' = signalled \cup BgWaiters
  /\ UNCHANGED <<holder, queueVars, logVars, bg, scheduled, clientVars>>

\* DoCompactionWork comes to its end.
CompactionEnds ==
  /\ holder = Free /\ bg = "compact"
  /\ \/ /\ level0' \in 0..(level0 - 1)
        /\ UNCHANGED <<mem, imm, flushed, bgError, signalled>>
     \/ /\ "compact" \in Faults
        /\ bgError' = TRUE
        /\ signalled' = IF bgError THEN signalled ELSE signalled \cup BgWaiters
        /\ UNCHANGED memVars
  /\ bg' = "finish"
  /\ UNCHANGED <<holder, queueVars, logVars, scheduled, clientVars>>

\* The end of BackgroundCall.
BackgroundDone ==
  /\ holder = Free /\ bg = "finish"
  /\ bg' = "none"
  /\ scheduled' = MaybeSchedule(FALSE, bgError, imm, level0)
  /\ signalled' = signalled \cup BgWaiters
  /\ UNCHANGED <<holder, queueVars, logVars, memVars, bgError, clientVars>>

-----------------------------------------------------------------------------
Init ==
  /\ holder = Free /\ queue = <<>>
  /\ pc = [t \in Thread |-> "idle"]
  /\ call = [t \in Thread |-> 0]
  /\ force = [t \in Thread |-> FALSE] /\ mayDelay = [t \in Thread |-> FALSE]
  /\ done = [t \in Thread |-> FALSE] /\ failed = [t \in Thread |-> FALSE]
  /\ signalled = {} /\ group = <<>> /\ lastWriter = Free
  /\ log = <<>> /\ durable = 0
  /\ mem = <<>> /\ imm = <<>> /\ flushed = <<>> /\ level0 = 0
  /\ bg = "none" /\ scheduled = FALSE /\ bgError = FALSE
  /\ calls = 0 /\ answer = [c \in Call |-> "none"]

\* A caller that is in a call goes on.
Caller(t) ==
  \/ Wake(t)
  \/ RoomFails(t) \/ SlowDown(t) \/ EndDelay(t) \/ Stall(t) \/ EndStall(t)
  \/ SwitchMemTable(t) \/ NewLogFails(t)
  \/ BuildBatchGroup(t) \/ LogGroup(t) \/ AddRecordFails(t) \/ SyncFails(t)
  \/ Relock(t) \/ Finish(t) \/ CompactMemTableWaits(t)

BackgroundThread ==
  \/ BackgroundCall \/ CompactMemTable \/ CompactMemTableFirst
  \/ CompactionEnds \/ BackgroundDone

Next ==
  \/ \E t \in Thread : Write(t) \/ Caller(t)
  \/ BackgroundThread

\* Threads run, and nobody waits for the mutex for ever.  That somebody calls
\* is not assumed.
Fairness ==
  /\ \A t \in Thread : WF_vars(Caller(t))
  /\ WF_vars(BackgroundThread)

Spec == Init /\ [][Next]_vars /\ Fairness

-----------------------------------------------------------------------------
(* Properties                                                              *)

\* The part of the queue that its head has carried out.
Taken ==
  IF queue # <<>> /\ pc[Head(queue)] \in {"logged", "unsynced", "finish"}
  THEN CHOOSE i \in DOMAIN queue : queue[i] = lastWriter
  ELSE 0

\* The writes that are not carried out yet, in order.
Waiting == Batches(SubSeq(queue, Taken + 1, Len(queue)))

\* What the writes were answered.
WriteAnswers == [c \in BatchCalls |-> answer[c]]

Order == INSTANCE WriteOrder WITH
  Call <- BatchCalls, waiting <- Waiting, answer <- WriteAnswers

\* Every variable has its type; a thread is in the queue once at most, and the
\* mutex is held by a caller in the middle of Write only.
TypeOK ==
  /\ holder \in Thread \cup {Free}
  /\ holder # Free => pc[holder] \in {"room", "finish"}
  /\ queue \in Seq(Thread) /\ IsInjective(queue)
  /\ pc \in [Thread -> {"idle", "queued", "room", "delayed", "stalled",
                        "logging", "logged", "unsynced", "finish", "written",
                        "flushing"}]
  /\ call \in [Thread -> Call \cup {0}]
  /\ {force, mayDelay, done, failed} \subseteq [Thread -> BOOLEAN]
  /\ signalled \subseteq {t \in Thread : pc[t] \in {"queued", "stalled", "flushing"}}
  /\ group \in Seq(BatchCalls) /\ lastWriter \in Thread \cup {Free}
  /\ log \in Seq(BatchCalls) /\ durable \in 0..Len(log)
  /\ {mem, imm, flushed} \subseteq Seq(BatchCalls) /\ level0 \in Nat
  /\ bg \in {"none", "flush", "compact", "finish"}
  /\ {scheduled, bgError} \subseteq BOOLEAN
  /\ calls \in 0..MaxCalls /\ answer \in [Call -> {"none", "ok", "error"}]

\* Only the head of the queue writes to the log and to the memtable, which
\* nothing else protects while the mutex is let go of, and no memtable is
\* switched under it (DBImpl::Write, "we can release the lock").
HeadAlone ==
  \A t \in Thread :
    pc[t] \in {"room", "delayed", "stalled", "logging", "logged", "unsynced", "finish"}
      => /\ queue # <<>> /\ Head(queue) = t
         /\ \A u \in Thread \ {t} : pc[u] \in {"idle", "queued", "written", "flushing"}

\* The calls whose batches are read, in the order in which they were inserted.
Applied == flushed \o imm \o mem

\* s is l with some of its places left out.
Follows(s, l) ==
  \E at \in [DOMAIN s -> DOMAIN l] :
    /\ \A i \in DOMAIN s : s[i] = l[at[i]]
    /\ \A i, j \in DOMAIN s : i < j => at[i] < at[j]

\* The memtables and the tables hold calls of the log, in its order and each
\* once, and every write that was answered "ok", so that a replay of the log
\* after a crash brings back what was read before it, in the same order.  It may
\* bring back more: a record that was added but whose write failed afterwards is
\* in the log and was never read (DBImpl::Write, InsertInto).
MemoryFollowsLog ==
  /\ Follows(Applied, log)
  /\ \A c \in BatchCalls : answer[c] = "ok" => c \in Range(Applied)

\* The work that somebody waits for is on its way: while a memtable is to be
\* flushed or level 0 is full, background work is scheduled, unless an error
\* is recorded (MaybeScheduleCompaction).
WorkIsScheduled == (imm # <<>> \/ level0 >= L0Stop) /\ ~bgError => scheduled

\* Writes are carried out in groups as if each were alone: in the order of the
\* queue, each once, and answered by what became of it (WriteOrder).
WritesInOrder == Order!OrderSpec

\* Every call returns, whatever fails: no signal is lost between the queue,
\* the memtables and the background thread.
EveryCallReturns == \A t \in Thread : (pc[t] # "idle") ~> (pc[t] = "idle")

=============================================================================
