# Verification of rClickr

rClickr turns an iPhone into the remote control of a presentation on a Mac. The
two applications never talk to each other: both hold a *room* of a Firebase
Realtime Database open, the phone writes commands into it, the Mac carries them
out and takes them away again. This directory holds TLA+ modules of that system
and of the concurrent parts of the libraries it ships with, the TLC
configurations that check them, and proofs checked by TLAPS.

## The system

| Component | Source | State | Operations |
|---|---|---|---|
| Mac receiver | `rClickrmacOS/ViewController.swift:71-140` | main queue, what was carried out | callback of the room's listener, dispatched blocks |
| Mac screenshots | `ViewController.swift:20-56` | running timers and uploads | timer, upload, completion |
| Mac overlay | `RedDotController.m` | place of the red dot, blackout | move, switch, volume keys |
| Resizing | `NSImageExtensions.swift` | none | resize, crop |
| Room code | `ViewController.swift:58-62` | code of the room | draw a code |
| iOS slide screen | `rClickriOS/ViewController.swift:46-176` | pointer mode, finger, image | buttons, swipes, touches, listener of the screenshot's address, downloads |
| iOS dictation | `ViewController.swift:31-44, 180-249` | recognition task, tap, engine | button, result handler |
| iOS room entry | `RoomNumberViewController.swift` | field, circles, lookups, screens | edit, answer of a lookup, alert, back |
| Firebase database client | `Pods/FirebaseCommunity/Firebase/Database` | write tree, server cache, outstanding puts and listens | set, update, remove, observe; data, answers, loss and restoring of the connection |
| leveldb: store | `Pods/leveldb-library/db/db_impl.cc`, `version_set.cc`, ... | log, memtables, levels, manifest, snapshots, queue of writers | write, get, snapshot, flush, compaction, recovery |
| leveldb: skip list | `Pods/leveldb-library/db/skiplist.h` | linked lists of a memtable | insert, iterate |
| Application delegates, windows, storyboards | `AppDelegate.swift`, `*WindowController*` | none that matters | configure |
| Firebase Storage, Core, GTMSessionFetcher | `Pods/` | third-party | `putData` |

A room is a tree: `interactive_settings` with `screenshot_url`,
`wants_new_image` and `highlight_coordinates`, and one child per command.

    phone  -- set/update -->  library of the phone  -- put -->  server
    server -- data, ack, ok --> library of the Mac  -- event --> main queue of the Mac
    Mac    -- carries out, removes the command, uploads a screenshot,
              replaces interactive_settings --> ... --> listener of the phone

leveldb lies below the disk persistence of the database client. Both applications
ship it and neither turns the persistence on; it is modelled because it is part
of the repository, because it is where the repository's locks, threads and
crashes are, and because what the library promises would rest on it if the
persistence were turned on. The two copies under `Pods/` are the same; the maps
name that of the phone.

### What is hard

* **Two queues per device.** A write is only dispatched to the library's serial
  queue (`FIRDatabaseReference.m:145`), an event only dispatched to the main
  queue (`FValueEventRegistration.m:72`). A callback acts on a snapshot that may
  be several writes old.
* **Local writes show at once.** Listeners see the server's data through the
  writes that are still pending, so a device hears its own writes, and hears them
  again when they are acknowledged or overtaken.
* **Connections are lost** with answers on the way; puts without an answer are
  sent again although the server may have done them.
* **Whole-node writes.** `setValue` on `interactive_settings` takes away a
  request or a pointer place written in the meantime.
* **The loop over a dictionary** has no order, and a `break` in it.
* **Answers that come late**: lookups of room codes, uploads, downloads,
  recognition results.
* **The mutex of leveldb is let go of** while the log is written, while tables
  are built, while the manifest is synced, and while anybody reads. What was read
  before may be stale after.
* **Every write to the disk may fail or be cut off**, also at a start, and then the
  log, the tables, the manifest and the memory may disagree.
* **A list without locks** that one thread extends while others walk it.

### What makes it correct

* the library: what a client sees becomes, and once nothing is on its way is,
  the server's tree; no event is missed; own writes do not flicker back;
* the receiver: no command is lost or comes back, requests for a screenshot do
  not stay, the dot is where the room says, and the traffic dies down;
* the slide screen: the last screenshot's address is fetched;
* room entry: only rooms that exist are opened, and the circles tell the truth;
* dictation: at most one task, no second tap;
* the store: a read answers with the last write before it, in spite of flushes,
  compactions, crashes and failures, but for those listed below; synced writes stay and are
  found; the store opens again;
* the writers: as if each wrote alone, in order; every call returns;
* the skip list: each move of an iterator takes effect at one moment.

## Modules

    FirebaseSync                      the library, the network and the server
      SyncClients                     + any applications: serial numbers are written
        MCSyncClients
      Room                            the tree of rClickr's room and its writes
        MacReceiver                   the Mac
        RemoteControl                 the slide screen of the phones
          Session                     both together
            MCSession
    CommandDelivery                   what a room promises of commands (abstract)
    RoomEntry, MCRoomEntry            first screen of the phone
    Dictation                         the microphone
    StoreEntries                      entries of leveldb, what a read answers,
                                      what a compaction drops
      LevelStore                      log, memtables, levels, manifest, recovery
      LevelStoreInvariants            what LevelStoreProofs shows to be inductive
    WriteOrder                        what DB::Write promises (abstract)
      WriteQueue                      writers and background thread (INSTANCE)
    SortedSet                         what a memtable's list promises (abstract)
      SkipList                        the list (INSTANCE)
    SyncProofs                        lemmas about FirebaseSync, used by
      SyncClientsProofs, SessionProofs
    DictationProofs, RoomEntryProofs, LevelStoreProofs, WriteQueueProofs,
    SkipListProofs

**FirebaseSync.** A tree is a function from leaves to values; a write names some
leaves. Per client: `calls` (writes dispatched, `FIRDatabaseReference.m`),
`pending` (`FWriteTree`, in order), `cache` and `loaded` (the server snapshot of
the view), `held` (`putsToAck`), `unacked` (`unackedListensCount` is not zero),
`mainq` (the main queue). Actions: `RunWrite` is `FRepo set:/update:`,
`ReceiveData` is `onDataUpdate`, `ReceiveAck` is the callback of `sendPut` with
the acknowledgement held back while a listen is unanswered, `ReceiveOk` is the
answer to the listen, `AckHeld` one turn of the loop in `ackPuts` (nothing else
of the client runs between, see `Acking`), `Connect` is `restoreState` and
`Disconnect` is `onDisconnect`. `View` is the cache seen through the pending
writes; `Raise` puts an event on the main queue when it changes. The server and
the network (`ServerPut`, `ServerListen`, `Pushed`) are external: puts of a
connection are done in order, whoever listens is told before the writer is
answered, a listen is answered with the whole node and may be answered after puts
that were sent later, and everything in flight goes with the connection. The
listen sent again carries a hash in the code, so that the server may answer with
less than the whole node; the model always sends the node, which brings the cache
to the same state. Writes the server refuses do not occur: the database of the
applications has no rules that would.

**Room, MacReceiver, RemoteControl, Session.** `MacCallback` is the whole
callback: for an order of the children (`Orders`; a dictionary has any) the loop
gets through `Reached` of them, because the settings have no action and end the
loop unless they ask for an image. It dispatches `LoopWrites`, leaves
`LoopBlocks` on the main queue, switches the blackout and moves the dot. A command
whose value has not one of the six actions does not occur. `RunPerform`,
`TimerFires`, `StorageAnswers` and `RunUploaded` are the rest of the Mac.
`OpenScreen` is `viewDidLoad` with `viewDidAppear`; `SendCommand` stands for the
six handlers that differ in the action only; a place of the pointer is one leaf,
because its coordinates are always written together.

**RoomEntry.** The room's code in the field, the lookups without an answer, the
alert, and the slide screens pushed on the navigation stack. Answers may come in
any order. `startSlidingBtnPressed` has one caller, `numberChanged`: no button of
the storyboard is connected to it. `hurried` records that an edit was made while
a lookup was open.

**Dictation.** `StartRecording` has four outcomes: the audio session throws, a
tap is there already (an exception), the engine does not start, or the task runs.
The recognizer is external: results wait for the main queue and may still be
delivered after their task was cancelled.

**StoreEntries, LevelStore.** An entry is a user key, a sequence number and
whether it deletes; values are told apart by the number. `LevelStore` has the disk
(`logs` with `synced`, `tables`, `manifest`) and the process (`mem`, `imm`,
`current`, `job`, `edit`, `bgError`, ...). An action is what one thread does
between two places where it lets go of the mutex: a write is `AddRecord` and then
`WriteDone`; a compaction is `StartCompaction`, `WriteOutputs`,
`InstallCompactionResults` and `LogAndApply`, with `WriteLevel0Table` and its own
`LogAndApply` possibly in between, because `DoCompactionWork` stops for a full
memtable. The outputs of a compaction are written in one step: nothing
that reads them runs before they are installed. A start is `Recover`, one
`RecoverLogFile` for each log, `NewLog` and `OpenDone`, and may be cut off between
any two of them, with tables left over that no manifest names; it may also fail
(`OpenFails`), because the table of the last log, the new log or the new manifest
cannot be written. What the failing table of an *earlier* log does is in
`TablesFor`, with the fault *replay* (see the findings). `Get` is the code's search,
memtables first, then level by level, with the one file of a level that
`FindFile` leads to; the properties compare it with `Expected`, which only knows
the history of the writes. `Crash` ends the process, and with the fault *power* the
machine, when every log keeps some part that has what was synced. Its faults are:
*power*, as said; *add* and *sync*, a record of a log is not added or not synced;
*table*, a table (or, at a start, the file of the new log) is not written;
*replay*, the same for the table of a log that is not the last of a start;
*manifest*, a record of the manifest is not written or synced, or a start's new
manifest is not; *nested*, that error in the flush inside a compaction, which goes
on; *torn*, a record that was not written leaves a part of itself. Assumptions
about the disk: table files and the manifest are on the medium once their sync
returned (the code syncs both), and a name once created stays. Simplifications: a
log is replayed into one table (the code starts a new one when the memtable is
full), so that a failure at a start leaves out the whole of a log, never its end
alone; reading the disk does not fail, and gives what was written (so the errors that
`MaybeIgnoreError` passes over, `db_impl.cc:383-388`, do not occur); a memtable without entries is not switched; which compaction runs is left
open (size, seeks and `compact_pointer_` decide it in the code), so that every
choice of the code is among those checked; sizes that may stop a placement or an
expansion may do so or not.

**WriteOrder, WriteQueue.** The threads that call `Write` or
`TEST_CompactMemTable`, and the background thread, with the mutex (`holder`), the
condition variables (`signalled`) and the queue. One disjunct of the loop in
`MakeRoomForWrite` is one action. What is in the files does not matter here: the
memtables are sequences of calls, and `MemoryFollowsLog` compares those applied
with the log as sequences (`Follows`). `WriteOrder` is the promise: calls reach the log
in order, each once, a group at a time, and one that is answered "ok" is there,
and on the medium if it asked for that. Manual compactions and the closing of the
store are left out.

**SortedSet, SkipList.** One step is one load or one store of a link. Links are
published by release stores and read by acquire loads, so a reader sees the
writer's stores in their order, perhaps late; what a late reader sees is what one
sees that takes its step earlier, so the interleavings are enough. The exception is
`max_height_`, written and read without a barrier: a search may start at any
height (`Search`), as the comment in `Insert` has it. Readers write nothing that
anybody reads, so one reader stands for all. That there is one writer is what
`HeadAlone` of WriteQueue says.

**CommandDelivery** is the abstract specification of a room: a command is open
until the receiver has taken it, and only an open command is taken up for the
first time. A phone that loses its connection may send a command again that was
taken and removed meanwhile (`SendAgain`, only where phones may lose theirs).
`Session` implements it under the mapping in `Delivery`.

## Runs

| Run | Configuration | Question | Bounds |
|---|---|---|---|
| sync_clients | `SyncClients.cfg` | is the library's view exact? | 2 clients, 2 leaves, 2 writes, 1 lost connection |
| commands | `SessionCommands.cfg` | is any command lost, does any come back? | 2 presses; 1 upload that may end meanwhile, or 1 lost connection of the Mac |
| live | `SessionLive.cfg` | does the room come to rest as it should, is every command carried out? | one of four stories, see below |
| performed_once | `SessionOnce.cfg` | one press, one key? **No** | 2 presses |
| skipped_by_break | `SessionBreak.cfg` | is every command carried out? **No** | 1 press |
| room_entry | `RoomEntry.cfg` | is the first screen consistent? | 2 digits, 2 rooms, 8 edits, 5 digits in the field |
| room_entry_hurried | `RoomEntryHurried.cfg` | does the room opened exist? **No** | same |
| dictation | `Dictation.cfg` | one task, one tap? | 4 tasks, 3 results, 5 presses |
| store | `LevelStore.cfg` | are reads right, is anything lost or deleted too early? | 2 keys, 2 writes, 8 files, 3 levels, 1 crash, starts whose table fails, 1 whose manifest does, a snapshot or a reader; the faults *power*, *add*, *sync*, *table*, *manifest* |
| old_value_returns | `LevelStoreCut.cfg` | and if the entries of a key are cut into two tables? **No** | 1 key, 2 writes, no crash, no fault |
| write_queue | `WriteQueue.cfg` | are groups as good as single writes, does every call return? | 3 threads, 4 calls (3 batches, 2 of them synced), groups of 2, a memtable of 1, level 0 slows at 1 and stops at 2 |
| skip_list | `SkipList.cfg` | does a move take effect at once? | 4 keys, 3 levels |

*commands* starts in a room that is up, with a screenshot still to be made
(`Storing`) or with a connection that may be lost (`Losing`): one trouble at a
time. *live* starts in one of four states and lets one part of the users go on from
there: the screen is opened (`Opening`), a command is sent with the connection at
risk (`Commands`), the pointer moves while a screenshot is made (`Pointing`), two
screenshots follow one another (`Refreshing`). What a story leaves out has
happened before in it, so that all bounds are used up. Runs that end when users and
bounds allow nothing more switch the deadlock check off; for WriteQueue
`EveryCallReturns` says that it only ends with nobody waiting.

**Why the bounds are enough.** The hazards are between *two* of a thing: two
writes of which one shadows the other, an event and one raised before it, a put
and the same put sent again, two entries of one key or one entry and a file that
covers it. One lost connection takes away messages of every kind and sends listens
and puts again. Two keys give ranges that overlap without having a key in common;
three levels are needed for a file that is moved past another, or a deletion with
something left below the outputs; eight files let two memtables be flushed, merged
and recovered. Two writes leave no room for three versions of one key under two
snapshots; `CompactionKeepsAnswers` is proved for any. One crash and a start that fails leave
logs and a table behind that the next start finds. Three threads are a head, a
follower and one left behind, or a follower and a waiter on the memtable. Four
keys and three levels have an insertion on both sides of a reader at every level.

**Fairness.** Weak fairness of the queues, because a dispatch queue runs what is
put on it; of the server's answers and of `Connect`, because the retry helper
tries without end (`FPersistentConnection.m:390-429`); of the timer, the storage's
answer (which may be a failure) and the end of a download. None for the user, and
none for losing a connection. *live* has the constant `SettingsLast`: the
dictionary happens to put the settings last. Without it a command may be skipped
for ever, which *skipped_by_break* shows. In WriteQueue every thread in a call and
the background thread run, the mutex being free often enough; that anybody calls is
not assumed. In SkipList the reader's thread runs; the writer may stop anywhere,
and the search ends all the same.

## Findings

1. **A command may be carried out twice** (*performed_once*).
   The callback carries out every command of its snapshot and only dispatches the
   removal; an event raised before it still holds the command.
2. **A command may never be carried out** (*skipped_by_break*). `break` where the
   loop should go on leaves out the commands that come after the settings.
3. **A slide screen for a room that does not exist** (*room_entry_hurried*). The
   field is read when the answer comes.
4. **leveldb: an old value may come back** (*old_value_returns*). With a snapshot
   held, a compaction keeps two entries of one key, and closes its output between
   them when that is large enough. The two tables are neighbours in a level. A
   later compaction takes only the one with the newer entry down, because nothing
   in `SetupOtherInputs` looks for a neighbour that goes on with the same user key,
   and `Version::Get` then finds the older entry first. It contradicts the comment
   at `version_set.cc:337-339`. It needs a snapshot that is held and values of the
   size of a table; the applications take none. All other properties of LevelStore
   are checked with `CutInsideKey = FALSE`, where outputs end between keys.

*store* leaves three faults out, because with each of them the code does lose what
the properties promise: *replay*, *torn* and *nested*, all below. What it shows is
that nothing else does.

More that the modules or the reading showed, without a run of their own:

* Switching the microphone off does not cancel the recognition task (`SwitchOff`
  leaves `tasks` alone), though the reference is kept "so that it can be cancelled"
  (`ViewController.swift:212-213`); a late result starts recording again and the
  next press installs a second tap, which is what `CrashOnlyIfLate` admits.
* `CompactRange` may take files with a gap between them, which no compaction does
  that the store starts itself. A memtable flushed meanwhile that has its keys in
  the gap overlaps no file (`PickLevelForMemTableOutput` looks at the version, not
  at the compaction), is placed in the level that the outputs go to, and lies
  inside one of them: the assertion "Must not overlap" (`version_set.cc:756`) fails,
  and without assertions a Get may miss the key. With `Manual = TRUE`, three keys,
  three writes and one crash (recovery puts the first two tables into level 0),
  TLC finds `LevelsDisjoint` and `LatestRead` of LevelStore violated. The
  applications never call it; the run *store* leaves it off. With the same values and
  `Manual = FALSE` both hold: the inputs of the store's own compactions hang
  together.
* A machine that stops may lose unsynced writes at the end of the log before and
  keep a synced write of the new log: the old log is not synced when it is left
  (`db_impl.cc:1333-1337`), and recovery replays what is there. `options.h:180-183`
  compares with write() and fsync() of one file. In LevelStore such writes are cut
  off (`After`), and `SyncedKept` speaks of the synced write alone.
* **leveldb: a log may be lost at a start.** When the process ended after a memtable
  was switched and before its table was in the manifest, a start replays two logs,
  the second often empty. The loop in `DBImpl::Recover` writes the status of every
  log over that of the one before (`s = RecoverLogFile(logs[i], edit,
  &max_sequence)`, `db_impl.cc:343-350`) and has no early return. If the table of the
  first log cannot be written (447) and the second is replayed, the error is gone:
  `DB::Open` succeeds, the manifest goes on from the new log (1459), and
  `DeleteObsoleteFiles` removes the first (1466) with acknowledged writes in it, also
  with those that asked for a sync. The comments at 436-438 and 448-449 say the
  opposite: "Reflect errors immediately so that conditions like full file-systems
  cause the DB::Open() to fail." The fault *replay* has it: `LevelStore.cfg` with
  `Faults = {"replay"}` and `MaxEnds = 1` violates `LatestRead` after a write,
  `SwitchMemTable`, `Crash`, `Recover`, `RecoverLogFile` without a table, the same
  for the empty log, `NewLog` and `OpenDone`. `SyncedKept` fails in the same way when
  the write asked for a sync. The reads and synced writes that the run and the
  theorems speak of are those of a store to which this does not happen.
* A record that could not be added may leave a part of itself, and the caller is
  told; the log is written on all the same, and recovery stops reading at the part:
  later writes that were answered "ok" are lost when the process ends, though
  `options.h:176-178` says none are. The fault *torn* shows it.
* The flush inside a compaction records an error when its manifest write fails, and
  the compaction goes on, and may flush the same memtable again (the fault
  *nested*).
* `TEST_CompactMemTable` puts a NULL batch into the queue; a group may take it
  along (`BuildBatchGroup` skips it), and the memtable is then not switched though
  the call is answered "ok" (`db_impl.h:50-51`: "Force current memtable contents
  to be compacted").
* `TEST_CompactRange` clears `manual_compaction_` when an error is recorded
  (`db_impl.cc:584-587`), while `BackgroundCompaction`, back from
  `DoCompactionWork`, goes through it (726-730).

## Proofs

The theorems hold for every value of the constants, under the assumptions named
in the modules: `SyncAssumption`, `ClientsAssumption`, `RoomAssumption`,
`RemoteAssumption`, `SessionAssumption`, `EntryAssumption`, `DictationAssumption`,
`LevelStoreAssumption`, `QueueAssumption`, `SkipListAssumption`. Most of what these say is that bounds are
numbers and that names of different things differ. `RoomAssumption` also has the
keys of the commands (`PressIds`) distinct, because `childByAutoId` makes a new one
each time, and so only finitely many commands: as many as the bound allows. No set
of clients, phones, threads, rooms, leaves or pictures is assumed to be finite.

* **SyncProofs, SyncClientsProofs**: `TypeCorrect`, `Counted`, `Exact`,
  `Convergence`, `CallbackUpToDate`. The inductive invariant is `SyncInv`: types,
  `AcksCounted`, `StreamExact`. `Converged` is not inductive: what makes a
  drained client see the server is that the stream of messages said so while it
  was full. `StreamExact` says it of every leaf: the last message on its way that
  names the leaf holds the server's value, and if none does the cache holds it. A
  put extends each stream with what changed (`PutExact`), a listen begins one
  (`ListenExact`), taking a message moves its word into the cache (`PopExact`).
  `NothingMissed` follows the last event of the main queue: every step that changes
  what a client sees puts the new tree there, and no step moves it.
* **SessionProofs** is about the whole room, for any number of phones, commands and
  pictures, any listens of the phones and any connections that are lost.
  * `TypeCorrect`, `NothingLost`, `Delivers` and `CommandsAccounted` from `SInv`.
    `SyncInv` does not know what the applications write, so `SInv` adds what each
    leaf may hold anywhere in the system, in the server, caches, messages, pending
    writes and events (`Fits(Holds(made))`: the leaf of a command holds its action,
    and only once it was sent); what the writes of the Mac and of the phones may
    name (`MacWritesOK`: it removes only what it has taken; `PhonesOK`: a phone
    removes no command); and `Accounted` of CommandDelivery. That the
    Mac, in its callback, takes what is open holds because an event's tree holds
    only what was sent. `Delivers` maps every action to a step of CommandDelivery or
    to none: the callback is `Take` of all the commands that the loop reached, the
    server's doing of a removal is `Close`, a connection of a phone that is lost is
    `SendAgain`. `CommandsAccounted` carries the promise of CommandDelivery over to
    the room.
  * `RequestsAnswered` and `DotAtRest` speak of the moment when nothing is left to
    do. The invariant behind them, `RestInv`, holds all the way: what the Mac sees is
    on its way to its callback as the last event, or the callback has answered to it
    (`Abreast`); and answered means that a write which takes the request back is on
    its way, or the dot is there (`Settled`). It needs that the Mac's own writes
    never ask (`MacNeverAsks`) and, of the library, `Converged` and
    `NothingMissed` in the form that holds for the Mac.
* **WriteQueueProofs**: the threads of leveldb, for any callers, calls, limits and
  faults.
  * `HeadIsAlone` from `QueueInv` (whoever is busy is the head; the group ends with a
    writer of the queue; who was not carried out is still in the queue), and
    `WorkComes` from `WorkInv`, which relates `scheduled` to the place of the
    background thread.
  * `TypeCorrect` and `MemoryIsLog` from `WriteInv`. `MemoryFollowsLog` alone is not
    inductive: when a follower is told "ok" its batch must have been applied by
    somebody else, some steps before. `CallsInv` tells the calls apart (each thread
    in a call has its own, not answered; no call to come is in the log); `GroupInv`
    says what the group is while the mutex is let go of, the batches of the
    front of the queue with a sync if one of them wants it, and that who is going to
    be told "ok" is `Kept`: in the log, on the medium if it asked, and in what is
    read. That `log \o group` keeps the embedding of `Follows` is `FollowsLonger`.
  * `InOrder`, the refinement of WriteOrder. What waits is the batches of the
    queue behind `Taken`. They split where the queue splits (`BatchesConcat`: the
    k-th batch is found by counting, `NthCounts`, so this takes an argument about
    cardinalities), so that the head's group is a front part of what waits
    (`FrontGoes`); a NULL batch makes no difference; a new call comes to the end
    (`WriteOrders`); and an answer is given only to a call that does not wait
    (`CallAnswered`).
  * `AnsweredIsKept` and `EachOnce` are what WriteOrder promises, proved of its steps
    (`OrderInv`) and carried over by `InOrder`.
* **SkipListProofs**: `ListTyped`, `InOrder`, and `MovesTakeEffectAtOnce`, the
  refinement of SortedSet. The set is the list of level 0 (`linked`). The invariant
  `IInv` says of the lists that they are in order, without gaps at level 0, nested,
  and hold published nodes only; of the writer (`Finding`, `Found`, `Linking`) that
  `prev` is right for every level it has been through, and stays so, because nobody
  else inserts; of the reader that it stands on a node before its key. That a search
  ends with the right node follows from its last load alone: the node it stands on
  is before the key, the next is not, and the list of level 0 has no gap. So the
  upper levels, the height and what was inserted on the way cannot matter.
* **LevelStoreProofs**: the store, for any keys, writes, files, levels, crashes,
  starts and readers, and any of the faults but those a theorem names. The parts of
  its inductive invariant, with comments on what each says, are in
  LevelStoreInvariants.
  * `LayersAnswer`, that asking newer entries first answers as all together would;
    and `CompactionKeepsAnswers`, that what a compaction drops changes the answer of
    no reader at or after its smallest snapshot. The theorems about reads rest on
    both.
  * `TypeCorrect` from `Types`, which also types the edit, the compaction and the
    reader, and says what each phase of a start has.
  * `TablesKept` and `ReadersKept` from `FilesKept`. What DeleteObsoleteFiles spares
    is what the versions in memory have; what recovery will look for is what the
    manifest has. The two are the same as long as no error was recorded (the last
    part of `FilesKept`), and after one nothing is deleted any more. The tables of an
    edit on its way are there too, because it is in the manifest before it is in a
    version.
  * `AlwaysOpens` from `FilesKept` and `TornLast`: a torn record stays the last one,
    because the error it is stops all work on versions. The theorem leaves out that
    a record is torn and, in the same store, a memtable fails inside a compaction
    (`OneFault`): the compaction goes on and writes its record behind the torn one
    (see *nested* above).
  * `LevelsApart`, that below level 0 no two files of a level cover the same key. The
    invariant is `LevelsOK`: it also says of an edit on its way that the version it
    makes is in order, and of a compaction (`JobOK`) that its inputs *hang together*,
    every key between their smallest and largest lying in one of them (`Convex`); that
    no other file of the level below meets them; and that its outputs stay within them
    and apart. That inputs hang together is what lets a memtable be placed beside a
    compaction: one that overlaps no file of the version cannot lie in a gap between
    the inputs. For level 0 it is what the widening search of GetOverlappingInputs
    brings about (`ClosureIs`, `SeedHangs`), for the levels below what their files'
    overlapping a range without gaps does (`InputsJoin`). Beside it stand `Fresh`, that
    a new table's number names no table in use, and `SameVersion`, that while something
    may be on its way to the manifest the current version is the manifest's. The
    theorem leaves out what breaks the argument: manual compactions, whose inputs may
    have a gap (TLC finds `LevelsDisjoint` violated with them), outputs that end inside
    a key (finding 4), and the fault *nested*, with which a compaction goes on over
    another version than the manifest has.
  * `SyncedWritesKept`: a write acknowledged with sync is never lost, and whenever
    the store is up a Get of its key answers with it or with a newer write. The second
    half is `LatestReads`, because a synced write stays among the writes to be read;
    that it stays is `OnMedium`, which says where it is: no record of it is behind the synced part of its log. It needs that
    the record being written is the last of its log, and that no other record has its
    sequence number (`LogsFollow`); a number may come back after a crash, when the
    write that had it was cut off, and then no log of before is there any more, because
    a store that has opened keeps only its own (`LogsGrow`: log numbers only grow).
  * `LatestReads`, `SnapshotReads` and `PinnedReads`: every read answers with the last
    write it may see. The step from what is stored to what `Get` answers is
    `GetAnswer`: the search, memtables first and then file by file, finds what all
    the entries together would, if each layer is newer than what is asked after it
    (`Layered`) and a key of a level below 0 is in one file (`CandidatesAre` is
    `FindFile`). That what is stored answers as all the writes would is the relation
    `Complete`: an entry may be missing if a newer one of its key is there that every
    reader can see, or if it is a deletion and nothing older of its key is left. It
    is kept when entries come (`CompleteWith`), when readers get younger
    (`CompleteLater`) and when a compaction drops entries (`CompleteCompacted`).
    The invariant is `ReadsRight`, on top of those above: the records of the logs are
    those of writes, in order (`LogsRight`); no write is ahead of `last` but the one
    that runs (`HistRight`); the tables of the manifest, and of what an edit makes of
    it, are `Complete` for the writes that its logs do not have (`DiskRight`), which
    is what makes any crash harmless; the memtables hold the writes of their logs
    (`MemRight`); every version there is or is to be is `Layered` (`LayersRight`); the
    memtables and the version, now and once the edit is installed, are `Complete` for
    all writes (`ViewsRight`); the inputs of a compaction are older than what else is
    in their level, and no level below its outputs has an entry of a key that it takes
    for a base-level one, though memtables came to the version meanwhile
    (`JobsRight`); and what a reader holds on to goes on answering the same
    (`ReaderRight`). A crash and a start that fails are the same to all of it
    (`Ending`, `LeftBehind`): the process is gone, and what is on the disk is whole
    but for the ends of logs (`LogsCut`). The theorems leave out what `LevelsApart`
    leaves out, parts of log records (the fault *torn*), behind which recovery does
    not read, and the tables of earlier logs that fail at a start (*replay*), whose
    logs recovery deletes; so does `SyncedWritesKept`.
* **DictationProofs**: `TypeCorrect`, `OneTaskRuns`, `CrashNeedsLate`; the invariant
  relates the button to the tap.
* **RoomEntryProofs**: `TypeCorrect`; `CirclesTell`, inductive as it stands;
  `NothingStuck`, that a full code is being looked up or a screen is open, inductive
  with the types; `UnhurriedSafe`: while nobody hurried there is one lookup at most, of
  the text in the field.

Only model-checked: `OwnWritesStay` of the library and `NoCommandReturns` of the
room, which need the order of a client's puts in the server's stream; and all
liveness (`EventuallyQuiet`,
`EveryCommandPerformed`, `LastAddressFetched`, `EveryCallReturns`, `SearchEnds`),
which is outside of what the prover does.

## Not modelled

* Of the database library: transactions, filtered queries, authentication and disk
  persistence (the applications use none); the transport below it.
* Of leveldb: the format of logs, tables and blocks, the caches and filters, the
  iterators that merge several tables (`db_iter.cc`, `merger.cc`), repair, closing
  the store, the environment. Errors of reading: logs that cannot be read for other
  reasons than a torn record, tables and manifests that cannot be read.
* Firebase Storage, Firebase Core, GTMSessionFetcher, GoogleToolboxForMac: large,
  vendored, and behind one call of the applications.
* Drawing, windows and key events; what a picture shows and its size
  (`NSImageExtensions.swift` is arithmetic without state); speech recognition
  itself, which gives the words heard so far again and again, so that one spoken word
  may send its command more than once. The second `FirebaseApp.configure()` of the Mac (`AppDelegate.swift:19`,
  after `ViewController.swift:74`) raises an exception that AppKit logs, and nothing
  follows from it in a room.

The map covers the applications' control almost whole, in Swift and Objective-C, and
of the C++ the files named above; most of the repository's lines are the vendored
libraries just listed.

## Plan

1. *Proofs*: `OwnWritesStay` and `NoCommandReturns`, from an invariant that relates
   the pending puts of a client to what the server has done of them.
2. *The room, further*: two phones in a room, with the order in which their
   commands reach the Mac; a phone that leaves the slide screen and comes back,
   with the observer that is never removed; two Macs that drew the same code (a
   second receiver of `Session`); the Mac quitting with commands in the room.
3. *leveldb, further*: manual compactions and closing in WriteQueue; `DBIter` over
   a sorted set of entries.
4. *Lookups through the library*: RoomEntry over FirebaseSync, with a lookup that
   is answered from the cache of an open observer.
