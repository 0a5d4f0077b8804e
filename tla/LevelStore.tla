----------------------------- MODULE LevelStore -----------------------------
(***************************************************************************)
(* leveldb, the store below the persistence of the Firebase client: the    *)
(* write-ahead log, the two memtables, the tables in levels, the manifest  *)
(* that names them, the background thread that moves entries down the      *)
(* levels, snapshots, pinned readers, crashes and recovery.                *)
(*                                                                         *)
(* Three threads meet here: the writer at the head of the queue, one       *)
(* reader, and the background thread.  An action is what one of them does  *)
(* between two places where it lets go of the mutex.  The manifest is the  *)
(* state its records add up to.                                            *)
(***************************************************************************)
EXTENDS StoreEntries, FiniteSets, Sequences

CONSTANTS
  NumKeys,       \* bound: user keys, in the order of the comparator
  MaxSeq,        \* bound: sequence numbers
  MaxFile,       \* bound: file numbers
  MaxCrashes,    \* bound: times the process ends
  MaxEnds,       \* bound: times it ends or the manifest of a start fails
  MaxHeld,       \* bound: snapshots and readers at a time
  Deletes,       \* what writes do: FALSE puts a value, TRUE deletes the key
  SyncOptions,   \* the values of WriteOptions::sync
  NumLevels,     \* config::kNumLevels
  MaxMemLevel,   \* config::kMaxMemCompactLevel
  Faults,        \* what may go wrong, see below
  Manual,        \* DB::CompactRange is called
  CutInsideKey   \* the entries of one key may be cut into two tables

\* power:    the machine stops, and what was not synced may be gone
\* add:      a record of a log cannot be added
\* sync:     the sync of a log fails
\* table:    a table, or the file of a new log at a start, cannot be written;
\*           at a start, no other table than the last
\* replay:   a table of a start cannot be written, and it is not the last
\* manifest: a record of the manifest cannot be written or synced
\* nested:   the same for the memtable of a compaction that goes on after it
\* torn:     a record that could not be written leaves a part of itself
AnyFault ==
  {"power", "add", "sync", "table", "replay", "manifest", "nested", "torn"}

ASSUME LevelStoreAssumption ==
  /\ NumKeys \in Nat \ {0} /\ MaxSeq \in Nat \ {0}
  /\ MaxFile \in Nat /\ MaxHeld \in Nat
  /\ MaxCrashes \in Nat /\ MaxEnds \in Nat /\ MaxCrashes <= MaxEnds
  /\ NumLevels \in Nat /\ MaxMemLevel \in Nat /\ MaxMemLevel + 1 < NumLevels
  /\ Faults \subseteq AnyFault
  /\ Deletes \subseteq BOOLEAN /\ SyncOptions \subseteq BOOLEAN
  /\ Manual \in BOOLEAN /\ CutInsideKey \in BOOLEAN

Key == 1..NumKeys
Seqs == 1..MaxSeq
FileNumber == 1..MaxFile
Level == 0..(NumLevels - 1)
Entry == [key : Key, seq : Seqs, del : BOOLEAN]
Files == [Level -> SUBSET FileNumber]
NoFiles == [l \in Level |-> {}]
None == <<>>

VARIABLES
  \* on the disk
  logs,      \* the log files: the records of each, in the order written
  synced,    \* how many records of each are on the medium
  tables,    \* the table files: the entries of each
  manifest,  \* what CURRENT leads to: files, log, next, last, torn
  \* in the process
  phase,     \* "down", "replaying", "opening" or "up"
  mem, imm,  \* mem_ and imm_, the latter empty for NULL
  logfile,   \* logfile_number_
  logNumber, \* VersionSet::log_number_
  next,      \* next_file_number_
  last,      \* last_sequence_
  current,   \* current_: the files of each level
  writer,    \* the write that runs: its entry and sync
  held,      \* the numbers of snapshots_
  reader,    \* what a Get or an iterator holds on to
  job,       \* the compaction that runs
  edit,      \* the version edit on its way to the manifest
  bgError,   \* bg_error_ is set
  \* observers
  hist,      \* by sequence number: the write that has it
  crashes    \* how often the process has ended or a start has failed

diskVars == <<logs, synced, tables, manifest>>
memVars == <<mem, imm, logfile>>
versionVars == <<logNumber, next, last, current>>
clientVars == <<writer, held, reader>>
observers == <<hist, crashes>>
vars == <<diskVars, phase, memVars, versionVars, clientVars, job, edit,
          bgError, observers>>

-----------------------------------------------------------------------------
(* Files and versions                                                      *)

First(E) == CHOOSE e \in E : \A f \in E \ {e} : Precedes(e, f)
Final(E) == CHOOSE e \in E : \A f \in E \ {e} : Precedes(f, e)

\* The keys between the smallest and the largest of K; the range of a file,
\* and the range that a set of files covers.
Hull(K) == {k \in Key : \E lo, hi \in K : lo <= k /\ k <= hi}
KeyRange(E) == Hull({e.key : e \in E})
Span(n) == KeyRange(tables[n])
RangeOf(ns) == Hull(UNION {Span(n) : n \in ns})

\* Version::OverlapInLevel and GetOverlappingInputs for a level over 0.
Overlapping(fs, l, ks) == {n \in fs[l] : Span(n) \cap ks # {}}

\* GetOverlappingInputs for level 0: a file that widens the range starts the
\* search over, so that at last the range holds every file that overlaps it.
Closure(fs, ks) ==
  LET whole == {r \in {Hull(K) : K \in SUBSET Key} :
                  /\ ks \subseteq r
                  /\ \A n \in Overlapping(fs, 0, r) : Span(n) \subseteq r}
  IN  Overlapping(fs, 0, CHOOSE r \in whole : \A q \in whole : r \subseteq q)

Inputs(fs, l, ks) == IF l = 0 THEN Closure(fs, ks) ELSE Overlapping(fs, l, ks)

AllFiles(fs) == UNION {fs[l] : l \in Level}

\* VersionSet::Builder: the files of an edit taken away and added.
Apply(fs, e) == [l \in Level |-> (fs[l] \ e.del[l]) \cup e.add[l]]

At(l, ns) == [NoFiles EXCEPT ![l] = ns]

-----------------------------------------------------------------------------
(* Version::Get                                                            *)

\* The files of level 0 that may hold the key, or the one file of another level
\* that FindFile leads to.
Candidates(fs, l, k, s) ==
  IF l = 0
  THEN {n \in fs[0] : k \in Span(n)}
  ELSE LET ahead == {n \in fs[l] : LET e == Final(tables[n])
                                   IN  \/ k < e.key
                                       \/ k = e.key /\ e.seq <= s}
       IN  {n \in ahead : /\ k \in Span(n)
                          /\ \A m \in ahead \ {n} :
                               Precedes(First(tables[n]), First(tables[m]))}

\* <<level, file>> is asked before another: level by level, and in level 0 the
\* newest file first.
AskedBefore(a, b) == a[1] < b[1] \/ (a[1] = b[1] /\ a[2] > b[2])

InFiles(fs, k, s) ==
  LET asked == UNION {{<<l, n>> : n \in Candidates(fs, l, k, s)} : l \in Level}
      hits == {a \in asked : Visible(tables[a[2]], k, s) # {}}
      first == CHOOSE a \in hits : \A b \in hits \ {a} : AskedBefore(a, b)
  IN  IF hits = {} THEN Absent ELSE AnswerOf(Newest(tables[first[2]], k, s))

\* DBImpl::Get: the memtable, the one before it, then the files.
Get(m, i, fs, k, s) ==
  IF Visible(m, k, s) # {} THEN AnswerOf(Newest(m, k, s))
  ELSE IF Visible(i, k, s) # {} THEN AnswerOf(Newest(i, k, s))
  ELSE InFiles(fs, k, s)

-----------------------------------------------------------------------------
(* DBImpl::DeleteObsoleteFiles                                             *)

\* Fault: a reader does not keep the files of its version.
NoFileRead == {}

FilesRead == IF reader = None THEN {} ELSE AllFiles(reader.files)

\* Fault: the outputs of a compaction are not protected.
NoPendingOutputs(j) == {}

\* pending_outputs_: the tables that no version has yet.
PendingOutputs(j) == IF j = None THEN {} ELSE j.outputs

\* AddLiveFiles: the tables that a version somebody holds on to has.
Live(fs, j) ==
  AllFiles(fs) \cup FilesRead \cup PendingOutputs(j)
    \cup (IF j = None THEN {} ELSE AllFiles(j.base))

Sweep(live, log) ==
  LET keep == {n \in DOMAIN logs : n >= log}
  IN  /\ tables' = [n \in DOMAIN tables \cap live |-> tables[n]]
      /\ logs' = [n \in keep |-> logs[n]]
      /\ synced' = [n \in keep |-> synced[n]]

\* Nothing is deleted after an error: the manifest may have an edit that the
\* versions do not.
DeleteObsoleteFiles(live, log) ==
  IF bgError' THEN UNCHANGED <<tables, logs, synced>> ELSE Sweep(live, log)

With(f, n, x) == [m \in DOMAIN f \cup {n} |-> IF m = n THEN x ELSE f[m]]

\* The manifest with the record of the edit behind it, or the new manifest
\* that a start begins with.
Written ==
  [files |-> Apply(manifest.files, edit), log |-> edit.log,
   next |-> edit.next, last |-> edit.last,
   torn |-> IF edit.kind = "open" \/ manifest.torn = "no" THEN "no"
            ELSE "inside"]

-----------------------------------------------------------------------------
(* DB::Open                                                                *)

\* What log::Reader gives of the records: those before one that is torn.
Readable(log) ==
  LET torn == {i \in DOMAIN log : log[i].torn}
  IN  {log[i].entry : i \in {j \in DOMAIN log : \A t \in torn : j < t}}

Largest(S) == CHOOSE x \in S : \A y \in S : y <= x

\* Fault: a log without entries becomes a table too.
TableAlways(E) == {next}

\* The table that the entries of a log become, if there are any.
TableFor(E) == IF E = {} THEN {} ELSE {next}

\* VersionSet::MarkFileNumberUsed.
MarkUsed(x, n) == IF x <= n THEN n + 1 ELSE x

\* The manifest can be read, and no table it names is missing.
Openable ==
  AllFiles(manifest.files) \subseteq DOMAIN tables /\ manifest.torn # "inside"

\* VersionSet::Recover.  The edit of a start grows with the logs: those before
\* edit.log are in tables.
Recover ==
  /\ phase = "down" /\ Openable
  /\ phase' = "replaying"
  /\ next' = manifest.next + 1
  /\ last' = manifest.last
  /\ current' = manifest.files
  /\ logNumber' = manifest.log
  /\ edit' = [kind |-> "open", add |-> NoFiles, del |-> NoFiles,
              log |-> manifest.log, next |-> manifest.next,
              last |-> manifest.last]
  /\ UNCHANGED <<diskVars, memVars, clientVars, job, bgError, observers>>

\* A table that cannot be written is an error of the log it is of, which the
\* next log's success takes the place of: it is lost but for the last log.
TablesFor(n) ==
  {TableFor(Readable(logs[n]))}
    \cup (IF "replay" \in Faults /\ \E m \in DOMAIN logs : n < m THEN {{}} ELSE {})

\* The logs that are not in the manifest yet, one after the other.
RecoverLogFile ==
  /\ phase = "replaying"
  /\ \E n \in DOMAIN logs : \E made \in TablesFor(n) :
       LET E == Readable(logs[n])
       IN  /\ edit.log <= n
           /\ \A m \in DOMAIN logs : edit.log <= m => n <= m
           /\ made \subseteq FileNumber
           /\ tables' = [m \in DOMAIN tables \cup made |->
                            IF m \in made THEN E ELSE tables[m]]
           /\ next' = MarkUsed(IF E = {} THEN next ELSE next + 1, n)
           /\ last' = Largest({last} \cup {e.seq : e \in E})
           /\ edit' = [edit EXCEPT !.add = At(0, @[0] \cup made),
                                  !.log = n + 1]
  /\ UNCHANGED <<logs, synced, manifest, phase, memVars, logNumber, current,
                 clientVars, job, bgError, observers>>

\* DB::Open: a log for what comes, and the edit is complete.
NewLog ==
  /\ phase = "replaying" /\ \A n \in DOMAIN logs : n < edit.log
  /\ phase' = "opening"
  /\ next <= MaxFile
  /\ logs' = With(logs, next, <<>>)
  /\ synced' = With(synced, next, 0)
  /\ logfile' = next
  /\ next' = next + 1
  /\ edit' = [edit EXCEPT !.log = next, !.next = next + 1, !.last = last]
  /\ UNCHANGED <<tables, manifest, mem, imm, logNumber, last, current,
                 clientVars, job, bgError, observers>>

\* The new manifest is complete and CURRENT names it.
OpenDone ==
  /\ phase = "opening"
  /\ current' = Apply(current, edit)
  /\ manifest' = Written
  /\ logNumber' = edit.log
  /\ edit' = None
  /\ phase' = "up"
  /\ UNCHANGED bgError
  /\ DeleteObsoleteFiles(AllFiles(current'), edit.log)
  /\ UNCHANGED <<memVars, next, last, clientVars, job, observers>>

\* What the process has of the store is gone.
Gone ==
  /\ phase' = "down"
  /\ mem' = {} /\ imm' = {} /\ logfile' = 0
  /\ logNumber' = 0 /\ next' = 0 /\ last' = 0 /\ current' = NoFiles
  /\ writer' = None /\ held' = {} /\ reader' = None
  /\ job' = None /\ edit' = None /\ bgError' = FALSE

\* DB::Open returns an error: the table of the last log or the new log cannot
\* be written, or the new manifest, which is removed.  What was written is left
\* to the next start; only the new log makes it another start than this one.
OpenFails ==
  /\ \/ /\ "table" \in Faults /\ phase = "replaying"
        /\ \A n \in DOMAIN logs : edit.log <= n =>
             Readable(logs[n]) # {} /\ \A m \in DOMAIN logs : m <= n
        /\ UNCHANGED crashes
     \/ /\ "manifest" \in Faults /\ phase = "opening"
        /\ crashes < MaxEnds
        /\ crashes' = crashes + 1
  /\ Gone
  /\ UNCHANGED <<diskVars, hist>>

-----------------------------------------------------------------------------
(* DBImpl::Write, by the writer at the head of the queue                   *)

Ready == phase = "up" /\ writer = None /\ ~bgError

\* MakeRoomForWrite: the memtable is full, or a compaction asks for it.
SwitchMemTable ==
  /\ Ready
  /\ mem # {} /\ imm = {}
  /\ next <= MaxFile
  /\ logs' = With(logs, next, <<>>)
  /\ synced' = With(synced, next, 0)
  /\ logfile' = next
  /\ next' = next + 1
  /\ imm' = mem
  /\ mem' = {}
  /\ UNCHANGED <<tables, manifest, phase, logNumber, last, current,
                 clientVars, job, edit, bgError, observers>>

Record(e, torn) == [entry |-> e, torn |-> torn]

\* The record is added to the log; the mutex is not held.
AddRecord(k, del, sync) ==
  /\ Ready
  /\ last < MaxSeq
  /\ LET e == [key |-> k, seq |-> last + 1, del |-> del]
     IN  /\ logs' = [logs EXCEPT ![logfile] = Append(@, Record(e, FALSE))]
         /\ writer' = [entry |-> e, sync |-> sync]
         /\ hist' = [hist EXCEPT ![e.seq] =
              [key |-> k, del |-> del, sync |-> sync, state |-> "pending"]]
  /\ UNCHANGED <<synced, tables, manifest, phase, memVars, versionVars, held,
                 reader, job, edit, bgError, crashes>>

\* The record cannot be added, and the caller is told so; nothing of it is in
\* the file, or all of it, or a part.
AddRecordFails(k, del, sync) ==
  /\ "add" \in Faults
  /\ Ready
  /\ last < MaxSeq
  /\ LET e == [key |-> k, seq |-> last + 1, del |-> del]
     IN  /\ \E left \in {<<>>, <<Record(e, FALSE)>>} \cup
                  (IF "torn" \in Faults THEN {<<Record(e, TRUE)>>} ELSE {}) :
              logs' = [logs EXCEPT ![logfile] = @ \o left]
         /\ last' = e.seq
         /\ hist' = [hist EXCEPT ![e.seq] =
              [key |-> k, del |-> del, sync |-> sync, state |-> "failed"]]
  /\ UNCHANGED <<synced, tables, manifest, phase, memVars, logNumber, next,
                 current, clientVars, job, edit, bgError, crashes>>

\* Fault: the log is not synced.
NoLogSync(sync) == synced

LogSync(sync) ==
  IF sync THEN [synced EXCEPT ![logfile] = Len(logs[logfile])] ELSE synced

\* Synced if asked for, inserted into the memtable, and told to the caller.
WriteDone ==
  /\ phase = "up" /\ writer # None
  /\ synced' = LogSync(writer.sync)
  /\ mem' = mem \cup {writer.entry}
  /\ last' = writer.entry.seq
  /\ hist' = [hist EXCEPT ![last'].state = "done"]
  /\ writer' = None
  /\ UNCHANGED <<logs, tables, manifest, phase, imm, logfile, logNumber, next,
                 current, held, reader, job, edit, bgError, crashes>>

\* The sync fails: whether the record is on the medium is not known.
SyncFails ==
  /\ "sync" \in Faults
  /\ phase = "up" /\ writer # None /\ writer.sync
  /\ last' = writer.entry.seq
  /\ hist' = [hist EXCEPT ![last'].state = "failed"]
  /\ writer' = None
  /\ bgError' = TRUE
  /\ UNCHANGED <<diskVars, phase, memVars, logNumber, next, current, held,
                 reader, job, edit, crashes>>

-----------------------------------------------------------------------------
(* Snapshots and readers                                                   *)

Holders == Cardinality(held) + (IF reader = None THEN 0 ELSE 1)

GetSnapshot ==
  /\ phase = "up"
  /\ last \notin held /\ Holders < MaxHeld
  /\ held' = held \cup {last}
  /\ UNCHANGED <<diskVars, phase, memVars, versionVars, writer, reader, job,
                 edit, bgError, observers>>

ReleaseSnapshot(s) ==
  /\ s \in held
  /\ held' = held \ {s}
  /\ UNCHANGED <<diskVars, phase, memVars, versionVars, writer, reader, job,
                 edit, bgError, observers>>

\* Get and NewInternalIterator: the memtables and the version are referenced,
\* then the mutex is let go.
StartRead ==
  /\ phase = "up" /\ reader = None /\ Holders < MaxHeld
  /\ reader' = [seq |-> last, mem |-> mem, imm |-> imm, files |-> current]
  /\ UNCHANGED <<diskVars, phase, memVars, versionVars, writer, held, job,
                 edit, bgError, observers>>

EndRead ==
  /\ reader # None
  /\ reader' = None
  /\ UNCHANGED <<diskVars, phase, memVars, versionVars, writer, held, job,
                 edit, bgError, observers>>

-----------------------------------------------------------------------------
(* The background thread: the memtable                                     *)

\* Fault: as far down as it may, whatever is there.
PickAnyLevel(ks) == 0..MaxMemLevel

\* PickLevelForMemTableOutput: down while nothing overlaps; files two levels
\* further down may stop it, if they are large.
PickLevels(ks) ==
  LET clear(l) == Overlapping(current, l, ks) = {}
  IN  {l \in 0..MaxMemLevel :
         /\ l > 0 => \A j \in 0..l : clear(j)
         /\ \/ l = MaxMemLevel
            \/ ~clear(0) \/ ~clear(l + 1)
            \/ l + 2 < NumLevels /\ ~clear(l + 2)}

\* CompactMemTable up to LogAndApply: the table is written and the edit made.
\* A compaction that runs does this between two of its entries.
WriteLevel0Table ==
  /\ phase = "up" /\ imm # {} /\ edit = None
  /\ job = None => ~bgError
  /\ next <= MaxFile
  /\ tables' = With(tables, next, imm)
  /\ next' = next + 1
  /\ \E l \in PickLevels(KeyRange(imm)) :
       edit' = [kind |-> "memtable", add |-> At(l, {next}), del |-> NoFiles,
                log |-> logfile, next |-> next + 1, last |-> last]
  /\ UNCHANGED <<logs, synced, manifest, phase, memVars, logNumber, last,
                 current, clientVars, job, bgError, observers>>

-----------------------------------------------------------------------------
(* The background thread: compactions                                      *)

\* The files a compaction of the level may start from.  PickCompaction takes
\* one file, by size, by seeks or by compact_pointer_; CompactRange takes
\* those of a range, or the first of them.
Seeds(l) ==
  {IF l = 0 THEN Inputs(current, 0, Span(n)) ELSE {n} : n \in current[l]}
    \cup (IF Manual
          THEN {Inputs(current, l, Hull(K)) : K \in SUBSET Key} \ {{}} ELSE {})

\* SetupOtherInputs: the files of the next level, and more files of this one
\* when that takes no further file of the next, unless they are too large.
OtherInputs(l, ns) ==
  LET below == Inputs(current, l + 1, RangeOf(ns))
      wider == Inputs(current, l, RangeOf(ns \cup below))
      ok == /\ below # {}
            /\ Cardinality(wider) > Cardinality(ns)
            /\ Inputs(current, l + 1, RangeOf(wider)) = below
  IN  {<<ns, below>>} \cup (IF ok THEN {<<wider, below>>} ELSE {})

\* Whether a compaction may start; the memtable goes first.
Idle == phase = "up" /\ imm = {} /\ job = None /\ edit = None /\ ~bgError

\* Fault: snapshots are not asked for.
LatestSequence == last

SmallestSnapshot ==
  IF held = {} THEN last ELSE CHOOSE s \in held : \A t \in held : s <= t

StartCompaction ==
  /\ Idle
  /\ \E l \in 0..(NumLevels - 2) : \E seed \in Seeds(l) :
       \E in \in OtherInputs(l, seed) :
         job' = [level |-> l, above |-> in[1], below |-> in[2],
                 base |-> current, smallest |-> SmallestSnapshot,
                 outputs |-> {}, built |-> FALSE]
  /\ UNCHANGED <<diskVars, phase, memVars, versionVars, clientVars, edit,
                 bgError, observers>>

\* IsTrivialMove: one file with nothing below it goes down as it is.
TrivialMove ==
  /\ Idle
  /\ \E l \in 0..(NumLevels - 2) : \E n \in current[l] :
       /\ Inputs(current, l, Span(n)) = {n} \/ l > 0
       /\ Inputs(current, l + 1, Span(n)) = {}
       /\ edit' = [kind |-> "move", add |-> At(l + 1, {n}),
                   del |-> At(l, {n}), log |-> logNumber, next |-> next,
                   last |-> last]
  /\ UNCHANGED <<diskVars, phase, memVars, versionVars, clientVars, job,
                 bgError, observers>>

\* IsBaseLevelForKey: no file further down than the outputs covers the key.
BaseKeys ==
  {k \in Key : \A l \in (job.level + 2)..(NumLevels - 1) :
                 \A n \in job.base[l] : k \notin Span(n)}

Merged ==
  Kept(UNION {tables[n] : n \in job.above \cup job.below}, job.smallest,
       BaseKeys)

\* Where outputs may end: behind the last entry, and where a table is as large
\* as it may be, or overlaps too much of the level after the next.
Ends(E) ==
  {ends \in SUBSET E :
     \A e \in E :
       /\ (\A f \in E : ~Precedes(e, f)) => e \in ends
       /\ e \in ends =>
            CutInsideKey \/ \A f \in E : f.key = e.key => ~Precedes(e, f)}

\* The output that ends with e.
Piece(E, ends, e) ==
  {f \in E : /\ ~Precedes(e, f)
             /\ \A d \in ends : Precedes(d, e) => Precedes(d, f)}

\* DoCompactionWork: the outputs, each under a number of its own.
WriteOutputs ==
  /\ phase = "up" /\ job # None /\ edit = None
  /\ ~job.built
  /\ \E ends \in Ends(Merged) :
       LET number(e) == next + Cardinality({d \in ends : Precedes(d, e)})
           made == {number(e) : e \in ends}
       IN  /\ made \subseteq FileNumber
           /\ tables' = [n \in DOMAIN tables \cup made |->
                IF n \in made
                THEN Piece(Merged, ends, CHOOSE e \in ends : number(e) = n)
                ELSE tables[n]]
           /\ next' = next + Cardinality(ends)
           /\ job' = [job EXCEPT !.outputs = made, !.built = TRUE]
  /\ UNCHANGED <<logs, synced, manifest, phase, memVars, logNumber, last,
                 current, clientVars, edit, bgError, observers>>

\* InstallCompactionResults, up to the manifest.
InstallCompactionResults ==
  /\ phase = "up" /\ job # None /\ edit = None
  /\ job.built
  /\ edit' = [kind |-> "compaction", add |-> At(job.level + 1, job.outputs),
              del |-> [At(job.level, job.above) EXCEPT ![job.level + 1] =
                         job.below],
              log |-> logNumber, next |-> next, last |-> last]
  /\ UNCHANGED <<diskVars, phase, memVars, versionVars, clientVars, job,
                 bgError, observers>>

\* A table of the memtable or of the compaction cannot be written.
TableFails ==
  /\ "table" \in Faults
  /\ phase = "up" /\ edit = None
  /\ bgError' = TRUE
  /\ \/ /\ job # None /\ ~job.built
        /\ job' = None
        /\ DeleteObsoleteFiles(Live(current, job'), logNumber)
     \/ /\ imm # {} /\ (job = None => ~bgError)
        /\ UNCHANGED <<job, tables, logs, synced>>
  /\ UNCHANGED <<manifest, phase, memVars, versionVars, clientVars, edit,
                 observers>>

-----------------------------------------------------------------------------
(* VersionSet::LogAndApply and what follows it                             *)

\* The record is on the medium; the new version is installed.
LogAndApply ==
  /\ phase = "up" /\ edit # None
  /\ manifest' = Written
  /\ current' = Apply(current, edit)
  /\ logNumber' = edit.log
  /\ edit' = None
  /\ imm' = IF edit.kind = "memtable" THEN {} ELSE imm
  /\ job' = IF edit.kind = "memtable" THEN job ELSE None
  /\ UNCHANGED bgError
  /\ IF edit.kind = "move"
     THEN UNCHANGED <<tables, logs, synced>>
     ELSE DeleteObsoleteFiles(Live(current', job'), edit.log)
  /\ UNCHANGED <<phase, mem, logfile, next, last, clientVars, observers>>

\* The record cannot be written or synced: it may be there or not, and the
\* version stays the one before.
LogAndApplyFails ==
  /\ "manifest" \in Faults
  /\ phase = "up" /\ edit # None
  /\ edit.kind = "memtable" /\ job # None => "nested" \in Faults
  /\ manifest' \in {manifest, Written} \cup
       (IF "torn" \in Faults
        THEN {[manifest EXCEPT !.torn = IF @ = "no" THEN "tail" ELSE "inside"]}
        ELSE {})
  /\ job' = IF edit.kind = "memtable" THEN job ELSE None
  /\ edit' = None
  /\ bgError' = TRUE
  /\ IF edit.kind = "compaction"
     THEN DeleteObsoleteFiles(Live(current, job'), logNumber)
     ELSE UNCHANGED <<tables, logs, synced>>
  /\ UNCHANGED <<phase, memVars, versionVars, clientVars, observers>>

-----------------------------------------------------------------------------
(* The process ends                                                        *)

\* What is left of each log: all of it, or after a power cut any part that
\* has what was synced.
Survivors(power) ==
  {keep \in [DOMAIN logs -> 0..MaxSeq] :
     \A n \in DOMAIN logs :
       IF power THEN synced[n] <= keep[n] /\ keep[n] <= Len(logs[n])
       ELSE keep[n] = Len(logs[n])}

\* The writes of the logs that the manifest m still needs, up to keep: all of
\* them, and those that can be read.
Logged(m, keep) ==
  UNION {{logs[n][i].entry.seq : i \in 1..keep[n]} :
           n \in {n \in DOMAIN logs : n >= m.log}}

Readables(m, keep) ==
  UNION {{e.seq : e \in Readable(SubSeq(logs[n], 1, keep[n]))} :
           n \in {n \in DOMAIN logs : n >= m.log}}

\* What the caller is owed: a write that was answered, unless it was cut off;
\* one that was not, if it can still be read.
After(m, keep) ==
  LET whole == [n \in DOMAIN logs |-> Len(logs[n])]
      cut == Logged(m, whole) \ Logged(m, keep)
  IN  [s \in Seqs |->
         IF hist[s] = None \/ s \in cut THEN None
         ELSE IF hist[s].state # "done" /\ s \notin Readables(m, keep)
         THEN None
         ELSE [hist[s] EXCEPT !.state = "done",
                              !.sync = @ /\ hist[s].state = "done"]]

Crash ==
  /\ phase # "down"
  /\ crashes < MaxCrashes
  /\ crashes' = crashes + 1
  /\ manifest' \in {manifest} \cup
       (IF edit = None \/ phase = "replaying" THEN {} ELSE {Written})
  /\ \E power \in (IF "power" \in Faults THEN BOOLEAN ELSE {FALSE}) :
       \E keep \in Survivors(power) :
         /\ logs' = [n \in DOMAIN logs |-> SubSeq(logs[n], 1, keep[n])]
         /\ synced' = [n \in DOMAIN logs |->
                         IF power THEN keep[n] ELSE synced[n]]
         /\ hist' = After(manifest', keep)
  /\ Gone
  /\ UNCHANGED tables

-----------------------------------------------------------------------------
\* DBImpl::NewDB: a manifest without files.
Init ==
  /\ logs = <<>> /\ synced = <<>> /\ tables = <<>>
  /\ manifest = [files |-> NoFiles, log |-> 0, next |-> 2, last |-> 0,
                 torn |-> "no"]
  /\ phase = "down"
  /\ mem = {} /\ imm = {} /\ logfile = 0
  /\ logNumber = 0 /\ next = 0 /\ last = 0 /\ current = NoFiles
  /\ writer = None /\ held = {} /\ reader = None
  /\ job = None /\ edit = None /\ bgError = FALSE
  /\ hist = [s \in Seqs |-> None]
  /\ crashes = 0

Next ==
  \/ Recover \/ RecoverLogFile \/ NewLog \/ OpenDone \/ OpenFails
  \/ SwitchMemTable \/ WriteDone \/ SyncFails
  \/ \E k \in Key, del \in Deletes, sync \in SyncOptions :
       AddRecord(k, del, sync) \/ AddRecordFails(k, del, sync)
  \/ GetSnapshot \/ (\E s \in Seqs \cup {0} : ReleaseSnapshot(s))
  \/ StartRead \/ EndRead
  \/ WriteLevel0Table
  \/ StartCompaction \/ TrivialMove \/ WriteOutputs
  \/ InstallCompactionResults \/ TableFails
  \/ LogAndApply \/ LogAndApplyFails
  \/ Crash

Spec == Init /\ [][Next]_vars

-----------------------------------------------------------------------------
(* Properties                                                              *)

\* Every variable has its type: files are numbered within the bound, a log
\* never has more synced records than records, and the process that is down
\* holds nothing.
TypeOK ==
  /\ DOMAIN logs \subseteq FileNumber /\ DOMAIN synced = DOMAIN logs
  /\ \A n \in DOMAIN logs :
       /\ logs[n] \in Seq([entry : Entry, torn : BOOLEAN])
       /\ synced[n] \in 0..Len(logs[n])
  /\ DOMAIN tables \subseteq FileNumber
  /\ \A n \in DOMAIN tables : tables[n] \in (SUBSET Entry) \ {{}}
  /\ manifest \in [files : Files, log : Nat, next : Nat, last : Nat,
                   torn : {"no", "tail", "inside"}]
  /\ phase \in {"down", "replaying", "opening", "up"}
  /\ mem \in SUBSET Entry /\ imm \in SUBSET Entry
  /\ {logfile, logNumber} \subseteq FileNumber \cup {0} /\ next \in Nat
  /\ last \in Seqs \cup {0} /\ current \in Files
  /\ writer = None \/ writer \in [entry : Entry, sync : BOOLEAN]
  /\ held \subseteq Seqs \cup {0} /\ bgError \in BOOLEAN
  /\ phase = "down" =>
       /\ <<writer, reader, job, edit>> = <<None, None, None, None>>
       /\ mem \cup imm \cup held = {}
  /\ crashes \in 0..MaxEnds

\* No table is deleted that the running process still has a use for: one of
\* the current version, or an input of the compaction that runs, or an output
\* of it that no version has yet (DeleteObsoleteFiles, pending_outputs_).
NothingMissing ==
  /\ AllFiles(current) \subseteq DOMAIN tables
  /\ job # None => job.above \cup job.below \cup job.outputs \subseteq DOMAIN tables

\* What a reader at s has to be told of the key: the last write that was
\* answered and is not lost.
Expected(k, s) ==
  LET writes == {n \in Seqs : /\ n <= s /\ hist[n] # None
                              /\ hist[n].key = k /\ hist[n].state = "done"}
      n == CHOOSE n \in writes : \A m \in writes : m <= n
  IN  IF writes = {} THEN Absent ELSE IF hist[n].del THEN Absent ELSE n

\* A Get answers with the last write of the key that was acknowledged, or that
\* recovery brought back, wherever flushes, moves, compactions, crashes and
\* recoveries have put the entries: no deleted value returns, and no older
\* value is found before a newer one (DBImpl::Get, Version::Get).  It does not
\* hold with the faults "torn" and "replay", with which recovery loses writes.
LatestRead ==
  phase = "up" =>
    \A k \in Key : Get(mem, imm, current, k, last) = Expected(k, MaxSeq)

\* A Get through a snapshot answers what was true when the snapshot was taken,
\* while compactions drop what no snapshot can see (DoCompactionWork,
\* smallest_snapshot).
SnapshotsRead ==
  \A s \in held, k \in Key : Get(mem, imm, current, k, s) = Expected(k, s)

\* A reader that took its memtables and version before the mutex was let go
\* finds its tables on the disk and reads what was true at its start, though
\* the store has flushed, compacted and deleted files since (Version::Ref,
\* AddLiveFiles).
ReaderReads ==
  reader # None =>
    /\ AllFiles(reader.files) \subseteq DOMAIN tables
    /\ \A k \in Key :
         Get(reader.mem, reader.imm, reader.files, k, reader.seq)
           = Expected(k, reader.seq)

\* Whatever fails and whenever the process or the machine stops, the store can
\* be opened again: the manifest that CURRENT leads to names no table that is
\* gone (VersionSet::Recover, DBImpl::Recover "missing files").
NeverCorrupt == phase = "down" => Openable

\* Below level 0 no two files of a level cover the same key, which Version::Get
\* relies on when it asks one file of a level only, provided the entries of a
\* key are never cut into two tables and no compaction is a manual one, between
\* whose inputs a memtable may be placed (the assertion "Must not overlap" of
\* MaybeAddFile, version_set.cc, asks the same of the internal keys).
LevelsDisjoint ==
  \A l \in Level \ {0} : \A m, n \in current[l] :
    m # n => Span(m) \cap Span(n) = {}

\* A write that was answered, with sync = true.
Synced(s) == hist[s] # None /\ hist[s].sync /\ hist[s].state = "done"

\* A Get of the key of the write s answers with it, or with a later write that
\* was answered.
Found(s) ==
  LET answer == Get(mem, imm, current, hist[s].key, last)
  IN  \E t \in Seqs : /\ s <= t /\ hist[t] # None
                      /\ hist[t].key = hist[s].key /\ hist[t].state = "done"
                      /\ answer = IF hist[t].del THEN Absent ELSE t

\* A write that was acknowledged with sync = true survives every crash, of the
\* process or of the machine, and every error before it or after it that is in
\* Faults: no crash takes it away, and whenever the store is up a Get of its key
\* answers with it or with a newer write (options.h, sync).  With "torn" or
\* "replay" the code does lose such writes.
SyncedKept ==
  /\ [][\A s \in Seqs : Synced(s) => hist'[s] = hist[s]]_vars
  /\ [](phase = "up" => \A s \in Seqs : Synced(s) => Found(s))

=============================================================================
