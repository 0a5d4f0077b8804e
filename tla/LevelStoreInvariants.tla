------------------------ MODULE LevelStoreInvariants ------------------------
(***************************************************************************)
(* What is always true of LevelStore, in the parts that LevelStoreProofs   *)
(* shows one after the other to be inductive: the types, the tables that   *)
(* are kept, the manifest that can be read, the levels that do not         *)
(* overlap, the synced writes that survive, and at last what reads answer. *)
(***************************************************************************)
EXTENDS LevelStore

\* Entries of a store: no two writes of a key have one sequence number.
AnyEntry == [key : Int, seq : Nat, del : BOOLEAN]

Single(E) ==
  /\ E \subseteq AnyEntry
  /\ \A e, f \in E : e.key = f.key /\ e.seq = f.seq => e = f

-----------------------------------------------------------------------------
\* The types.

Seq0 == Seqs \cup {0}
File0 == FileNumber \cup {0}
Log == Seq([entry : Entry, torn : BOOLEAN])

AnEdit == [kind : {"open", "memtable", "move", "compaction"}, add : Files,
           del : Files, log : Nat, next : Nat, last : Seq0]

AJob == [level : 0..(NumLevels - 2), above : SUBSET FileNumber,
         below : SUBSET FileNumber, base : Files, smallest : Seq0,
         outputs : SUBSET FileNumber, built : BOOLEAN]

AReader == [seq : Seq0, mem : SUBSET Entry, imm : SUBSET Entry, files : Files]

AWrite == [key : Key, del : BOOLEAN, sync : BOOLEAN,
           state : {"pending", "done", "failed"}]

\* The types in parts, each about variables that change together.
LogsOK ==
  /\ DOMAIN logs \subseteq FileNumber /\ DOMAIN synced = DOMAIN logs
  /\ \A n \in DOMAIN logs : logs[n] \in Log /\ synced[n] \in 0..Len(logs[n])

TablesOK ==
  /\ DOMAIN tables \subseteq FileNumber
  /\ \A n \in DOMAIN tables : tables[n] \subseteq Entry /\ tables[n] # {}

ManifestOK ==
  manifest \in [files : Files, log : File0, next : Nat, last : Seq0,
                torn : {"no", "tail", "inside"}]

MemOK ==
  /\ mem \subseteq Entry /\ imm \subseteq Entry
  /\ {logfile, logNumber} \subseteq File0 /\ next \in Nat
  /\ last \in Seq0 /\ current \in Files
  /\ crashes \in 0..MaxEnds

ClientsOK ==
  /\ writer = None \/ writer \in [entry : Entry, sync : BOOLEAN]
  /\ held \subseteq Seq0 /\ bgError \in BOOLEAN
  /\ job = None \/ job \in AJob
  /\ reader = None \/ reader \in AReader
  /\ hist \in [Seqs -> {None} \cup AWrite]
  /\ writer # None => hist[writer.entry.seq] \in AWrite

PhaseOK ==
  /\ phase \in {"down", "replaying", "opening", "up"}
  /\ edit = None \/ edit \in AnEdit
  /\ phase = "down" => edit = None
  /\ phase # "up" =>
       /\ writer = None /\ reader = None /\ job = None
       /\ mem = {} /\ imm = {} /\ held = {} /\ ~bgError
  /\ phase \in {"replaying", "opening"} => edit \in AnEdit /\ edit.kind = "open"
  /\ phase = "up" /\ edit \in AnEdit => edit.kind # "open"
  /\ phase # "replaying" /\ edit \in AnEdit => edit.log \in File0
  /\ phase # "down" => next > 0

\* TypeOK with the parts of the edit, the job and the reader, and what a
\* process that is not up yet does not have.
Types == LogsOK /\ TablesOK /\ ManifestOK /\ MemOK /\ ClientsOK /\ PhaseOK

-----------------------------------------------------------------------------
\* The steps by what they do.

\* Log::Writer::AddRecord writes a record whole, in part or not at all.
Adding(k, del, sync) == AddRecord(k, del, sync) \/ AddRecordFails(k, del, sync)

\* The steps of writers and readers, which leave the files of the levels alone.
ClientStep ==
  \/ SwitchMemTable \/ WriteDone \/ SyncFails
  \/ \E k \in Key, del \in Deletes, sync \in SyncOptions : Adding(k, del, sync)
  \/ GetSnapshot \/ (\E s \in Seqs \cup {0} : ReleaseSnapshot(s))
  \/ StartRead \/ EndRead
  \/ UNCHANGED vars

\* The background thread has made an edit.
EditMade == WriteLevel0Table \/ TrivialMove \/ InstallCompactionResults

\* Steps that leave the logs, the writes and the versions alone.
QuietStep ==
  \/ GetSnapshot \/ (\E s \in Seqs \cup {0} : ReleaseSnapshot(s))
  \/ StartRead \/ EndRead \/ StartCompaction \/ WriteOutputs \/ TableFails
  \/ UNCHANGED vars

\* The process ends, or a start of it fails, and what that leaves.
Ending == Crash \/ OpenFails

LogsCut(power, keep) ==
  /\ logs' = [n \in DOMAIN logs |-> SubSeq(logs[n], 1, keep[n])]
  /\ synced' = [n \in DOMAIN logs |-> IF power THEN keep[n] ELSE synced[n]]
  /\ hist' = After(manifest', keep)

LeftBehind ==
  /\ phase # "down" /\ phase' = "down"
  /\ crashes' \in crashes..MaxEnds
  /\ \/ manifest' = manifest
     \/ edit # None /\ phase # "replaying" /\ manifest' = Written
  /\ \/ \E power \in BOOLEAN : \E keep \in Survivors(power) : LogsCut(power, keep)
     \/ phase # "up" /\ UNCHANGED <<manifest, logs, synced, hist>>
  /\ Gone
  /\ UNCHANGED tables

\* A compaction of level l begins with the inputs in, and has become the tables
\* made, cut at ends.
Begun(l, in) ==
  /\ l \in Level /\ l + 1 \in Level
  /\ in[1] \subseteq current[l] /\ in[2] \subseteq current[l + 1]
  /\ job' = [level |-> l, above |-> in[1], below |-> in[2],
             base |-> current, smallest |-> SmallestSnapshot,
             outputs |-> {}, built |-> FALSE]

BuiltAs(ends, made) ==
  /\ DOMAIN tables' = DOMAIN tables \cup made
  /\ \A n \in DOMAIN tables \ made : tables'[n] = tables[n]
  /\ \A n \in made : \E e \in ends :
       /\ n = next + Cardinality({d \in ends : Precedes(d, e)})
       /\ tables'[n] = Piece(Merged, ends, e)
  /\ job' = [job EXCEPT !.outputs = made, !.built = TRUE]

\* The edits that the background thread makes: of a memtable that became a table
\* of level l, of a file that moves down from it, and of a compaction.
MemTableEdit(l) ==
  [kind |-> "memtable", add |-> At(l, {next}), del |-> NoFiles,
   log |-> logfile, next |-> next + 1, last |-> last]

MoveEdit(l, n) ==
  [kind |-> "move", add |-> At(l + 1, {n}), del |-> At(l, {n}),
   log |-> logNumber, next |-> next, last |-> last]

CompactionEdit ==
  [kind |-> "compaction", add |-> At(job.level + 1, job.outputs),
   del |-> [At(job.level, job.above) EXCEPT ![job.level + 1] = job.below],
   log |-> logNumber, next |-> next, last |-> last]

-----------------------------------------------------------------------------
\* No table is deleted that something may still need.

InTables(fs) == AllFiles(fs) \subseteq DOMAIN tables

\* The tables of the manifest, of the current version, of an edit on its way,
\* of a compaction and of a reader are on the disk.  It is inductive because
\* what the manifest names is what the current version has, as long as tables
\* are deleted: after an error they may differ, and none is deleted.
FilesKept ==
  /\ InTables(manifest.files) /\ InTables(current)
  /\ edit \in AnEdit => InTables(edit.add)
  /\ job \in AJob =>
       /\ InTables(job.base)
       /\ job.above \subseteq job.base[job.level]
       /\ job.below \subseteq job.base[job.level + 1]
       /\ job.outputs \subseteq DOMAIN tables
  /\ reader \in AReader => InTables(reader.files)
  /\ phase # "down" /\ ~bgError => current = manifest.files

\* A Get or an iterator that let go of the mutex finds the tables of its
\* version on the disk as long as it holds on to them (Version::Ref).
ReaderFinds == reader # None => AllFiles(reader.files) \subseteq DOMAIN tables

-----------------------------------------------------------------------------
\* The manifest can always be read again.

OneFault == ~({"torn", "nested"} \subseteq Faults)

\* What remains of a torn record is at the end, and while it is there nothing
\* is on its way to the manifest.
TornLast ==
  /\ manifest.torn # "inside"
  /\ manifest.torn # "no" => "torn" \in Faults
  /\ phase = "up" /\ manifest.torn # "no" => bgError /\ job = None /\ edit = None

-----------------------------------------------------------------------------
\* Below level 0 no two files of a level cover the same key.

Convex(ks) == \A lo, hi \in ks, k \in Key : lo <= k /\ k <= hi => k \in ks
Ranges(t, ns) == UNION {KeyRange(t[n]) : n \in ns}

DisjointIn(t, fs) ==
  \A l \in Level \ {0} : \A m, n \in fs[l] :
    m # n => KeyRange(t[m]) \cap KeyRange(t[n]) = {}

\* A new table has a number of its own: what versions, edits and compactions
\* have is below the next number to be handed out, and what the manifest has
\* below the number that it says comes next.
Below(ns, n) == \A m \in ns : m < n

Fresh ==
  /\ Below(AllFiles(manifest.files), manifest.next)
  /\ phase # "down" => manifest.next <= next /\ Below(AllFiles(current), next)
  /\ edit \in AnEdit => Below(AllFiles(edit.add), next)
  /\ edit \in AnEdit /\ phase # "replaying" =>
       /\ manifest.next <= edit.next /\ edit.next <= next
       /\ Below(AllFiles(edit.add), edit.next)
  /\ job \in AJob => Below(job.outputs, next)

\* As long as something may be on its way to the manifest, the version that is
\* current is the one of the manifest.
SameVersion ==
  phase # "down" /\ (~bgError \/ job # None \/ edit # None)
    => current = manifest.files

\* A compaction: its inputs hang together and are still in the version, no
\* other file of the level that the outputs go to meets them, and the outputs
\* stay within them and do not meet one another.
JobOK(t, cur, j) ==
  LET U == Ranges(t, j.above \cup j.below)
  IN  /\ Convex(U) /\ U \in SUBSET Key
      /\ j.above \subseteq cur[j.level] /\ j.below \subseteq cur[j.level + 1]
      /\ \A m \in cur[j.level + 1] \ j.below : KeyRange(t[m]) \cap U = {}
      /\ \A n \in j.outputs : KeyRange(t[n]) \subseteq U
      /\ \A m, n \in j.outputs : m # n => KeyRange(t[m]) \cap KeyRange(t[n]) = {}

\* An edit on its way: what becomes of the version, and a memtable that does
\* not get in the way of the compaction.
EditOK(t, cur, e, j) ==
  /\ DisjointIn(t, Apply(cur, e))
  /\ e.kind = "memtable" =>
       /\ \A l \in Level : e.del[l] = {}
       /\ j \in AJob => \A m \in e.add[j.level + 1] :
            KeyRange(t[m]) \cap Ranges(t, j.above \cup j.below) = {}

LevelsOK ==
  /\ DisjointIn(tables, manifest.files) /\ DisjointIn(tables, current)
  /\ edit \in AnEdit => EditOK(tables, current, edit, job)
  /\ job \in AJob => JobOK(tables, current, job)

-----------------------------------------------------------------------------
\* Writes that were acknowledged with sync = true survive.

\* Log numbers only grow.
LogsGrow ==
  /\ manifest.log <= manifest.next
  /\ phase # "down" => logNumber <= next
  /\ phase \in {"opening", "up"} => logfile <= next
  /\ edit \in AnEdit => edit.log <= next
  /\ edit \in AnEdit /\ phase # "replaying" => edit.log <= edit.next

\* A record of a write that was acknowledged with sync = true is among those
\* that are on the medium.
OnMedium ==
  \A n \in DOMAIN logs : \A i \in 1..Len(logs[n]) :
    LET w == hist[logs[n][i].entry.seq]
    IN  w # None /\ w.sync /\ w.state = "done" => i <= synced[n]

\* The log of a store that opens is empty and the last; later no record is
\* ahead of the writes that ended, but the one of the write that runs, which is
\* the last of its log.
LogsFollow ==
  /\ phase = "opening" =>
       \A n \in DOMAIN logs : n <= edit.log /\ (n = edit.log => Len(logs[n]) = 0)
  /\ phase = "up" =>
       \A n \in DOMAIN logs : \A i \in 1..Len(logs[n]) :
         \/ logs[n][i].entry.seq <= last
         \/ /\ writer # None /\ n = logfile /\ i = Len(logs[n])
            /\ logs[n][i].entry.seq = last + 1
  /\ writer # None =>
       /\ writer.entry.seq = last + 1
       /\ hist[last + 1].state = "pending" /\ hist[last + 1].sync = writer.sync

\* No write that was acknowledged with sync = true goes or changes.
SyncedStay == \A s \in Seqs : Synced(s) => hist'[s] = hist[s]

-----------------------------------------------------------------------------
\* Every read answers with the last write.

\* The entries E stand for the writes W as far as a reader at small or later
\* can tell: what is left out has a newer write of its key, old enough for
\* every reader, or is a deletion with nothing older of its key.
Complete(E, W, small) ==
  /\ E \subseteq W
  /\ \A w \in W \ E :
       \/ \E f \in W : f.key = w.key /\ w.seq < f.seq /\ f.seq <= small
       \/ w.del /\ w.seq <= small /\ \A e \in E : e.key = w.key => w.seq < e.seq

\* The entries that the files of a version hold.
Stored(t, fs) == UNION {t[n] : n \in AllFiles(fs)}

\* What a version must be like for its files to be asked in turn: in level 0
\* the larger number has the newer entries, and no level has an entry of a key
\* that is newer than one of a level above it.
Layered(t, fs) ==
  /\ \A m, n \in fs[0] : m < n => \A e \in t[m], f \in t[n] : e.seq < f.seq
  /\ \A i, j \in Level : i < j =>
       \A m \in fs[i], n \in fs[j] : \A e \in t[m], f \in t[n] :
         e.key = f.key => f.seq < e.seq

EntryIn(h, s) == [key |-> h[s].key, seq |-> s, del |-> h[s].del]
IsDone(h, s) == h[s] # None /\ h[s].state = "done"

\* The entries of the writes that were answered, or that recovery brought back.
Writes(h) == {EntryIn(h, s) : s \in {n \in Seqs : IsDone(h, n)}}

\* The writes that a log has records of, and the logs from a number on.
RecordsOf(ls, n) == {ls[n][i].entry.seq : i \in 1..Len(ls[n])}
Recorded(ls, log) == UNION {RecordsOf(ls, n) : n \in {m \in DOMAIN ls : m >= log}}

\* A compaction or a writer is at work on what the manifest has.
Working == phase = "up" /\ (~bgError \/ job # None \/ edit # None)

\* The logs that the manifest needs: their records are those of writes, a later
\* log has later writes, and the log that is written to is the last.
LogsRight ==
  /\ \A n \in DOMAIN logs : \A i \in 1..Len(logs[n]) :
       LET r == logs[n][i]
       IN  /\ ~r.torn
           /\ n >= manifest.log =>
                hist[r.entry.seq] # None /\ r.entry = EntryIn(hist, r.entry.seq)
  /\ \A m, n \in DOMAIN logs : manifest.log <= m /\ m < n =>
       \A s \in RecordsOf(logs, m), t \in RecordsOf(logs, n) : s < t
  /\ phase = "replaying" => manifest.log <= edit.log
  /\ phase = "opening" => edit.log = logfile
  /\ phase = "up" => \A n \in DOMAIN logs : n <= logfile
  /\ phase \in {"opening", "up"} =>
       logfile \in DOMAIN logs /\ manifest.log <= logfile /\ logfile < next
  /\ phase = "up" /\ edit # None =>
       edit.log = IF edit.kind = "memtable" THEN logfile ELSE manifest.log
  /\ phase = "up" /\ edit # None /\ edit.kind = "memtable" => imm # {}
  /\ Working => logNumber = manifest.log

\* The writes that the process knows: none is ahead of last but the one that
\* runs, which has its record in the log.
HistRight ==
  /\ phase # "up" => \A s \in Seqs : hist[s] # None => hist[s].state = "done"
  /\ phase \in {"opening", "up"} =>
       \A s \in Seqs : hist[s] # None => s <= last \/ (writer # None /\ s = last + 1)
  /\ writer # None =>
       writer.entry = EntryIn(hist, last + 1) /\ last + 1 \in RecordsOf(logs, logfile)
  /\ \A s \in held : s <= last
  /\ reader # None => reader.seq <= last

\* When the process has ended, of the logs that the manifest needs there is any
\* part that has what was synced, and of the writes those that are in it or were
\* not in the logs.
WritesLeft ==
  /\ \/ manifest' = manifest
     \/ /\ edit # None /\ edit \in AnEdit /\ phase # "replaying"
        /\ manifest' = Written /\ manifest'.log = edit.log
  /\ manifest.log \in Nat /\ manifest'.log \in Nat /\ manifest.log <= manifest'.log
  /\ DOMAIN logs' = DOMAIN logs /\ \A n \in DOMAIN logs : n \in Nat
  /\ \A n \in DOMAIN logs : \A i \in 1..Len(logs'[n]) :
       i \in 1..Len(logs[n]) /\ logs'[n][i] = logs[n][i]
  /\ \A n \in DOMAIN logs : RecordsOf(logs', n) \subseteq RecordsOf(logs, n)
  /\ \A s \in Recorded(logs', manifest'.log) : s \in Seqs /\ hist'[s] # None
  /\ \A s \in Seqs : hist'[s] # None =>
       /\ hist[s] # None /\ EntryIn(hist', s) = EntryIn(hist, s) /\ IsDone(hist', s)
       /\ s \in Recorded(logs, manifest'.log) => s \in Recorded(logs', manifest'.log)
       /\ s \notin Recorded(logs, manifest'.log) => IsDone(hist, s)
  /\ \A s \in Seqs : IsDone(hist, s) /\ s \notin Recorded(logs, manifest'.log)
       => hist'[s] # None

\* The table of every log can be written when the store starts.
AllReplayed == "replay" \notin Faults

\* The log n, the oldest that the edit does not have, has become the tables made.
Replayed(n, made) ==
  LET E == {EntryIn(hist, s) : s \in RecordsOf(logs, n)}
      fs == Apply(current, edit)
      gs == Apply(current, edit')
  IN  /\ edit.log <= n /\ n \in Nat /\ edit.log \in Nat
      /\ \A m \in DOMAIN logs : edit.log <= m => n <= m
      /\ edit'.log = n + 1 /\ edit'.last = edit.last
      /\ made \subseteq {next} /\ (made = {} => E = {})
      /\ \A m \in DOMAIN tables \ made : tables'[m] = tables[m]
      /\ \A m \in made : tables'[m] = E
      /\ last \in Nat /\ last' \in Nat /\ last <= last'
      /\ \A s \in RecordsOf(logs, n) : s \in Seqs /\ s <= last' /\ hist[s] # None
      /\ \A l \in Level \ {0} : edit'.add[l] = {} /\ gs[l] = fs[l]
      /\ gs[0] = fs[0] \cup made

\* What the proofs so far have established of every state.
Base ==
  /\ Types /\ FilesKept /\ Fresh /\ SameVersion /\ LevelsOK
  /\ LogsGrow /\ LogsFollow

\* The writes that are not in the logs from a number on.
Flushed(h, ls, log) == {e \in Writes(h) : e.seq \notin Recorded(ls, log)}

\* The files of a version stand for those writes, which are older than what the
\* logs from that number on have, and bound is as new as any of them.
Covers(t, fs, h, ls, log, bound) ==
  /\ Complete(Stored(t, fs), Flushed(h, ls, log), MaxSeq)
  /\ \A e \in Flushed(h, ls, log) :
       e.seq <= bound /\ \A s \in Recorded(ls, log) : e.seq < s

EditLast == IF phase = "replaying" THEN last ELSE edit.last

\* The manifest, and what it will be with the edit, cover what their logs do not.
DiskRight ==
  /\ Covers(tables, manifest.files, hist, logs, manifest.log, manifest.last)
  /\ edit # None => Covers(tables, Apply(current, edit), hist, logs, edit.log, EditLast)
  /\ phase = "replaying" => \A l \in Level \ {0} : edit.add[l] = {}

\* The tables that somebody knows of are written once.
Known(fs) ==
  /\ fs \in Files /\ InTables(fs)
  /\ phase # "down" => Below(AllFiles(fs), next)

\* The memtable has the writes of its log, and the one before it those of the
\* logs that the manifest does not know to be in tables.
MemRight ==
  /\ phase = "up" => mem = {w \in Writes(hist) : w.seq \in Recorded(logs, logfile)}
  /\ Working => imm = {w \in Writes(hist) : /\ w.seq \in Recorded(logs, manifest.log)
                                            /\ w.seq \notin Recorded(logs, logfile)}

LayersRight ==
  /\ Layered(tables, manifest.files) /\ Layered(tables, current)
  /\ edit # None => Layered(tables, Apply(current, edit))

\* The versions that there are in a state.
Versions ==
  {manifest.files, current, NoFiles}
    \cup (IF edit = None THEN {} ELSE {Apply(current, edit)})

View(i, fs) ==
  /\ Complete(mem \cup i \cup Stored(tables, fs), Writes(hist), SmallestSnapshot)
  /\ \A e \in Stored(tables, fs), f \in i \cup mem : e.seq < f.seq
  /\ \A e \in i, f \in mem : e.seq < f.seq

ImmAfter == IF edit.kind = "memtable" THEN {} ELSE imm

\* The store answers every read, with its version and with the one that the edit
\* makes of it.
ViewsRight ==
  phase = "up" =>
    /\ View(imm, current)
    /\ edit # None => View(ImmAfter, Apply(current, edit))

InputsOf(t, j) == UNION {t[n] : n \in j.above \cup j.below}
OutputsOf(t, j) == UNION {t[n] : n \in j.outputs}

\* The keys that no level below the outputs had when the compaction began.
BaseOf(t, j) ==
  {k \in Key : \A l \in (j.level + 2)..(NumLevels - 1) :
                 \A n \in j.base[l] : k \notin KeyRange(t[n])}

\* The other files of its level have newer entries of a key than the inputs, the
\* levels below its outputs have none of a key that it takes for a base-level
\* one, and its outputs are what it has to keep.
JobRight(t, cur, j) ==
  /\ \A n \in cur[j.level] \ j.above : \A e \in t[n], i \in InputsOf(t, j) :
       e.key = i.key => i.seq < e.seq
  /\ \A l \in Level : l > j.level + 1 =>
       \A n \in cur[l] : \A e \in t[n], i \in InputsOf(t, j) :
         e.key = i.key => i.key \notin BaseOf(t, j)
  /\ j.built => OutputsOf(t, j) = Kept(InputsOf(t, j), j.smallest, BaseOf(t, j))

JobsRight ==
  job # None =>
    /\ job.smallest <= SmallestSnapshot
    /\ Below(AllFiles(job.base), next)
    /\ JobRight(tables, current, job)
    /\ (edit # None /\ edit.kind = "memtable") =>
         JobRight(tables, Apply(current, edit), job)

\* What a reader holds on to goes on answering what was true at its start.
ReaderRight ==
  reader # None =>
    /\ InTables(reader.files) /\ Below(AllFiles(reader.files), next)
    /\ Single(reader.mem \cup reader.imm \cup Stored(tables, reader.files))
    /\ DisjointIn(tables, reader.files) /\ Layered(tables, reader.files)
    /\ \A e \in Stored(tables, reader.files), f \in reader.imm \cup reader.mem : e.seq < f.seq
    /\ \A e \in reader.imm, f \in reader.mem : e.seq < f.seq
    /\ \A k \in Key :
         Answer(reader.mem \cup reader.imm \cup Stored(tables, reader.files), k, reader.seq)
           = Answer(Writes(hist), k, reader.seq)

ReadsRight ==
  /\ LogsRight /\ HistRight /\ DiskRight /\ MemRight
  /\ LayersRight /\ ViewsRight /\ JobsRight /\ ReaderRight
=============================================================================
