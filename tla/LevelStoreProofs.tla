-------------------------- MODULE LevelStoreProofs --------------------------
(***************************************************************************)
(* Proofs about LevelStore.  First, about entries alone: why leveldb may   *)
(* ask its layers one after the other, and why a compaction may leave      *)
(* entries out, for every set of entries, key, sequence number and         *)
(* snapshot.  Then about the store: its types, the tables that must not be *)
(* deleted, the manifest that must stay readable, the levels below 0,      *)
(* whose files must not overlap, the writes that were synced, and at last  *)
(* what reads answer: now, through a snapshot, and by a reader that let go *)
(* of the mutex.  What the invariants say is in LevelStoreInvariants.      *)
(***************************************************************************)
EXTENDS LevelStoreInvariants, WellFoundedInduction, FiniteSetTheorems, TLAPS

--------------------
\* What is visible and not empty has a newest entry, and only one.
LEMMA NewestExists ==
  ASSUME NEW E, Single(E), NEW k \in Int, NEW s \in Nat, Visible(E, k, s) # {}
  PROVE  /\ Newest(E, k, s) \in Visible(E, k, s)
         /\ \A f \in Visible(E, k, s) : f.seq <= Newest(E, k, s).seq
<1> DEFINE Gap == {s - e.seq : e \in Visible(E, k, s)}
<1>1. Gap \subseteq Nat /\ Gap # {} BY DEF Visible, Single, AnyEntry
<1>2. PICK g \in Gap : \A h \in Gap : ~(<<h, g>> \in OpToRel(<, Nat))
  <2> HIDE DEF Gap
  <2> QED BY <1>1, NatLessThanWellFounded, WFMin
<1>3. \A h \in Gap : g <= h
  <2> HIDE DEF Gap
  <2> SUFFICES ASSUME NEW h \in Gap, h < g PROVE FALSE
    BY <1>1
  <2>1. <<h, g>> \in OpToRel(<, Nat) BY <1>1 DEF OpToRel
  <2> QED BY <1>2, <2>1
<1>4. PICK e \in Visible(E, k, s) : g = s - e.seq OBVIOUS
<1>5. ASSUME NEW f \in Visible(E, k, s) PROVE f.seq <= e.seq
  <2>1. s - f.seq \in Gap OBVIOUS
  <2>2. s - e.seq <= s - f.seq
    <3> HIDE DEF Gap
    <3> QED BY <1>3, <1>4, <2>1
  <2>3. e.seq \in Nat /\ f.seq \in Nat BY <1>4 DEF Visible, Single, AnyEntry
  <2> QED BY <2>2, <2>3
<1> QED BY <1>5 DEF Newest

LEMMA NewestUnique ==
  ASSUME NEW E, Single(E), NEW k \in Int, NEW s \in Nat,
         NEW e \in Visible(E, k, s),
         \A f \in Visible(E, k, s) : f.seq <= e.seq
  PROVE  Newest(E, k, s) = e
<1> DEFINE n == Newest(E, k, s)
<1>1. n \in Visible(E, k, s) /\ \A f \in Visible(E, k, s) : f.seq <= n.seq
  BY NewestExists
<1>2. n.seq = e.seq /\ n.key = e.key /\ n \in E /\ e \in E
  <2> HIDE DEF n
  <2> QED BY <1>1 DEF Visible, Single, AnyEntry
<1> QED BY <1>2 DEF Single

--------------------
\* The comment of Version::Get, "later levels are irrelevant": if every entry
\* of a layer is newer than the entries of its key below, asking the layers in
\* turn answers what all entries together would.
THEOREM LayersAnswer ==
  ASSUME NEW U, NEW B, Single(U \cup B),
         \A u \in U, b \in B : u.key = b.key => b.seq < u.seq,
         NEW k \in Int, NEW s \in Nat
  PROVE  AnswerThrough(U, B, k, s) = Answer(U \cup B, k, s)
<1>1. Single(U) /\ Single(B) BY DEF Single
<1>2. Visible(U \cup B, k, s) = Visible(U, k, s) \cup Visible(B, k, s)
  BY DEF Visible
<1>3. CASE Visible(U, k, s) # {}
  <2> DEFINE n == Newest(U, k, s)
  <2>1. n \in Visible(U, k, s) /\ \A f \in Visible(U, k, s) : f.seq <= n.seq
    BY <1>1, <1>3, NewestExists
  <2>2. \A f \in Visible(B, k, s) : f.seq <= n.seq
    <3> HIDE DEF n
    <3> QED BY <2>1 DEF Visible, Single, AnyEntry
  <2>3. Newest(U \cup B, k, s) = n
    <3> HIDE DEF n
    <3> QED BY <1>2, <2>1, <2>2, NewestUnique
  <2> QED BY <1>2, <1>3, <2>3 DEF AnswerThrough, Answer
<1>4. CASE Visible(U, k, s) = {}
  <2>1. Visible(U \cup B, k, s) = Visible(B, k, s) BY <1>2, <1>4
  <2>2. Newest(U \cup B, k, s) = Newest(B, k, s) BY <2>1 DEF Newest
  <2> QED BY <1>4, <2>1, <2>2 DEF AnswerThrough, Answer
<1> QED BY <1>3, <1>4

--------------------
\* A compaction keeps the newest entry that a snapshot can see, unless it is a
\* deletion with nothing below.
LEMMA NewestKept ==
  ASSUME NEW E, Single(E), NEW smallest \in Nat, NEW base,
         NEW k \in Int, NEW s \in Nat, smallest <= s,
         Visible(E, k, s) # {}
  PROVE  \/ Newest(E, k, s) \in Kept(E, smallest, base)
         \/ Obsolete(Newest(E, k, s), smallest, base)
<1> DEFINE n == Newest(E, k, s)
<1>1. n \in Visible(E, k, s) /\ \A f \in Visible(E, k, s) : f.seq <= n.seq
  BY NewestExists
<1>2. ~Hidden(E, n, smallest)
  <2> HIDE DEF n
  <2> SUFFICES ASSUME NEW f \in E, f.key = n.key, f.seq > n.seq, f.seq <= smallest
               PROVE  FALSE
    BY DEF Hidden
  <2>1. f \in Visible(E, k, s) BY <1>1 DEF Visible, Single, AnyEntry
  <2> QED BY <1>1, <2>1 DEF Visible, Single, AnyEntry
<1> QED BY <1>1, <1>2 DEF Kept, Visible

\* Nothing else of the key is kept beside a deletion that was dropped.
LEMMA DroppedWithAll ==
  ASSUME NEW E, Single(E), NEW smallest \in Nat, NEW base,
         NEW k \in Int, NEW s \in Nat, smallest <= s,
         Visible(E, k, s) # {},
         Obsolete(Newest(E, k, s), smallest, base)
  PROVE  Visible(Kept(E, smallest, base), k, s) = {}
<1> DEFINE n == Newest(E, k, s)
<1>1. n \in Visible(E, k, s) /\ \A f \in Visible(E, k, s) : f.seq <= n.seq
  BY NewestExists
<1>2. n.seq <= smallest /\ n \notin Kept(E, smallest, base)
  BY DEF Obsolete, Kept
<1> SUFFICES ASSUME NEW e \in Visible(Kept(E, smallest, base), k, s)
             PROVE  FALSE
  OBVIOUS
<1> HIDE DEF n
<1>3. e \in Visible(E, k, s) /\ ~Hidden(E, e, smallest)
      /\ e \in Kept(E, smallest, base)
  BY DEF Visible, Kept
<1>4. e.seq = n.seq BY <1>1, <1>2, <1>3 DEF Hidden, Visible, Single, AnyEntry
<1>5. e = n BY <1>1, <1>3, <1>4 DEF Visible, Single
<1> QED BY <1>2, <1>3, <1>5

\* DoCompactionWork: through what it keeps of its inputs and the entries B
\* below them, every reader that is not older than the smallest snapshot is
\* answered as through the inputs themselves, provided the keys taken for
\* base-level ones have no entry below (IsBaseLevelForKey).
THEOREM CompactionKeepsAnswers ==
  ASSUME NEW E, Single(E), NEW B, NEW base,
         \A b \in B : b.key \notin base,
         NEW smallest \in Nat, NEW k \in Int, NEW s \in Nat, smallest <= s
  PROVE  AnswerThrough(Kept(E, smallest, base), B, k, s)
           = AnswerThrough(E, B, k, s)
<1> DEFINE K == Kept(E, smallest, base)
<1>1. Single(K) /\ Visible(K, k, s) \subseteq Visible(E, k, s)
  BY DEF Kept, Visible, Single
<1>2. CASE Visible(E, k, s) = {} BY <1>1, <1>2 DEF AnswerThrough
<1>3. CASE Visible(E, k, s) # {}
  <2> DEFINE n == Newest(E, k, s)
  <2>1. n \in Visible(E, k, s) /\ \A f \in Visible(E, k, s) : f.seq <= n.seq
    BY <1>3, NewestExists
  <2>2. CASE n \in K
    <3> HIDE DEF K, n
    <3>1. n \in Visible(K, k, s) BY <2>1, <2>2 DEF Visible
    <3>2. Newest(K, k, s) = n BY <1>1, <2>1, <3>1, NewestUnique
    <3>3. AnswerThrough(K, B, k, s) = AnswerOf(n)
      BY <3>1, <3>2 DEF AnswerThrough
    <3>4. AnswerThrough(E, B, k, s) = AnswerOf(n) BY <1>3 DEF AnswerThrough, n
    <3> QED BY <3>3, <3>4 DEF K
  <2>3. CASE Obsolete(n, smallest, base)
    <3>1. Visible(K, k, s) = {} BY <1>3, <2>3, DroppedWithAll
    <3>2. n.del /\ k \in base
      <4> HIDE DEF n
      <4> QED BY <2>1, <2>3 DEF Obsolete, Visible
    <3>3. Visible(B, k, s) = {} BY <3>2 DEF Visible
    <3> QED BY <1>3, <3>1, <3>2, <3>3 DEF AnswerThrough, Answer, AnswerOf
  <2> QED BY <1>3, <2>2, <2>3, NewestKept
<1> QED BY <1>2, <1>3

--------------------
\* The store: types.
USE DEF Adding, Begun, BuiltAs, MemTableEdit, MoveEdit, CompactionEdit,
        Ending, LogsCut, LeftBehind, Gone

LEMMA Bounds ==
  /\ NumKeys \in Nat /\ MaxSeq \in Nat /\ MaxFile \in Nat
  /\ NumLevels \in Nat /\ MaxMemLevel \in Nat /\ MaxMemLevel + 1 < NumLevels
  /\ Deletes \subseteq BOOLEAN /\ SyncOptions \subseteq BOOLEAN
  /\ Seq0 = 0..MaxSeq /\ File0 = 0..MaxFile /\ 0 \in Level
  /\ Entry \subseteq AnyEntry
BY LevelStoreAssumption
   DEF Seq0, Seqs, File0, FileNumber, Level, Entry, AnyEntry, Key

--------------------
\* None is no record.
LEMMA NoneIsNone ==
  /\ None \notin AnEdit /\ None \notin AJob /\ None \notin AReader
  /\ None \notin AWrite /\ None \notin [entry : Entry, sync : BOOLEAN]
<1>1. DOMAIN None = {} BY DEF None
<1>2. /\ \A r \in AnEdit : "kind" \in DOMAIN r
      /\ \A r \in AJob : "level" \in DOMAIN r
      /\ \A r \in AReader : "seq" \in DOMAIN r
      /\ \A r \in AWrite : "key" \in DOMAIN r
      /\ \A r \in [entry : Entry, sync : BOOLEAN] : "sync" \in DOMAIN r
  BY DEF AnEdit, AJob, AReader, AWrite
<1> QED BY <1>1, <1>2

\* A set of numbers that is bounded and not empty has a largest, and one of
\* naturals has a smallest.
LEMMA SmallestExists ==
  ASSUME NEW S \in SUBSET Nat, S # {}
  PROVE  \E x \in S : \A y \in S : x <= y
<1>1. PICK g \in S : \A h \in S : ~(<<h, g>> \in OpToRel(<, Nat))
  BY NatLessThanWellFounded, WFMin
<1>2. \A h \in S : ~(h < g) BY <1>1 DEF OpToRel
<1> QED BY <1>2

LEMMA LargestExists ==
  ASSUME NEW m \in Nat, NEW S \in SUBSET (0..m), S # {}
  PROVE  Largest(S) \in S /\ \A y \in S : y <= Largest(S)
<1> DEFINE Gap == {m - x : x \in S}
<1>1. Gap \in SUBSET Nat /\ Gap # {}
  <2>1. \A x \in S : x \in Nat /\ x <= m /\ m - x \in Nat OBVIOUS
  <2> QED BY <2>1
<1>2. PICK g \in Gap : \A h \in Gap : g <= h
  <2> HIDE DEF Gap
  <2> QED BY <1>1, SmallestExists
<1>3. PICK x \in S : g = m - x OBVIOUS
<1>4. \A y \in S : y <= x
  <2> SUFFICES ASSUME NEW y \in S PROVE y <= x
    OBVIOUS
  <2>1. m - y \in Gap OBVIOUS
  <2>2. m - x <= m - y
    <3> HIDE DEF Gap
    <3> QED BY <1>2, <1>3, <2>1
  <2> QED BY <2>2
<1> QED BY <1>4 DEF Largest

\* A store has finitely many entries.
LEMMA EntryFinite == IsFiniteSet(Entry)
<1> DEFINE code == [t \in (Key \X Seqs) \X BOOLEAN |->
                      [key |-> t[1][1], seq |-> t[1][2], del |-> t[2]]]
<1>1. IsFiniteSet(Key) /\ IsFiniteSet(Seqs)
  BY Bounds, FS_Interval DEF Key, Seqs
<1>2. IsFiniteSet(BOOLEAN)
  <2>1. IsFiniteSet({TRUE}) /\ IsFiniteSet({FALSE}) BY FS_Singleton
  <2>2. BOOLEAN = {TRUE} \cup {FALSE} OBVIOUS
  <2> QED BY <2>1, <2>2, FS_Union
<1>3. IsFiniteSet((Key \X Seqs) \X BOOLEAN) BY <1>1, <1>2, FS_Product
<1>4. code \in Surjection((Key \X Seqs) \X BOOLEAN, Entry)
  <2>1. code \in [(Key \X Seqs) \X BOOLEAN -> Entry] BY DEF Entry
  <2>2. ASSUME NEW e \in Entry PROVE \E t \in (Key \X Seqs) \X BOOLEAN : code[t] = e
    <3>1. <<<<e.key, e.seq>>, e.del>> \in (Key \X Seqs) \X BOOLEAN BY DEF Entry
    <3>2. code[<<<<e.key, e.seq>>, e.del>>] = e BY <3>1 DEF Entry
    <3> QED BY <3>1, <3>2
  <2> QED BY <2>1, <2>2 DEF Surjection
<1> QED
  <2> HIDE DEF code
  <2> QED BY <1>3, <1>4, FS_Surjection

--------------------
LEMMA TypesHold == Types => TypeOK
<1> SUFFICES ASSUME Types PROVE TypeOK
  OBVIOUS
<1>1. manifest \in [files : Files, log : Nat, next : Nat, last : Nat,
                    torn : {"no", "tail", "inside"}]
  BY Bounds DEF Types, ManifestOK
<1>2. /\ DOMAIN tables \subseteq FileNumber
      /\ \A n \in DOMAIN tables : tables[n] \in (SUBSET Entry) \ {{}}
  <2>1. \A E : E \in (SUBSET Entry) \ {{}} <=> E \subseteq Entry /\ E # {}
    OBVIOUS
  <2> QED BY <2>1 DEF Types, TablesOK
<1> QED
  BY <1>1, <1>2
     DEF Types, TypeOK, LogsOK, MemOK, ClientsOK, PhaseOK, Log, Seq0, File0

USE DEF Types

--------------------
\* Versions and edits.
LEMMA EditGrows ==
  ASSUME NEW e \in AnEdit, NEW add \in Files, NEW n \in Nat
  PROVE  /\ [e EXCEPT !.add = add, !.log = n] \in AnEdit
         /\ [e EXCEPT !.add = add, !.log = n].kind = e.kind
BY DEF AnEdit

LEMMA AtIs ==
  ASSUME NEW l \in Level, NEW ns \in SUBSET FileNumber
  PROVE  /\ At(l, ns) \in Files /\ NoFiles \in Files
         /\ \A j \in Level : At(l, ns)[j] = IF j = l THEN ns ELSE {}
BY DEF At, NoFiles, Files

LEMMA ApplyIs ==
  ASSUME NEW fs \in Files, NEW e \in AnEdit
  PROVE  /\ Apply(fs, e) \in Files
         /\ \A l \in Level : Apply(fs, e)[l] = (fs[l] \ e.del[l]) \cup e.add[l]
BY DEF Apply, Files, AnEdit

LEMMA InputsIn ==
  ASSUME NEW fs \in Files, NEW l \in Level, NEW ks
  PROVE  Inputs(fs, l, ks) \subseteq fs[l] /\ fs[l] \subseteq FileNumber
BY DEF Inputs, Closure, Overlapping, Files

LEMMA ReadableIs ==
  ASSUME NEW log \in Log PROVE Readable(log) \subseteq Entry
<1>1. \A i \in DOMAIN log : log[i].entry \in Entry
  <2> DEFINE R == [entry : Entry, torn : BOOLEAN]
  <2>1. \A r \in R : r.entry \in Entry OBVIOUS
  <2>2. log \in Seq(R) BY DEF Log
  <2>3. \A i \in DOMAIN log : log[i] \in R
    <3> HIDE DEF R
    <3> QED BY <2>2
  <2> QED BY <2>1, <2>3
<1>2. \A e \in Readable(log) : \E i \in DOMAIN log : e = log[i].entry
  BY DEF Readable
<1> QED BY <1>1, <1>2

LEMMA WrittenIs ==
  ASSUME ManifestOK, edit \in AnEdit, edit.log \in File0
  PROVE  /\ Written \in [files : Files, log : File0, next : Nat, last : Seq0,
                         torn : {"no", "tail", "inside"}]
         /\ Written.files = Apply(manifest.files, edit)
BY ApplyIs DEF Written, ManifestOK, AnEdit

\* Deleting files keeps the types of the others.
LEMMA SweepTypes ==
  ASSUME LogsOK, TablesOK, NEW live, NEW log,
         DeleteObsoleteFiles(live, log)
  PROVE  LogsOK' /\ TablesOK'
<1>1. CASE bgError' BY <1>1 DEF DeleteObsoleteFiles, LogsOK, TablesOK
<1>2. CASE ~bgError'
  <2> DEFINE keep == {n \in DOMAIN logs : n >= log}
  <2>1. /\ tables' = [n \in DOMAIN tables \cap live |-> tables[n]]
        /\ logs' = [n \in keep |-> logs[n]]
        /\ synced' = [n \in keep |-> synced[n]]
    BY <1>2 DEF DeleteObsoleteFiles, Sweep
  <2> QED BY <2>1 DEF LogsOK, TablesOK
<1> QED BY <1>1, <1>2

LEMMA Same ==
  /\ LogsOK /\ UNCHANGED <<logs, synced>> => LogsOK'
  /\ TablesOK /\ UNCHANGED tables => TablesOK'
  /\ ManifestOK /\ UNCHANGED manifest => ManifestOK'
  /\ MemOK /\ UNCHANGED <<memVars, versionVars, crashes>> => MemOK'
  /\ ClientsOK /\ UNCHANGED <<clientVars, job, bgError, hist>> => ClientsOK'
  /\ (PhaseOK /\ UNCHANGED <<phase, edit, clientVars, job, mem, imm, next,
                              bgError>> => PhaseOK')
BY DEF LogsOK, TablesOK, ManifestOK, MemOK, ClientsOK, PhaseOK, memVars,
       versionVars, clientVars

--------------------
\* Opening the store keeps the types.
LEMMA InitTypes == Init => Types
<1> SUFFICES ASSUME Init PROVE Types
  OBVIOUS
<1>1. NoFiles \in Files BY DEF NoFiles, Files
<1>2. LogsOK /\ TablesOK BY DEF Init, LogsOK, TablesOK
<1>3. ManifestOK BY <1>1, Bounds DEF Init, ManifestOK
<1>4. MemOK /\ PhaseOK
  BY <1>1, Bounds, LevelStoreAssumption, NoneIsNone DEF Init, MemOK, PhaseOK
<1>5. ClientsOK BY DEF Init, ClientsOK
<1> QED BY <1>2, <1>3, <1>4, <1>5

LEMMA RecoverTypes ==
  ASSUME Types, Recover PROVE Types'
<1> USE DEF Recover
<1>1. LogsOK' /\ TablesOK' /\ ManifestOK' BY Same DEF diskVars
<1>2. /\ manifest.files \in Files /\ manifest.log \in File0
      /\ manifest.next \in Nat /\ manifest.last \in Seq0
  BY DEF ManifestOK
<1>3. MemOK' BY <1>2 DEF MemOK, memVars, observers
<1>4. ClientsOK' BY Same DEF clientVars, observers
<1>5. edit' \in AnEdit /\ edit'.kind = "open"
  <2>1. NoFiles \in Files /\ manifest.log \in Nat
    BY <1>2, Bounds DEF NoFiles, Files
  <2> QED BY <1>2, <2>1 DEF AnEdit
<1>6. PhaseOK'
  <2>1. /\ phase = "down" /\ phase' = "replaying" /\ next' > 0
        /\ UNCHANGED <<memVars, clientVars, job, bgError>>
    BY <1>2
  <2> HIDE DEF Recover
  <2> QED BY <1>5, <2>1 DEF PhaseOK, clientVars, memVars
<1> QED BY <1>1, <1>3, <1>4, <1>6

\* The table of a log has a number that is not in use, if the log has entries.
LEMMA TablesForIs ==
  \A n \in DOMAIN logs : \A made \in TablesFor(n) :
    /\ made \subseteq {next} /\ (made # {} => Readable(logs[n]) # {})
    /\ "replay" \notin Faults => made = TableFor(Readable(logs[n]))
BY DEF TablesFor, TableFor

LEMMA RecoverLogFileTypes ==
  ASSUME Types, RecoverLogFile PROVE Types'
<1> DEFINE E(n) == Readable(logs[n])
<1>1. PICK n \in DOMAIN logs : \E made \in TablesFor(n) :
        /\ edit.log <= n /\ made \subseteq FileNumber
        /\ tables' = [m \in DOMAIN tables \cup made |->
                        IF m \in made THEN E(n) ELSE tables[m]]
        /\ next' = MarkUsed(IF E(n) = {} THEN next ELSE next + 1, n)
        /\ last' = Largest({last} \cup {e.seq : e \in E(n)})
        /\ edit' = [edit EXCEPT !.add = At(0, @[0] \cup made), !.log = n + 1]
  BY DEF RecoverLogFile
<1>0. PICK made \in TablesFor(n) :
        /\ edit.log <= n /\ made \subseteq FileNumber
        /\ tables' = [m \in DOMAIN tables \cup made |->
                        IF m \in made THEN E(n) ELSE tables[m]]
        /\ next' = MarkUsed(IF E(n) = {} THEN next ELSE next + 1, n)
        /\ last' = Largest({last} \cup {e.seq : e \in E(n)})
        /\ edit' = [edit EXCEPT !.add = At(0, @[0] \cup made), !.log = n + 1]
  BY <1>1
<1>2. /\ phase = "replaying" /\ phase' = phase
      /\ UNCHANGED <<logs, synced, manifest, memVars, logNumber, current,
                     clientVars, job, bgError, observers>>
  BY DEF RecoverLogFile
<1>3. E(n) \subseteq Entry /\ (made # {} => E(n) # {})
  BY TablesForIs, ReadableIs DEF LogsOK
<1>4. n \in FileNumber /\ n \in Nat BY DEF LogsOK, FileNumber
<1> HIDE DEF E
<1>5. TablesOK' BY <1>0, <1>3 DEF TablesOK
<1>6. LogsOK' /\ ManifestOK' /\ ClientsOK'
  BY <1>2, Same DEF clientVars, observers
<1>7. last' \in Seq0
  <2>1. \A s \in {last} \cup {e.seq : e \in E(n)} : s \in 0..MaxSeq
    BY <1>3, Bounds DEF MemOK, Entry, Seqs
  <2> QED BY <2>1, <1>0, Bounds, LargestExists
<1>8. next' \in Nat BY <1>0, <1>4 DEF MarkUsed, MemOK
<1>9. MemOK' BY <1>2, <1>7, <1>8 DEF MemOK, memVars, observers
<1>10. edit' \in AnEdit /\ edit'.kind = "open"
  <2>1. edit \in AnEdit /\ edit.kind = "open" BY <1>2 DEF PhaseOK
  <2>2. edit.add[0] \cup made \in SUBSET FileNumber
    BY <2>1, <1>0, Bounds DEF AnEdit, Files
  <2> DEFINE a == At(0, edit.add[0] \cup made)
             m == n + 1
  <2>3. a \in Files /\ m \in Nat BY <1>4, <2>2, Bounds, AtIs
  <2>4. edit' = [edit EXCEPT !.add = a, !.log = m] BY <1>0
  <2> HIDE DEF a, m
  <2>5. [edit EXCEPT !.add = a, !.log = m] \in AnEdit
        /\ [edit EXCEPT !.add = a, !.log = m].kind = edit.kind
    BY <2>1, <2>3, EditGrows
  <2> QED BY <2>1, <2>4, <2>5
<1>11. PhaseOK'
  <2>1. next' > 0 BY <1>0, <1>4 DEF MarkUsed, MemOK
  <2> QED BY <1>2, <1>10, <2>1 DEF PhaseOK, clientVars, memVars
<1> QED BY <1>5, <1>6, <1>9, <1>11

\* A new log, of a start or of a memtable.
LEMMA WithLog ==
  ASSUME LogsOK, NEW n \in FileNumber,
         logs' = With(logs, n, <<>>), synced' = With(synced, n, 0)
  PROVE  LogsOK'
<1>1. <<>> \in Log /\ Len(<<>>) = 0 BY DEF Log
<1> QED BY <1>1 DEF LogsOK, With

LEMMA NewLogTypes ==
  ASSUME Types, NewLog PROVE Types'
<1> USE DEF NewLog
<1>1. edit \in AnEdit /\ edit.kind = "open" /\ ~bgError BY DEF PhaseOK
<1>2. next \in FileNumber /\ next \in Nat /\ next' = next + 1
  BY Bounds DEF FileNumber, PhaseOK, MemOK
<1>3. LogsOK' /\ TablesOK' /\ ManifestOK' /\ ClientsOK'
  BY <1>2, WithLog, Same DEF clientVars, observers
<1>4. MemOK'
  <2>1. /\ logfile' = next /\ next \in File0
        /\ UNCHANGED <<mem, imm, logNumber, last, current, crashes>>
    BY <1>2 DEF observers, File0
  <2> HIDE DEF NewLog
  <2> QED BY <1>2, <2>1 DEF MemOK
<1>5. /\ edit' \in AnEdit /\ edit'.kind = "open" /\ edit'.log \in File0
  <2> DEFINE m == next + 1
  <2>1. m \in Nat /\ last \in Seq0 /\ next \in File0 BY <1>2 DEF MemOK, File0
  <2>2. edit' = [edit EXCEPT !.log = next, !.next = m, !.last = last] OBVIOUS
  <2> HIDE DEF m, NewLog
  <2>3. /\ [edit EXCEPT !.log = next, !.next = m, !.last = last] \in AnEdit
        /\ [edit EXCEPT !.log = next, !.next = m, !.last = last].kind = edit.kind
    BY <1>1, <1>2, <2>1 DEF AnEdit
  <2>4. edit'.log = next BY <1>1, <2>2 DEF AnEdit
  <2> QED BY <1>1, <2>1, <2>2, <2>3, <2>4
<1>6. PhaseOK'
  <2>1. /\ phase = "replaying" /\ phase' = "opening"
        /\ UNCHANGED <<mem, imm, clientVars, job, bgError>>
    OBVIOUS
  <2> HIDE DEF NewLog
  <2> QED BY <1>2, <1>5, <2>1 DEF PhaseOK, clientVars
<1> QED BY <1>3, <1>4, <1>6

LEMMA OpenDoneTypes ==
  ASSUME Types, OpenDone PROVE Types'
<1>1. /\ phase = "opening" /\ phase' = "up" /\ manifest' = Written
      /\ current' = Apply(current, edit) /\ logNumber' = edit.log
      /\ edit' = None /\ UNCHANGED bgError
      /\ DeleteObsoleteFiles(AllFiles(current'), edit.log)
      /\ UNCHANGED <<memVars, next, last, clientVars, job, observers>>
  BY DEF OpenDone
<1>2. /\ edit \in AnEdit /\ edit.log \in File0 /\ current \in Files
  BY <1>1 DEF PhaseOK, MemOK, AnEdit
<1>3. LogsOK' /\ TablesOK' BY <1>1, SweepTypes
<1>4. ManifestOK' BY <1>1, <1>2, WrittenIs DEF ManifestOK
<1>5. MemOK' BY <1>1, <1>2, ApplyIs DEF MemOK, memVars, observers
<1>6. ClientsOK' BY <1>1, Same DEF observers
<1>7. PhaseOK' BY <1>1, NoneIsNone DEF PhaseOK
<1> QED BY <1>3, <1>4, <1>5, <1>6, <1>7

--------------------
\* Writes keep the types.
LEMMA SwitchTypes ==
  ASSUME Types, SwitchMemTable PROVE Types'
<1>1. /\ phase = "up" /\ next <= MaxFile
      /\ logs' = With(logs, next, <<>>) /\ synced' = With(synced, next, 0)
      /\ logfile' = next /\ next' = next + 1 /\ imm' = mem /\ mem' = {}
      /\ UNCHANGED <<tables, manifest, phase, logNumber, last, current,
                     clientVars, job, edit, bgError, observers>>
  BY DEF SwitchMemTable, Ready
<1>2. next \in FileNumber /\ next \in Nat
  BY <1>1, Bounds DEF FileNumber, PhaseOK, MemOK
<1>3. LogsOK' /\ TablesOK' /\ ManifestOK' /\ ClientsOK'
  BY <1>1, <1>2, WithLog, Same DEF observers
<1>4. MemOK' BY <1>1, <1>2 DEF MemOK, observers, File0
<1>5. PhaseOK' BY <1>1, <1>2 DEF PhaseOK, clientVars
<1> QED BY <1>3, <1>4, <1>5

LEMMA LogIs ==
  ASSUME NEW l \in Log
  PROVE  /\ Len(l) \in Nat /\ DOMAIN l = 1..Len(l)
         /\ \A i \in 1..Len(l) : l[i].entry \in Entry /\ l[i].entry.seq \in Seqs
<1> DEFINE R == [entry : Entry, torn : BOOLEAN]
<1>1. \A r \in R : r.entry \in Entry /\ r.entry.seq \in Seqs BY DEF Entry
<1>2. Log = Seq(R) BY DEF Log
<1> HIDE DEF R
<1> QED BY <1>1, <1>2

LEMMA RecordIs ==
  ASSUME NEW e \in Entry, NEW torn \in BOOLEAN
  PROVE  /\ <<Record(e, torn)>> \in Log
         /\ \A l \in Log : Append(l, Record(e, torn)) = l \o <<Record(e, torn)>>
<1> DEFINE R == [entry : Entry, torn : BOOLEAN]
<1>1. Record(e, torn) \in R BY DEF Record
<1>2. Log = Seq(R) BY DEF Log
<1> HIDE DEF R
<1> QED BY <1>1, <1>2

\* A record may be added to the log.
LEMMA AppendTypes ==
  ASSUME LogsOK, NEW left \in Log,
         logs' = [logs EXCEPT ![logfile] = @ \o left], UNCHANGED synced
  PROVE  LogsOK'
<1>1. ASSUME NEW n \in DOMAIN logs, n = logfile
      PROVE  logs'[n] \in Log /\ synced[n] \in 0..Len(logs'[n])
  <2>1. logs'[n] = logs[n] \o left /\ logs[n] \in Log BY <1>1 DEF LogsOK
  <2>2. logs[n] \o left \in Log BY <2>1 DEF Log
  <2>3. /\ Len(logs[n] \o left) = Len(logs[n]) + Len(left)
        /\ Len(logs[n]) \in Nat /\ Len(left) \in Nat
    BY <2>1 DEF Log
  <2> QED BY <2>1, <2>2, <2>3 DEF LogsOK
<1> QED BY <1>1 DEF LogsOK

LEMMA EntryIs ==
  ASSUME MemOK, last < MaxSeq, NEW k \in Key, NEW del \in BOOLEAN
  PROVE  /\ [key |-> k, seq |-> last + 1, del |-> del] \in Entry
         /\ last + 1 \in Seqs /\ last + 1 \in Seq0
BY Bounds DEF MemOK, Entry, Seqs

LEMMA AddRecordTypes ==
  ASSUME Types, NEW k \in Key, NEW del \in Deletes, NEW sync \in SyncOptions,
         AddRecord(k, del, sync)
  PROVE  Types'
<1> DEFINE e == [key |-> k, seq |-> last + 1, del |-> del]
<1>1. /\ phase = "up" /\ last < MaxSeq
      /\ logs' = [logs EXCEPT ![logfile] = Append(@, Record(e, FALSE))]
      /\ writer' = [entry |-> e, sync |-> sync]
      /\ hist' = [hist EXCEPT ![e.seq] =
           [key |-> k, del |-> del, sync |-> sync, state |-> "pending"]]
      /\ UNCHANGED <<synced, tables, manifest, phase, memVars, versionVars, held,
                     reader, job, edit, bgError, crashes>>
  BY DEF AddRecord, Ready
<1>2. e \in Entry /\ e.seq \in Seqs /\ del \in BOOLEAN /\ sync \in BOOLEAN
  BY <1>1, EntryIs, Bounds
<1> HIDE DEF e
<1>3. LogsOK'
  <2>1. /\ <<Record(e, FALSE)>> \in Log
        /\ \A l \in Log :
             Append(l, Record(e, FALSE)) = l \o <<Record(e, FALSE)>>
    BY <1>2, RecordIs
  <2>3. logs' = [logs EXCEPT ![logfile] = @ \o <<Record(e, FALSE)>>]
    BY <1>1, <2>1 DEF LogsOK
  <2> QED BY <1>1, <2>1, <2>3, AppendTypes
<1>4. TablesOK' /\ ManifestOK' /\ MemOK' BY <1>1, Same
<1>5. ClientsOK'
  <2>1. writer' \in [entry : Entry, sync : BOOLEAN] BY <1>1, <1>2
  <2>2. hist' \in [Seqs -> {None} \cup AWrite]
    BY <1>1, <1>2 DEF ClientsOK, AWrite
  <2>3. hist'[e.seq] \in AWrite /\ writer'.entry = e
    BY <1>1, <1>2 DEF ClientsOK, AWrite
  <2> QED BY <1>1, <2>1, <2>2, <2>3 DEF ClientsOK
<1>6. PhaseOK' BY <1>1 DEF PhaseOK, versionVars
<1> QED BY <1>3, <1>4, <1>5, <1>6

LEMMA AddRecordFailsTypes ==
  ASSUME Types, NEW k \in Key, NEW del \in Deletes, NEW sync \in SyncOptions,
         AddRecordFails(k, del, sync)
  PROVE  Types'
<1> DEFINE e == [key |-> k, seq |-> last + 1, del |-> del]
<1>1. /\ phase = "up" /\ last < MaxSeq
      /\ \E left \in {<<>>, <<Record(e, FALSE)>>, <<Record(e, TRUE)>>} :
           logs' = [logs EXCEPT ![logfile] = @ \o left]
      /\ last' = e.seq
      /\ hist' = [hist EXCEPT ![e.seq] =
           [key |-> k, del |-> del, sync |-> sync, state |-> "failed"]]
      /\ UNCHANGED <<synced, tables, manifest, phase, memVars, logNumber, next,
                     current, clientVars, job, edit, bgError, crashes>>
  BY DEF AddRecordFails, Ready
<1>2. e \in Entry /\ e.seq \in Seqs /\ e.seq \in Seq0
      /\ del \in BOOLEAN /\ sync \in BOOLEAN
  BY <1>1, EntryIs, Bounds
<1> HIDE DEF e
<1>3. LogsOK'
  <2>1. \A left \in {<<>>, <<Record(e, FALSE)>>, <<Record(e, TRUE)>>} : left \in Log
    <3>1. <<>> \in Log BY DEF Log
    <3> QED BY <1>2, <3>1, RecordIs
  <2> QED BY <1>1, <2>1, AppendTypes
<1>4. TablesOK' /\ ManifestOK' BY <1>1, Same
<1>5. MemOK' BY <1>1, <1>2 DEF MemOK, memVars
<1>6. ClientsOK'
  <2>1. hist' \in [Seqs -> {None} \cup AWrite]
    BY <1>1, <1>2 DEF ClientsOK, AWrite
  <2>2. writer = None BY DEF AddRecordFails, Ready
  <2> QED BY <1>1, <2>1, <2>2 DEF ClientsOK, clientVars
<1>7. PhaseOK' BY <1>1 DEF PhaseOK, memVars, clientVars
<1> QED BY <1>3, <1>4, <1>5, <1>6, <1>7

LEMMA WriterIs ==
  ASSUME Types, writer # None
  PROVE  /\ writer.entry \in Entry /\ writer.entry.seq \in Seqs
         /\ writer.entry.seq \in Seq0 /\ writer.sync \in BOOLEAN
         /\ hist[writer.entry.seq] \in AWrite
<1>1. writer.entry \in Entry /\ writer.sync \in BOOLEAN BY DEF ClientsOK
<1> QED BY <1>1 DEF Entry, Seq0, ClientsOK

\* The state of a write in the history changes.
LEMMA HistIs ==
  ASSUME ClientsOK, NEW s \in Seqs, NEW st \in {"done", "failed"},
         hist' = [hist EXCEPT ![s].state = st],
         hist[s] \in AWrite
  PROVE  /\ hist' \in [Seqs -> {None} \cup AWrite]
         /\ \A t \in Seqs : t # s => hist'[t] = hist[t]
         /\ hist'[s] = [hist[s] EXCEPT !.state = st]
         /\ hist'[s] \in AWrite /\ hist'[s].sync = hist[s].sync
         /\ hist'[s].state = st
<1>1. /\ [hist[s] EXCEPT !.state = st] \in AWrite
      /\ [hist[s] EXCEPT !.state = st].sync = hist[s].sync
      /\ [hist[s] EXCEPT !.state = st].state = st
  BY DEF AWrite
<1>2. hist' = [hist EXCEPT ![s] = [hist[s] EXCEPT !.state = st]] OBVIOUS
<1> QED BY <1>1, <1>2 DEF ClientsOK

LEMMA WriteDoneTypes ==
  ASSUME Types, WriteDone PROVE Types'
<1>1. /\ phase = "up" /\ writer # None
      /\ synced' = LogSync(writer.sync)
      /\ mem' = mem \cup {writer.entry}
      /\ last' = writer.entry.seq
      /\ hist' = [hist EXCEPT ![writer.entry.seq].state = "done"]
      /\ writer' = None
      /\ UNCHANGED <<logs, tables, manifest, phase, imm, logfile, logNumber, next,
                     current, held, reader, job, edit, bgError, crashes>>
  BY DEF WriteDone
<1>2. /\ writer.entry \in Entry /\ writer.entry.seq \in Seqs
      /\ writer.entry.seq \in Seq0 /\ hist[writer.entry.seq] \in AWrite
  BY <1>1, WriterIs
<1>3. LogsOK'
  <2>1. \A n \in DOMAIN logs : Len(logs[n]) \in 0..Len(logs[n])
    BY LogIs DEF LogsOK
  <2> QED BY <1>1, <2>1 DEF LogsOK, LogSync
<1>4. TablesOK' /\ ManifestOK' BY <1>1, Same
<1>5. MemOK' BY <1>1, <1>2 DEF MemOK
<1>6. ClientsOK' BY <1>1, <1>2, HistIs DEF ClientsOK
<1>7. PhaseOK' BY <1>1 DEF PhaseOK
<1> QED BY <1>3, <1>4, <1>5, <1>6, <1>7

LEMMA SyncFailsTypes ==
  ASSUME Types, SyncFails PROVE Types'
<1>1. /\ phase = "up" /\ writer # None
      /\ last' = writer.entry.seq
      /\ hist' = [hist EXCEPT ![writer.entry.seq].state = "failed"]
      /\ writer' = None /\ bgError' = TRUE
      /\ UNCHANGED <<diskVars, phase, memVars, logNumber, next, current, held,
                     reader, job, edit, crashes>>
  BY DEF SyncFails
<1>2. /\ writer.entry.seq \in Seqs
      /\ writer.entry.seq \in Seq0 /\ hist[writer.entry.seq] \in AWrite
  BY <1>1, WriterIs
<1>3. LogsOK' /\ TablesOK' /\ ManifestOK' BY <1>1, Same DEF diskVars
<1>4. MemOK' BY <1>1, <1>2 DEF MemOK, memVars
<1>5. ClientsOK' BY <1>1, <1>2, HistIs DEF ClientsOK
<1>6. PhaseOK' BY <1>1 DEF PhaseOK, memVars
<1> QED BY <1>3, <1>4, <1>5, <1>6

--------------------
\* Snapshots and readers keep the types.
LEMMA HoldersTypes ==
  ASSUME Types,
         GetSnapshot \/ (\E s \in Seq0 : ReleaseSnapshot(s)) \/ StartRead \/ EndRead
  PROVE  Types'
<1>1. UNCHANGED <<diskVars, phase, memVars, versionVars, writer, job, edit,
                bgError, observers>>
  BY DEF GetSnapshot, ReleaseSnapshot, StartRead, EndRead
<1>2. held' \subseteq Seq0
  BY DEF GetSnapshot, ReleaseSnapshot, StartRead, EndRead, MemOK, ClientsOK
<1>3. reader' = None \/ reader' \in AReader
  <2>1. CASE StartRead
    <3>1. reader' = [seq |-> last, mem |-> mem, imm |-> imm, files |-> current]
      BY <2>1 DEF StartRead
    <3> QED BY <3>1 DEF MemOK, AReader
  <2>2. CASE ~StartRead
    BY <2>2 DEF GetSnapshot, ReleaseSnapshot, EndRead, ClientsOK
  <2> QED BY <2>1, <2>2
<1>4. LogsOK' /\ TablesOK' /\ ManifestOK' /\ MemOK'
  BY <1>1, Same DEF diskVars, observers
<1>5. ClientsOK' BY <1>1, <1>2, <1>3 DEF ClientsOK, observers
<1>6. PhaseOK'
  <2>1. phase # "up" => held' = {} /\ reader' = None
    BY DEF GetSnapshot, ReleaseSnapshot, StartRead, EndRead, PhaseOK
  <2> QED BY <1>1, <2>1 DEF PhaseOK, memVars, versionVars
<1> QED BY <1>4, <1>5, <1>6

--------------------
\* The background thread keeps the types.
LEMMA WriteLevel0TableTypes ==
  ASSUME Types, WriteLevel0Table PROVE Types'
<1>1. /\ phase = "up" /\ imm # {} /\ edit = None /\ next <= MaxFile
      /\ tables' = With(tables, next, imm) /\ next' = next + 1
      /\ UNCHANGED <<logs, synced, manifest, phase, memVars, logNumber, last,
                     current, clientVars, job, bgError, observers>>
  BY DEF WriteLevel0Table
<1>2. PICK l \in 0..MaxMemLevel :
        edit' = MemTableEdit(l)
  BY DEF WriteLevel0Table, PickLevels
<1>3. next \in FileNumber /\ next \in Nat /\ l \in Level
  BY <1>1, Bounds DEF FileNumber, PhaseOK, MemOK, Level
<1>4. edit' \in AnEdit /\ edit'.kind = "memtable" /\ edit'.log \in File0
  <2> DEFINE a == At(l, {next})
             m == next + 1
  <2>1. a \in Files /\ NoFiles \in Files /\ m \in Nat BY <1>3, AtIs
  <2>2. logfile \in Nat /\ logfile \in File0 /\ last \in Seq0
    BY Bounds DEF MemOK
  <2>3. edit' = [kind |-> "memtable", add |-> a, del |-> NoFiles,
                 log |-> logfile, next |-> m, last |-> last]
    BY <1>2
  <2> HIDE DEF a, m
  <2> QED BY <2>1, <2>2, <2>3 DEF AnEdit
<1>5. TablesOK' BY <1>1, <1>3 DEF TablesOK, With, MemOK
<1>6. LogsOK' /\ ManifestOK' /\ ClientsOK' BY <1>1, Same DEF observers
<1>7. MemOK' BY <1>1, <1>3 DEF MemOK, memVars, observers
<1>8. PhaseOK' BY <1>1, <1>3, <1>4 DEF PhaseOK, memVars, clientVars
<1> QED BY <1>5, <1>6, <1>7, <1>8

LEMMA SeedsIn ==
  ASSUME current \in Files, NEW l \in 0..(NumLevels - 2), NEW seed \in Seeds(l)
  PROVE  l \in Level /\ l + 1 \in Level /\ seed \subseteq current[l]
<1>1. l \in Level /\ l + 1 \in Level BY Bounds DEF Level
<1>2. \A ks : Inputs(current, l, ks) \subseteq current[l] BY <1>1, InputsIn
<1>3. \/ \E n \in current[l] : seed = {n}
      \/ \E ks : seed = Inputs(current, l, ks)
  BY DEF Seeds
<1> QED BY <1>1, <1>2, <1>3

LEMMA OtherInputsIn ==
  ASSUME current \in Files, NEW l \in Level, l + 1 \in Level,
         NEW ns \in SUBSET current[l], NEW in \in OtherInputs(l, ns)
  PROVE  /\ in[1] \subseteq current[l] /\ in[2] \subseteq current[l + 1]
         /\ current[l] \subseteq FileNumber /\ current[l + 1] \subseteq FileNumber
<1>1. \A ks : Inputs(current, l, ks) \subseteq current[l] BY InputsIn
<1>2. \A ks : Inputs(current, l + 1, ks) \subseteq current[l + 1] BY InputsIn
<1>3. in \in {<<ns, Inputs(current, l + 1, RangeOf(ns))>>,
              <<Inputs(current, l, RangeOf(
                  ns \cup Inputs(current, l + 1, RangeOf(ns)))),
                Inputs(current, l + 1, RangeOf(ns))>>}
  BY DEF OtherInputs
<1>4. in[1] \subseteq current[l] /\ in[2] \subseteq current[l + 1]
  BY <1>1, <1>2, <1>3
<1> QED BY <1>4, InputsIn

LEMMA SmallestSnapshotIs ==
  ASSUME MemOK, ClientsOK PROVE SmallestSnapshot \in Seq0
<1>1. CASE held = {} BY <1>1 DEF SmallestSnapshot, MemOK
<1>2. CASE held # {}
  <2>1. held \in SUBSET Nat BY Bounds DEF ClientsOK
  <2>2. \E s \in held : \A t \in held : s <= t BY <1>2, <2>1, SmallestExists
  <2> QED BY <1>2, <2>2 DEF SmallestSnapshot, ClientsOK
<1> QED BY <1>1, <1>2

\* What a compaction begins with.
LEMMA StartIs ==
  ASSUME Types, StartCompaction
  PROVE  /\ phase = "up" /\ imm = {} /\ job = None /\ edit = None /\ ~bgError
         /\ UNCHANGED <<diskVars, phase, memVars, versionVars, clientVars, edit,
                        bgError, observers>>
         /\ \E l \in 0..(NumLevels - 2) : \E seed \in Seeds(l) :
              \E in \in OtherInputs(l, seed) :
                /\ l \in Level /\ l + 1 \in Level
                /\ seed \subseteq current[l]
                /\ in[1] \subseteq current[l] /\ in[2] \subseteq current[l + 1]
                /\ job' \in AJob
                /\ job' = [level |-> l, above |-> in[1], below |-> in[2],
                           base |-> current, smallest |-> SmallestSnapshot,
                           outputs |-> {}, built |-> FALSE]
<1>1. /\ phase = "up" /\ imm = {} /\ job = None /\ edit = None /\ ~bgError
      /\ UNCHANGED <<diskVars, phase, memVars, versionVars, clientVars, edit,
                     bgError, observers>>
  BY DEF StartCompaction, Idle
<1> DEFINE Start(l, in) ==
             job' = [level |-> l, above |-> in[1], below |-> in[2],
                     base |-> current, smallest |-> SmallestSnapshot,
                     outputs |-> {}, built |-> FALSE]
<1>7. PICK l \in 0..(NumLevels - 2) :
        \E seed \in Seeds(l) : \E in \in OtherInputs(l, seed) : Start(l, in)
  BY DEF StartCompaction
<1>8. PICK seed \in Seeds(l) : \E in \in OtherInputs(l, seed) : Start(l, in)
  BY <1>7
<1>2. PICK in \in OtherInputs(l, seed) : Start(l, in) BY <1>8
<1>3. current \in Files /\ SmallestSnapshot \in Seq0
  BY SmallestSnapshotIs DEF MemOK
<1>4. l \in Level /\ l + 1 \in Level /\ seed \subseteq current[l]
  BY <1>3, SeedsIn
<1>5. /\ in[1] \subseteq current[l] /\ in[2] \subseteq current[l + 1]
      /\ current[l] \subseteq FileNumber /\ current[l + 1] \subseteq FileNumber
  BY <1>3, <1>4, OtherInputsIn
<1>6. job' \in AJob BY <1>2, <1>3, <1>5 DEF AJob
<1> QED BY <1>1, <1>2, <1>4, <1>5, <1>6

LEMMA StartCompactionTypes ==
  ASSUME Types, StartCompaction PROVE Types'
<1>1. /\ phase = "up" /\ job' \in AJob
      /\ UNCHANGED <<diskVars, phase, memVars, versionVars, clientVars, edit,
                     bgError, observers>>
  BY StartIs
<1>2. LogsOK' /\ TablesOK' /\ ManifestOK' /\ MemOK'
  BY <1>1, Same DEF diskVars, observers
<1>3. ClientsOK' BY <1>1 DEF ClientsOK, clientVars, observers
<1>4. PhaseOK' BY <1>1 DEF PhaseOK, memVars, versionVars, clientVars
<1> QED BY <1>2, <1>3, <1>4

LEMMA TrivialMoveTypes ==
  ASSUME Types, TrivialMove PROVE Types'
<1>1. /\ phase = "up"
      /\ UNCHANGED <<diskVars, phase, memVars, versionVars, clientVars, job,
                     bgError, observers>>
  BY DEF TrivialMove, Idle
<1>7. PICK l \in 0..(NumLevels - 2) :
        \E n \in current[l] : edit' = MoveEdit(l, n)
  BY DEF TrivialMove
<1>2. PICK n \in current[l] : edit' = MoveEdit(l, n)
  BY <1>7
<1>3. l \in Level /\ l + 1 \in Level /\ n \in FileNumber
  BY <1>2, Bounds DEF Level, MemOK, Files
<1>4. edit' \in AnEdit /\ edit'.kind = "move" /\ edit'.log \in File0
  <2> DEFINE a == At(l + 1, {n})
             d == At(l, {n})
  <2>1. a \in Files /\ d \in Files BY <1>3, AtIs
  <2>2. logNumber \in Nat /\ logNumber \in File0 /\ last \in Seq0 /\ next \in Nat
    BY Bounds DEF MemOK
  <2>3. edit' = [kind |-> "move", add |-> a, del |-> d,
                 log |-> logNumber, next |-> next, last |-> last]
    BY <1>2
  <2> HIDE DEF a, d
  <2> QED BY <2>1, <2>2, <2>3 DEF AnEdit
<1>5. LogsOK' /\ TablesOK' /\ ManifestOK' /\ MemOK' /\ ClientsOK'
  BY <1>1, Same DEF diskVars, observers
<1>6. PhaseOK' BY <1>1, <1>4 DEF PhaseOK, memVars, clientVars, versionVars
<1> QED BY <1>5, <1>6

LEMMA InstallTypes ==
  ASSUME Types, InstallCompactionResults PROVE Types'
<1>1. /\ phase = "up" /\ job # None /\ job.built
      /\ UNCHANGED <<diskVars, phase, memVars, versionVars, clientVars, job,
                     bgError, observers>>
      /\ edit' = CompactionEdit
  BY DEF InstallCompactionResults
<1>2. job \in AJob BY <1>1 DEF ClientsOK
<1>3. /\ job.level \in Level /\ job.level + 1 \in Level
      /\ job.above \subseteq FileNumber /\ job.below \subseteq FileNumber
      /\ job.outputs \subseteq FileNumber
  BY <1>2, Bounds DEF AJob, Level
<1>4. edit' \in AnEdit /\ edit'.kind = "compaction" /\ edit'.log \in File0
  <2> DEFINE a == At(job.level + 1, job.outputs)
             b == At(job.level, job.above)
             d == [b EXCEPT ![job.level + 1] = job.below]
  <2>1. a \in Files /\ b \in Files BY <1>3, AtIs
  <2>2. d \in Files
    <3> HIDE DEF b
    <3> QED BY <1>3, <2>1 DEF Files
  <2>3. logNumber \in Nat /\ logNumber \in File0 /\ last \in Seq0 /\ next \in Nat
    BY Bounds DEF MemOK
  <2>4. edit' = [kind |-> "compaction", add |-> a, del |-> d,
                 log |-> logNumber, next |-> next, last |-> last]
    BY <1>1
  <2> HIDE DEF a, b, d
  <2> QED BY <2>1, <2>2, <2>3, <2>4 DEF AnEdit
<1>5. LogsOK' /\ TablesOK' /\ ManifestOK' /\ MemOK' /\ ClientsOK'
  BY <1>1, Same DEF diskVars, observers
<1>6. PhaseOK' BY <1>1, <1>4 DEF PhaseOK, memVars, clientVars, versionVars
<1> QED BY <1>5, <1>6

LEMMA TableFailsTypes ==
  ASSUME Types, TableFails PROVE Types'
<1>1. /\ phase = "up" /\ bgError' = TRUE
      /\ UNCHANGED <<manifest, phase, memVars, versionVars, clientVars, edit,
                     observers>>
      /\ UNCHANGED <<tables, logs, synced>>
      /\ job' = None \/ job' = job
  BY DEF TableFails, DeleteObsoleteFiles
<1>2. LogsOK' /\ TablesOK' /\ ManifestOK' /\ MemOK' BY <1>1, Same DEF observers
<1>3. ClientsOK' BY <1>1 DEF ClientsOK, clientVars, observers
<1>4. PhaseOK' BY <1>1 DEF PhaseOK, memVars, versionVars, clientVars
<1> QED BY <1>2, <1>3, <1>4

LEMMA LogAndApplyTypes ==
  ASSUME Types, LogAndApply PROVE Types'
<1>1. /\ phase = "up" /\ edit # None /\ manifest' = Written
      /\ current' = Apply(current, edit) /\ logNumber' = edit.log
      /\ edit' = None /\ imm' \in {{}, imm} /\ job' \in {job, None}
      /\ UNCHANGED <<phase, mem, logfile, next, last, clientVars, bgError,
                     observers>>
      /\ \/ UNCHANGED <<tables, logs, synced>>
         \/ DeleteObsoleteFiles(Live(current', job'), edit.log)
  BY DEF LogAndApply
<1>2. edit \in AnEdit /\ edit.log \in File0 /\ current \in Files
  BY <1>1 DEF PhaseOK, MemOK
<1>3. LogsOK' /\ TablesOK'
  <2>1. CASE UNCHANGED <<tables, logs, synced>> BY <2>1, Same
  <2>2. CASE DeleteObsoleteFiles(Live(current', job'), edit.log)
    BY <2>2, SweepTypes
  <2> QED BY <1>1, <2>1, <2>2
<1>4. ManifestOK' BY <1>1, <1>2, WrittenIs DEF ManifestOK
<1>5. MemOK' BY <1>1, <1>2, ApplyIs DEF MemOK, observers
<1>6. ClientsOK' BY <1>1 DEF ClientsOK, clientVars, observers
<1>7. PhaseOK' BY <1>1, NoneIsNone DEF PhaseOK, clientVars
<1> QED BY <1>3, <1>4, <1>5, <1>6, <1>7

\* What is in the manifest after a record of it failed.
LEMMA FailedRecord ==
  ASSUME LogAndApplyFails
  PROVE  \/ manifest' \in {manifest, Written}
         \/ /\ "torn" \in Faults
            /\ \E torn \in {"tail", "inside"} :
                 /\ manifest' = [manifest EXCEPT !.torn = torn]
                 /\ torn = "tail" <=> manifest.torn = "no"
BY DEF LogAndApplyFails

LEMMA LogAndApplyFailsTypes ==
  ASSUME Types, LogAndApplyFails PROVE Types'
<1>1. /\ phase = "up" /\ edit # None /\ edit' = None /\ job' \in {job, None}
      /\ bgError' = TRUE
      /\ UNCHANGED <<phase, memVars, versionVars, clientVars, observers>>
      /\ UNCHANGED <<tables, logs, synced>>
  BY DEF LogAndApplyFails, DeleteObsoleteFiles
<1>2. edit \in AnEdit /\ edit.log \in File0 BY <1>1 DEF PhaseOK
<1>3. LogsOK' /\ TablesOK' /\ MemOK' BY <1>1, Same DEF observers
<1>4. ManifestOK'
  <2>1. CASE manifest' \in {manifest, Written}
    BY <2>1, <1>2, WrittenIs DEF ManifestOK
  <2>2. CASE \E torn \in {"tail", "inside"} :
                manifest' = [manifest EXCEPT !.torn = torn]
    BY <2>2 DEF ManifestOK
  <2> QED BY <2>1, <2>2, FailedRecord
<1>5. ClientsOK' BY <1>1 DEF ClientsOK, clientVars, observers
<1>6. PhaseOK'
  BY <1>1, NoneIsNone DEF PhaseOK, memVars, versionVars, clientVars
<1> QED BY <1>3, <1>4, <1>5, <1>6

\* What is left of the logs.
LEMMA KeepIs ==
  ASSUME LogsOK, NEW power \in BOOLEAN, NEW keep \in Survivors(power)
  PROVE  \A n \in DOMAIN logs :
           /\ keep[n] \in 0..Len(logs[n]) /\ Len(logs[n]) \in Nat
           /\ synced[n] <= keep[n] /\ synced[n] \in Nat
           /\ ~power => keep[n] = Len(logs[n])
           /\ SubSeq(logs[n], 1, keep[n]) \in Log
           /\ Len(SubSeq(logs[n], 1, keep[n])) = keep[n]
           /\ \A i \in 1..keep[n] : SubSeq(logs[n], 1, keep[n])[i] = logs[n][i]
<1> SUFFICES ASSUME NEW n \in DOMAIN logs
    PROVE  /\ keep[n] \in 0..Len(logs[n]) /\ Len(logs[n]) \in Nat
           /\ synced[n] <= keep[n] /\ synced[n] \in Nat
           /\ ~power => keep[n] = Len(logs[n])
           /\ SubSeq(logs[n], 1, keep[n]) \in Log
           /\ Len(SubSeq(logs[n], 1, keep[n])) = keep[n]
           /\ \A i \in 1..keep[n] : SubSeq(logs[n], 1, keep[n])[i] = logs[n][i]
  OBVIOUS
<1>1. /\ keep[n] \in 0..MaxSeq /\ keep[n] \in Nat
      /\ IF power THEN synced[n] <= keep[n] /\ keep[n] <= Len(logs[n])
         ELSE keep[n] = Len(logs[n])
  BY Bounds DEF Survivors
<1>2. logs[n] \in Log /\ Len(logs[n]) \in Nat /\ synced[n] \in 0..Len(logs[n])
  BY LogIs DEF LogsOK
<1>3. /\ SubSeq(logs[n], 1, keep[n]) \in Log
      /\ Len(SubSeq(logs[n], 1, keep[n])) = keep[n]
      /\ \A i \in 1..keep[n] : SubSeq(logs[n], 1, keep[n])[i] = logs[n][i]
  <2> DEFINE R == [entry : Entry, torn : BOOLEAN]
  <2>1. logs[n] \in Seq(R) /\ keep[n] <= Len(logs[n]) /\ Log = Seq(R)
    BY <1>1, <1>2 DEF Log
  <2> HIDE DEF R
  <2> QED BY <1>1, <2>1
<1> QED BY <1>1, <1>2, <1>3

LEMMA AfterIs ==
  ASSUME ClientsOK, NEW m, NEW keep
  PROVE  /\ After(m, keep) \in [Seqs -> {None} \cup AWrite]
         /\ \A s \in Seqs : After(m, keep)[s] # None =>
              /\ hist[s] # None
              /\ After(m, keep)[s].sync = (hist[s].sync /\ hist[s].state = "done")
<1> DEFINE A == After(m, keep)
<1>1. A = [s \in Seqs |-> A[s]] BY DEF After
<1>2. ASSUME NEW s \in Seqs, A[s] # None
      PROVE  /\ hist[s] # None /\ A[s] \in AWrite
             /\ A[s].sync = (hist[s].sync /\ hist[s].state = "done")
  <2>1. hist[s] # None /\
        A[s] = [hist[s] EXCEPT !.state = "done",
                               !.sync = @ /\ hist[s].state = "done"]
    BY <1>2 DEF After
  <2>2. hist[s] \in AWrite BY <2>1 DEF ClientsOK
  <2> DEFINE y == hist[s].sync /\ hist[s].state = "done"
  <2>3. A[s] = [hist[s] EXCEPT !.state = "done", !.sync = y] BY <2>1
  <2>4. y \in BOOLEAN OBVIOUS
  <2> HIDE DEF y, A
  <2>5. A[s] \in AWrite /\ A[s].sync = y BY <2>2, <2>3, <2>4 DEF AWrite
  <2> QED BY <2>1, <2>5 DEF y
<1>3. A \in [Seqs -> {None} \cup AWrite]
  <2> HIDE DEF A
  <2>1. \A s \in Seqs : A[s] \in {None} \cup AWrite BY <1>2
  <2> QED BY <1>1, <2>1
<1> QED BY <1>2, <1>3

LEMMA CrashIs ==
  ASSUME Types, Ending PROVE LeftBehind
<1>1. CASE Crash
  <2>1. /\ phase # "down" /\ crashes' \in crashes..MaxEnds
        /\ \/ manifest' = manifest
           \/ /\ edit # None /\ phase # "replaying" /\ manifest' = Written
    BY <1>1, LevelStoreAssumption DEF Crash, MemOK
  <2>2. \E power \in BOOLEAN : \E keep \in Survivors(power) : LogsCut(power, keep)
    <3>1. (IF "power" \in Faults THEN BOOLEAN ELSE {FALSE}) \subseteq BOOLEAN
      OBVIOUS
    <3> QED BY <1>1, <3>1 DEF Crash
  <2> QED BY <1>1, <2>1, <2>2 DEF Crash
<1>2. CASE OpenFails
  <2>1. crashes' \in crashes..MaxEnds BY <1>2, LevelStoreAssumption DEF OpenFails, MemOK
  <2> QED BY <1>2, <2>1 DEF OpenFails, diskVars
<1> QED BY <1>1, <1>2

LEMMA CrashTypes ==
  ASSUME Types, Ending PROVE Types'
<1>1. LogsOK' /\ hist' \in [Seqs -> {None} \cup AWrite]
  <2>1. CASE UNCHANGED <<logs, synced, hist>> BY <2>1, Same DEF ClientsOK
  <2>2. ASSUME NEW power \in BOOLEAN, NEW keep \in Survivors(power),
               LogsCut(power, keep)
        PROVE  LogsOK' /\ hist' \in [Seqs -> {None} \cup AWrite]
    <3>1. \A n \in DOMAIN logs : logs'[n] \in Log /\ synced'[n] \in 0..Len(logs'[n])
      BY <2>2, KeepIs
    <3>2. LogsOK' BY <2>2, <3>1 DEF LogsOK
    <3> QED BY <2>2, <3>2, AfterIs
  <2> QED BY <2>1, <2>2, CrashIs
<1>4. TablesOK' BY CrashIs, Same
<1>5. ManifestOK'
  <2>1. CASE manifest' = manifest BY <2>1, Same
  <2>2. CASE edit # None /\ phase # "replaying" /\ manifest' = Written
    <3>1. edit \in AnEdit /\ edit.log \in File0 BY <2>2 DEF PhaseOK
    <3> QED BY <2>2, <3>1, WrittenIs DEF ManifestOK
  <2> QED BY <2>1, <2>2, CrashIs
<1>6. MemOK'
  <2>1. NoFiles \in Files BY DEF NoFiles, Files
  <2>2. crashes' \in crashes..MaxEnds BY CrashIs
  <2>3. crashes' \in 0..MaxEnds BY <2>2, LevelStoreAssumption DEF MemOK
  <2>4. Gone BY CrashIs
  <2> HIDE DEF LeftBehind
  <2> QED BY <2>1, <2>3, <2>4, Bounds DEF MemOK
<1>7. ClientsOK' BY <1>1, CrashIs DEF ClientsOK
<1>8. PhaseOK' BY CrashIs, NoneIsNone DEF PhaseOK
<1> QED BY <1>1, <1>4, <1>5, <1>6, <1>7, <1>8

--------------------
\* No table is deleted that something may still need.

LEMMA FilesOf ==
  /\ \A fs \in Files, l \in Level : fs[l] \subseteq AllFiles(fs)
  /\ \A fs \in Files, e \in AnEdit :
       AllFiles(Apply(fs, e)) \subseteq AllFiles(fs) \cup AllFiles(e.add)
  /\ \A l \in Level : \A ns \in SUBSET FileNumber : AllFiles(At(l, ns)) = ns
  /\ AllFiles(NoFiles) = {}
<1>1. \A fs \in Files, l \in Level : fs[l] \subseteq AllFiles(fs)
  BY DEF AllFiles
<1>2. ASSUME NEW fs \in Files, NEW e \in AnEdit, NEW n \in AllFiles(Apply(fs, e))
      PROVE  n \in AllFiles(fs) \cup AllFiles(e.add)
  <2>1. PICK l \in Level : n \in Apply(fs, e)[l] BY DEF AllFiles
  <2>2. n \in fs[l] \cup e.add[l] BY <2>1, ApplyIs
  <2>3. e.add \in Files BY DEF AnEdit
  <2> QED BY <2>2, <2>3, <1>1
<1>3. ASSUME NEW l \in Level, NEW ns \in SUBSET FileNumber
      PROVE  AllFiles(At(l, ns)) = ns
  <2>1. \A n : n \in AllFiles(At(l, ns)) <=> \E j \in Level : n \in At(l, ns)[j]
    BY DEF AllFiles
  <2>2. \A n : n \in AllFiles(At(l, ns)) <=> n \in ns BY <2>1, AtIs
  <2> QED BY <2>2
<1>4. AllFiles(NoFiles) = {} BY DEF AllFiles, NoFiles
<1> QED BY <1>1, <1>2, <1>3, <1>4

LEMMA JobFiles ==
  ASSUME Types, FilesKept, job # None
  PROVE  /\ job \in AJob /\ job.level \in Level /\ job.level + 1 \in Level
         /\ job.above \subseteq DOMAIN tables /\ job.below \subseteq DOMAIN tables
         /\ job.outputs \subseteq DOMAIN tables
<1>1. job \in AJob BY DEF ClientsOK
<1>2. job.level \in Level /\ job.level + 1 \in Level /\ job.base \in Files
  BY <1>1, Bounds DEF AJob, Level
<1>3. /\ job.base[job.level] \subseteq AllFiles(job.base)
      /\ job.base[job.level + 1] \subseteq AllFiles(job.base)
  BY <1>2, FilesOf
<1> QED BY <1>1, <1>2, <1>3 DEF FilesKept, InTables

LEMMA MergedIn ==
  ASSUME Types, FilesKept, job # None
  PROVE  Merged \subseteq Entry /\ IsFiniteSet(Merged)
<1>1. \A n \in job.above \cup job.below : tables[n] \subseteq Entry
  BY JobFiles DEF TablesOK
<1>2. Merged \subseteq UNION {tables[n] : n \in job.above \cup job.below}
  BY DEF Merged, Kept
<1>3. Merged \subseteq Entry BY <1>1, <1>2
<1> QED BY <1>3, EntryFinite, FS_Subset

\* What a compaction writes, each output under a number of its own.
LEMMA OutputsAre ==
  ASSUME Types, FilesKept, WriteOutputs
  PROVE  /\ phase = "up" /\ job # None /\ edit = None /\ ~job.built
         /\ UNCHANGED <<logs, synced, manifest, phase, memVars, logNumber, last,
                        current, clientVars, edit, bgError, observers>>
         /\ next' \in Nat /\ next <= next'
         /\ \E ends \in Ends(Merged) : \E made \in SUBSET FileNumber :
              /\ \A n \in made : n >= next /\ n < next'
              /\ BuiltAs(ends, made)
<1>1. /\ phase = "up" /\ job # None /\ edit = None /\ ~job.built
      /\ UNCHANGED <<logs, synced, manifest, phase, memVars, logNumber, last,
                     current, clientVars, edit, bgError, observers>>
  BY DEF WriteOutputs
<1> DEFINE before(ends, e) == Cardinality({d \in ends : Precedes(d, e)})
           numbers(ends) == {next + before(ends, e) : e \in ends}
<1>2. PICK ends \in Ends(Merged) :
        /\ numbers(ends) \subseteq FileNumber
        /\ tables' = [n \in DOMAIN tables \cup numbers(ends) |->
             IF n \in numbers(ends)
             THEN Piece(Merged, ends,
                        CHOOSE e \in ends : next + before(ends, e) = n)
             ELSE tables[n]]
        /\ next' = next + Cardinality(ends)
        /\ job' = [job EXCEPT !.outputs = numbers(ends), !.built = TRUE]
  BY DEF WriteOutputs
<1>3. ends \subseteq Merged /\ IsFiniteSet(ends) /\ Cardinality(ends) \in Nat
  <2>1. ends \subseteq Merged BY DEF Ends
  <2> QED BY <1>1, <2>1, MergedIn, FS_Subset, FS_CardinalityType
<1>4. \A e \in ends : before(ends, e) \in Nat /\ before(ends, e) < Cardinality(ends)
  <2> SUFFICES ASSUME NEW e \in ends
               PROVE  before(ends, e) \in Nat /\ before(ends, e) < Cardinality(ends)
    OBVIOUS
  <2> DEFINE D == {d \in ends : Precedes(d, e)}
  <2>1. D \subseteq ends /\ e \notin D
    <3>1. e \in Entry BY <1>1, <1>3, MergedIn
    <3>2. ~Precedes(e, e) BY <3>1, Bounds DEF Precedes, AnyEntry
    <3> QED BY <3>2
  <2>2. /\ IsFiniteSet(D) /\ Cardinality(D) <= Cardinality(ends)
        /\ Cardinality(ends) = Cardinality(D) => ends = D
    <3> HIDE DEF D
    <3> QED BY <1>3, <2>1, FS_Subset
  <2>3. Cardinality(D) \in Nat BY <2>2, FS_CardinalityType
  <2> QED BY <1>3, <2>1, <2>2, <2>3
<1>5. next \in Nat BY DEF MemOK
<1> DEFINE made == numbers(ends)
<1>6. \A n \in made : n >= next /\ n < next'
  <2> SUFFICES ASSUME NEW e \in ends
               PROVE  /\ next + before(ends, e) >= next
                      /\ next + before(ends, e) < next'
    OBVIOUS
  <2> HIDE DEF before
  <2> QED BY <1>2, <1>3, <1>4, <1>5
<1>7. \A n \in made : \E e \in ends :
        /\ n = next + before(ends, e)
        /\ tables'[n] = Piece(Merged, ends, e)
  <2> SUFFICES ASSUME NEW n \in made
               PROVE  \E e \in ends : /\ n = next + before(ends, e)
                                      /\ tables'[n] = Piece(Merged, ends, e)
    OBVIOUS
  <2> DEFINE e == CHOOSE f \in ends : next + before(ends, f) = n
  <2>1. e \in ends /\ next + before(ends, e) = n
    <3>1. \E f \in ends : next + before(ends, f) = n OBVIOUS
    <3> HIDE DEF before
    <3> QED BY <3>1
  <2>2. tables'[n] = Piece(Merged, ends, e)
    <3> HIDE DEF before
    <3> QED BY <1>2
  <2> HIDE DEF e
  <2> QED BY <2>1, <2>2
<1>8. /\ DOMAIN tables' = DOMAIN tables \cup made
      /\ \A n \in DOMAIN tables \ made : tables'[n] = tables[n]
      /\ made \in SUBSET FileNumber
      /\ job' = [job EXCEPT !.outputs = made, !.built = TRUE]
  <2> HIDE DEF before
  <2> QED BY <1>2
<1>9. next' \in Nat /\ next <= next' BY <1>2, <1>3, <1>5
<1> HIDE DEF made
<1> QED BY <1>1, <1>6, <1>7, <1>8, <1>9

LEMMA WriteOutputsTypes ==
  ASSUME Types, FilesKept, WriteOutputs PROVE Types'
<1>1. /\ phase = "up" /\ job # None
      /\ UNCHANGED <<logs, synced, manifest, phase, memVars, logNumber, last,
                     current, clientVars, edit, bgError, observers>>
      /\ next' \in Nat /\ next <= next'
  BY OutputsAre
<1>8. PICK ends \in Ends(Merged) : \E made \in SUBSET FileNumber :
        /\ DOMAIN tables' = DOMAIN tables \cup made
        /\ \A n \in DOMAIN tables \ made : tables'[n] = tables[n]
        /\ \A n \in made : \E e \in ends : tables'[n] = Piece(Merged, ends, e)
        /\ job' = [job EXCEPT !.outputs = made, !.built = TRUE]
  <2>1. PICK ends \in Ends(Merged) : \E made \in SUBSET FileNumber : BuiltAs(ends, made)
    BY OutputsAre
  <2> QED BY <2>1
<1>2. PICK made \in SUBSET FileNumber :
        /\ DOMAIN tables' = DOMAIN tables \cup made
        /\ \A n \in DOMAIN tables \ made : tables'[n] = tables[n]
        /\ \A n \in made : \E e \in ends : tables'[n] = Piece(Merged, ends, e)
        /\ job' = [job EXCEPT !.outputs = made, !.built = TRUE]
  BY <1>8
<1>3. TablesOK'
  <2>1. ASSUME NEW e \in ends
        PROVE  /\ Piece(Merged, ends, e) \subseteq Entry
               /\ e \in Piece(Merged, ends, e)
    <3>1. e \in Merged /\ Merged \subseteq Entry BY <1>1, MergedIn DEF Ends
    <3>2. ~Precedes(e, e) BY <3>1, Bounds DEF Precedes, AnyEntry
    <3> QED BY <3>1, <3>2 DEF Piece
  <2>2. \A n \in made : tables'[n] \subseteq Entry /\ tables'[n] # {}
    BY <1>2, <2>1
  <2> QED BY <1>2, <2>2 DEF TablesOK
<1>4. LogsOK' /\ ManifestOK' BY <1>1, Same
<1>5. MemOK' BY <1>1 DEF MemOK, memVars, observers
<1>6. ClientsOK'
  <2>1. job' \in AJob BY <1>1, <1>2 DEF ClientsOK, AJob
  <2> QED BY <1>1, <2>1 DEF ClientsOK, clientVars, observers
<1>7. PhaseOK'
  <2>1. next' > 0 BY <1>1 DEF PhaseOK, MemOK
  <2> QED BY <1>1, <2>1 DEF PhaseOK, memVars, clientVars
<1> QED BY <1>3, <1>4, <1>5, <1>6, <1>7

--------------------
LEMMA InitFiles == Init => FilesKept
BY FilesOf, NoneIsNone DEF Init, FilesKept, InTables

\* What changes neither a version nor what is in use deletes no table.
LEMMA StillKept ==
  ASSUME FilesKept, UNCHANGED <<tables, manifest, current, edit, job, reader>>,
         phase' = phase, bgError => bgError'
  PROVE  FilesKept'
BY DEF FilesKept, InTables

LEMMA SweepKeeps ==
  ASSUME NEW live, NEW log, DeleteObsoleteFiles(live, log)
  PROVE  /\ bgError' => tables' = tables
         /\ DOMAIN tables \cap live \subseteq DOMAIN tables'
         /\ DOMAIN tables' \subseteq DOMAIN tables
         /\ \A n \in DOMAIN tables' : tables'[n] = tables[n]
BY DEF DeleteObsoleteFiles, Sweep

LEMMA OpeningFiles ==
  ASSUME Types, FilesKept, Recover \/ RecoverLogFile \/ NewLog \/ OpenDone
  PROVE  FilesKept'
<1>1. CASE Recover
  <2>1. /\ phase = "down" /\ current' = manifest.files
        /\ UNCHANGED <<tables, manifest, job, reader>>
        /\ edit'.add = NoFiles
    BY <1>1 DEF Recover, diskVars, clientVars
  <2>2. job = None /\ reader = None BY <2>1 DEF PhaseOK
  <2> QED BY <2>1, <2>2, FilesOf, NoneIsNone DEF FilesKept, InTables
<1>2. CASE RecoverLogFile
  <2>1. PICK made \in SUBSET FileNumber : \E n :
          /\ DOMAIN tables' = DOMAIN tables \cup made
          /\ edit' = [edit EXCEPT !.add = At(0, @[0] \cup made), !.log = n + 1]
    BY <1>2 DEF RecoverLogFile
  <2>2. /\ UNCHANGED <<manifest, current, job, reader, phase, bgError>>
        /\ phase = "replaying"
    BY <1>2 DEF RecoverLogFile, clientVars
  <2>3. edit \in AnEdit BY <2>2 DEF PhaseOK
  <2>4. edit.add \in Files /\ edit'.add = At(0, edit.add[0] \cup made)
    BY <2>1, <2>3 DEF AnEdit
  <2>5. edit.add[0] \in SUBSET FileNumber /\ edit.add[0] \subseteq AllFiles(edit.add)
    BY <2>4, FilesOf, Bounds DEF Files
  <2>6. AllFiles(edit'.add) = edit.add[0] \cup made
    BY <2>4, <2>5, FilesOf, Bounds
  <2> QED BY <2>1, <2>2, <2>3, <2>5, <2>6 DEF FilesKept, InTables
<1>3. CASE NewLog
  <2>1. /\ phase = "replaying" /\ phase' = "opening" /\ edit \in AnEdit
        /\ UNCHANGED <<tables, manifest, current, job, reader, bgError>>
        /\ edit' = [edit EXCEPT !.log = next, !.next = next + 1, !.last = last]
    BY <1>3 DEF NewLog, PhaseOK, clientVars
  <2>2. edit'.add = edit.add BY <2>1 DEF AnEdit
  <2> QED BY <2>1, <2>2 DEF FilesKept, InTables
<1>4. CASE OpenDone
  <2>1. /\ phase = "opening" /\ phase' = "up" /\ manifest' = Written
        /\ current' = Apply(current, edit) /\ edit' = None
        /\ UNCHANGED <<bgError, job, reader>>
        /\ DeleteObsoleteFiles(AllFiles(current'), edit.log)
    BY <1>4 DEF OpenDone, clientVars
  <2>2. /\ edit \in AnEdit /\ current \in Files /\ job = None /\ reader = None
        /\ current = manifest.files
    BY <2>1 DEF PhaseOK, MemOK, FilesKept
  <2>3. manifest'.files = current' BY <2>1, <2>2 DEF Written
  <2>4. AllFiles(current') \subseteq DOMAIN tables
    BY <2>1, <2>2, FilesOf DEF FilesKept, InTables
  <2>5. AllFiles(current') \subseteq DOMAIN tables' BY <2>1, <2>4, SweepKeeps
  <2> QED BY <2>1, <2>2, <2>3, <2>5, NoneIsNone DEF FilesKept, InTables
<1> QED BY <1>1, <1>2, <1>3, <1>4

LEMMA ClientFiles ==
  ASSUME Types, FilesKept,
         \/ SwitchMemTable \/ WriteDone \/ SyncFails
         \/ \E k \in Key, del \in Deletes, sync \in SyncOptions :
              Adding(k, del, sync)
         \/ GetSnapshot \/ (\E s \in Seq0 : ReleaseSnapshot(s))
         \/ StartRead \/ EndRead
  PROVE  FilesKept'
<1>1. CASE StartRead
  <2>1. /\ UNCHANGED <<tables, manifest, current, edit, job, phase, bgError>>
        /\ reader' = [seq |-> last, mem |-> mem, imm |-> imm, files |-> current]
    BY <1>1 DEF StartRead, diskVars, versionVars
  <2> QED BY <2>1 DEF FilesKept, InTables
<1>2. CASE EndRead
  <2>1. /\ UNCHANGED <<tables, manifest, current, edit, job, phase, bgError>>
        /\ reader' = None
    BY <1>2 DEF EndRead, diskVars, versionVars
  <2> QED BY <2>1, NoneIsNone DEF FilesKept, InTables
<1>3. CASE ~StartRead /\ ~EndRead
  <2>1. /\ UNCHANGED <<tables, manifest, current, edit, job, reader, phase>>
        /\ bgError => bgError'
    <3>1. CASE SwitchMemTable \/ WriteDone \/ SyncFails
      BY <3>1 DEF SwitchMemTable, WriteDone, SyncFails, diskVars, clientVars
    <3>2. CASE \E k \in Key, del \in Deletes, sync \in SyncOptions :
                 Adding(k, del, sync)
      <4>1. PICK k \in Key, del \in Deletes, sync \in SyncOptions :
              Adding(k, del, sync)
        BY <3>2
      <4>2. CASE AddRecord(k, del, sync) BY <4>2 DEF AddRecord, versionVars
      <4>3. CASE AddRecordFails(k, del, sync)
        BY <4>3 DEF AddRecordFails, clientVars
      <4> QED BY <4>1, <4>2, <4>3
    <3>3. CASE GetSnapshot \/ (\E s \in Seq0 : ReleaseSnapshot(s))
      BY <3>3 DEF GetSnapshot, ReleaseSnapshot, diskVars, versionVars
    <3> QED BY <1>3, <3>1, <3>2, <3>3
  <2> QED BY <2>1, StillKept
<1> QED BY <1>1, <1>2, <1>3

LEMMA CrashFiles ==
  ASSUME Types, FilesKept, Ending PROVE FilesKept'
<1>1. /\ UNCHANGED tables /\ current' = NoFiles /\ job' = None /\ edit' = None
      /\ reader' = None /\ phase' = "down"
      /\ \/ manifest' = manifest
         \/ edit # None /\ phase # "replaying" /\ manifest' = Written
  BY CrashIs
<1>2. CASE manifest' = manifest
  BY <1>1, <1>2, FilesOf, NoneIsNone DEF FilesKept, InTables
<1>3. CASE edit # None /\ manifest' = Written
  <2>1. edit \in AnEdit /\ manifest.files \in Files
    BY <1>3 DEF PhaseOK, ManifestOK
  <2>2. manifest'.files = Apply(manifest.files, edit) BY <1>3 DEF Written
  <2>3. AllFiles(manifest'.files) \subseteq DOMAIN tables
    BY <2>1, <2>2, FilesOf DEF FilesKept, InTables
  <2> QED BY <1>1, <2>3, FilesOf, NoneIsNone DEF FilesKept, InTables
<1> QED BY <1>1, <1>2, <1>3

LEMMA WorkFiles ==
  ASSUME Types, FilesKept,
         \/ WriteLevel0Table \/ StartCompaction \/ TrivialMove
         \/ WriteOutputs \/ InstallCompactionResults
  PROVE  FilesKept'
<1>1. CASE WriteLevel0Table
  <2>1. /\ phase = "up" /\ next <= MaxFile
        /\ tables' = With(tables, next, imm)
        /\ UNCHANGED <<manifest, current, job, reader, phase, bgError>>
    BY <1>1 DEF WriteLevel0Table, clientVars
  <2>2. PICK l \in 0..MaxMemLevel : edit'.add = At(l, {next})
    BY <1>1 DEF WriteLevel0Table, PickLevels
  <2>3. l \in Level /\ {next} \in SUBSET FileNumber
    BY <2>1, Bounds DEF Level, FileNumber, PhaseOK, MemOK
  <2>4. AllFiles(edit'.add) = {next} BY <2>2, <2>3, FilesOf
  <2>5. DOMAIN tables' = DOMAIN tables \cup {next} BY <2>1 DEF With
  <2> QED BY <2>1, <2>4, <2>5 DEF FilesKept, InTables
<1>2. CASE StartCompaction
  <2>1. /\ UNCHANGED <<tables, manifest, current, edit, reader, phase, bgError>>
        /\ \E l \in Level : \E above, below :
             /\ l + 1 \in Level
             /\ above \subseteq current[l] /\ below \subseteq current[l + 1]
             /\ job' = [level |-> l, above |-> above, below |-> below,
                        base |-> current, smallest |-> SmallestSnapshot,
                        outputs |-> {}, built |-> FALSE]
    <3>1. UNCHANGED <<tables, manifest, current, edit, reader, phase, bgError>>
      BY <1>2, StartIs DEF diskVars, versionVars, clientVars
    <3> QED BY <1>2, <3>1, StartIs
  <2>2. /\ job'.base = current /\ job'.outputs = {}
        /\ job'.above \subseteq job'.base[job'.level]
        /\ job'.below \subseteq job'.base[job'.level + 1]
    BY <2>1
  <2> QED BY <2>1, <2>2 DEF FilesKept, InTables
<1>3. CASE TrivialMove
  <2>1. UNCHANGED <<tables, manifest, current, job, reader, phase, bgError>>
    BY <1>3 DEF TrivialMove, diskVars, versionVars, clientVars
  <2>2. PICK l \in 0..(NumLevels - 2) : \E n \in current[l] :
          edit'.add = At(l + 1, {n})
    <3>1. PICK l \in 0..(NumLevels - 2) : \E n \in current[l] : edit' = MoveEdit(l, n)
      BY <1>3 DEF TrivialMove
    <3>2. PICK n \in current[l] : edit' = MoveEdit(l, n)
      BY <3>1
    <3>3. edit'.add = At(l + 1, {n}) BY <3>2
    <3> QED BY <3>3
  <2>3. PICK n \in current[l] : edit'.add = At(l + 1, {n}) BY <2>2
  <2>4. /\ l \in Level /\ l + 1 \in Level /\ n \in AllFiles(current)
        /\ {n} \in SUBSET FileNumber
    <3>1. l \in Level /\ l + 1 \in Level BY Bounds DEF Level
    <3>2. current \in Files BY DEF MemOK
    <3>3. current[l] \subseteq FileNumber BY <3>1, <3>2 DEF Files
    <3>4. current[l] \subseteq AllFiles(current) BY <3>1, <3>2, FilesOf
    <3> QED BY <3>1, <3>3, <3>4
  <2>5. AllFiles(edit'.add) = {n} BY <2>3, <2>4, FilesOf
  <2> QED BY <2>1, <2>4, <2>5 DEF FilesKept, InTables
<1>4. CASE WriteOutputs
  <2>1. UNCHANGED <<manifest, current, edit, reader, phase, bgError>>
    BY <1>4, OutputsAre DEF clientVars
  <2>2. PICK made \in SUBSET FileNumber :
          /\ DOMAIN tables' = DOMAIN tables \cup made
          /\ job' = [job EXCEPT !.outputs = made, !.built = TRUE]
    BY <1>4, OutputsAre
  <2>3. job \in AJob BY <1>4, OutputsAre DEF ClientsOK
  <2>4. /\ job'.level = job.level /\ job'.above = job.above
        /\ job'.below = job.below /\ job'.base = job.base /\ job'.outputs = made
    BY <2>2, <2>3 DEF AJob
  <2> QED BY <2>1, <2>2, <2>3, <2>4 DEF FilesKept, InTables
<1>5. CASE InstallCompactionResults
  <2>1. /\ UNCHANGED <<tables, manifest, current, job, reader, phase, bgError>>
        /\ job # None /\ edit'.add = At(job.level + 1, job.outputs)
    BY <1>5 DEF InstallCompactionResults, diskVars, versionVars, clientVars
  <2>2. /\ job.level + 1 \in Level /\ job.outputs \in SUBSET FileNumber
        /\ job.outputs \subseteq DOMAIN tables
    BY <2>1, JobFiles DEF AJob
  <2>3. AllFiles(edit'.add) = job.outputs BY <2>1, <2>2, FilesOf
  <2> QED BY <2>1, <2>2, <2>3 DEF FilesKept, InTables
<1> QED BY <1>1, <1>2, <1>3, <1>4, <1>5

LEMMA ManifestFiles ==
  ASSUME Types, FilesKept, TableFails \/ LogAndApply \/ LogAndApplyFails
  PROVE  FilesKept'
<1>1. CASE TableFails
  <2>1. /\ UNCHANGED <<tables, manifest, current, edit, reader, phase>>
        /\ bgError' /\ job' \in {job, None}
    BY <1>1 DEF TableFails, DeleteObsoleteFiles, versionVars, clientVars
  <2> QED BY <2>1, NoneIsNone DEF FilesKept, InTables
<1>2. CASE LogAndApply
  <2>1. /\ phase = "up" /\ edit # None /\ manifest' = Written
        /\ current' = Apply(current, edit) /\ edit' = None
        /\ UNCHANGED <<phase, bgError, reader>>
        /\ job' = job \/ job' = None
        /\ \/ UNCHANGED tables
           \/ DeleteObsoleteFiles(Live(current', job'), edit.log)
    BY <1>2 DEF LogAndApply, clientVars
  <2>2. /\ edit \in AnEdit /\ current \in Files /\ manifest.files \in Files
        /\ manifest'.files = Apply(manifest.files, edit)
    BY <2>1 DEF PhaseOK, MemOK, ManifestOK, Written
  <2>3. /\ AllFiles(manifest'.files) \subseteq DOMAIN tables
        /\ AllFiles(current') \subseteq DOMAIN tables
    BY <2>1, <2>2, FilesOf DEF FilesKept, InTables
  <2>4. ~bgError => manifest'.files = current' BY <2>1, <2>2 DEF FilesKept
  <2>5. CASE tables' = tables
    BY <2>1, <2>3, <2>4, <2>5, NoneIsNone DEF FilesKept, InTables
  <2>6. CASE tables' # tables
    <3>1. ~bgError /\ DeleteObsoleteFiles(Live(current', job'), edit.log)
      BY <2>1, <2>6, SweepKeeps
    <3>2. DOMAIN tables \cap Live(current', job') \subseteq DOMAIN tables'
      BY <3>1, SweepKeeps
    <3>3. AllFiles(current') \subseteq DOMAIN tables' BY <2>3, <3>2 DEF Live
    <3>4. job' \in AJob =>
            AllFiles(job'.base) \cup job'.outputs \subseteq DOMAIN tables'
      BY <2>1, <3>2, NoneIsNone DEF Live, PendingOutputs, FilesKept, InTables
    <3>5. reader \in AReader => AllFiles(reader.files) \subseteq DOMAIN tables'
      BY <3>2, NoneIsNone DEF Live, FilesRead, FilesKept, InTables
    <3> QED BY <2>1, <2>4, <3>1, <3>3, <3>4, <3>5, NoneIsNone
            DEF FilesKept, InTables
  <2> QED BY <2>5, <2>6
<1>3. CASE LogAndApplyFails
  <2>1. /\ phase = "up" /\ edit # None /\ edit' = None /\ job' \in {job, None}
        /\ bgError' /\ UNCHANGED <<tables, phase, current, reader>>
    BY <1>3 DEF LogAndApplyFails, DeleteObsoleteFiles, versionVars, clientVars
  <2>2. edit \in AnEdit /\ manifest \in [files : Files, log : File0, next : Nat,
                             last : Seq0, torn : {"no", "tail", "inside"}]
    BY <2>1 DEF PhaseOK, ManifestOK
  <2>3. \/ manifest'.files = manifest.files
        \/ manifest'.files = Apply(manifest.files, edit)
    BY <1>3, <2>2, FailedRecord DEF Written
  <2>4. AllFiles(manifest'.files) \subseteq DOMAIN tables
    BY <2>2, <2>3, FilesOf DEF FilesKept, InTables
  <2> QED BY <2>1, <2>4, NoneIsNone DEF FilesKept, InTables
<1> QED BY <1>1, <1>2, <1>3

LEMMA NextKeeps ==
  ASSUME Types, FilesKept, Next PROVE Types' /\ FilesKept'
<1>1. Seq0 = Seqs \cup {0} BY DEF Seq0
<1>2. CASE Recover \/ RecoverLogFile \/ NewLog \/ OpenDone
  BY <1>2, RecoverTypes, RecoverLogFileTypes, NewLogTypes, OpenDoneTypes,
     OpeningFiles
<1>3. CASE SwitchMemTable \/ WriteDone \/ SyncFails
  BY <1>3, SwitchTypes, WriteDoneTypes, SyncFailsTypes, ClientFiles
<1>4. CASE \E k \in Key, del \in Deletes, sync \in SyncOptions :
             Adding(k, del, sync)
  <2>1. FilesKept' BY <1>4, ClientFiles
  <2>2. PICK k \in Key, del \in Deletes, sync \in SyncOptions :
          Adding(k, del, sync)
    BY <1>4
  <2>3. CASE AddRecord(k, del, sync) BY <2>1, <2>3, AddRecordTypes
  <2>4. CASE AddRecordFails(k, del, sync) BY <2>1, <2>4, AddRecordFailsTypes
  <2> QED BY <2>2, <2>3, <2>4
<1>5. CASE GetSnapshot \/ (\E s \in Seqs \cup {0} : ReleaseSnapshot(s))
             \/ StartRead \/ EndRead
  BY <1>1, <1>5, HoldersTypes, ClientFiles
<1>6. CASE WriteLevel0Table \/ StartCompaction \/ TrivialMove \/ WriteOutputs
             \/ InstallCompactionResults
  BY <1>6, WriteLevel0TableTypes, StartCompactionTypes, TrivialMoveTypes,
     WriteOutputsTypes, InstallTypes, WorkFiles
<1>7. CASE TableFails \/ LogAndApply \/ LogAndApplyFails
  BY <1>7, TableFailsTypes, LogAndApplyTypes, LogAndApplyFailsTypes,
     ManifestFiles
<1>8. CASE Ending BY <1>8, CrashTypes, CrashFiles
<1> QED BY <1>2, <1>3, <1>4, <1>5, <1>6, <1>7, <1>8 DEF Next

LEMMA StutterKeeps ==
  ASSUME Types, FilesKept, UNCHANGED vars PROVE Types' /\ FilesKept'
<1>1. UNCHANGED <<logs, synced, tables, manifest, phase, memVars, versionVars,
                  clientVars, mem, imm, next, current, reader, job, edit,
                  bgError, hist, crashes>>
  BY DEF vars, diskVars, memVars, versionVars, clientVars, observers
<1>2. Types' BY <1>1, Same
<1>3. FilesKept' BY <1>1, StillKept
<1> QED BY <1>2, <1>3

LEMMA AlwaysKept == Spec => [](Types /\ FilesKept)
<1>1. Init => Types /\ FilesKept BY InitTypes, InitFiles
<1>2. Types /\ FilesKept /\ [Next]_vars => (Types /\ FilesKept)'
  BY NextKeeps, StutterKeeps
<1> HIDE DEF Types
<1> QED BY <1>1, <1>2, PTL DEF Spec

\* Every variable of the store has its type, whatever fails and whenever the
\* process ends: the numbers of files stay within what was handed out, a log is
\* never synced beyond its end, and a process that is down holds nothing.
THEOREM TypeCorrect == Spec => []TypeOK
<1>1. Types => TypeOK BY TypesHold
<1> HIDE DEF Types
<1> QED BY <1>1, AlwaysKept, PTL

\* No table is deleted that the running process has a use for, with any number
\* of files, levels, errors and crashes (DBImpl::DeleteObsoleteFiles,
\* pending_outputs_, VersionSet::AddLiveFiles).
THEOREM TablesKept == Spec => []NothingMissing
<1>1. Types /\ FilesKept => NothingMissing
  <2> SUFFICES ASSUME Types, FilesKept PROVE NothingMissing
    OBVIOUS
  <2>1. AllFiles(current) \subseteq DOMAIN tables BY DEF FilesKept, InTables
  <2>2. job # None =>
          job.above \cup job.below \cup job.outputs \subseteq DOMAIN tables
    BY JobFiles
  <2> QED BY <2>1, <2>2 DEF NothingMissing
<1> HIDE DEF Types
<1> QED BY <1>1, AlwaysKept, PTL

THEOREM ReadersKept == Spec => []ReaderFinds
<1>1. Types /\ FilesKept => ReaderFinds
  BY DEF ReaderFinds, FilesKept, InTables, ClientsOK
<1> HIDE DEF Types
<1> QED BY <1>1, AlwaysKept, PTL

--------------------
\* The manifest can always be read again.  A record that could not be
\* written may leave a part of itself behind, and one written behind that
\* part makes the manifest unreadable; but the error it is stops all work
\* on the versions, unless a compaction goes on that a memtable
\* interrupted.

\* A record behind a manifest that is whole, or at a start, leaves it whole.
LEMMA WrittenWhole ==
  ASSUME edit \in AnEdit, edit.kind = "open" \/ manifest.torn = "no"
  PROVE  Written.torn = "no"
BY DEF Written

LEMMA TornLastInit == Init => TornLast
BY DEF Init, TornLast

LEMMA TornLastNext ==
  ASSUME OneFault, Types, TornLast, [Next]_vars PROVE TornLast'
<1>1. CASE LogAndApplyFails
  <2>1. /\ phase = "up" /\ edit # None /\ edit' = None /\ bgError'
        /\ phase' = phase
        /\ job' = IF edit.kind = "memtable" THEN job ELSE None
        /\ edit.kind = "memtable" /\ job # None => "nested" \in Faults
    BY <1>1 DEF LogAndApplyFails
  <2>2. manifest.torn = "no" /\ edit \in AnEdit BY <2>1 DEF TornLast, PhaseOK
  <2>3. CASE manifest' \in {manifest, Written}
    BY <2>2, <2>3, WrittenWhole DEF TornLast
  <2>4. CASE "torn" \in Faults /\ manifest' \notin {manifest, Written}
    <3>1. job' = None BY <2>1, <2>4 DEF OneFault
    <3>2. PICK torn \in {"tail", "inside"} :
            /\ manifest' = [manifest EXCEPT !.torn = torn]
            /\ torn = "tail" <=> manifest.torn = "no"
      BY <1>1, <2>4, FailedRecord
    <3>3. manifest'.torn = "tail" BY <2>2, <3>2 DEF ManifestOK
    <3> QED BY <2>1, <2>4, <3>1, <3>3 DEF TornLast
  <2>5. manifest' \in {manifest, Written} \/ "torn" \in Faults
    BY <1>1, FailedRecord
  <2> QED BY <2>3, <2>4, <2>5
<1>2. CASE LogAndApply
  <2>1. /\ phase = "up" /\ edit # None /\ manifest' = Written
    BY <1>2 DEF LogAndApply
  <2>2. manifest.torn = "no" /\ edit \in AnEdit BY <2>1 DEF TornLast, PhaseOK
  <2> QED BY <2>1, <2>2, WrittenWhole DEF TornLast
<1>3. CASE OpenDone
  <2>1. phase = "opening" /\ manifest' = Written BY <1>3 DEF OpenDone
  <2>2. edit \in AnEdit /\ edit.kind = "open" BY <2>1 DEF PhaseOK
  <2> QED BY <2>1, <2>2, WrittenWhole DEF TornLast
<1>4. CASE Ending
  <2>1. /\ phase' = "down"
        /\ \/ manifest' = manifest
           \/ phase # "replaying" /\ edit # None /\ manifest' = Written
    BY <1>4, CrashIs
  <2>2. CASE manifest' = manifest BY <2>1, <2>2 DEF TornLast
  <2>3. CASE phase # "replaying" /\ edit # None /\ manifest' = Written
    <3>1. edit \in AnEdit /\ phase \in {"opening", "up"} BY <2>3 DEF PhaseOK
    <3>2. edit.kind = "open" \/ manifest.torn = "no"
      BY <2>3, <3>1 DEF TornLast, PhaseOK
    <3> QED BY <2>1, <2>3, <3>1, <3>2, WrittenWhole DEF TornLast
  <2> QED BY <2>1, <2>2, <2>3
<1>5. CASE /\ UNCHANGED manifest
           /\ \/ phase' # "up"
              \/ phase' = phase /\ UNCHANGED <<job, edit>> /\ (bgError => bgError')
              \/ phase' = phase /\ phase = "up" /\ (job # None \/ edit # None \/ ~bgError)
              \/ bgError /\ bgError' /\ job' = None /\ edit' = None
  BY <1>5 DEF TornLast
<1>6. CASE Recover \/ RecoverLogFile \/ NewLog
  BY <1>5, <1>6 DEF Recover, RecoverLogFile, NewLog, diskVars
<1>7. CASE SwitchMemTable \/ WriteDone \/ SyncFails
  BY <1>5, <1>7 DEF SwitchMemTable, WriteDone, SyncFails, diskVars
<1>8. CASE \E k \in Key, del \in Deletes, sync \in SyncOptions :
             Adding(k, del, sync)
  <2>1. PICK k \in Key, del \in Deletes, sync \in SyncOptions :
          Adding(k, del, sync)
    BY <1>8
  <2>2. UNCHANGED <<manifest, phase, job, edit, bgError>>
    <3>1. CASE AddRecord(k, del, sync) BY <3>1 DEF AddRecord
    <3>2. CASE AddRecordFails(k, del, sync) BY <3>2 DEF AddRecordFails
    <3> QED BY <2>1, <3>1, <3>2
  <2> QED BY <1>5, <2>2
<1>9. CASE GetSnapshot \/ (\E s \in Seqs \cup {0} : ReleaseSnapshot(s))
             \/ StartRead \/ EndRead
  BY <1>5, <1>9 DEF GetSnapshot, ReleaseSnapshot, StartRead, EndRead, diskVars
<1>10. CASE WriteLevel0Table \/ StartCompaction \/ TrivialMove \/ WriteOutputs
              \/ InstallCompactionResults
  <2>1. /\ UNCHANGED <<manifest, phase>> /\ phase = "up"
        /\ job # None \/ edit # None \/ ~bgError
    BY <1>10 DEF WriteLevel0Table, StartCompaction, TrivialMove, WriteOutputs,
                 InstallCompactionResults, Idle, diskVars
  <2> QED BY <1>5, <2>1
<1>11. CASE TableFails
  <2>1. /\ UNCHANGED <<manifest, phase>> /\ phase = "up"
        /\ job # None \/ ~bgError
    BY <1>11 DEF TableFails
  <2> QED BY <1>5, <2>1
<1>12. CASE UNCHANGED vars BY <1>5, <1>12 DEF vars, diskVars
<1> QED BY <1>1, <1>2, <1>3, <1>4, <1>6, <1>7, <1>8, <1>9, <1>10, <1>11, <1>12
        DEF Next

\* Whatever fails and whenever the process or the machine stops, the store can
\* be opened again: the manifest can be read and names no table that is gone.
\* Only both faults together can spoil it: a record of the manifest of which a
\* part remains, and a memtable that fails inside a compaction, which then
\* writes its own record behind that part (VersionSet::LogAndApply).
THEOREM AlwaysOpens ==
  ASSUME OneFault PROVE Spec => []NeverCorrupt
<1>1. Init => TornLast BY TornLastInit
<1>2. (Types /\ FilesKept) /\ TornLast /\ [Next]_vars => TornLast'
  BY TornLastNext
<1>3. (Types /\ FilesKept) /\ TornLast => NeverCorrupt
  BY DEF NeverCorrupt, Openable, TornLast, FilesKept, InTables
<1> HIDE DEF Types
<1> QED BY <1>1, <1>2, <1>3, AlwaysKept, PTL DEF Spec

--------------------
\* Below level 0 no two files of a level cover the same key.  It rests on
\* the inputs of a compaction hanging together: every key of their range
\* is in the range of one of them, so that a memtable that overlaps none
\* of them lies outside of what the outputs can cover.

LEMMA HullIs ==
  ASSUME NEW K \in SUBSET Key
  PROVE  /\ Hull(K) \subseteq Key /\ K \subseteq Hull(K) /\ Convex(Hull(K))
         /\ \A ks \in SUBSET Key : K \subseteq ks /\ Convex(ks) => Hull(K) \subseteq ks
         /\ Convex(K) => Hull(K) = K
<1>1. Key \subseteq Int BY DEF Key
<1>2. \A k : k \in Hull(K) <=> k \in Key /\ \E lo, hi \in K : lo <= k /\ k <= hi
  BY DEF Hull
<1>3. K \subseteq Hull(K) BY <1>1, <1>2
<1>4. Convex(Hull(K))
  <2> SUFFICES ASSUME NEW lo \in Hull(K), NEW hi \in Hull(K), NEW k \in Key,
                      lo <= k, k <= hi
               PROVE  k \in Hull(K)
    BY DEF Convex
  <2>1. PICK a \in K : a <= lo BY <1>2
  <2>2. PICK b \in K : hi <= b BY <1>2
  <2>3. a \in Int /\ b \in Int /\ k \in Int /\ lo \in Int /\ hi \in Int
    BY <1>1, <1>2
  <2>4. a <= k /\ k <= b BY <2>1, <2>2, <2>3
  <2> QED BY <1>2, <2>4
<1>5. \A ks \in SUBSET Key : K \subseteq ks /\ Convex(ks) => Hull(K) \subseteq ks
  BY <1>2 DEF Convex
<1>6. Hull(K) \subseteq Key BY <1>2
<1> QED BY <1>3, <1>4, <1>5, <1>6

\* A convex set of keys, joined by convex sets that meet it, is convex.
LEMMA ConvexJoined ==
  ASSUME NEW U \in SUBSET Key, NEW F, F \subseteq SUBSET Key, Convex(U),
         \A A \in F : Convex(A) /\ A \cap U # {}
  PROVE  Convex(U \cup UNION F)
<1> SUFFICES ASSUME NEW lo \in U \cup UNION F, NEW hi \in U \cup UNION F,
                    NEW k \in Key, lo <= k, k <= hi, k \notin U \cup UNION F
             PROVE  FALSE
  BY DEF Convex
<1>1. Key \subseteq Int BY DEF Key
<1>2. PICK a \in U : a <= k
  <2>1. CASE lo \in U BY <2>1
  <2>2. CASE lo \notin U
    <3>1. PICK A \in F : lo \in A BY <2>2
    <3>2. PICK u \in A : u \in U OBVIOUS
    <3>3. ~(k <= u) BY <3>1, <3>2 DEF Convex
    <3> QED BY <1>1, <3>2, <3>3
  <2> QED BY <2>1, <2>2
<1>3. PICK b \in U : k <= b
  <2>1. CASE hi \in U BY <2>1
  <2>2. CASE hi \notin U
    <3>1. PICK A \in F : hi \in A BY <2>2
    <3>2. PICK u \in A : u \in U OBVIOUS
    <3>3. ~(u <= k) BY <3>1, <3>2 DEF Convex
    <3> QED BY <1>1, <3>2, <3>3
  <2> QED BY <2>1, <2>2
<1> QED BY <1>2, <1>3 DEF Convex

\* The range of a table.
LEMMA RangeIs ==
  ASSUME NEW E, E \subseteq Entry
  PROVE  /\ KeyRange(E) \subseteq Key /\ Convex(KeyRange(E))
         /\ \A e \in E : e.key \in KeyRange(E)
         /\ \A ks \in SUBSET Key :
              Convex(ks) /\ (\A e \in E : e.key \in ks) => KeyRange(E) \subseteq ks
<1> DEFINE K == {e.key : e \in E}
<1>1. K \in SUBSET Key BY DEF Entry
<1>2. /\ Hull(K) \subseteq Key /\ K \subseteq Hull(K) /\ Convex(Hull(K))
      /\ \A ks \in SUBSET Key : K \subseteq ks /\ Convex(ks) => Hull(K) \subseteq ks
  <2> HIDE DEF K
  <2> QED BY <1>1, HullIs
<1>3. KeyRange(E) = Hull(K) BY DEF KeyRange
<1> QED BY <1>2, <1>3

LEMMA RangesIs ==
  ASSUME NEW t, NEW ns
  PROVE  /\ \A k : k \in Ranges(t, ns) <=> \E n \in ns : k \in KeyRange(t[n])
         /\ \A ms : Ranges(t, ns \cup ms) = Ranges(t, ns) \cup Ranges(t, ms)
         /\ \A n \in ns : KeyRange(t[n]) \subseteq Ranges(t, ns)
BY DEF Ranges

\* Version::GetOverlappingInputs: the range it ends with is convex, and is what
\* it began with and the files it found.
LEMMA ClosureIs ==
  ASSUME NEW fs, NEW ks \in SUBSET Key, ks # {}, Convex(ks),
         \A n \in fs[0] : Span(n) \in SUBSET Key /\ Convex(Span(n))
  PROVE  LET r == ks \cup Ranges(tables, Closure(fs, ks))
         IN  /\ Convex(r) /\ r \in SUBSET Key
             /\ Closure(fs, ks) = {n \in fs[0] : Span(n) \cap r # {}}
<1> DEFINE whole == {r \in {Hull(K) : K \in SUBSET Key} :
                       /\ ks \subseteq r
                       /\ \A n \in Overlapping(fs, 0, r) : Span(n) \subseteq r}
           Whole(r) == /\ r \in SUBSET Key /\ Convex(r) /\ ks \subseteq r
                       /\ \A n \in fs[0] : Span(n) \cap r # {} => Span(n) \subseteq r
<1>1. \A r : r \in whole <=> Whole(r)
  <2>1. \A r : r \in {Hull(K) : K \in SUBSET Key} <=> r \in SUBSET Key /\ Convex(r)
    BY HullIs
  <2> QED BY <2>1 DEF Overlapping
<1> DEFINE least == {k \in Key : \A q \in whole : k \in q}
<1>2. Whole(least)
  <2>1. ks \subseteq least /\ \A q \in whole : least \subseteq q BY <1>1
  <2>2. Convex(least)
    <3> HIDE DEF whole
    <3> QED BY <1>1 DEF Convex
  <2>3. ASSUME NEW n \in fs[0], Span(n) \cap least # {}
        PROVE  Span(n) \subseteq least
    <3>1. \A q \in whole : Span(n) \subseteq q BY <1>1, <2>1, <2>3
    <3> HIDE DEF whole
    <3> QED BY <3>1
  <2>4. least \in SUBSET Key OBVIOUS
  <2> HIDE DEF least, whole
  <2> QED BY <2>1, <2>2, <2>3, <2>4
<1> DEFINE r == CHOOSE x \in whole : \A q \in whole : x \subseteq q
<1>3. r \in whole /\ \A q \in whole : r \subseteq q
  <2>1. least \in whole /\ \A q \in whole : least \subseteq q
    <3> HIDE DEF whole
    <3> QED BY <1>1, <1>2
  <2> HIDE DEF whole, least
  <2> QED BY <2>1
<1> DEFINE C == Closure(fs, ks)
<1>4. C = {n \in fs[0] : Span(n) \cap r # {}} BY DEF Closure, Overlapping
<1> HIDE DEF r, C, whole
<1>5. Whole(r) BY <1>1, <1>3
<1>6. \A n \in C : Span(n) \subseteq r BY <1>4, <1>5
<1>7. ks \cup Ranges(tables, C) \subseteq r BY <1>5, <1>6, RangesIs DEF Span
\* A key of the range that nothing found covers would cut the range short.
<1>8. ASSUME NEW g \in r, g \notin ks, g \notin Ranges(tables, C) PROVE FALSE
  <2>1. r \subseteq Int /\ g \in Key /\ Key \subseteq Int BY <1>5 DEF Key
  <2>2. \A n \in C : g \notin Span(n) BY <1>8, RangesIs DEF Span
  <2>3. PICK u \in ks : TRUE OBVIOUS
  <2>4. u \in r /\ u \in Int /\ g \in Int /\ u # g BY <1>5, <1>8, <2>1
  <2> DEFINE up == {k \in r : g < k}
             down == {k \in r : k < g}
  <2>6. CASE g < u
    <3>1. up \in SUBSET Key /\ Convex(up)
      <4>1. \A lo, k \in Int : g < lo /\ lo <= k => g < k BY <2>1, <2>4
      <4> QED BY <1>5, <2>1, <4>1 DEF Convex
    <3>2. ks \subseteq up
      <4> SUFFICES ASSUME NEW k \in ks, ~(g < k) PROVE FALSE
        BY <1>5
      <4>1. k <= g /\ g <= u BY <1>5, <2>1, <2>4, <2>6
      <4> QED BY <1>8, <2>1, <4>1 DEF Convex
    <3>3. ASSUME NEW n \in fs[0], Span(n) \cap up # {} PROVE Span(n) \subseteq up
      <4>1. PICK a \in Span(n) : a \in r /\ g < a BY <3>3
      <4>2. n \in C /\ Span(n) \subseteq r BY <1>4, <1>6, <4>1
      <4> SUFFICES ASSUME NEW k \in Span(n), ~(g < k) PROVE FALSE
        BY <4>2
      <4>3. k <= g /\ g <= a BY <2>1, <4>1, <4>2
      <4> QED BY <2>1, <2>2, <4>2, <4>3 DEF Convex
    <3>4. Whole(up) BY <3>1, <3>2, <3>3
    <3>5. g \notin up BY <2>1
    <3> HIDE DEF up
    <3> QED BY <1>1, <1>3, <1>8, <3>4, <3>5
  <2>7. CASE u < g
    <3>1. down \in SUBSET Key /\ Convex(down) BY <1>5, <2>1 DEF Convex
    <3>2. ks \subseteq down
      <4> SUFFICES ASSUME NEW k \in ks, ~(k < g) PROVE FALSE
        BY <1>5
      <4>1. u <= g /\ g <= k BY <1>5, <2>1, <2>4, <2>7
      <4> QED BY <1>8, <2>1, <4>1 DEF Convex
    <3>3. ASSUME NEW n \in fs[0], Span(n) \cap down # {} PROVE Span(n) \subseteq down
      <4>1. PICK a \in Span(n) : a \in r /\ a < g BY <3>3
      <4>2. n \in C /\ Span(n) \subseteq r BY <1>4, <1>6, <4>1
      <4> SUFFICES ASSUME NEW k \in Span(n), ~(k < g) PROVE FALSE
        BY <4>2
      <4>3. a <= g /\ g <= k BY <2>1, <4>1, <4>2
      <4> QED BY <2>1, <2>2, <4>2, <4>3 DEF Convex
    <3>4. Whole(down) BY <3>1, <3>2, <3>3
    <3>5. g \notin down BY <2>1
    <3> HIDE DEF down
    <3> QED BY <1>1, <1>3, <1>8, <3>4, <3>5
  <2> QED BY <2>4, <2>6, <2>7
<1>9. r = ks \cup Ranges(tables, C) BY <1>7, <1>8
<1> QED BY <1>4, <1>5, <1>9 DEF C

\* The tables of a version have ranges, none of them empty.
LEMMA SpansAre ==
  ASSUME TablesOK, NEW fs \in Files, InTables(fs), NEW l \in Level, NEW n \in fs[l]
  PROVE  /\ n \in DOMAIN tables
         /\ Span(n) \in SUBSET Key /\ Convex(Span(n)) /\ Span(n) # {}
<1>1. n \in DOMAIN tables BY FilesOf DEF InTables
<1>2. tables[n] \subseteq Entry /\ tables[n] # {} BY <1>1 DEF TablesOK
<1> QED BY <1>1, <1>2, RangeIs DEF Span

\* The files of one level that a compaction may start from hang together.
LEMMA SeedHangs ==
  ASSUME ~Manual, Types, InTables(current), NEW l \in Level, NEW seed \in Seeds(l)
  PROVE  /\ seed \subseteq current[l] /\ seed # {}
         /\ Ranges(tables, seed) \in SUBSET Key /\ Convex(Ranges(tables, seed))
         /\ Ranges(tables, seed) # {}
<1>1. current \in Files BY DEF MemOK
<1>2. \A n \in current[l] : Span(n) \in SUBSET Key /\ Convex(Span(n)) /\ Span(n) # {}
  BY <1>1, SpansAre
<1>3. PICK n \in current[l] : seed = IF l = 0 THEN Inputs(current, 0, Span(n)) ELSE {n}
  BY DEF Seeds
<1>4. CASE l # 0
  <2>1. Ranges(tables, {n}) = Span(n) BY DEF Ranges, Span
  <2> QED BY <1>2, <1>3, <1>4, <2>1
<1>5. CASE l = 0
  <2>1. seed = Closure(current, Span(n)) BY <1>3, <1>5 DEF Inputs
  <2> DEFINE r == Span(n) \cup Ranges(tables, seed)
  <2>2. /\ Convex(r) /\ r \in SUBSET Key
        /\ seed = {m \in current[0] : Span(m) \cap r # {}}
    BY <1>2, <1>5, <2>1, ClosureIs
  <2>3. n \in seed BY <1>2, <1>5, <2>2
  <2>4. r = Ranges(tables, seed) /\ r # {} BY <1>2, <2>3, RangesIs DEF Span
  <2> HIDE DEF r
  <2> QED BY <1>5, <2>2, <2>3, <2>4
<1> QED BY <1>4, <1>5

\* The files that meet a range, with the range.
LEMMA InputsJoin ==
  ASSUME Types, InTables(current), NEW l \in Level, NEW ks \in SUBSET Key,
         Convex(ks), ks # {}
  PROVE  /\ Inputs(current, l, ks) \subseteq current[l]
         /\ \A n \in current[l] : Span(n) \cap ks # {} => n \in Inputs(current, l, ks)
         /\ Convex(ks \cup Ranges(tables, Inputs(current, l, ks)))
         /\ ks \cup Ranges(tables, Inputs(current, l, ks)) \in SUBSET Key
<1> DEFINE in == Inputs(current, l, ks)
<1>1. current \in Files BY DEF MemOK
<1>2. \A n \in current[l] : Span(n) \in SUBSET Key /\ Convex(Span(n)) /\ Span(n) # {}
  BY <1>1, SpansAre
<1>3. CASE l # 0
  <2>1. in = {n \in current[l] : Span(n) \cap ks # {}}
    BY <1>3 DEF Inputs, Overlapping
  <2> HIDE DEF in
  <2> DEFINE F == {Span(n) : n \in in}
  <2>2. F \subseteq SUBSET Key /\ \A A \in F : Convex(A) /\ A \cap ks # {}
    BY <1>2, <2>1
  <2>3. Ranges(tables, in) = UNION F BY DEF Ranges, Span
  <2>4. Convex(ks \cup UNION F) /\ ks \cup UNION F \in SUBSET Key
    <3> HIDE DEF F
    <3> QED BY <2>2, ConvexJoined
  <2> QED BY <2>1, <2>3, <2>4 DEF in
<1>4. CASE l = 0
  <2>1. in = Closure(current, ks) BY <1>4 DEF Inputs
  <2> HIDE DEF in
  <2> DEFINE r == ks \cup Ranges(tables, in)
  <2>2. /\ Convex(r) /\ r \in SUBSET Key
        /\ in = {m \in current[0] : Span(m) \cap r # {}}
    BY <1>2, <1>4, <2>1, ClosureIs
  <2> QED BY <1>4, <2>2 DEF in
<1> QED BY <1>3, <1>4

LEMMA RangeOfIs ==
  ASSUME NEW ns, Ranges(tables, ns) \in SUBSET Key
  PROVE  /\ Ranges(tables, ns) \subseteq RangeOf(ns)
         /\ Convex(Ranges(tables, ns)) => RangeOf(ns) = Ranges(tables, ns)
<1>1. RangeOf(ns) = Hull(Ranges(tables, ns)) BY DEF RangeOf, Ranges, Span
<1> QED BY <1>1, HullIs

\* VersionSet::SetupOtherInputs: the inputs of both levels together hang
\* together, and no other file of the lower level meets them.
LEMMA InputsHang ==
  ASSUME ~Manual, Types, InTables(current), DisjointIn(tables, current),
         NEW l \in Level, l + 1 \in Level, NEW seed \in Seeds(l),
         NEW in \in OtherInputs(l, seed)
  PROVE  LET U == Ranges(tables, in[1] \cup in[2])
         IN  /\ Convex(U) /\ U \in SUBSET Key
             /\ \A m \in current[l + 1] \ in[2] : KeyRange(tables[m]) \cap U = {}
<1> DEFINE S == Ranges(tables, seed)
           below == Inputs(current, l + 1, RangeOf(seed))
           wider == Inputs(current, l, RangeOf(seed \cup below))
           R == Ranges(tables, seed \cup below)
<1>1. /\ seed \subseteq current[l] /\ seed # {}
      /\ S \in SUBSET Key /\ Convex(S) /\ S # {} /\ RangeOf(seed) = S
  BY SeedHangs, RangeOfIs
<1>2. /\ below \subseteq current[l + 1]
      /\ \A n \in current[l + 1] : Span(n) \cap S # {} => n \in below
      /\ Convex(S \cup Ranges(tables, below)) /\ S \cup Ranges(tables, below) \in SUBSET Key
  <2> HIDE DEF S
  <2> QED BY <1>1, InputsJoin
<1>3. /\ R = S \cup Ranges(tables, below) /\ R # {} /\ R \in SUBSET Key
      /\ Convex(R) /\ RangeOf(seed \cup below) = R
  <2>1. R = S \cup Ranges(tables, below) BY RangesIs
  <2> HIDE DEF S, below
  <2>2. R # {} /\ R \in SUBSET Key /\ Convex(R)
    <3> HIDE DEF R
    <3> QED BY <1>1, <1>2, <2>1
  <2> QED BY <2>1, <2>2, RangeOfIs
<1>4. /\ wider \subseteq current[l]
      /\ \A n \in current[l] : Span(n) \cap R # {} => n \in wider
      /\ Convex(R \cup Ranges(tables, wider)) /\ R \cup Ranges(tables, wider) \in SUBSET Key
  <2> HIDE DEF R, below
  <2> QED BY <1>3, InputsJoin
<1>5. \A m \in current[l + 1] \ below : Span(m) \cap Ranges(tables, below) = {}
  <2> SUFFICES ASSUME NEW m \in current[l + 1] \ below, NEW k \in Span(m),
                      k \in Ranges(tables, below)
               PROVE  FALSE
    OBVIOUS
  <2> HIDE DEF below
  <2>1. PICK n \in below : k \in Span(n) BY RangesIs DEF Span
  <2>2. l + 1 \in Level \ {0} BY Bounds DEF Level
  <2>3. m \in current[l + 1] /\ n \in current[l + 1] /\ m # n BY <1>2, <2>1
  <2> QED BY <2>1, <2>2, <2>3 DEF DisjointIn, Span
<1>6. CASE in = <<seed, below>>
  <2>1. \A m \in current[l + 1] \ below : Span(m) \cap R = {}
    <3> HIDE DEF S, R, below
    <3> QED BY <1>2, <1>3, <1>5
  <2>2. in[1] \cup in[2] = seed \cup below /\ in[2] = below BY <1>6
  <2> QED BY <1>3, <2>1, <2>2 DEF Span
<1>7. CASE in = <<wider, below>> /\ Inputs(current, l + 1, RangeOf(wider)) = below
  <2> DEFINE U == Ranges(tables, wider \cup below)
  <2>1. current \in Files BY DEF MemOK
  <2>2. seed \subseteq wider
    <3> SUFFICES ASSUME NEW n \in seed PROVE n \in wider
      OBVIOUS
    <3>1. n \in current[l] /\ Span(n) # {} BY <1>1, <2>1, SpansAre
    <3>2. Span(n) \subseteq S BY RangesIs DEF Span
    <3> HIDE DEF S, R, wider, below
    <3> QED BY <1>3, <1>4, <3>1, <3>2
  <2>3. U = R \cup Ranges(tables, wider)
    <3>1. /\ U = Ranges(tables, wider) \cup Ranges(tables, below)
          /\ R = S \cup Ranges(tables, below)
      BY RangesIs
    <3>2. S \subseteq Ranges(tables, wider)
      <4> HIDE DEF wider
      <4> QED BY <2>2 DEF Ranges
    <3> HIDE DEF S, R, U, wider, below
    <3> QED BY <3>1, <3>2
  <2>4. Ranges(tables, wider) \in SUBSET Key
    <3> HIDE DEF R, wider
    <3> QED BY <1>4
  <2>5. Ranges(tables, wider) \subseteq RangeOf(wider) /\ RangeOf(wider) \in SUBSET Key
    <3>1. RangeOf(wider) \in SUBSET Key BY DEF RangeOf, Hull
    <3> HIDE DEF wider
    <3> QED BY <2>4, <3>1, RangeOfIs
  <2>6. \A m \in current[l + 1] \ below : Span(m) \cap RangeOf(wider) = {}
    <3> HIDE DEF wider, below
    <3>1. l + 1 # 0 BY Bounds DEF Level
    <3>2. below = Overlapping(current, l + 1, RangeOf(wider))
      BY <1>7, <3>1 DEF Inputs
    <3> QED BY <3>2 DEF Overlapping
  <2>7. \A m \in current[l + 1] \ below : Span(m) \cap U = {}
    <3>1. U = Ranges(tables, wider) \cup Ranges(tables, below) BY RangesIs
    <3> HIDE DEF U, R, wider, below
    <3> QED BY <1>5, <2>5, <2>6, <3>1
  <2>8. Convex(U) /\ U \in SUBSET Key
    <3> HIDE DEF U, R, wider, below
    <3> QED BY <1>4, <2>3
  <2>9. in[1] \cup in[2] = wider \cup below /\ in[2] = below BY <1>7
  <2> QED BY <2>7, <2>8, <2>9 DEF Span
<1>8. \/ in = <<seed, below>>
      \/ in = <<wider, below>> /\ Inputs(current, l + 1, RangeOf(wider)) = below
  <2>1. in \in {<<seed, below>>} \cup
                 (IF /\ below # {}
                     /\ Cardinality(wider) > Cardinality(seed)
                     /\ Inputs(current, l + 1, RangeOf(wider)) = below
                  THEN {<<wider, below>>} ELSE {})
    BY DEF OtherInputs
  <2> HIDE DEF S, R, wider, below
  <2> QED BY <2>1
<1> QED BY <1>6, <1>7, <1>8

--------------------
LEMMA ClientSame ==
  ASSUME Types, ClientStep
  PROVE  /\ UNCHANGED <<tables, manifest, current, edit, job, phase>>
         /\ bgError => bgError'
         /\ next' \in Nat /\ next <= next'
<1>1. next \in Nat /\ next <= next /\ next + 1 \in Nat /\ next <= next + 1
  BY DEF MemOK
<1>2. CASE SwitchMemTable BY <1>1, <1>2 DEF SwitchMemTable
<1>3. CASE WriteDone BY <1>1, <1>3 DEF WriteDone
<1>4. CASE SyncFails BY <1>1, <1>4 DEF SyncFails, diskVars
<1>5. CASE \E k \in Key, del \in Deletes, sync \in SyncOptions :
             Adding(k, del, sync)
  <2>1. PICK k \in Key, del \in Deletes, sync \in SyncOptions :
          Adding(k, del, sync)
    BY <1>5
  <2>2. CASE AddRecord(k, del, sync) BY <1>1, <2>2 DEF AddRecord, versionVars
  <2>3. CASE AddRecordFails(k, del, sync) BY <1>1, <2>3 DEF AddRecordFails
  <2> QED BY <2>1, <2>2, <2>3
<1>6. CASE GetSnapshot \/ \E s \in Seqs \cup {0} : ReleaseSnapshot(s)
  BY <1>1, <1>6 DEF GetSnapshot, ReleaseSnapshot, diskVars, versionVars
<1>7. CASE StartRead \/ EndRead
  BY <1>1, <1>7 DEF StartRead, EndRead, diskVars, versionVars
<1>8. CASE UNCHANGED vars BY <1>1, <1>8 DEF vars, diskVars, versionVars
<1> QED BY <1>2, <1>3, <1>4, <1>5, <1>6, <1>7, <1>8 DEF ClientStep

LEMMA FilesAre ==
  ASSUME NEW fs \in Files PROVE AllFiles(fs) \in SUBSET FileNumber
BY DEF AllFiles, Files

LEMMA BelowIs ==
  /\ \A ns \in SUBSET FileNumber : \A a, b \in Nat :
       a <= b /\ Below(ns, a) => Below(ns, b)
  /\ \A ns, ms : \A a : Below(ns, a) /\ Below(ms, a) => Below(ns \cup ms, a)
  /\ \A ns, ms : \A a : ms \subseteq ns /\ Below(ns, a) => Below(ms, a)
<1>1. FileNumber \subseteq Nat BY DEF FileNumber
<1> QED BY <1>1 DEF Below

LEMMA FreshInit == Init => Fresh
BY FilesOf, NoneIsNone DEF Init, Fresh, Below

\* What is written to the manifest.
LEMMA WrittenFresh ==
  ASSUME Types, Fresh, edit \in AnEdit, phase # "replaying"
  PROVE  /\ Below(AllFiles(Written.files), Written.next)
         /\ Written.next = edit.next /\ edit.next \in Nat
<1>1. /\ Written.files = Apply(manifest.files, edit) /\ Written.next = edit.next
      /\ manifest.files \in Files /\ edit.add \in Files /\ edit.next \in Nat
      /\ manifest.next \in Nat
  BY DEF Written, ManifestOK, AnEdit
<1>2. AllFiles(Written.files) \subseteq AllFiles(manifest.files) \cup AllFiles(edit.add)
  BY <1>1, FilesOf
<1>3. Below(AllFiles(manifest.files), edit.next)
  <2>1. manifest.next <= edit.next /\ Below(AllFiles(manifest.files), manifest.next)
    BY DEF Fresh
  <2>2. AllFiles(manifest.files) \in SUBSET FileNumber BY <1>1, FilesAre
  <2> QED BY <1>1, <2>1, <2>2, BelowIs
<1>4. Below(AllFiles(edit.add), edit.next) BY DEF Fresh
<1> QED BY <1>1, <1>2, <1>3, <1>4 DEF Below

\* What a failed record leaves of the manifest.
LEMMA FailedManifest ==
  ASSUME Types, LogAndApplyFails
  PROVE  \/ manifest' = Written
         \/ manifest'.files = manifest.files /\ manifest'.next = manifest.next
BY FailedRecord DEF ManifestOK

LEMMA FreshOpening ==
  ASSUME Types, Fresh, Recover \/ RecoverLogFile \/ NewLog \/ OpenDone
  PROVE  Fresh'
<1>1. next \in Nat /\ manifest.next \in Nat /\ manifest.files \in Files /\ current \in Files
  BY DEF MemOK, ManifestOK
<1>2. CASE Recover
  <2>1. /\ phase = "down" /\ phase' = "replaying" /\ next' = manifest.next + 1
        /\ current' = manifest.files /\ edit'.add = NoFiles
        /\ UNCHANGED <<manifest, job>>
    BY <1>2 DEF Recover, diskVars
  <2>2. job = None BY <2>1 DEF PhaseOK
  <2>3. Below(AllFiles(manifest.files), manifest.next + 1)
    <3>1. manifest.next <= manifest.next + 1 /\ manifest.next + 1 \in Nat
      BY <1>1
    <3> QED BY <1>1, <3>1, FilesAre, BelowIs DEF Fresh
  <2>4. Below(AllFiles(NoFiles), next') BY FilesOf DEF Below
  <2> QED BY <1>1, <2>1, <2>2, <2>3, <2>4, NoneIsNone DEF Fresh
<1>3. CASE RecoverLogFile
  <2>1. PICK made \in SUBSET {next} : \E n \in DOMAIN logs :
          /\ made \subseteq FileNumber /\ (made # {} => Readable(logs[n]) # {})
          /\ next' = MarkUsed(IF Readable(logs[n]) = {} THEN next ELSE next + 1, n)
          /\ edit' = [edit EXCEPT !.add = At(0, @[0] \cup made), !.log = n + 1]
    BY <1>3, TablesForIs DEF RecoverLogFile
  <2>2. /\ UNCHANGED <<manifest, current, job, phase>> /\ phase = "replaying"
    BY <1>3 DEF RecoverLogFile
  <2>3. edit \in AnEdit BY <2>2 DEF PhaseOK
  <2>4. edit.add \in Files /\ edit'.add = At(0, edit.add[0] \cup made)
    BY <2>1, <2>3 DEF AnEdit
  <2>5. edit.add[0] \in SUBSET FileNumber /\ edit.add[0] \subseteq AllFiles(edit.add)
        /\ made \subseteq FileNumber
    BY <2>1, <2>4, FilesOf, Bounds DEF Files
  <2>6. AllFiles(edit'.add) = edit.add[0] \cup made
    BY <2>4, <2>5, FilesOf, Bounds
  <2>7. next' \in Nat /\ next <= next' /\ (made # {} => next < next')
    <3>1. PICK n \in DOMAIN logs :
            /\ made # {} => Readable(logs[n]) # {}
            /\ next' = MarkUsed(IF Readable(logs[n]) = {} THEN next ELSE next + 1, n)
      BY <2>1
    <3>2. n \in Nat BY DEF LogsOK, FileNumber
    <3> DEFINE x == IF Readable(logs[n]) = {} THEN next ELSE next + 1
    <3>3. x \in Nat /\ next <= x /\ (made # {} => next < x)
      <4>1. x = IF Readable(logs[n]) = {} THEN next ELSE next + 1 OBVIOUS
      <4> HIDE DEF x
      <4> QED BY <1>1, <3>1, <4>1
    <3> HIDE DEF x
    <3>4. next' \in Nat /\ x <= next' BY <3>1, <3>2, <3>3 DEF MarkUsed, x
    <3> QED BY <1>1, <3>3, <3>4
  <2>8. Below(edit.add[0], next') /\ Below(made, next')
    <3>1. Below(edit.add[0], next) BY <2>3, <2>5, BelowIs DEF Fresh
    <3> QED BY <1>1, <2>5, <2>7, <3>1, BelowIs DEF Below
  <2>9. Below(AllFiles(current), next') /\ manifest.next <= next'
    <3>1. Below(AllFiles(current), next) /\ manifest.next <= next
      BY <2>2 DEF Fresh
    <3>2. Below(AllFiles(current), next')
      BY <1>1, <2>7, <3>1, FilesAre, BelowIs
    <3> QED BY <1>1, <2>7, <3>1, <3>2
  <2>10. job = None BY <2>2 DEF PhaseOK
  <2> QED BY <2>2, <2>6, <2>8, <2>9, <2>10, BelowIs, NoneIsNone DEF Fresh
<1>4. CASE NewLog
  <2>1. /\ phase = "replaying" /\ phase' = "opening" /\ edit \in AnEdit
        /\ UNCHANGED <<manifest, current, job>> /\ next' = next + 1
    BY <1>4 DEF NewLog, PhaseOK
  <2>2. edit'.add = edit.add /\ edit'.next = next + 1
    <3>1. edit' = [edit EXCEPT !.log = next, !.next = next + 1, !.last = last]
      BY <1>4 DEF NewLog
    <3> QED BY <2>1, <3>1 DEF AnEdit
  <2>3. /\ Below(AllFiles(current), next) /\ manifest.next <= next
        /\ Below(AllFiles(edit.add), next) /\ edit.add \in Files /\ job = None
    BY <2>1 DEF Fresh, AnEdit, PhaseOK
  <2>4. /\ next <= next + 1 /\ next + 1 \in Nat /\ manifest.next <= next + 1
    BY <1>1, <2>3
  <2>5. Below(AllFiles(current), next + 1) /\ Below(AllFiles(edit.add), next + 1)
    BY <1>1, <2>3, <2>4, FilesAre, BelowIs
  <2> QED BY <2>1, <2>2, <2>3, <2>4, <2>5, NoneIsNone DEF Fresh
<1>5. CASE OpenDone
  <2>1. /\ phase = "opening" /\ phase' = "up" /\ manifest' = Written
        /\ current' = Apply(current, edit) /\ edit' = None /\ UNCHANGED <<job, next>>
    BY <1>5 DEF OpenDone
  <2>2. edit \in AnEdit /\ job = None BY <2>1 DEF PhaseOK
  <2>3. Below(AllFiles(current'), next)
    <3>1. AllFiles(current') \subseteq AllFiles(current) \cup AllFiles(edit.add)
      BY <1>1, <2>1, <2>2, FilesOf
    <3>2. Below(AllFiles(current), next) /\ Below(AllFiles(edit.add), next)
      BY <2>1, <2>2 DEF Fresh
    <3> QED BY <3>1, <3>2 DEF Below
  <2>4. edit.next <= next BY <2>1, <2>2 DEF Fresh
  <2> QED BY <2>1, <2>2, <2>3, <2>4, WrittenFresh, NoneIsNone DEF Fresh
<1> QED BY <1>2, <1>3, <1>4, <1>5

LEMMA FreshClient == ASSUME Types, Fresh, ClientStep PROVE Fresh'
<1>1. /\ UNCHANGED <<tables, manifest, current, edit, job, phase>>
      /\ next' \in Nat /\ next <= next' /\ next \in Nat
  BY ClientSame DEF MemOK
<1>2. \A ns \in SUBSET FileNumber : Below(ns, next) => Below(ns, next')
  BY <1>1, BelowIs
<1>3. phase # "down" => manifest.next <= next' /\ Below(AllFiles(current), next')
  <2>1. AllFiles(current) \in SUBSET FileNumber /\ manifest.next \in Nat
    BY FilesAre DEF MemOK, ManifestOK
  <2> QED BY <1>1, <1>2, <2>1 DEF Fresh
<1>4. edit \in AnEdit => Below(AllFiles(edit.add), next')
  BY <1>2, FilesAre DEF Fresh, AnEdit
<1>5. edit \in AnEdit /\ phase # "replaying" => edit.next <= next'
  BY <1>1 DEF Fresh, AnEdit
<1>6. job \in AJob => Below(job.outputs, next') BY <1>2 DEF Fresh, AJob
<1> QED BY <1>1, <1>3, <1>4, <1>5, <1>6 DEF Fresh

LEMMA FreshWork ==
  ASSUME Types, FilesKept, Fresh,
         \/ WriteLevel0Table \/ StartCompaction \/ TrivialMove
         \/ WriteOutputs \/ InstallCompactionResults
  PROVE  Fresh'
<1>1. /\ next \in Nat /\ manifest.next \in Nat /\ manifest.files \in Files
      /\ current \in Files /\ next <= next + 1 /\ next + 1 \in Nat
  BY DEF MemOK, ManifestOK
<1>2. phase = "up" => manifest.next <= next /\ Below(AllFiles(current), next)
  BY DEF Fresh
<1>3. CASE WriteLevel0Table
  <2>1. /\ phase = "up" /\ next <= MaxFile /\ next' = next + 1
        /\ UNCHANGED <<manifest, current, job, phase>>
    BY <1>3 DEF WriteLevel0Table
  <2>2. PICK l \in 0..MaxMemLevel :
          /\ edit'.add = At(l, {next})
          /\ edit'.next = next + 1
    <3>1. PICK l \in PickLevels(KeyRange(imm)) :
            edit' = MemTableEdit(l)
      BY <1>3 DEF WriteLevel0Table
    <3> QED BY <3>1 DEF PickLevels
  <2>3. l \in Level /\ {next} \in SUBSET FileNumber
    BY <2>1, Bounds DEF Level, FileNumber, PhaseOK, MemOK
  <2>4. AllFiles(edit'.add) = {next} BY <2>2, <2>3, FilesOf
  <2>5. Below(AllFiles(current), next + 1) /\ Below({next}, next + 1)
    <3>1. Below({next}, next + 1) BY <1>1 DEF Below
    <3> QED BY <1>1, <1>2, <2>1, <3>1, FilesAre, BelowIs
  <2>6. job \in AJob => Below(job.outputs, next + 1)
    BY <1>1, BelowIs DEF Fresh, AJob
  <2>7. manifest.next <= next + 1 BY <1>1, <1>2, <2>1
  <2> QED BY <1>1, <2>1, <2>2, <2>4, <2>5, <2>6, <2>7 DEF Fresh
<1>4. CASE StartCompaction
  <2>1. /\ UNCHANGED <<manifest, current, edit, phase, next>> /\ edit = None
        /\ job'.outputs = {}
    BY <1>4, StartIs DEF diskVars, versionVars
  <2>2. Below({}, next) BY DEF Below
  <2> QED BY <2>1, <2>2 DEF Fresh
<1>5. CASE TrivialMove
  <2>1. /\ UNCHANGED <<manifest, current, job, phase, next>> /\ phase = "up"
    BY <1>5 DEF TrivialMove, diskVars, versionVars, Idle
  <2>2. PICK l \in 0..(NumLevels - 2) : \E n \in current[l] :
          edit'.add = At(l + 1, {n}) /\ edit'.next = next
    <3>1. PICK l \in 0..(NumLevels - 2) : \E n \in current[l] : edit' = MoveEdit(l, n)
      BY <1>5 DEF TrivialMove
    <3>2. PICK n \in current[l] : edit' = MoveEdit(l, n)
      BY <3>1
    <3>3. edit'.add = At(l + 1, {n}) /\ edit'.next = next BY <3>2
    <3> QED BY <3>3
  <2>3. PICK n \in current[l] : edit'.add = At(l + 1, {n}) /\ edit'.next = next
    BY <2>2
  <2>4. l \in Level /\ l + 1 \in Level BY Bounds DEF Level
  <2>5. n \in AllFiles(current) /\ {n} \in SUBSET FileNumber
    <3>1. current[l] \subseteq FileNumber BY <1>1, <2>4 DEF Files
    <3>2. current[l] \subseteq AllFiles(current) BY <1>1, <2>4, FilesOf
    <3> QED BY <3>1, <3>2
  <2>6. AllFiles(edit'.add) = {n} BY <2>3, <2>4, <2>5, FilesOf
  <2>7. Below({n}, next) BY <1>2, <2>1, <2>5 DEF Below
  <2>8. /\ Below(AllFiles(edit'.add), next') /\ Below(AllFiles(edit'.add), edit'.next)
        /\ manifest'.next <= edit'.next /\ edit'.next <= next'
    <3>1. next' = next /\ edit'.next = next /\ manifest' = manifest
      BY <2>1, <2>3
    <3>2. next <= next /\ manifest.next <= next BY <1>1, <1>2, <2>1
    <3>3. Below(AllFiles(edit'.add), next) BY <2>6, <2>7
    <3> QED BY <3>1, <3>2, <3>3
  <2> QED BY <2>1, <2>8 DEF Fresh
<1>6. CASE WriteOutputs
  <2>1. /\ UNCHANGED <<manifest, current, edit, phase>> /\ phase = "up"
        /\ edit = None /\ next' \in Nat /\ next <= next' /\ job # None
    BY <1>6, OutputsAre
  <2>2. PICK made \in SUBSET FileNumber :
          /\ \A n \in made : n < next'
          /\ job' = [job EXCEPT !.outputs = made, !.built = TRUE]
    <3>1. \E ends \in Ends(Merged) : \E made \in SUBSET FileNumber :
            /\ \A n \in made : n < next'
            /\ job' = [job EXCEPT !.outputs = made, !.built = TRUE]
      BY <1>6, OutputsAre
    <3> QED BY <3>1
  <2>3. job'.outputs = made BY <2>1, <2>2 DEF ClientsOK, AJob
  <2>4. Below(AllFiles(current), next') /\ manifest.next <= next'
    <3>1. Below(AllFiles(current), next')
      BY <1>1, <1>2, <2>1, FilesAre, BelowIs
    <3> QED BY <1>1, <1>2, <2>1, <3>1
  <2> QED BY <2>1, <2>2, <2>3, <2>4, NoneIsNone DEF Fresh, Below
<1>7. CASE InstallCompactionResults
  <2>1. /\ UNCHANGED <<manifest, current, job, phase, next>> /\ phase = "up"
        /\ job # None
    BY <1>7 DEF InstallCompactionResults, diskVars, versionVars
  <2>2. edit'.add = At(job.level + 1, job.outputs) /\ edit'.next = next
    BY <1>7 DEF InstallCompactionResults
  <2>3. job \in AJob /\ job.level + 1 \in Level /\ job.outputs \in SUBSET FileNumber
    BY <2>1, JobFiles DEF AJob
  <2>4. AllFiles(edit'.add) = job.outputs BY <2>2, <2>3, FilesOf
  <2> QED BY <1>1, <1>2, <2>1, <2>2, <2>3, <2>4 DEF Fresh
<1> QED BY <1>3, <1>4, <1>5, <1>6, <1>7

LEMMA FreshManifest ==
  ASSUME Types, Fresh, TableFails \/ LogAndApply \/ LogAndApplyFails \/ Ending
  PROVE  Fresh'
<1>1. CASE TableFails
  <2>1. /\ UNCHANGED <<manifest, current, edit, phase, next>> /\ job' \in {job, None}
    BY <1>1 DEF TableFails, versionVars
  <2> QED BY <2>1, NoneIsNone DEF Fresh
<1>2. CASE LogAndApply
  <2>1. /\ phase = "up" /\ edit # None /\ manifest' = Written
        /\ current' = Apply(current, edit) /\ edit' = None
        /\ UNCHANGED <<phase, next>> /\ job' \in {job, None}
    BY <1>2 DEF LogAndApply
  <2>2. edit \in AnEdit /\ current \in Files BY <2>1 DEF PhaseOK, MemOK
  <2>3. Below(AllFiles(current'), next)
    <3>1. AllFiles(current') \subseteq AllFiles(current) \cup AllFiles(edit.add)
      BY <2>1, <2>2, FilesOf
    <3>2. Below(AllFiles(current), next) /\ Below(AllFiles(edit.add), next)
      BY <2>1, <2>2 DEF Fresh
    <3> QED BY <3>1, <3>2 DEF Below
  <2>4. edit.next <= next BY <2>1, <2>2 DEF Fresh
  <2> QED BY <2>1, <2>2, <2>3, <2>4, WrittenFresh, NoneIsNone DEF Fresh
<1>3. CASE LogAndApplyFails
  <2>1. /\ phase = "up" /\ edit # None /\ edit' = None
        /\ UNCHANGED <<phase, next, current>> /\ job' \in {job, None}
    BY <1>3 DEF LogAndApplyFails, versionVars
  <2>2. edit \in AnEdit BY <2>1 DEF PhaseOK
  <2>3. edit.next <= next BY <2>1, <2>2 DEF Fresh
  <2>4. CASE manifest' = Written
    BY <2>1, <2>2, <2>3, <2>4, WrittenFresh, NoneIsNone DEF Fresh
  <2>5. CASE manifest'.files = manifest.files /\ manifest'.next = manifest.next
    BY <2>1, <2>5, NoneIsNone DEF Fresh
  <2> QED BY <1>3, <2>4, <2>5, FailedManifest
<1>4. CASE Ending
  <2>1. /\ phase' = "down" /\ job' = None /\ edit' = None
        /\ \/ manifest' = manifest
           \/ edit # None /\ phase # "replaying" /\ manifest' = Written
    BY <1>4, CrashIs
  <2>2. edit # None => edit \in AnEdit BY DEF PhaseOK
  <2> QED BY <2>1, <2>2, WrittenFresh, NoneIsNone DEF Fresh
<1> QED BY <1>1, <1>2, <1>3, <1>4

--------------------
LEMMA SameVersionNext ==
  ASSUME "nested" \notin Faults, Types, SameVersion, Next \/ UNCHANGED vars
  PROVE  SameVersion'
<1>1. CASE ClientStep BY <1>1, ClientSame DEF SameVersion
<1>2. CASE Recover BY <1>2 DEF Recover, diskVars, SameVersion
<1>3. CASE RecoverLogFile \/ NewLog
  <2>1. UNCHANGED <<manifest, current, bgError>> /\ phase # "down" /\ ~bgError
    BY <1>3 DEF RecoverLogFile, NewLog, PhaseOK
  <2> QED BY <2>1 DEF SameVersion
<1>4. CASE OpenDone \/ LogAndApply
  <2>1. /\ phase # "down" /\ edit # None /\ manifest' = Written
        /\ current' = Apply(current, edit)
    BY <1>4, NoneIsNone DEF OpenDone, LogAndApply, PhaseOK
  <2> QED BY <2>1 DEF SameVersion, Written
<1>5. CASE WriteLevel0Table \/ StartCompaction \/ TrivialMove \/ WriteOutputs
             \/ InstallCompactionResults
  <2>1. CASE WriteLevel0Table BY <2>1 DEF WriteLevel0Table, SameVersion
  <2>2. CASE StartCompaction
    BY <2>2 DEF StartCompaction, Idle, diskVars, versionVars, SameVersion
  <2>3. CASE TrivialMove
    BY <2>3 DEF TrivialMove, Idle, diskVars, versionVars, SameVersion
  <2>4. CASE WriteOutputs BY <2>4 DEF WriteOutputs, SameVersion
  <2>5. CASE InstallCompactionResults
    BY <2>5 DEF InstallCompactionResults, diskVars, versionVars, SameVersion
  <2> QED BY <1>5, <2>1, <2>2, <2>3, <2>4, <2>5
<1>6. CASE TableFails BY <1>6 DEF TableFails, versionVars, SameVersion
<1>7. CASE LogAndApplyFails
  <2>1. bgError' /\ edit' = None /\ job' = None BY <1>7 DEF LogAndApplyFails
  <2> QED BY <2>1 DEF SameVersion
<1>8. CASE Ending BY <1>8, CrashIs DEF SameVersion
<1> QED BY <1>1, <1>2, <1>3, <1>4, <1>5, <1>6, <1>7, <1>8 DEF Next, ClientStep

--------------------
LEMMA DisjointLess ==
  ASSUME NEW t, NEW u, NEW fs \in Files, NEW gs, DisjointIn(t, fs),
         \A n \in AllFiles(fs) : u[n] = t[n],
         \A l \in Level \ {0} : gs[l] \subseteq fs[l]
  PROVE  DisjointIn(u, gs)
<1> SUFFICES ASSUME NEW l \in Level \ {0}, NEW m \in gs[l], NEW n \in gs[l], m # n
             PROVE  KeyRange(u[m]) \cap KeyRange(u[n]) = {}
  BY DEF DisjointIn
<1>1. m \in fs[l] /\ n \in fs[l] OBVIOUS
<1>2. u[m] = t[m] /\ u[n] = t[n] BY <1>1, FilesOf
<1> QED BY <1>1, <1>2 DEF DisjointIn

LEMMA JobStays ==
  ASSUME NEW t, NEW u, NEW cur \in Files, NEW j \in AJob, JobOK(t, cur, j),
         \A n \in AllFiles(cur) \cup j.outputs : u[n] = t[n]
  PROVE  JobOK(u, cur, j)
<1>1. j.level \in Level /\ j.level + 1 \in Level BY Bounds DEF AJob, Level
<1>2. \A n \in cur[j.level] \cup cur[j.level + 1] \cup j.outputs : u[n] = t[n]
  BY <1>1, FilesOf
<1>3. j.above \subseteq cur[j.level] /\ j.below \subseteq cur[j.level + 1]
  BY DEF JobOK
<1>4. \A n \in j.above \cup j.below : u[n] = t[n] BY <1>2, <1>3
<1>5. Ranges(u, j.above \cup j.below) = Ranges(t, j.above \cup j.below)
  BY <1>4 DEF Ranges
<1>6. \A m \in cur[j.level + 1] \ j.below :
        KeyRange(u[m]) \cap Ranges(u, j.above \cup j.below) = {}
  BY <1>2, <1>5 DEF JobOK
<1>7. /\ \A n \in j.outputs : KeyRange(u[n]) \subseteq Ranges(u, j.above \cup j.below)
      /\ \A m, n \in j.outputs : m # n => KeyRange(u[m]) \cap KeyRange(u[n]) = {}
  BY <1>2, <1>5 DEF JobOK
<1> QED BY <1>3, <1>5, <1>6, <1>7 DEF JobOK

LEMMA LevelsInit == Init => LevelsOK
<1>1. \A l \in Level : NoFiles[l] = {} BY DEF NoFiles
<1> QED BY <1>1, NoneIsNone DEF Init, LevelsOK, DisjointIn

LEMMA ApplyLess ==
  ASSUME NEW t, NEW cur \in Files, NEW e, DisjointIn(t, cur),
         \A l \in Level \ {0} : e.add[l] = {}
  PROVE  DisjointIn(t, Apply(cur, e))
<1>1. \A l \in Level \ {0} : Apply(cur, e)[l] \subseteq cur[l] BY DEF Apply
<1> QED BY <1>1, DisjointLess

\* Opening the store makes files of level 0 only.
LEMMA LevelsOpening ==
  ASSUME Types, FilesKept, FilesKept', Fresh, SameVersion, LevelsOK,
         Recover \/ RecoverLogFile \/ NewLog \/ OpenDone
  PROVE  LevelsOK'
<1>1. manifest.files \in Files /\ current \in Files /\ next \in Nat /\ manifest.next \in Nat
  BY DEF ManifestOK, MemOK
<1>2. CASE Recover
  <2>1. /\ phase = "down" /\ UNCHANGED <<manifest, tables, job>>
        /\ current' = manifest.files /\ edit'.add = NoFiles /\ edit'.kind = "open"
    BY <1>2 DEF Recover, diskVars
  <2>2. job = None BY <2>1 DEF PhaseOK
  <2>3. \A l \in Level \ {0} : edit'.add[l] = {} BY <2>1 DEF NoFiles
  <2>4. DisjointIn(tables, manifest.files) BY DEF LevelsOK
  <2>5. DisjointIn(tables, Apply(manifest.files, edit'))
    BY <1>1, <2>3, <2>4, ApplyLess
  <2> QED BY <2>1, <2>2, <2>4, <2>5, NoneIsNone DEF LevelsOK, EditOK
<1>3. CASE RecoverLogFile
  <2>1. PICK made \in SUBSET {next} : \E n \in DOMAIN logs :
          /\ made \subseteq FileNumber
          /\ tables' = [m \in DOMAIN tables \cup made |->
               IF m \in made THEN Readable(logs[n]) ELSE tables[m]]
          /\ edit' = [edit EXCEPT !.add = At(0, @[0] \cup made), !.log = n + 1]
    BY <1>3, TablesForIs DEF RecoverLogFile
  <2>2. /\ UNCHANGED <<manifest, current, job, phase>> /\ phase = "replaying"
    BY <1>3 DEF RecoverLogFile
  <2>3. edit \in AnEdit /\ edit.kind = "open" /\ job = None BY <2>2 DEF PhaseOK
  <2>4. /\ edit'.add = At(0, edit.add[0] \cup made) /\ edit'.kind = "open"
        /\ edit.add[0] \cup made \in SUBSET FileNumber
    BY <2>1, <2>3, Bounds DEF AnEdit, Files
  <2>5. \A l \in Level \ {0} : edit'.add[l] = {} BY <2>4, AtIs, Bounds
  <2>6. \A n \in DOMAIN tables : n # next => tables'[n] = tables[n] BY <2>1
  <2>7. \A n \in AllFiles(manifest.files) \cup AllFiles(current) :
          n \in DOMAIN tables /\ n \in Nat /\ n < next
    <3>1. manifest.files = current BY <2>2 DEF SameVersion, PhaseOK
    <3>2. AllFiles(current) \in SUBSET FileNumber /\ FileNumber \subseteq Nat
      BY <1>1, FilesAre DEF FileNumber
    <3> QED BY <2>2, <3>1, <3>2 DEF Fresh, Below, FilesKept, InTables
  <2>8. \A n \in AllFiles(manifest.files) \cup AllFiles(current) : tables'[n] = tables[n]
    BY <1>1, <2>6, <2>7
  <2>9. DisjointIn(tables', manifest.files) /\ DisjointIn(tables', current)
    BY <1>1, <2>8, DisjointLess DEF LevelsOK
  <2>10. DisjointIn(tables', Apply(current, edit'))
    BY <1>1, <2>5, <2>9, ApplyLess
  <2> QED BY <2>2, <2>3, <2>4, <2>9, <2>10, NoneIsNone DEF LevelsOK, EditOK
<1>4. CASE NewLog
  <2>1. /\ phase = "replaying" /\ edit \in AnEdit
        /\ UNCHANGED <<manifest, current, job, tables>>
        /\ edit' = [edit EXCEPT !.log = next, !.next = next + 1, !.last = last]
    BY <1>4 DEF NewLog, PhaseOK
  <2>2. edit'.add = edit.add /\ edit'.del = edit.del /\ edit'.kind = edit.kind
        /\ edit.kind = "open"
    BY <2>1 DEF AnEdit, PhaseOK
  <2>3. Apply(current, edit') = Apply(current, edit) BY <2>2 DEF Apply
  <2> QED BY <2>1, <2>2, <2>3 DEF LevelsOK, EditOK
<1>5. CASE OpenDone
  <2>1. /\ phase = "opening" /\ manifest' = Written
        /\ current' = Apply(current, edit) /\ edit' = None /\ job' = job
        /\ DeleteObsoleteFiles(AllFiles(current'), edit.log)
    BY <1>5 DEF OpenDone
  <2>2. edit \in AnEdit /\ job = None /\ current = manifest.files
    BY <2>1 DEF PhaseOK, SameVersion
  <2>3. manifest'.files = current' /\ current' \in Files
    BY <1>1, <2>1, <2>2, ApplyIs DEF Written
  <2>4. \A n \in AllFiles(current') : tables'[n] = tables[n]
    BY <2>1, SweepKeeps DEF FilesKept, InTables
  <2>5. DisjointIn(tables, current') BY <2>1, <2>2 DEF LevelsOK, EditOK
  <2>6. DisjointIn(tables', current') BY <2>3, <2>4, <2>5, DisjointLess
  <2> QED BY <2>1, <2>2, <2>3, <2>6, NoneIsNone DEF LevelsOK
<1> QED BY <1>2, <1>3, <1>4, <1>5

\* A compaction begins.
LEMMA LevelsStart ==
  ASSUME ~Manual, Types, FilesKept, LevelsOK, StartCompaction
  PROVE  LevelsOK'
<1>1. /\ UNCHANGED <<tables, manifest, current>> /\ edit = None /\ edit' = None
      /\ job' \in AJob
  BY StartIs DEF diskVars, versionVars
<1>2. PICK l \in 0..(NumLevels - 2) : \E seed \in Seeds(l) : \E in \in OtherInputs(l, seed) : Begun(l, in)
  BY StartIs
<1>3. PICK seed \in Seeds(l) : \E in \in OtherInputs(l, seed) : Begun(l, in)
  BY <1>2
<1>4. PICK in \in OtherInputs(l, seed) : Begun(l, in)
  BY <1>3
<1>5. LET U == Ranges(tables, in[1] \cup in[2])
      IN  /\ Convex(U) /\ U \in SUBSET Key
          /\ \A m \in current[l + 1] \ in[2] : KeyRange(tables[m]) \cap U = {}
  BY <1>4, InputsHang DEF FilesKept, LevelsOK
<1>6. /\ job'.level = l /\ job'.above = in[1] /\ job'.below = in[2] /\ job'.outputs = {}
  BY <1>4
<1>7. JobOK(tables, current, job') BY <1>4, <1>5, <1>6 DEF JobOK
<1> QED BY <1>1, <1>7, NoneIsNone DEF LevelsOK

\* A memtable becomes a table, below whatever it overlaps nothing of.
LEMMA LevelsFlush ==
  ASSUME Types, FilesKept, Fresh, SameVersion, LevelsOK, WriteLevel0Table
  PROVE  LevelsOK'
<1> DEFINE ks == KeyRange(imm)
<1>1. /\ phase = "up" /\ next <= MaxFile /\ tables' = With(tables, next, imm)
      /\ UNCHANGED <<manifest, current, job>> /\ edit = None
      /\ job = None => ~bgError
  BY DEF WriteLevel0Table
<1>2. PICK l \in PickLevels(ks) :
        edit' = MemTableEdit(l)
  BY DEF WriteLevel0Table
<1> HIDE DEF ks
<1>3. /\ manifest.files = current /\ current \in Files /\ next \in Nat
      /\ l \in Level /\ {next} \in SUBSET FileNumber
  <2>1. manifest.files = current BY <1>1 DEF SameVersion
  <2>2. l \in Level /\ {next} \in SUBSET FileNumber
    BY <1>1, Bounds DEF PickLevels, Level, FileNumber, PhaseOK, MemOK
  <2> QED BY <2>1, <2>2 DEF MemOK
<1>4. /\ edit'.add = At(l, {next}) /\ edit'.kind = "memtable"
      /\ \A j \in Level : edit'.del[j] = {}
      /\ \A j \in Level : edit'.add[j] = IF j = l THEN {next} ELSE {}
  <2>1. edit'.add = At(l, {next}) /\ edit'.kind = "memtable" /\ edit'.del = NoFiles
    BY <1>2
  <2> QED BY <2>1, <1>3, AtIs DEF NoFiles
<1>5. /\ tables'[next] = imm
      /\ \A n \in DOMAIN tables : n # next => tables'[n] = tables[n]
  BY <1>1 DEF With
<1>6. \A n \in AllFiles(current) : tables'[n] = tables[n] /\ n # next
  <2>1. \A n \in AllFiles(current) : n \in DOMAIN tables /\ n # next
    <3>1. AllFiles(current) \in SUBSET FileNumber /\ FileNumber \subseteq Nat
      BY <1>3, FilesAre DEF FileNumber
    <3> QED BY <1>1, <1>3, <3>1 DEF Fresh, Below, FilesKept, InTables
  <2> QED BY <1>5, <2>1
<1>7. \A j \in Level : \A n \in current[j] : tables'[n] = tables[n]
  BY <1>3, <1>6, FilesOf
<1>8. l > 0 => \A j \in 0..l : \A n \in current[j] : KeyRange(tables'[n]) \cap ks = {}
  <2> SUFFICES ASSUME l > 0, NEW j \in 0..l, NEW n \in current[j]
               PROVE  KeyRange(tables'[n]) \cap ks = {}
    OBVIOUS
  <2>1. Overlapping(current, j, ks) = {} BY DEF PickLevels
  <2>2. j \in Level BY <1>3, Bounds DEF Level
  <2> QED BY <1>7, <2>1, <2>2 DEF Overlapping, Span
<1>9. DisjointIn(tables', current) BY <1>3, <1>6, DisjointLess DEF LevelsOK
<1>10. DisjointIn(tables', Apply(current, edit'))
  <2> SUFFICES ASSUME NEW j \in Level \ {0}, NEW m \in Apply(current, edit')[j],
                      NEW n \in Apply(current, edit')[j], m # n
               PROVE  KeyRange(tables'[m]) \cap KeyRange(tables'[n]) = {}
    BY DEF DisjointIn
  <2>1. Apply(current, edit')[j] = current[j] \cup (IF j = l THEN {next} ELSE {})
    BY <1>4 DEF Apply
  <2>2. CASE m \in current[j] /\ n \in current[j] BY <1>9, <2>2 DEF DisjointIn
  <2>3. CASE j = l /\ ((m = next /\ n \in current[j]) \/ (n = next /\ m \in current[j]))
    <3>1. l > 0 /\ l \in 0..l BY <1>3, <2>3, Bounds DEF Level
    <3>2. KeyRange(tables'[next]) = ks BY <1>5 DEF ks
    <3> QED BY <1>8, <2>3, <3>1, <3>2
  <2>4. \A x \in Apply(current, edit')[j] : x \in current[j] \/ (j = l /\ x = next)
    BY <2>1
  <2>5. /\ m \in current[j] \/ (j = l /\ m = next)
        /\ n \in current[j] \/ (j = l /\ n = next)
    BY <2>4
  <2> QED BY <2>2, <2>3, <2>5
<1>11. job \in AJob =>
         \A m \in edit'.add[job.level + 1] :
           KeyRange(tables'[m]) \cap Ranges(tables', job.above \cup job.below) = {}
  <2> SUFFICES ASSUME job \in AJob, NEW m \in edit'.add[job.level + 1]
               PROVE  KeyRange(tables'[m]) \cap Ranges(tables', job.above \cup job.below) = {}
    OBVIOUS
  <2>1. job.level \in Level /\ job.level + 1 \in Level /\ job.level \in Nat
    BY Bounds DEF AJob, Level
  <2>2. m = next /\ l = job.level + 1 BY <1>4, <2>1
  <2>3. l > 0 /\ job.level \in 0..l /\ l \in 0..l BY <2>1, <2>2
  <2>4. job.above \subseteq current[job.level] /\ job.below \subseteq current[l]
    BY <2>2 DEF LevelsOK, JobOK
  <2>5. \A n \in job.above \cup job.below : KeyRange(tables'[n]) \cap ks = {}
    BY <1>8, <2>3, <2>4
  <2>6. KeyRange(tables'[m]) = ks BY <1>5, <2>2 DEF ks
  <2> QED BY <2>5, <2>6, RangesIs
<1>12. job \in AJob => JobOK(tables', current, job)
  <2> SUFFICES ASSUME job \in AJob PROVE JobOK(tables', current, job)
    OBVIOUS
  <2>1. \A n \in job.outputs : tables'[n] = tables[n]
    <3>1. job.outputs \subseteq DOMAIN tables /\ Below(job.outputs, next)
          /\ job.outputs \subseteq Nat
      BY DEF FilesKept, Fresh, AJob, FileNumber
    <3>2. \A n \in job.outputs : n # next BY <1>3, <3>1 DEF Below
    <3> QED BY <1>5, <3>1, <3>2
  <2> QED BY <1>3, <1>6, <2>1, JobStays DEF LevelsOK
<1> QED BY <1>1, <1>3, <1>4, <1>9, <1>10, <1>11, <1>12 DEF LevelsOK, EditOK

\* A file goes down a level where it overlaps nothing.
LEMMA LevelsMove ==
  ASSUME Types, FilesKept, LevelsOK, TrivialMove
  PROVE  LevelsOK'
<1>1. UNCHANGED <<tables, manifest, current, job>> /\ job = None
  BY DEF TrivialMove, Idle, diskVars, versionVars
<1>2. PICK l \in 0..(NumLevels - 2) : \E n \in current[l] :
        /\ Inputs(current, l + 1, Span(n)) = {}
        /\ edit' = MoveEdit(l, n)
  BY DEF TrivialMove
<1>3. PICK n \in current[l] :
        /\ Inputs(current, l + 1, Span(n)) = {}
        /\ edit' = MoveEdit(l, n)
  BY <1>2
<1>4. l \in Level /\ l + 1 \in Level /\ l + 1 # 0 /\ current \in Files
  BY Bounds DEF Level, MemOK
<1>5. {n} \in SUBSET FileNumber BY <1>4 DEF Files
<1>6. edit'.add = At(l + 1, {n}) /\ edit'.kind = "move" BY <1>3
<1>7. \A j \in Level : edit'.add[j] = IF j = l + 1 THEN {n} ELSE {}
  BY <1>4, <1>5, <1>6, AtIs
<1>8. \A m \in current[l + 1] : KeyRange(tables[m]) \cap KeyRange(tables[n]) = {}
  BY <1>3, <1>4 DEF Inputs, Overlapping, Span
<1>9. DisjointIn(tables, Apply(current, edit'))
  <2> SUFFICES ASSUME NEW j \in Level \ {0}, NEW m \in Apply(current, edit')[j],
                      NEW k \in Apply(current, edit')[j], m # k
               PROVE  KeyRange(tables[m]) \cap KeyRange(tables[k]) = {}
    BY DEF DisjointIn
  <2>1. Apply(current, edit')[j] \subseteq current[j] \cup (IF j = l + 1 THEN {n} ELSE {})
    BY <1>7 DEF Apply
  <2>2. CASE m \in current[j] /\ k \in current[j]
    BY <2>2 DEF LevelsOK, DisjointIn
  <2>3. CASE j = l + 1 /\ ((m = n /\ k \in current[j]) \/ (k = n /\ m \in current[j]))
    BY <1>8, <2>3
  <2>4. \A x \in Apply(current, edit')[j] : x \in current[j] \/ (j = l + 1 /\ x = n)
    BY <2>1
  <2>5. /\ m \in current[j] \/ (j = l + 1 /\ m = n)
        /\ k \in current[j] \/ (j = l + 1 /\ k = n)
    BY <2>4
  <2> QED BY <2>2, <2>3, <2>5
<1> QED BY <1>1, <1>6, <1>9, NoneIsNone DEF LevelsOK, EditOK

\* The outputs of a compaction stay within its inputs, and two of them have no
\* key in common when they end between keys.
LEMMA PiecesApart ==
  ASSUME ~CutInsideKey, NEW E, E \subseteq Entry, NEW ends \in Ends(E),
         NEW e \in ends, NEW f \in ends, Precedes(e, f)
  PROVE  KeyRange(Piece(E, ends, e)) \cap KeyRange(Piece(E, ends, f)) = {}
<1>1. ends \subseteq E BY DEF Ends
<1>2. Piece(E, ends, e) \subseteq Entry /\ Piece(E, ends, f) \subseteq Entry
  BY DEF Piece
<1>3. e.key \in Int /\ Key \subseteq Int BY <1>1 DEF Entry, Key
<1> DEFINE upTo == {k \in Key : k <= e.key}
           after == {k \in Key : k > e.key}
<1>4. /\ upTo \in SUBSET Key /\ Convex(upTo)
      /\ after \in SUBSET Key /\ Convex(after)
  <2>1. \A lo, k, hi \in Int : lo <= k /\ k <= hi =>
          (hi <= e.key => k <= e.key) /\ (lo > e.key => k > e.key)
    BY <1>3
  <2> QED BY <1>3, <2>1 DEF Convex
<1>5. \A g \in Piece(E, ends, e) : g.key \in upTo
  <2> SUFFICES ASSUME NEW g \in E, ~Precedes(e, g) PROVE g.key \in upTo
    BY DEF Piece
  <2>1. g.key \in Key /\ g.key \in Int BY <1>3 DEF Entry
  <2> QED BY <1>3, <2>1 DEF Precedes
<1>6. \A g \in Piece(E, ends, f) : g.key \in after
  <2> SUFFICES ASSUME NEW g \in E, Precedes(e, g) PROVE g.key \in after
    BY DEF Piece
  <2>1. g.key \in Key /\ g.key \in Int BY <1>3 DEF Entry
  <2>2. g.key # e.key
    <3>1. \A h \in E : h.key = e.key => ~Precedes(e, h) BY <1>1 DEF Ends
    <3> QED BY <3>1
  <2> QED BY <1>3, <2>1, <2>2 DEF Precedes
<1> HIDE DEF upTo, after
<1>7. /\ KeyRange(Piece(E, ends, e)) \subseteq upTo
      /\ KeyRange(Piece(E, ends, f)) \subseteq after
  BY <1>2, <1>4, <1>5, <1>6, RangeIs
<1>8. upTo \cap after = {}
  <2> SUFFICES ASSUME NEW k \in upTo, k \in after PROVE FALSE
    OBVIOUS
  <2>1. k \in Int /\ k <= e.key /\ k > e.key BY <1>3 DEF upTo, after
  <2> QED BY <1>3, <2>1
<1> QED BY <1>7, <1>8

LEMMA LevelsOutputs ==
  ASSUME ~CutInsideKey, Types, FilesKept, Fresh, SameVersion, LevelsOK, WriteOutputs
  PROVE  LevelsOK'
<1>1. /\ phase = "up" /\ job # None /\ edit = None
      /\ UNCHANGED <<manifest, current, edit>>
  BY OutputsAre
<1>2. PICK ends \in Ends(Merged) : \E made \in SUBSET FileNumber :
        /\ \A n \in made : n >= next /\ n < next'
        /\ BuiltAs(ends, made)
  BY OutputsAre
<1>3. PICK made \in SUBSET FileNumber :
        /\ \A n \in made : n >= next /\ n < next'
        /\ BuiltAs(ends, made)
  BY <1>2
<1>4. /\ job \in AJob /\ job.level \in Level /\ job.level + 1 \in Level
      /\ current \in Files /\ next \in Nat /\ manifest.files = current
      /\ JobOK(tables, current, job)
  BY <1>1, JobFiles DEF MemOK, SameVersion, LevelsOK
<1>5. /\ job'.level = job.level /\ job'.above = job.above /\ job'.below = job.below
      /\ job'.outputs = made
  BY <1>3, <1>4 DEF AJob
<1>6. \A n \in AllFiles(current) : tables'[n] = tables[n]
  <2>1. \A n \in AllFiles(current) : n \in DOMAIN tables /\ n \in Nat /\ n < next
    <3>1. AllFiles(current) \in SUBSET FileNumber /\ FileNumber \subseteq Nat
      BY <1>4, FilesAre DEF FileNumber
    <3> QED BY <1>1, <3>1 DEF Fresh, Below, FilesKept, InTables
  <2>2. \A n \in made : n \in Nat BY DEF FileNumber
  <2> QED BY <1>3, <1>4, <2>1, <2>2
<1>7. DisjointIn(tables', current) BY <1>4, <1>6, DisjointLess DEF LevelsOK
<1> DEFINE ns == job.above \cup job.below
           U == Ranges(tables, ns)
<1>9. /\ Convex(U) /\ U \in SUBSET Key
      /\ Ranges(tables', ns) = U
      /\ job.above \subseteq current[job.level] /\ job.below \subseteq current[job.level + 1]
      /\ \A m \in current[job.level + 1] \ job.below : KeyRange(tables'[m]) \cap U = {}
  <2>1. /\ job.above \subseteq current[job.level] /\ job.below \subseteq current[job.level + 1]
        /\ Convex(U) /\ U \in SUBSET Key
        /\ \A m \in current[job.level + 1] \ job.below : KeyRange(tables[m]) \cap U = {}
    BY <1>4 DEF JobOK
  <2>2. \A n \in current[job.level] \cup current[job.level + 1] : tables'[n] = tables[n]
    BY <1>4, <1>6, FilesOf
  <2>3. \A n \in ns : tables'[n] = tables[n] BY <2>1, <2>2
  <2>4. Ranges(tables', ns) = U BY <2>3 DEF Ranges
  <2> HIDE DEF U, ns
  <2> QED BY <2>1, <2>2, <2>4
<1>10. /\ Merged \subseteq Entry
       /\ \A g \in Merged : g.key \in U
  <2>1. Merged \subseteq Entry BY <1>1, MergedIn
  <2>2. ASSUME NEW g \in Merged PROVE g.key \in U
    <3>1. PICK n \in ns : g \in tables[n] BY DEF Merged, Kept
    <3>2. n \in DOMAIN tables BY <1>1, <3>1, JobFiles
    <3>3. tables[n] \subseteq Entry BY <3>2 DEF TablesOK
    <3>4. g.key \in KeyRange(tables[n]) BY <3>1, <3>3, RangeIs
    <3> QED BY <3>1, <3>4, RangesIs
  <2> QED BY <2>1, <2>2
<1> HIDE DEF U, ns
<1>11. \A n \in made : KeyRange(tables'[n]) \subseteq U
  <2> SUFFICES ASSUME NEW n \in made PROVE KeyRange(tables'[n]) \subseteq U
    OBVIOUS
  <2>1. PICK e \in ends : tables'[n] = Piece(Merged, ends, e) BY <1>3
  <2>2. Piece(Merged, ends, e) \subseteq Merged BY DEF Piece
  <2>3. Piece(Merged, ends, e) \subseteq Entry /\ \A g \in Piece(Merged, ends, e) : g.key \in U
    BY <1>10, <2>2
  <2> QED BY <1>9, <2>1, <2>3, RangeIs
<1>12. ASSUME NEW m \in made, NEW n \in made, m # n
       PROVE  KeyRange(tables'[m]) \cap KeyRange(tables'[n]) = {}
  <2>1. PICK e \in ends : /\ m = next + Cardinality({d \in ends : Precedes(d, e)})
                          /\ tables'[m] = Piece(Merged, ends, e)
    BY <1>3
  <2>2. PICK f \in ends : /\ n = next + Cardinality({d \in ends : Precedes(d, f)})
                          /\ tables'[n] = Piece(Merged, ends, f)
    BY <1>3
  <2>3. Precedes(e, f) \/ Precedes(f, e)
    <3> SUFFICES ASSUME ~Precedes(e, f), ~Precedes(f, e) PROVE FALSE
      OBVIOUS
    <3>1. ends \subseteq Entry BY <1>10 DEF Ends
    <3>2. e.key = f.key /\ e.seq = f.seq BY <3>1, Bounds DEF Precedes, AnyEntry
    <3>3. {d \in ends : Precedes(d, e)} = {d \in ends : Precedes(d, f)}
      BY <3>2 DEF Precedes
    <3> QED BY <1>12, <2>1, <2>2, <3>3
  <2> QED BY <1>10, <2>1, <2>2, <2>3, PiecesApart
<1>13. JobOK(tables', current, job') BY <1>5, <1>9, <1>11, <1>12 DEF JobOK, ns
<1> QED BY <1>1, <1>4, <1>7, <1>13, NoneIsNone DEF LevelsOK

\* The outputs take the place of the inputs.
LEMMA LevelsInstall ==
  ASSUME Types, FilesKept, LevelsOK, InstallCompactionResults
  PROVE  LevelsOK'
<1>1. /\ UNCHANGED <<tables, manifest, current, job>> /\ job # None
      /\ edit' = CompactionEdit
  BY DEF InstallCompactionResults, diskVars, versionVars
<1>2. /\ job \in AJob /\ job.level \in Level /\ job.level + 1 \in Level
      /\ current \in Files /\ JobOK(tables, current, job)
      /\ job.above \in SUBSET FileNumber /\ job.outputs \in SUBSET FileNumber
  BY <1>1, JobFiles DEF MemOK, LevelsOK, AJob
<1>3. /\ edit'.kind = "compaction" /\ edit'.add = At(job.level + 1, job.outputs)
      /\ edit'.del = [At(job.level, job.above) EXCEPT ![job.level + 1] = job.below]
  BY <1>1
<1>4. /\ edit'.del[job.level + 1] = job.below
      /\ \A j \in Level : edit'.add[j] = IF j = job.level + 1 THEN job.outputs ELSE {}
  <2>1. DOMAIN At(job.level, job.above) = Level BY DEF At, NoFiles
  <2> QED BY <1>2, <1>3, <2>1, AtIs
<1>5. DisjointIn(tables, Apply(current, edit'))
  <2> SUFFICES ASSUME NEW j \in Level \ {0}, NEW m \in Apply(current, edit')[j],
                      NEW n \in Apply(current, edit')[j], m # n
               PROVE  KeyRange(tables[m]) \cap KeyRange(tables[n]) = {}
    BY DEF DisjointIn
  <2> DEFINE U == Ranges(tables, job.above \cup job.below)
  <2>1. /\ \A x \in current[job.level + 1] \ job.below : KeyRange(tables[x]) \cap U = {}
        /\ \A x \in job.outputs : KeyRange(tables[x]) \subseteq U
        /\ \A x, y \in job.outputs : x # y => KeyRange(tables[x]) \cap KeyRange(tables[y]) = {}
    BY <1>2 DEF JobOK
  <2> HIDE DEF U
  <2>2. Apply(current, edit')[j] = (current[j] \ edit'.del[j]) \cup edit'.add[j]
    BY DEF Apply
  <2>3. CASE m \in current[j] /\ n \in current[j]
    BY <2>3 DEF LevelsOK, DisjointIn
  <2>4. CASE j # job.level + 1
    <3>1. edit'.add[j] = {} BY <1>4, <2>4
    <3> QED BY <2>2, <2>3, <3>1
  <2>5. CASE j = job.level + 1
    <3>1. Apply(current, edit')[j] = (current[job.level + 1] \ job.below) \cup job.outputs
      BY <1>4, <2>2, <2>5
    <3> QED BY <2>1, <3>1, <2>3, <2>5
  <2> QED BY <2>4, <2>5
<1> QED BY <1>1, <1>3, <1>5, NoneIsNone DEF LevelsOK, EditOK

\* A memtable that becomes a table of the version leaves the compaction as it
\* was.
LEMMA JobGoesOn ==
  ASSUME NEW t, NEW cur \in Files, NEW e, e.kind = "memtable", NEW j \in AJob,
         JobOK(t, cur, j), EditOK(t, cur, e, j)
  PROVE  JobOK(t, Apply(cur, e), j)
<1> DEFINE U == Ranges(t, j.above \cup j.below)
<1>1. j.level \in Level /\ j.level + 1 \in Level BY Bounds DEF AJob, Level
<1>2. /\ \A l \in Level : e.del[l] = {}
      /\ \A m \in e.add[j.level + 1] : KeyRange(t[m]) \cap U = {}
  BY DEF EditOK
<1>3. /\ Convex(U) /\ U \in SUBSET Key
      /\ j.above \subseteq cur[j.level] /\ j.below \subseteq cur[j.level + 1]
      /\ \A m \in cur[j.level + 1] \ j.below : KeyRange(t[m]) \cap U = {}
      /\ \A n \in j.outputs : KeyRange(t[n]) \subseteq U
      /\ \A m, n \in j.outputs : m # n => KeyRange(t[m]) \cap KeyRange(t[n]) = {}
  BY DEF JobOK
<1> HIDE DEF U
<1>4. \A l \in Level : Apply(cur, e)[l] = cur[l] \cup e.add[l]
  BY <1>2 DEF Apply
<1>5. /\ Apply(cur, e)[j.level] = cur[j.level] \cup e.add[j.level]
      /\ Apply(cur, e)[j.level + 1] = cur[j.level + 1] \cup e.add[j.level + 1]
  BY <1>1, <1>4
<1>6. \A m \in Apply(cur, e)[j.level + 1] \ j.below : KeyRange(t[m]) \cap U = {}
  BY <1>2, <1>3, <1>5
<1> QED BY <1>3, <1>5, <1>6 DEF JobOK, U

LEMMA LevelsManifest ==
  ASSUME Types, FilesKept, FilesKept', SameVersion, LevelsOK,
         TableFails \/ LogAndApply \/ LogAndApplyFails \/ Ending
  PROVE  LevelsOK'
<1>1. /\ manifest.files \in Files /\ current \in Files
      /\ edit # None => edit \in AnEdit
      /\ job # None => job \in AJob
  BY DEF ManifestOK, MemOK, PhaseOK, ClientsOK
<1>2. edit # None /\ phase # "down" =>
        /\ current = manifest.files /\ Written.files = Apply(current, edit)
        /\ DisjointIn(tables, Written.files)
  BY <1>1 DEF SameVersion, Written, LevelsOK, EditOK
<1>3. CASE TableFails
  <2>1. /\ UNCHANGED <<tables, manifest, current, edit>> /\ edit = None
        /\ job' \in {job, None}
    BY <1>3 DEF TableFails, DeleteObsoleteFiles, versionVars
  <2> QED BY <2>1, NoneIsNone DEF LevelsOK
<1>4. CASE LogAndApply
  <2>1. /\ phase = "up" /\ edit # None /\ manifest' = Written
        /\ current' = Apply(current, edit) /\ edit' = None
        /\ job' = IF edit.kind = "memtable" THEN job ELSE None
        /\ \/ UNCHANGED tables
           \/ DeleteObsoleteFiles(Live(current', job'), edit.log)
    BY <1>4 DEF LogAndApply
  <2>2. manifest'.files = current' /\ current' \in Files /\ edit \in AnEdit
    BY <1>1, <1>2, <2>1, ApplyIs
  <2>3. \A n \in DOMAIN tables' : tables'[n] = tables[n] BY <2>1, SweepKeeps
  <2>4. DisjointIn(tables', current')
    <3>1. \A n \in AllFiles(current') : tables'[n] = tables[n]
      BY <2>3 DEF FilesKept, InTables
    <3>2. DisjointIn(tables, current') BY <1>2, <2>1
    <3> QED BY <2>2, <3>1, <3>2, DisjointLess
  <2>5. job' \in AJob => JobOK(tables', current', job')
    <3> SUFFICES ASSUME job' \in AJob PROVE JobOK(tables', current', job')
      OBVIOUS
    <3>1. edit.kind = "memtable" /\ job' = job /\ job \in AJob
      BY <2>1, NoneIsNone
    <3>2. JobOK(tables, current', job)
      BY <1>1, <2>1, <2>2, <3>1, JobGoesOn DEF LevelsOK
    <3>3. \A n \in AllFiles(current') \cup job.outputs : tables'[n] = tables[n]
      BY <2>3, <3>1 DEF FilesKept, InTables
    <3> QED BY <2>2, <3>1, <3>2, <3>3, JobStays
  <2> QED BY <2>1, <2>2, <2>4, <2>5, NoneIsNone DEF LevelsOK
<1>5. CASE LogAndApplyFails
  <2>1. /\ phase = "up" /\ edit # None /\ edit' = None /\ job' \in {job, None}
        /\ UNCHANGED <<tables, current>>
    BY <1>5 DEF LogAndApplyFails, DeleteObsoleteFiles, versionVars
  <2>2. manifest'.files = manifest.files \/ manifest'.files = Written.files
    BY <1>5, FailedManifest
  <2>3. DisjointIn(tables, manifest'.files) BY <1>2, <2>1, <2>2 DEF LevelsOK
  <2> QED BY <2>1, <2>3, NoneIsNone DEF LevelsOK
<1>6. CASE Ending
  <2>1. /\ phase # "down" /\ job' = None /\ edit' = None /\ current' = NoFiles
        /\ UNCHANGED tables
        /\ manifest' = manifest \/ (edit # None /\ manifest' = Written)
    BY <1>6, CrashIs
  <2>2. DisjointIn(tables, manifest'.files) BY <1>2, <2>1 DEF LevelsOK
  <2>3. DisjointIn(tables, NoFiles) BY DEF DisjointIn, NoFiles
  <2> QED BY <2>1, <2>2, <2>3, NoneIsNone DEF LevelsOK
<1> QED BY <1>3, <1>4, <1>5, <1>6

LEMMA LevelsNext ==
  ASSUME ~Manual, ~CutInsideKey, "nested" \notin Faults,
         Types, FilesKept, FilesKept', Fresh, SameVersion, LevelsOK, [Next]_vars
  PROVE  Fresh' /\ SameVersion' /\ LevelsOK'
<1>1. SameVersion' BY SameVersionNext
<1>2. CASE ClientStep
  <2>1. LevelsOK' BY <1>2, ClientSame DEF LevelsOK
  <2> QED BY <1>1, <1>2, <2>1, FreshClient
<1>3. CASE Recover \/ RecoverLogFile \/ NewLog \/ OpenDone
  BY <1>1, <1>3, FreshOpening, LevelsOpening
<1>4. CASE \/ WriteLevel0Table \/ StartCompaction \/ TrivialMove
           \/ WriteOutputs \/ InstallCompactionResults
  <2>1. Fresh' BY <1>4, FreshWork
  <2>2. LevelsOK'
    BY <1>4, LevelsFlush, LevelsStart, LevelsMove, LevelsOutputs, LevelsInstall
  <2> QED BY <1>1, <2>1, <2>2
<1>5. CASE TableFails \/ LogAndApply \/ LogAndApplyFails \/ Ending
  BY <1>1, <1>5, FreshManifest, LevelsManifest
<1> QED BY <1>2, <1>3, <1>4, <1>5 DEF Next, ClientStep

LEMMA AlwaysApart ==
  ASSUME ~Manual, ~CutInsideKey, "nested" \notin Faults
  PROVE  Spec => [](Fresh /\ SameVersion /\ LevelsOK)
<1> DEFINE Inv == Fresh /\ SameVersion /\ LevelsOK
<1>1. Init => Inv
  <2>1. Init => SameVersion BY DEF Init, SameVersion
  <2> QED BY <2>1, FreshInit, LevelsInit
<1>2. (Types /\ FilesKept) /\ (Types /\ FilesKept)' /\ Inv /\ [Next]_vars => Inv'
  BY LevelsNext
<1> HIDE DEF Types, Inv
<1>3. Spec => []Inv BY <1>1, <1>2, AlwaysKept, PTL DEF Spec
<1> QED BY <1>3 DEF Inv

\* Below level 0 no two files of a level cover the same key, so a Get may ask
\* one file of a level only (Version::Get).  A manual compaction is left out,
\* which may start from files that a memtable comes between, and so are outputs
\* that end inside a key.  A memtable that fails inside a compaction is left
\* out too: the version that goes on is then not the one of the manifest.
THEOREM LevelsApart ==
  ASSUME ~Manual, ~CutInsideKey, "nested" \notin Faults
  PROVE  Spec => []LevelsDisjoint
<1>1. LevelsOK => LevelsDisjoint
  BY DEF LevelsOK, DisjointIn, LevelsDisjoint, Span
<1> QED BY <1>1, AlwaysApart, PTL

--------------------
\* Writes that were acknowledged with sync = true survive.

LEMMA LogsGrowInit == Init => LogsGrow
BY NoneIsNone DEF Init, LogsGrow

LEMMA LogsGrowNext ==
  ASSUME Types, FilesKept, LogsGrow, [Next]_vars PROVE LogsGrow'
<1>1. /\ manifest.log \in Nat /\ manifest.next \in Nat /\ next \in Nat
      /\ logNumber \in Nat /\ logfile \in Nat
      /\ edit \in AnEdit => edit.log \in Nat /\ edit.next \in Nat
  <2>1. File0 \subseteq Nat BY Bounds
  <2> QED BY <2>1 DEF ManifestOK, MemOK, AnEdit
<1>2. CASE ClientStep
  <2>1. /\ UNCHANGED <<manifest, edit, phase>> /\ next' \in Nat /\ next <= next'
    BY <1>2, ClientSame
  <2>2. logNumber' = logNumber /\ (phase = "up" => logfile' <= next')
    <3>1. CASE SwitchMemTable BY <3>1, <1>1 DEF SwitchMemTable
    <3>2. CASE ~SwitchMemTable
      <4>1. UNCHANGED <<logfile, logNumber, next>>
        BY <1>2, <3>2 DEF ClientStep, WriteDone, SyncFails, AddRecord, AddRecordFails,
             GetSnapshot, ReleaseSnapshot, StartRead, EndRead, vars, diskVars, memVars,
             versionVars
      <4> QED BY <4>1 DEF LogsGrow
    <3> QED BY <3>1, <3>2
  <2>3. phase = "opening" => logfile' = logfile
    BY <1>2 DEF ClientStep, SwitchMemTable, Ready, WriteDone, SyncFails, AddRecord,
         AddRecordFails, GetSnapshot, ReleaseSnapshot, StartRead, EndRead, vars,
         diskVars, memVars, versionVars
  <2>4. \A x \in Nat : x <= next => x <= next' BY <1>1, <2>1
  <2> QED BY <1>1, <2>1, <2>2, <2>3, <2>4 DEF LogsGrow
<1>3. CASE Recover
  <2>1. /\ next' = manifest.next + 1 /\ logNumber' = manifest.log /\ manifest' = manifest
        /\ edit' = [kind |-> "open", add |-> NoFiles, del |-> NoFiles,
                    log |-> manifest.log, next |-> manifest.next,
                    last |-> manifest.last]
        /\ phase' = "replaying"
    BY <1>3 DEF Recover, diskVars
  <2>2. edit'.log = manifest.log BY <2>1
  <2> QED BY <1>1, <2>1, <2>2 DEF LogsGrow
<1>4. CASE RecoverLogFile
  <2>1. PICK n \in DOMAIN logs : \E x \in Nat : \E a :
          /\ next <= x /\ next' = MarkUsed(x, n)
          /\ edit' = [edit EXCEPT !.add = a, !.log = n + 1]
    <3>1. PICK n \in DOMAIN logs : \E made :
            /\ next' = MarkUsed(IF Readable(logs[n]) = {} THEN next ELSE next + 1, n)
            /\ edit' = [edit EXCEPT !.add = At(0, @[0] \cup made), !.log = n + 1]
      BY <1>4 DEF RecoverLogFile
    <3>2. PICK made :
            /\ next' = MarkUsed(IF Readable(logs[n]) = {} THEN next ELSE next + 1, n)
            /\ edit' = [edit EXCEPT !.add = At(0, @[0] \cup made), !.log = n + 1]
      BY <3>1
    <3> DEFINE x == IF Readable(logs[n]) = {} THEN next ELSE next + 1
               a == At(0, edit.add[0] \cup made)
    <3>3. x \in Nat /\ next <= x BY <1>1
    <3>4. next' = MarkUsed(x, n) /\ edit' = [edit EXCEPT !.add = a, !.log = n + 1]
      BY <3>2
    <3> HIDE DEF x, a
    <3> QED BY <3>3, <3>4
  <2>2. PICK x \in Nat : \E a :
          /\ next <= x /\ next' = MarkUsed(x, n)
          /\ edit' = [edit EXCEPT !.add = a, !.log = n + 1]
    BY <2>1
  <2>3. /\ UNCHANGED <<manifest, phase, logNumber>> /\ phase = "replaying"
        /\ edit \in AnEdit
    BY <1>4 DEF RecoverLogFile, PhaseOK
  <2>4. edit'.log = n + 1 /\ n \in Nat
    BY <2>2, <2>3 DEF AnEdit, LogsOK, FileNumber
  <2>5. next' \in Nat /\ n + 1 <= next' /\ next <= next'
    BY <1>1, <2>2, <2>4 DEF MarkUsed
  <2> QED BY <1>1, <2>3, <2>4, <2>5 DEF LogsGrow
<1>5. CASE NewLog
  <2>1. /\ phase = "replaying" /\ phase' = "opening" /\ logfile' = next
        /\ next' = next + 1 /\ UNCHANGED <<manifest, logNumber>>
        /\ edit' = [edit EXCEPT !.log = next, !.next = next + 1, !.last = last]
        /\ edit \in AnEdit
    BY <1>5 DEF NewLog, PhaseOK
  <2>2. edit'.log = next /\ edit'.next = next + 1 BY <2>1 DEF AnEdit
  <2> QED BY <1>1, <2>1, <2>2 DEF LogsGrow
<1>6. CASE OpenDone \/ LogAndApply
  <2>1. /\ phase \in {"opening", "up"} /\ phase' = "up" /\ edit # None /\ manifest' = Written
        /\ edit' = None /\ logNumber' = edit.log /\ UNCHANGED <<logfile, next>>
    BY <1>6, NoneIsNone DEF OpenDone, LogAndApply, PhaseOK, memVars
  <2>2. edit \in AnEdit BY <2>1 DEF PhaseOK
  <2> QED BY <2>1, <2>2, NoneIsNone DEF LogsGrow, Written
<1>7. CASE WriteLevel0Table
  <2>1. /\ phase = "up" /\ UNCHANGED <<manifest, phase, logfile, logNumber>>
        /\ next' = next + 1 /\ edit'.log = logfile /\ edit'.next = next + 1
    BY <1>7 DEF WriteLevel0Table, memVars
  <2> QED BY <1>1, <2>1 DEF LogsGrow
<1>8. CASE TrivialMove \/ InstallCompactionResults
  <2>1. /\ phase = "up" /\ UNCHANGED <<manifest, phase, logfile, logNumber, next>>
        /\ edit'.log = logNumber /\ edit'.next = next
    <3>1. CASE InstallCompactionResults
      BY <3>1 DEF InstallCompactionResults, diskVars, memVars, versionVars
    <3>2. CASE TrivialMove
      <4>1. PICK l \in 0..(NumLevels - 2) : \E n \in current[l] : edit' = MoveEdit(l, n)
        BY <3>2 DEF TrivialMove
      <4>2. edit'.log = logNumber /\ edit'.next = next BY <4>1
      <4> QED BY <3>2, <4>2 DEF TrivialMove, Idle, diskVars, memVars, versionVars
    <3> QED BY <1>8, <3>1, <3>2
  <2> QED BY <2>1 DEF LogsGrow
<1>9. CASE StartCompaction \/ WriteOutputs \/ TableFails
  <2>1. /\ UNCHANGED <<manifest, phase, logfile, logNumber, edit>> /\ next' \in Nat
        /\ next <= next'
    <3>1. CASE StartCompaction
      BY <1>1, <3>1 DEF StartCompaction, diskVars, memVars, versionVars
    <3>2. CASE WriteOutputs BY <3>2, OutputsAre DEF memVars
    <3>3. CASE TableFails BY <1>1, <3>3 DEF TableFails, memVars, versionVars
    <3> QED BY <1>9, <3>1, <3>2, <3>3
  <2> QED BY <1>1, <2>1 DEF LogsGrow
<1>10. CASE LogAndApplyFails
  <2>1. /\ phase = "up" /\ edit # None /\ edit' = None
        /\ UNCHANGED <<phase, logfile, logNumber, next>>
    BY <1>10 DEF LogAndApplyFails, memVars, versionVars
  <2>2. edit \in AnEdit BY <2>1 DEF PhaseOK
  <2>3. \/ manifest'.log = manifest.log /\ manifest'.next = manifest.next
        \/ manifest'.log = edit.log /\ manifest'.next = edit.next
    BY <1>10, FailedRecord DEF Written, ManifestOK
  <2> QED BY <2>1, <2>2, <2>3, NoneIsNone DEF LogsGrow
<1>11. CASE Ending
  <2>1. /\ phase' = "down" /\ edit' = None
        /\ manifest' = manifest
             \/ (edit # None /\ phase # "replaying" /\ manifest' = Written)
    BY <1>11, CrashIs
  <2>2. edit # None => edit \in AnEdit BY DEF PhaseOK
  <2> QED BY <2>1, <2>2, NoneIsNone DEF LogsGrow, Written
<1> QED BY <1>2, <1>3, <1>4, <1>5, <1>6, <1>7, <1>8, <1>9, <1>10, <1>11
        DEF Next, ClientStep

LEMMA SyncInit == Init => OnMedium /\ LogsFollow
BY DEF Init, OnMedium, LogsFollow

\* Deleting logs, and what does not touch them.
LEMMA SyncLess ==
  ASSUME OnMedium, LogsFollow,
         \A n \in DOMAIN logs' : n \in DOMAIN logs /\ logs'[n] = logs[n] /\ synced'[n] = synced[n],
         UNCHANGED <<hist, phase, last, writer, logfile>>, phase # "opening"
  PROVE  OnMedium' /\ LogsFollow'
<1>1. OnMedium' BY DEF OnMedium
<1>2. LogsFollow' BY DEF LogsFollow
<1> QED BY <1>1, <1>2

LEMMA SweepLogs ==
  ASSUME Types, NEW live, NEW log, DeleteObsoleteFiles(live, log)
  PROVE  /\ \A n \in DOMAIN logs' :
              n \in DOMAIN logs /\ logs'[n] = logs[n] /\ synced'[n] = synced[n]
         /\ ~bgError' => \A n \in DOMAIN logs' : n >= log
BY DEF DeleteObsoleteFiles, Sweep, LogsOK

\* A log that begins is empty.
LEMMA NewLogIs ==
  ASSUME Types, logs' = With(logs, next, <<>>), synced' = With(synced, next, 0)
  PROVE  \A n \in DOMAIN logs' :
           \/ n = next /\ Len(logs'[n]) = 0
           \/ n \in DOMAIN logs /\ logs'[n] = logs[n] /\ synced'[n] = synced[n]
BY DEF With, LogsOK

\* Steps that change no log and no write.
LEMMA SyncSame ==
  ASSUME Types, OnMedium, LogsFollow,
         \/ Recover \/ RecoverLogFile
         \/ GetSnapshot \/ (\E s \in Seqs \cup {0} : ReleaseSnapshot(s))
         \/ StartRead \/ EndRead \/ WriteLevel0Table \/ StartCompaction
         \/ TrivialMove \/ WriteOutputs \/ InstallCompactionResults
         \/ TableFails \/ LogAndApply \/ LogAndApplyFails \/ UNCHANGED vars
  PROVE  OnMedium' /\ LogsFollow'
<1>1. CASE Recover \/ RecoverLogFile
  <2>1. UNCHANGED <<logs, synced, hist, writer>> /\ phase' = "replaying" /\ writer = None
    BY <1>1 DEF Recover, RecoverLogFile, PhaseOK, diskVars, clientVars, observers
  <2> QED BY <2>1 DEF OnMedium, LogsFollow
<1>2. CASE UNCHANGED <<logs, synced, hist, phase, last, writer, logfile, edit>>
  BY <1>2 DEF OnMedium, LogsFollow
<1>3. CASE GetSnapshot \/ (\E s \in Seqs \cup {0} : ReleaseSnapshot(s))
             \/ StartRead \/ EndRead \/ UNCHANGED vars
  BY <1>2, <1>3 DEF GetSnapshot, ReleaseSnapshot, StartRead, EndRead, diskVars,
       memVars, versionVars, observers, vars, clientVars
<1>4. CASE \/ WriteLevel0Table \/ StartCompaction \/ TrivialMove \/ WriteOutputs
           \/ InstallCompactionResults
  <2>1. /\ phase = "up" /\ UNCHANGED <<logs, synced, hist, phase, last, writer, logfile>>
    BY <1>4 DEF WriteLevel0Table, StartCompaction, TrivialMove, WriteOutputs, Idle,
         InstallCompactionResults, diskVars, memVars, versionVars, clientVars, observers
  <2> QED BY <2>1, SyncLess
<1>5. CASE TableFails \/ LogAndApply \/ LogAndApplyFails
  <2>1. /\ phase = "up" /\ UNCHANGED <<hist, phase, last, writer, logfile>>
        /\ \/ UNCHANGED <<logs, synced>>
           \/ \E live, log : DeleteObsoleteFiles(live, log)
    <3>1. CASE TableFails
      <4>1. UNCHANGED <<logs, synced>>
        BY <3>1 DEF TableFails, DeleteObsoleteFiles
      <4> QED BY <3>1, <4>1 DEF TableFails, memVars, versionVars, clientVars, observers
    <3>2. CASE LogAndApply
      <4>1. \/ UNCHANGED <<logs, synced>>
            \/ DeleteObsoleteFiles(Live(current', job'), edit.log)
        BY <3>2 DEF LogAndApply
      <4> QED BY <3>2, <4>1 DEF LogAndApply, clientVars, observers
    <3>3. CASE LogAndApplyFails
      <4>1. UNCHANGED <<logs, synced>>
        BY <3>3 DEF LogAndApplyFails, DeleteObsoleteFiles
      <4> QED BY <3>3, <4>1 DEF LogAndApplyFails, memVars, versionVars, clientVars, observers
    <3> QED BY <1>5, <3>1, <3>2, <3>3
  <2>2. \A n \in DOMAIN logs' :
          n \in DOMAIN logs /\ logs'[n] = logs[n] /\ synced'[n] = synced[n]
    BY <2>1, SweepLogs
  <2> QED BY <2>1, <2>2, SyncLess
<1> QED BY <1>1, <1>3, <1>4, <1>5

\* A log begins, for a store that opens or for the next memtable.
LEMMA SyncNewLog ==
  ASSUME Types, LogsGrow, OnMedium, LogsFollow, NewLog \/ OpenDone \/ SwitchMemTable
  PROVE  OnMedium' /\ LogsFollow'
<1>1. CASE NewLog
  <2>1. /\ phase = "replaying" /\ phase' = "opening" /\ UNCHANGED <<hist, writer>>
        /\ writer = None /\ \A n \in DOMAIN logs : n < edit.log
        /\ logs' = With(logs, next, <<>>) /\ synced' = With(synced, next, 0)
        /\ edit' = [edit EXCEPT !.log = next, !.next = next + 1, !.last = last]
        /\ edit \in AnEdit
    BY <1>1 DEF NewLog, PhaseOK, clientVars, observers
  <2>2. \A n \in DOMAIN logs' :
           \/ n = next /\ Len(logs'[n]) = 0
           \/ n \in DOMAIN logs /\ logs'[n] = logs[n] /\ synced'[n] = synced[n]
    BY <2>1, NewLogIs
  <2>3. edit'.log = next /\ edit.log <= next /\ next \in Nat /\ edit.log \in Nat
    BY <2>1 DEF AnEdit, LogsGrow, MemOK
  <2>4. \A n \in DOMAIN logs : n \in Nat BY DEF LogsOK, FileNumber
  <2>5. OnMedium' BY <2>1, <2>2 DEF OnMedium
  <2>6. \A n \in DOMAIN logs' : n <= next /\ (n = next => Len(logs'[n]) = 0)
    BY <2>1, <2>2, <2>3, <2>4
  <2> QED BY <2>1, <2>3, <2>5, <2>6 DEF LogsFollow
<1>2. CASE OpenDone
  <2>1. /\ phase = "opening" /\ phase' = "up" /\ UNCHANGED <<hist, writer, bgError>>
        /\ writer = None /\ ~bgError /\ edit \in AnEdit
        /\ DeleteObsoleteFiles(AllFiles(current'), edit.log)
    BY <1>2 DEF OpenDone, PhaseOK, clientVars, observers
  <2>2. \A n \in DOMAIN logs' :
          /\ n \in DOMAIN logs /\ logs'[n] = logs[n] /\ synced'[n] = synced[n]
          /\ n >= edit.log
    BY <2>1, SweepLogs
  <2>3. \A n \in DOMAIN logs : n \in Nat BY DEF LogsOK, FileNumber
  <2>4. edit.log \in Nat BY <2>1 DEF AnEdit
  <2>5. \A n \in DOMAIN logs' : Len(logs'[n]) = 0
    BY <2>1, <2>2, <2>3, <2>4 DEF LogsFollow
  <2>6. OnMedium' BY <2>5 DEF OnMedium
  <2> QED BY <2>1, <2>5, <2>6 DEF LogsFollow
<1>3. CASE SwitchMemTable
  <2>1. /\ phase = "up" /\ UNCHANGED <<hist, writer, last, phase>> /\ writer = None
        /\ logs' = With(logs, next, <<>>) /\ synced' = With(synced, next, 0)
    BY <1>3 DEF SwitchMemTable, Ready, clientVars, observers
  <2>2. \A n \in DOMAIN logs' :
           \/ n = next /\ Len(logs'[n]) = 0
           \/ n \in DOMAIN logs /\ logs'[n] = logs[n] /\ synced'[n] = synced[n]
    BY <2>1, NewLogIs
  <2>3. OnMedium' BY <2>1, <2>2 DEF OnMedium
  <2> QED BY <2>1, <2>2, <2>3 DEF LogsFollow
<1> QED BY <1>1, <1>2, <1>3

\* The log with something behind it.
LEMMA LogLonger ==
  ASSUME LogsOK, NEW left \in Log, logs' = [logs EXCEPT ![logfile] = @ \o left]
  PROVE  /\ DOMAIN logs' = DOMAIN logs
         /\ \A n \in DOMAIN logs : n # logfile => logs'[n] = logs[n]
         /\ \A n \in DOMAIN logs : n = logfile =>
              /\ Len(logs'[n]) = Len(logs[n]) + Len(left)
              /\ \A i \in 1..Len(logs'[n]) :
                   \/ i \in 1..Len(logs[n]) /\ logs'[n][i] = logs[n][i]
                   \/ /\ i > Len(logs[n]) /\ i - Len(logs[n]) \in 1..Len(left)
                      /\ logs'[n][i] = left[i - Len(logs[n])]
<1>1. DOMAIN logs' = DOMAIN logs /\ \A n \in DOMAIN logs : n # logfile => logs'[n] = logs[n]
  OBVIOUS
<1>2. ASSUME NEW n \in DOMAIN logs, n = logfile
      PROVE  /\ Len(logs'[n]) = Len(logs[n]) + Len(left)
             /\ \A i \in 1..Len(logs'[n]) :
                  \/ i \in 1..Len(logs[n]) /\ logs'[n][i] = logs[n][i]
                  \/ /\ i > Len(logs[n]) /\ i - Len(logs[n]) \in 1..Len(left)
                     /\ logs'[n][i] = left[i - Len(logs[n])]
  <2> DEFINE R == [entry : Entry, torn : BOOLEAN]
  <2>1. logs[n] \in Log /\ left \in Log /\ logs'[n] = logs[n] \o left /\ Log = Seq(R)
    BY <1>2 DEF LogsOK, Log
  <2> HIDE DEF R
  <2>2. /\ Len(logs[n]) \in Nat /\ Len(left) \in Nat
        /\ Len(logs[n] \o left) = Len(logs[n]) + Len(left)
    BY <2>1
  <2>3. \A i \in 1..(Len(logs[n]) + Len(left)) :
          (logs[n] \o left)[i] = IF i <= Len(logs[n]) THEN logs[n][i]
                                 ELSE left[i - Len(logs[n])]
    BY <2>1
  <2>4. ASSUME NEW i \in 1..Len(logs'[n])
        PROVE  \/ i \in 1..Len(logs[n]) /\ logs'[n][i] = logs[n][i]
               \/ /\ i > Len(logs[n]) /\ i - Len(logs[n]) \in 1..Len(left)
                  /\ logs'[n][i] = left[i - Len(logs[n])]
    <3>1. i \in 1..(Len(logs[n]) + Len(left)) BY <2>1, <2>2
    <3>2. logs'[n][i] = IF i <= Len(logs[n]) THEN logs[n][i]
                        ELSE left[i - Len(logs[n])]
      BY <2>1, <2>3, <3>1
    <3>3. CASE i <= Len(logs[n]) BY <2>2, <3>1, <3>2, <3>3
    <3>4. CASE i > Len(logs[n]) BY <2>2, <3>1, <3>2, <3>4
    <3> QED BY <2>2, <3>1, <3>3, <3>4
  <2>5. Len(logs'[n]) = Len(logs[n]) + Len(left) BY <2>1, <2>2
  <2> QED BY <2>4, <2>5
<1> QED BY <1>1, <1>2

LEMMA SyncAdded ==
  ASSUME Types, OnMedium, LogsFollow,
         NEW k \in Key, NEW del \in Deletes, NEW sync \in SyncOptions,
         Adding(k, del, sync)
  PROVE  OnMedium' /\ LogsFollow'
<1> DEFINE e == [key |-> k, seq |-> last + 1, del |-> del]
<1>1. /\ phase = "up" /\ writer = None /\ last < MaxSeq
      /\ UNCHANGED <<synced, phase, logfile>>
  BY DEF AddRecord, AddRecordFails, Ready, memVars
<1>2. /\ e \in Entry /\ last + 1 \in Seqs /\ e.seq = last + 1 /\ last \in Nat
      /\ sync \in BOOLEAN /\ del \in BOOLEAN
  BY <1>1, EntryIs, Bounds DEF MemOK
<1> DEFINE Added(left) ==
             /\ Len(left) \in {0, 1} /\ left \in Log
             /\ \A i \in 1..Len(left) : left[i].entry.seq = last + 1
<1>3. \E left : /\ Added(left) /\ logs' = [logs EXCEPT ![logfile] = @ \o left]
  <2>1. \A torn \in BOOLEAN : Added(<<Record(e, torn)>>)
    <3> SUFFICES ASSUME NEW torn \in BOOLEAN PROVE Added(<<Record(e, torn)>>)
      OBVIOUS
    <3>1. <<Record(e, torn)>> \in Log BY <1>2, RecordIs
    <3>2. Record(e, torn).entry.seq = last + 1 BY <1>2 DEF Record
    <3> DEFINE r == Record(e, torn)
    <3>3. r.entry.seq = last + 1 /\ <<r>> \in Log BY <3>1, <3>2
    <3> HIDE DEF r
    <3>4. Len(<<r>>) = 1 /\ <<r>>[1] = r OBVIOUS
    <3>5. Added(<<r>>) BY <3>3, <3>4
    <3> QED BY <3>5 DEF r
  <2>2. Added(<<>>) BY DEF Log
  <2> HIDE DEF Added
  <2>3. CASE AddRecord(k, del, sync)
    <3>1. logs' = [logs EXCEPT ![logfile] = Append(@, Record(e, FALSE))]
      BY <2>3 DEF AddRecord
    <3>2. logfile \in DOMAIN logs => logs[logfile] \in Log BY DEF LogsOK
    <3>3. logs' = [logs EXCEPT ![logfile] = @ \o <<Record(e, FALSE)>>]
      <4> DEFINE r == Record(e, FALSE)
      <4>1. logfile \in DOMAIN logs => Append(logs[logfile], r) = logs[logfile] \o <<r>>
        BY <1>2, <3>2, RecordIs
      <4>2. logs' = [logs EXCEPT ![logfile] = Append(@, r)] BY <3>1
      <4> HIDE DEF r
      <4>3. logs' = [logs EXCEPT ![logfile] = @ \o <<r>>] BY <4>1, <4>2
      <4> QED BY <4>3 DEF r
    <3> QED BY <2>1, <3>3
  <2>4. CASE AddRecordFails(k, del, sync)
    <3>1. PICK left \in {<<>>, <<Record(e, FALSE)>>, <<Record(e, TRUE)>>} :
            logs' = [logs EXCEPT ![logfile] = @ \o left]
      BY <2>4 DEF AddRecordFails
    <3> QED BY <2>1, <2>2, <3>1
  <2> QED BY <2>3, <2>4
<1>4. PICK left : Added(left) /\ logs' = [logs EXCEPT ![logfile] = @ \o left]
  BY <1>3
<1>5. \E st \in {"pending", "failed"} :
        /\ hist' = [hist EXCEPT ![last + 1] =
             [key |-> k, del |-> del, sync |-> sync, state |-> st]]
        /\ \/ /\ st = "pending" /\ last' = last /\ writer' = [entry |-> e, sync |-> sync]
           \/ last' = last + 1 /\ writer' = None
  BY <1>1 DEF AddRecord, AddRecordFails, versionVars, clientVars
<1>6. PICK st \in {"pending", "failed"} :
        /\ hist' = [hist EXCEPT ![last + 1] =
             [key |-> k, del |-> del, sync |-> sync, state |-> st]]
        /\ \/ /\ st = "pending" /\ last' = last /\ writer' = [entry |-> e, sync |-> sync]
           \/ last' = last + 1 /\ writer' = None
  BY <1>5
<1>7. /\ hist'[last + 1] = [key |-> k, del |-> del, sync |-> sync, state |-> st]
      /\ \A s \in Seqs : s # last + 1 => hist'[s] = hist[s]
  BY <1>2, <1>6 DEF ClientsOK
<1>8. hist'[last + 1].state = st /\ hist'[last + 1].sync = sync /\ st # "done"
  BY <1>7
<1>9. \A n \in DOMAIN logs : \A i \in 1..Len(logs[n]) : logs[n][i].entry.seq \in Seqs
  BY LogIs DEF LogsOK
<1>10. DOMAIN logs' = DOMAIN logs BY <1>4
<1>11. \A n \in DOMAIN logs' : \A i \in 1..Len(logs'[n]) :
         \/ i \in 1..Len(logs[n]) /\ logs'[n][i] = logs[n][i]
         \/ n = logfile /\ i = Len(logs'[n]) /\ logs'[n][i].entry.seq = last + 1
  <2> SUFFICES ASSUME NEW n \in DOMAIN logs, NEW i \in 1..Len(logs'[n])
               PROVE  \/ i \in 1..Len(logs[n]) /\ logs'[n][i] = logs[n][i]
                      \/ n = logfile /\ i = Len(logs'[n]) /\ logs'[n][i].entry.seq = last + 1
    BY <1>10
  <2>1. CASE n # logfile BY <1>4, <2>1, LogLonger
  <2>2. CASE n = logfile
    <3>1. Len(logs'[n]) = Len(logs[n]) + Len(left) /\ Len(logs[n]) \in Nat
      BY <1>4, <2>2, LogLonger, LogIs DEF LogsOK
    <3>2. \/ i \in 1..Len(logs[n]) /\ logs'[n][i] = logs[n][i]
          \/ /\ i > Len(logs[n]) /\ i - Len(logs[n]) \in 1..Len(left)
             /\ logs'[n][i] = left[i - Len(logs[n])]
      BY <1>4, <2>2, LogLonger
    <3> QED BY <1>4, <2>2, <3>1, <3>2
  <2> QED BY <2>1, <2>2
<1> HIDE DEF e, Added
<1>12. OnMedium'
  <2> SUFFICES ASSUME NEW n \in DOMAIN logs', NEW i \in 1..Len(logs'[n]),
                      LET w == hist'[logs'[n][i].entry.seq]
                      IN  w # None /\ w.sync /\ w.state = "done"
               PROVE  i <= synced'[n]
    BY DEF OnMedium
  <2>1. logs'[n][i].entry.seq # last + 1 BY <1>8
  <2>2. i \in 1..Len(logs[n]) /\ logs'[n][i] = logs[n][i] BY <1>11, <2>1
  <2>3. hist'[logs[n][i].entry.seq] = hist[logs[n][i].entry.seq]
    BY <1>7, <1>9, <1>10, <2>1, <2>2
  <2> QED BY <1>1, <1>10, <2>2, <2>3 DEF OnMedium
<1>13. \A n \in DOMAIN logs : \A i \in 1..Len(logs[n]) : logs[n][i].entry.seq <= last
  BY <1>1 DEF LogsFollow
<1>14. LogsFollow'
  <2>1. CASE last' = last + 1 /\ writer' = None
    <3>1. \A n \in DOMAIN logs' : \A i \in 1..Len(logs'[n]) : logs'[n][i].entry.seq <= last'
      <4>1. \A s \in Seqs : s <= last => s <= last + 1 BY <1>2 DEF Seqs
      <4>2. last + 1 <= last + 1 BY <1>2
      <4> QED BY <1>9, <1>10, <1>11, <1>13, <2>1, <4>1, <4>2
    <3> QED BY <1>1, <2>1, <3>1 DEF LogsFollow
  <2>2. CASE st = "pending" /\ last' = last /\ writer' = [entry |-> e, sync |-> sync]
    <3>1. writer' # None /\ writer'.entry.seq = last + 1 /\ writer'.sync = sync
      BY <1>2, <2>2, NoneIsNone DEF e
    <3> QED BY <1>1, <1>8, <1>10, <1>11, <1>13, <2>2, <3>1 DEF LogsFollow
  <2> QED BY <1>6, <2>1, <2>2
<1> QED BY <1>12, <1>14

\* The write that runs ends: it is synced, or was not to be, or failed.
LEMMA SyncEnds ==
  ASSUME Types, OnMedium, LogsFollow, WriteDone \/ SyncFails
  PROVE  OnMedium' /\ LogsFollow'
<1>1. /\ phase = "up" /\ writer # None /\ writer' = None
      /\ UNCHANGED <<logs, phase, logfile>> /\ last' = writer.entry.seq
  BY DEF WriteDone, SyncFails, diskVars, memVars
<1>2. /\ writer.entry.seq = last + 1 /\ last \in Nat /\ last + 1 \in Seqs
      /\ hist[last + 1] \in AWrite /\ hist[last + 1].sync = writer.sync
  BY <1>1, WriterIs, Bounds DEF LogsFollow, MemOK
<1>3. \E st \in {"done", "failed"} :
        /\ hist' = [hist EXCEPT ![last + 1].state = st]
        /\ st = "done" => synced' = LogSync(writer.sync)
        /\ st = "failed" => synced' = synced
  <2>1. CASE WriteDone
    <3>1. /\ hist' = [hist EXCEPT ![last + 1].state = "done"]
          /\ synced' = LogSync(writer.sync)
      BY <1>1, <1>2, <2>1 DEF WriteDone
    <3> QED BY <3>1
  <2>2. CASE SyncFails
    <3>1. /\ hist' = [hist EXCEPT ![last + 1].state = "failed"] /\ synced' = synced
      BY <1>1, <1>2, <2>2 DEF SyncFails, diskVars
    <3> QED BY <3>1
  <2> QED BY <2>1, <2>2
<1>4. PICK st \in {"done", "failed"} :
        /\ hist' = [hist EXCEPT ![last + 1].state = st]
        /\ st = "done" => synced' = LogSync(writer.sync)
        /\ st = "failed" => synced' = synced
  BY <1>3
<1>5. /\ \A t \in Seqs : t # last + 1 => hist'[t] = hist[t]
      /\ hist'[last + 1].sync = writer.sync /\ hist'[last + 1].state = st
  BY <1>2, <1>4, HistIs
<1>6. \A n \in DOMAIN logs : \A i \in 1..Len(logs[n]) :
        /\ logs[n][i].entry.seq \in Seqs
        /\ \/ logs[n][i].entry.seq <= last
           \/ n = logfile /\ i = Len(logs[n]) /\ logs[n][i].entry.seq = last + 1
  BY <1>1, LogIs DEF LogsOK, LogsFollow
<1>7. OnMedium'
  <2> SUFFICES ASSUME NEW n \in DOMAIN logs, NEW i \in 1..Len(logs[n]),
                      LET w == hist'[logs[n][i].entry.seq]
                      IN  w # None /\ w.sync /\ w.state = "done"
               PROVE  i <= synced'[n]
    BY <1>1 DEF OnMedium
  <2> DEFINE s == logs[n][i].entry.seq
  <2>1. /\ s \in Seqs /\ hist'[s].sync /\ hist'[s].state = "done"
        /\ Len(logs[n]) \in Nat /\ synced[n] \in 0..Len(logs[n])
        /\ DOMAIN synced = DOMAIN logs
    BY <1>6, LogIs DEF LogsOK
  <2>2. \/ synced'[n] = synced[n]
        \/ n = logfile /\ synced'[n] = Len(logs[n])
    BY <1>4, <2>1 DEF LogSync
  <2>3. CASE s # last + 1
    <3>1. hist[s] = hist'[s] /\ hist[s] # None BY <1>5, <2>1, <2>3
    <3>2. i <= synced[n] BY <2>1, <3>1 DEF OnMedium
    <3> QED BY <2>1, <2>2, <3>2
  <2>4. CASE s = last + 1
    <3>1. st = "done" /\ writer.sync /\ n = logfile
      BY <1>2, <1>5, <1>6, <2>1, <2>4
    <3>2. synced'[n] = Len(logs[n]) BY <1>4, <2>1, <3>1 DEF LogSync
    <3> QED BY <2>1, <3>2
  <2> QED BY <2>3, <2>4
<1>8. \A n \in DOMAIN logs : \A i \in 1..Len(logs[n]) : logs[n][i].entry.seq <= last + 1
  BY <1>2, <1>6 DEF Seqs
<1> QED BY <1>1, <1>2, <1>7, <1>8 DEF LogsFollow

\* When the process ends, and the machine perhaps with it, a write that was
\* synced is kept, and what counts as synced afterwards was so before.
LEMMA SyncCrash ==
  ASSUME Types, OnMedium, Ending
  PROVE  OnMedium' /\ LogsFollow' /\ SyncedStay
<1>1. CASE UNCHANGED <<logs, synced, hist>>
  BY <1>1, CrashIs DEF OnMedium, LogsFollow, SyncedStay
<1>2. phase' = "down" /\ writer' = None BY CrashIs
<1>3. SUFFICES ASSUME NEW power \in BOOLEAN, NEW keep \in Survivors(power),
                      LogsCut(power, keep)
               PROVE  OnMedium' /\ LogsFollow' /\ SyncedStay
  BY <1>1, CrashIs
<1>4. \A n \in DOMAIN logs :
        /\ keep[n] \in Nat /\ Len(logs[n]) \in Nat /\ synced[n] \in Nat
        /\ keep[n] <= Len(logs[n]) /\ synced[n] <= keep[n]
        /\ Len(logs'[n]) = keep[n]
        /\ \A i \in 1..keep[n] : logs'[n][i] = logs[n][i]
        /\ \A i \in 1..Len(logs[n]) : logs[n][i].entry.seq \in Seqs
  BY <1>3, KeepIs, LogIs DEF LogsOK
<1>5. \A s \in Seqs : hist'[s] # None =>
        hist[s] # None /\ hist'[s].sync = (hist[s].sync /\ hist[s].state = "done")
  BY <1>3, AfterIs
<1>6. OnMedium'
  <2> SUFFICES ASSUME NEW n \in DOMAIN logs', NEW i \in 1..Len(logs'[n]),
                      LET w == hist'[logs'[n][i].entry.seq]
                      IN  w # None /\ w.sync /\ w.state = "done"
               PROVE  i <= synced'[n]
    BY DEF OnMedium
  <2>1. n \in DOMAIN logs BY <1>3
  <2>2. i \in 1..keep[n] /\ i \in 1..Len(logs[n]) /\ logs'[n][i] = logs[n][i]
    BY <1>4, <2>1
  <2> DEFINE s == logs[n][i].entry.seq
  <2>3. s \in Seqs /\ hist[s] # None /\ hist[s].sync /\ hist[s].state = "done"
    BY <1>4, <1>5, <2>1, <2>2
  <2>4. i <= synced[n] BY <2>1, <2>2, <2>3 DEF OnMedium
  <2>5. synced'[n] = keep[n] \/ synced'[n] = synced[n] BY <1>3, <2>1
  <2> QED BY <1>4, <2>1, <2>2, <2>4, <2>5
<1>7. ASSUME NEW s \in Seqs, Synced(s) PROVE hist'[s] = hist[s]
  <2> DEFINE whole == [n \in DOMAIN logs |-> Len(logs[n])]
  <2>1. s \in Logged(manifest', whole) => s \in Logged(manifest', keep)
    <3> SUFFICES ASSUME s \in Logged(manifest', whole) PROVE s \in Logged(manifest', keep)
      OBVIOUS
    <3>1. PICK n \in DOMAIN logs : /\ n >= manifest'.log
                                   /\ \E i \in 1..whole[n] : s = logs[n][i].entry.seq
      BY DEF Logged
    <3>2. PICK i \in 1..Len(logs[n]) : s = logs[n][i].entry.seq BY <3>1
    <3>3. i <= synced[n] BY <1>7, <3>2 DEF OnMedium, Synced
    <3>4. i \in 1..keep[n] BY <1>4, <3>3
    <3> HIDE DEF whole
    <3> QED BY <3>1, <3>2, <3>4 DEF Logged
  <2>2. hist'[s] = [hist[s] EXCEPT !.state = "done", !.sync = @ /\ hist[s].state = "done"]
    BY <1>3, <1>7, <2>1 DEF After, Synced
  <2>3. hist[s] \in AWrite /\ hist[s].state = "done" /\ hist[s].sync = TRUE
    BY <1>7 DEF ClientsOK, AWrite, Synced
  <2>4. hist'[s] = [hist[s] EXCEPT !.state = "done", !.sync = TRUE] BY <2>2, <2>3
  <2> QED BY <2>3, <2>4 DEF AWrite
<1> QED BY <1>2, <1>6, <1>7 DEF LogsFollow, SyncedStay

LEMMA SyncedNext ==
  ASSUME Types, FilesKept, LogsGrow, OnMedium, LogsFollow, [Next]_vars
  PROVE  LogsGrow' /\ OnMedium' /\ LogsFollow'
<1>1. LogsGrow' BY LogsGrowNext
<1>2. CASE Ending BY <1>1, <1>2, SyncCrash
<1>4. CASE \/ Recover \/ RecoverLogFile
           \/ GetSnapshot \/ (\E s \in Seqs \cup {0} : ReleaseSnapshot(s))
           \/ StartRead \/ EndRead \/ WriteLevel0Table \/ StartCompaction
           \/ TrivialMove \/ WriteOutputs \/ InstallCompactionResults
           \/ TableFails \/ LogAndApply \/ LogAndApplyFails \/ UNCHANGED vars
  BY <1>1, <1>4, SyncSame
<1>5. CASE NewLog \/ OpenDone \/ SwitchMemTable
  BY <1>1, <1>5, SyncNewLog
<1>6. CASE \E k \in Key, del \in Deletes, sync \in SyncOptions :
             Adding(k, del, sync)
  <2>1. PICK k \in Key, del \in Deletes, sync \in SyncOptions :
          Adding(k, del, sync)
    BY <1>6
  <2> QED BY <1>1, <2>1, SyncAdded
<1>7. CASE WriteDone \/ SyncFails BY <1>1, <1>7, SyncEnds
<1> QED BY <1>2, <1>4, <1>5, <1>6, <1>7 DEF Next

LEMMA AlwaysOnMedium == Spec => [](LogsGrow /\ OnMedium /\ LogsFollow)
<1> DEFINE Inv == LogsGrow /\ OnMedium /\ LogsFollow
<1>1. Init => Inv BY LogsGrowInit, SyncInit
<1>2. (Types /\ FilesKept) /\ Inv /\ [Next]_vars => Inv' BY SyncedNext
<1> HIDE DEF Types, Inv
<1>3. Spec => []Inv BY <1>1, <1>2, AlwaysKept, PTL DEF Spec
<1> QED BY <1>3 DEF Inv

--------------------
\* Every read answers with the last write: entries.

LEMMA CompleteAnswers ==
  ASSUME NEW E, NEW W, Single(W), NEW small \in Nat, Complete(E, W, small),
         NEW k \in Int, NEW s \in Nat, small <= s
  PROVE  Answer(E, k, s) = Answer(W, k, s)
<1>1. E \subseteq W /\ Single(E) BY DEF Complete, Single
<1>2. Visible(E, k, s) \subseteq Visible(W, k, s) BY <1>1 DEF Visible
<1>3. CASE Visible(W, k, s) = {} BY <1>2, <1>3 DEF Answer
<1>4. CASE Visible(W, k, s) # {}
  <2> DEFINE n == Newest(W, k, s)
  <2>1. n \in Visible(W, k, s) /\ \A f \in Visible(W, k, s) : f.seq <= n.seq
    BY <1>4, NewestExists
  <2>2. Answer(W, k, s) = AnswerOf(n) BY <1>4 DEF Answer
  <2> HIDE DEF n
  <2>3. CASE n \in E
    <3>1. n \in Visible(E, k, s) BY <2>1, <2>3 DEF Visible
    <3>2. Newest(E, k, s) = n BY <1>1, <1>2, <2>1, <3>1, NewestUnique
    <3> QED BY <2>2, <3>1, <3>2 DEF Answer
  <2>4. CASE n \notin E
    <3>1. n \in W /\ n.key = k /\ n.seq <= s /\ n.seq \in Nat
      BY <2>1 DEF Visible, Single, AnyEntry
    <3>2. ~ \E f \in W : f.key = n.key /\ n.seq < f.seq /\ f.seq <= small
      <4> SUFFICES ASSUME NEW f \in W, f.key = n.key, n.seq < f.seq, f.seq <= small
                   PROVE  FALSE
        OBVIOUS
      <4>1. f.seq \in Nat BY DEF Single, AnyEntry
      <4>2. f \in Visible(W, k, s) BY <3>1, <4>1 DEF Visible
      <4> QED BY <2>1, <3>1, <4>1, <4>2
    <3>3. n.del /\ \A e \in E : e.key = n.key => n.seq < e.seq
      BY <2>4, <3>1, <3>2 DEF Complete
    <3>4. Visible(E, k, s) = {}
      <4> SUFFICES ASSUME NEW e \in Visible(E, k, s) PROVE FALSE
        OBVIOUS
      <4>1. e \in E /\ e.key = k /\ e.seq <= n.seq /\ e.seq \in Nat
        BY <1>1, <1>2, <2>1 DEF Visible, Single, AnyEntry
      <4> QED BY <3>1, <3>3, <4>1
    <3> QED BY <2>2, <3>3, <3>4 DEF Answer, AnswerOf
  <2> QED BY <2>3, <2>4
<1> QED BY <1>3, <1>4

\* Readers that are younger still.
LEMMA CompleteLater ==
  ASSUME NEW E, NEW W, W \subseteq AnyEntry, NEW small \in Nat, NEW later \in Nat,
         small <= later, Complete(E, W, small)
  PROVE  Complete(E, W, later)
<1>1. \A w \in W : w.seq \in Nat BY DEF AnyEntry
<1>2. \A w \in W : w.seq <= small => w.seq <= later BY <1>1
<1> QED BY <1>2 DEF Complete

\* Newer entries come to both.
LEMMA CompleteWith ==
  ASSUME NEW E, NEW W, NEW N, NEW small, Complete(E, W, small),
         \A w \in W, n \in N : w.seq < n.seq
  PROVE  Complete(E \cup N, W \cup N, small)
BY DEF Complete

\* A compaction of the entries I beside the entries R.
LEMMA CompleteCompacted ==
  ASSUME NEW R, NEW I, NEW W, Single(W), NEW small \in Nat, Complete(R \cup I, W, small),
         NEW smallest \in Nat, smallest <= small, NEW base,
         \A r \in R, i \in I : r.key = i.key /\ i.key \in base => i.seq < r.seq
  PROVE  Complete(R \cup Kept(I, smallest, base), W, small)
<1> DEFINE K == Kept(I, smallest, base)
<1>1. K \subseteq I /\ R \subseteq W /\ I \subseteq W BY DEF Kept, Complete
<1>2. \A w \in W : w.seq \in Nat BY DEF Single, AnyEntry
<1>3. ASSUME NEW w \in W, w \notin R \cup K
      PROVE  \/ \E f \in W : f.key = w.key /\ w.seq < f.seq /\ f.seq <= small
             \/ /\ w.del /\ w.seq <= small
                /\ \A e \in R \cup K : e.key = w.key => w.seq < e.seq
  <2>1. CASE w \notin I
    <3>1. \/ \E f \in W : f.key = w.key /\ w.seq < f.seq /\ f.seq <= small
          \/ /\ w.del /\ w.seq <= small
             /\ \A e \in R \cup I : e.key = w.key => w.seq < e.seq
      BY <1>3, <2>1 DEF Complete
    <3> QED BY <1>1, <3>1
  <2>2. CASE w \in I
    <3>1. Hidden(I, w, smallest) \/ Obsolete(w, smallest, base)
      BY <1>3, <2>2 DEF Kept
    <3>2. CASE Hidden(I, w, smallest)
      <4>1. PICK f \in I : f.key = w.key /\ f.seq > w.seq /\ f.seq <= smallest
        BY <3>2 DEF Hidden
      <4>2. f \in W /\ f.seq \in Nat /\ w.seq \in Nat BY <1>1, <1>2, <4>1
      <4>3. f.key = w.key /\ w.seq < f.seq /\ f.seq <= small BY <4>1, <4>2
      <4> QED BY <4>2, <4>3
    <3>3. CASE Obsolete(w, smallest, base)
      <4>1. w.del /\ w.seq <= smallest /\ w.key \in base /\ w.seq \in Nat
        BY <1>2, <3>3 DEF Obsolete
      <4>2. w.seq <= small BY <4>1
      <4>3. ASSUME NEW e \in R \cup K, e.key = w.key PROVE w.seq < e.seq
        <5>1. CASE e \in R BY <2>2, <4>1, <4>3, <5>1
        <5>2. CASE e \in K
          <6>1. e \in I /\ ~Hidden(I, e, smallest) /\ e \in W /\ e.seq \in Nat
            BY <1>1, <1>2, <5>2 DEF Kept
          <6>2. ~(w.seq > e.seq) BY <2>2, <4>1, <4>3, <6>1 DEF Hidden
          <6>3. w.seq # e.seq BY <1>3, <4>3, <5>2, <6>1 DEF Single
          <6> QED BY <4>1, <6>1, <6>2, <6>3
        <5> QED BY <5>1, <5>2
      <4> QED BY <4>1, <4>2, <4>3
    <3> QED BY <3>1, <3>2, <3>3
  <2> QED BY <2>1, <2>2
<1>4. R \cup K \subseteq W BY <1>1
<1> HIDE DEF K
<1>5. Complete(R \cup K, W, small) BY <1>3, <1>4 DEF Complete
<1> QED BY <1>5 DEF K

--------------------
\* The smallest and the largest internal key of a table.
LEMMA EndsExist ==
  ASSUME NEW E, E \subseteq Entry, E # {}, Single(E)
  PROVE  /\ First(E) \in E /\ Final(E) \in E
         /\ \A e \in E : First(E).key <= e.key /\ e.key <= Final(E).key
         /\ \A e \in E : e.key = Final(E).key => Final(E).seq <= e.seq
         /\ \A e \in E \ {First(E)} : Precedes(First(E), e)
         /\ \A e \in E \ {Final(E)} : Precedes(e, Final(E))
<1>1. \A e \in E : e.key \in Nat /\ e.seq \in Nat /\ e.seq <= MaxSeq /\ e.key <= NumKeys
  BY Bounds DEF Entry, Key, Seqs
<1> DEFINE K == {e.key : e \in E}
<1>2. K \in SUBSET Nat /\ K \in SUBSET (0..NumKeys) /\ K # {} BY <1>1, Bounds
<1>3. PICK lo \in K : \A k \in K : lo <= k
  <2> HIDE DEF K
  <2> QED BY <1>2, SmallestExists
<1>4. PICK hi \in K : \A k \in K : k <= hi
  <2> HIDE DEF K
  <2> QED BY <1>2, Bounds, LargestExists
<1>5. \E e \in E : e.key = lo /\ \A f \in E : f.key = lo => f.seq <= e.seq
  <2> DEFINE S == {e.seq : e \in {f \in E : f.key = lo}}
  <2>1. S \in SUBSET (0..MaxSeq) /\ S # {} BY <1>1, Bounds
  <2>2. \E x \in S : \A y \in S : y <= x
    <3> HIDE DEF S
    <3> QED BY <2>1, Bounds, LargestExists
  <2> QED BY <2>2
<1>6. \E e \in E : e.key = hi /\ \A f \in E : f.key = hi => e.seq <= f.seq
  <2> DEFINE S == {e.seq : e \in {f \in E : f.key = hi}}
  <2>1. S \in SUBSET Nat /\ S # {} BY <1>1
  <2>2. \E x \in S : \A y \in S : x <= y
    <3> HIDE DEF S
    <3> QED BY <2>1, SmallestExists
  <2> QED BY <2>2
<1>7. PICK a \in E : a.key = lo /\ \A f \in E : f.key = lo => f.seq <= a.seq
  BY <1>5
<1>8. PICK b \in E : b.key = hi /\ \A f \in E : f.key = hi => b.seq <= f.seq
  BY <1>6
<1>9. \A f \in E : lo <= f.key /\ f.key <= hi BY <1>3, <1>4
<1>10. \A f \in E \ {a} : Precedes(a, f)
  <2> SUFFICES ASSUME NEW f \in E, f # a PROVE Precedes(a, f)
    OBVIOUS
  <2>1. f.key = a.key => f.seq # a.seq BY DEF Single
  <2> QED BY <1>1, <1>7, <1>9, <2>1 DEF Precedes
<1>11. \A f \in E \ {b} : Precedes(f, b)
  <2> SUFFICES ASSUME NEW f \in E, f # b PROVE Precedes(f, b)
    OBVIOUS
  <2>1. f.key = b.key => f.seq # b.seq BY DEF Single
  <2> QED BY <1>1, <1>8, <1>9, <2>1 DEF Precedes
<1>12. First(E) \in E /\ \A f \in E \ {First(E)} : Precedes(First(E), f)
  BY <1>10 DEF First
<1>13. Final(E) \in E /\ \A f \in E \ {Final(E)} : Precedes(f, Final(E))
  BY <1>11 DEF Final
<1>14. \A e \in E : First(E).key <= e.key BY <1>1, <1>12 DEF Precedes
<1>15. \A e \in E : /\ e.key <= Final(E).key
                    /\ e.key = Final(E).key => Final(E).seq <= e.seq
  BY <1>1, <1>13 DEF Precedes
<1> QED BY <1>12, <1>13, <1>14, <1>15

LEMMA StoredIs ==
  ASSUME NEW t, NEW fs
  PROVE  /\ \A e : e \in Stored(t, fs) <=> \E l \in Level : \E n \in fs[l] : e \in t[n]
         /\ \A e : e \in Stored(t, fs) <=> \E n \in AllFiles(fs) : e \in t[n]
BY DEF Stored, AllFiles

\* Version::Get asks every file that has an answer: FindFile finds the one
\* file of a level below 0 that may.
LEMMA CandidatesAre ==
  ASSUME TablesOK, NEW fs \in Files, InTables(fs), Single(Stored(tables, fs)),
         DisjointIn(tables, fs), NEW l \in Level, NEW n \in fs[l],
         NEW k \in Key, NEW s \in Nat, Visible(tables[n], k, s) # {}
  PROVE  n \in Candidates(fs, l, k, s)
<1>1. PICK v \in tables[n] : v.key = k /\ v.seq <= s BY DEF Visible
<1>2. \A m \in fs[l] : /\ tables[m] \subseteq Entry /\ tables[m] # {}
                       /\ Single(tables[m])
  <2> SUFFICES ASSUME NEW m \in fs[l]
               PROVE  tables[m] \subseteq Entry /\ tables[m] # {} /\ Single(tables[m])
    OBVIOUS
  <2>1. m \in DOMAIN tables BY SpansAre
  <2>2. tables[m] \subseteq Stored(tables, fs) BY StoredIs
  <2> QED BY <2>1, <2>2 DEF TablesOK, Single
<1>3. k \in Span(n) BY <1>1, <1>2, RangeIs DEF Span
<1>4. CASE l = 0 BY <1>3, <1>4 DEF Candidates
<1>5. CASE l # 0
  <2> DEFINE ahead == {m \in fs[l] : LET e == Final(tables[m])
                                     IN  k < e.key \/ (k = e.key /\ e.seq <= s)}
  <2>1. \A e \in Entry : e.key \in Int /\ e.seq \in Nat BY Bounds DEF AnyEntry
  <2>2. n \in ahead
    <3> DEFINE e == Final(tables[n])
    <3>1. e \in tables[n] /\ v.key <= e.key /\ (v.key = e.key => e.seq <= v.seq)
      BY <1>2, EndsExist
    <3>2. e.key \in Int /\ e.seq \in Nat /\ v.key \in Int /\ v.seq \in Nat
      BY <1>2, <2>1, <3>1
    <3>3. k < e.key \/ (k = e.key /\ e.seq <= s)
      <4> HIDE DEF e
      <4> QED BY <1>1, <3>1, <3>2
    <3> QED BY <3>3
  <2>3. ASSUME NEW m \in ahead, m # n
        PROVE  Precedes(First(tables[n]), First(tables[m]))
    <3> DEFINE a == First(tables[n])
               b == First(tables[m])
               z == Final(tables[m])
    <3>1. a \in tables[n] /\ a.key <= k BY <1>1, <1>2, EndsExist
    <3>2. b \in tables[m] /\ z \in tables[m] /\ k <= z.key
      <4>1. m \in fs[l] /\ (k < z.key \/ k = z.key) OBVIOUS
      <4>2. b \in tables[m] /\ z \in tables[m] BY <1>2, <4>1, EndsExist
      <4>3. z.key \in Int /\ k \in Int BY <1>2, <2>1, <4>1, <4>2 DEF Key
      <4> HIDE DEF z, b
      <4> QED BY <4>1, <4>2, <4>3
    <3> HIDE DEF a, b, z
    <3>3. m \in fs[l] /\ Span(m) \cap Span(n) = {}
      BY <1>5, <2>3 DEF DisjointIn, Span
    <3>4. k \notin Span(m) /\ Convex(Span(m)) /\ b.key \in Span(m) /\ z.key \in Span(m)
      BY <1>2, <1>3, <3>2, <3>3, RangeIs DEF Span
    <3>5. ~(b.key <= k) BY <3>2, <3>4 DEF Convex
    <3>6. a.key \in Int /\ b.key \in Int /\ k \in Int
      BY <1>2, <2>1, <3>1, <3>2, <3>3 DEF Key
    <3>7. Precedes(a, b) BY <3>1, <3>5, <3>6 DEF Precedes
    <3> QED BY <3>7 DEF a, b
  <2>4. Candidates(fs, l, k, s) =
          {m \in ahead : /\ k \in Span(m)
                         /\ \A o \in ahead \ {m} :
                              Precedes(First(tables[m]), First(tables[o]))}
    BY <1>5 DEF Candidates
  <2> HIDE DEF ahead
  <2> QED BY <1>3, <2>2, <2>3, <2>4
<1> QED BY <1>4, <1>5

\* Of the files that have an answer one is asked before the others.
LEMMA FirstAsked ==
  ASSUME NEW H \in SUBSET (Level \X FileNumber), H # {}
  PROVE  \E a \in H : \A b \in H \ {a} : AskedBefore(a, b)
<1>1. Level \subseteq Nat /\ FileNumber \subseteq 0..MaxFile /\ MaxFile \in Nat
  BY Bounds DEF Level, FileNumber
<1> DEFINE L == {a[1] : a \in H}
<1>2. L \in SUBSET Nat /\ L # {} BY <1>1
<1>3. PICK l \in L : \A j \in L : l <= j
  <2> HIDE DEF L
  <2> QED BY <1>2, SmallestExists
<1> DEFINE N == {a[2] : a \in {b \in H : b[1] = l}}
<1>4. N \in SUBSET (0..MaxFile) /\ N # {} BY <1>1
<1>5. PICK n \in N : \A m \in N : m <= n
  <2> HIDE DEF N, L
  <2> QED BY <1>1, <1>4, LargestExists
<1>6. PICK a \in H : a[1] = l /\ a[2] = n BY <1>5
<1>7. \A b \in H : /\ b = <<b[1], b[2]>> /\ b[1] \in Nat /\ b[2] \in Nat /\ l <= b[1]
                   /\ b[1] = l => b[2] <= n
  <2> SUFFICES ASSUME NEW b \in H
               PROVE  /\ b = <<b[1], b[2]>> /\ b[1] \in Nat /\ b[2] \in Nat /\ l <= b[1]
                      /\ b[1] = l => b[2] <= n
    OBVIOUS
  <2>1. b = <<b[1], b[2]>> /\ b[1] \in Nat /\ b[2] \in Nat
    <3>1. b \in Level \X FileNumber OBVIOUS
    <3>2. b = <<b[1], b[2]>> /\ b[1] \in Level /\ b[2] \in FileNumber
      <4> HIDE DEF L, N
      <4> QED BY <3>1
    <3>3. FileNumber \subseteq Nat BY DEF FileNumber
    <3> QED BY <1>1, <3>2, <3>3
  <2>2. b[1] \in L /\ (b[1] = l => b[2] \in N) OBVIOUS
  <2> HIDE DEF L, N
  <2> QED BY <1>3, <1>5, <2>1, <2>2
<1>8. \A b \in H \ {a} : AskedBefore(a, b)
  <2> SUFFICES ASSUME NEW b \in H, b # a PROVE AskedBefore(a, b)
    OBVIOUS
  <2> HIDE DEF L, N
  <2>1. b[1] # l \/ b[2] # n BY <1>6, <1>7
  <2> QED BY <1>6, <1>7, <2>1 DEF AskedBefore
<1> QED BY <1>8

\* Version::Get answers what all the entries of the version together would.
LEMMA InFilesAnswer ==
  ASSUME TablesOK, NEW fs \in Files, InTables(fs), Single(Stored(tables, fs)),
         DisjointIn(tables, fs), Layered(tables, fs), NEW k \in Key, NEW s \in Nat
  PROVE  InFiles(fs, k, s) = Answer(Stored(tables, fs), k, s)
<1> DEFINE E == Stored(tables, fs)
           asked == UNION {{<<l, n>> : n \in Candidates(fs, l, k, s)} : l \in Level}
           hits == {a \in asked : Visible(tables[a[2]], k, s) # {}}
           first == CHOOSE a \in hits : \A b \in hits \ {a} : AskedBefore(a, b)
<1>1. InFiles(fs, k, s) =
        IF hits = {} THEN Absent ELSE AnswerOf(Newest(tables[first[2]], k, s))
  BY DEF InFiles
<1>2. \A a : a \in hits <=> \E l \in Level : \E n \in fs[l] :
                              a = <<l, n>> /\ Visible(tables[n], k, s) # {}
  <2>1. ASSUME NEW l \in Level, NEW n \in fs[l], Visible(tables[n], k, s) # {}
        PROVE  <<l, n>> \in hits
    BY <2>1, CandidatesAre
  <2>2. ASSUME NEW a \in hits
        PROVE  \E l \in Level : \E n \in fs[l] :
                 a = <<l, n>> /\ Visible(tables[n], k, s) # {}
    <3>1. PICK l \in Level : \E n \in Candidates(fs, l, k, s) : a = <<l, n>>
      OBVIOUS
    <3>2. PICK n \in Candidates(fs, l, k, s) : a = <<l, n>> BY <3>1
    <3>3. n \in fs[l] BY DEF Candidates
    <3>4. Visible(tables[n], k, s) # {} BY <3>2
    <3> QED BY <3>2, <3>3, <3>4
  <2> HIDE DEF hits
  <2> QED BY <2>1, <2>2
<1> HIDE DEF hits, asked
<1>3. \A l \in Level : \A n \in fs[l] :
        n \in FileNumber /\ n \in DOMAIN tables /\ tables[n] \subseteq E
        /\ tables[n] \subseteq Entry
  BY SpansAre, StoredIs DEF Files, TablesOK
<1>4. hits \in SUBSET (Level \X FileNumber) BY <1>2, <1>3
<1>5. \A v \in Visible(E, k, s) : \E l \in Level : \E n \in fs[l] :
        v \in Visible(tables[n], k, s) /\ <<l, n>> \in hits
  <2> SUFFICES ASSUME NEW v \in Visible(E, k, s)
               PROVE  \E l \in Level : \E n \in fs[l] :
                        v \in Visible(tables[n], k, s) /\ <<l, n>> \in hits
    OBVIOUS
  <2>1. v \in E /\ v.key = k /\ v.seq <= s BY DEF Visible
  <2>2. PICK l \in Level : \E n \in fs[l] : v \in tables[n] BY <2>1, StoredIs
  <2>3. PICK n \in fs[l] : v \in tables[n] BY <2>2
  <2>4. v \in Visible(tables[n], k, s) BY <2>1, <2>3 DEF Visible
  <2> QED BY <1>2, <2>4
<1>6. CASE hits = {}
  <2>1. Visible(E, k, s) = {} BY <1>5, <1>6
  <2> QED BY <1>1, <1>6, <2>1 DEF Answer
<1>7. CASE hits # {}
  <2>1. first \in hits /\ \A b \in hits \ {first} : AskedBefore(first, b)
    <3>1. \E a \in hits : \A b \in hits \ {a} : AskedBefore(a, b)
      BY <1>4, <1>7, FirstAsked
    <3> QED BY <3>1
  <2> HIDE DEF first
  <2>2. PICK l \in Level : \E n \in fs[l] :
               first = <<l, n>> /\ Visible(tables[n], k, s) # {}
    BY <1>2, <2>1
  <2>3. PICK n \in fs[l] : first = <<l, n>> /\ Visible(tables[n], k, s) # {}
    BY <2>2
  <2> DEFINE x == Newest(tables[n], k, s)
  <2>4. Single(tables[n]) /\ k \in Int BY <1>3 DEF Single, Key
  <2>5. x \in Visible(tables[n], k, s) /\ \A f \in Visible(tables[n], k, s) : f.seq <= x.seq
    BY <2>3, <2>4, NewestExists
  <2> HIDE DEF x
  <2>6. x \in tables[n] /\ x.key = k /\ x.seq <= s /\ x.seq \in Nat /\ x \in Visible(E, k, s)
    BY <1>3, <2>5, Bounds DEF Visible, AnyEntry
  <2>7. ASSUME NEW v \in Visible(E, k, s) PROVE v.seq <= x.seq
    <3>1. PICK j \in Level : \E m \in fs[j] :
            v \in Visible(tables[m], k, s) /\ <<j, m>> \in hits
      BY <1>5
    <3>2. PICK m \in fs[j] : v \in Visible(tables[m], k, s) /\ <<j, m>> \in hits
      BY <3>1
    <3>3. v \in tables[m] /\ v.key = k /\ v.seq \in Nat
      BY <1>3, <3>2, Bounds DEF Visible, AnyEntry
    <3>4. CASE <<j, m>> = first BY <2>3, <2>5, <3>2, <3>4
    <3>5. CASE <<j, m>> # first
      <4>1. l < j \/ (l = j /\ n > m) BY <2>1, <2>3, <3>2, <3>5 DEF AskedBefore
      <4>2. CASE l < j
        <5>1. v.seq < x.seq BY <2>6, <3>3, <4>2 DEF Layered
        <5> QED BY <2>6, <3>3, <5>1
      <4>3. CASE l = j /\ n > m /\ l = 0
        <5>1. m < n BY <4>3, <1>3 DEF FileNumber
        <5>2. v.seq < x.seq BY <2>6, <3>3, <4>3, <5>1 DEF Layered
        <5> QED BY <2>6, <3>3, <5>2
      <4>4. CASE l = j /\ n > m /\ l # 0
        <5>1. k \in KeyRange(tables[m]) /\ k \in KeyRange(tables[n])
          BY <1>3, <2>6, <3>3, RangeIs
        <5>2. m # n BY <1>3, <4>4 DEF FileNumber
        <5> QED BY <4>4, <5>1, <5>2 DEF DisjointIn
      <4> QED BY <4>1, <4>2, <4>3, <4>4
    <3> QED BY <3>4, <3>5
  <2>8. Newest(E, k, s) = x BY <2>4, <2>6, <2>7, NewestUnique
  <2>9. InFiles(fs, k, s) = AnswerOf(x) BY <1>1, <1>7, <2>3 DEF x
  <2> QED BY <2>6, <2>8, <2>9 DEF Answer
<1> QED BY <1>6, <1>7

\* DBImpl::Get answers what all the entries together would: the memtable has the
\* newest entries, and the one before it newer ones than the files.
LEMMA GetAnswer ==
  ASSUME TablesOK, NEW fs \in Files, InTables(fs), NEW m, NEW i,
         Single(m \cup i \cup Stored(tables, fs)),
         DisjointIn(tables, fs), Layered(tables, fs),
         \A e \in Stored(tables, fs), f \in i \cup m : e.seq < f.seq,
         \A e \in i, f \in m : e.seq < f.seq,
         NEW k \in Key, NEW s \in Nat
  PROVE  Get(m, i, fs, k, s) = Answer(m \cup i \cup Stored(tables, fs), k, s)
<1> DEFINE B == Stored(tables, fs)
<1>1. k \in Int /\ Single(B) /\ Single(i \cup B) /\ Single(m \cup (i \cup B))
      /\ m \cup i \cup B = m \cup (i \cup B)
  BY DEF Single, Key
<1>2. InFiles(fs, k, s) = Answer(B, k, s) BY <1>1, InFilesAnswer
<1> HIDE DEF B
<1>3. /\ \A e \in B, f \in i \cup m : e.seq < f.seq
      /\ Single(i \cup B) /\ Single(m \cup (i \cup B)) /\ k \in Int
  BY <1>1 DEF B
<1>4. AnswerThrough(i, B, k, s) = Answer(i \cup B, k, s)
  <2>1. \A u \in i, b \in B : u.key = b.key => b.seq < u.seq BY <1>3
  <2> QED BY <1>3, <2>1, LayersAnswer
<1>5. AnswerThrough(m, i \cup B, k, s) = Answer(m \cup (i \cup B), k, s)
  <2>1. \A u \in m, b \in i \cup B : u.key = b.key => b.seq < u.seq BY <1>3
  <2> QED BY <1>3, <2>1, LayersAnswer
<1>6. Get(m, i, fs, k, s) = AnswerThrough(m, i \cup B, k, s)
  BY <1>2, <1>4 DEF Get, AnswerThrough
<1> QED BY <1>1, <1>5, <1>6 DEF B

--------------------
\* The writes that were answered, and the records of the logs.

LEMMA WritesAre ==
  ASSUME NEW h \in [Seqs -> {None} \cup AWrite]
  PROVE  /\ Writes(h) \subseteq Entry /\ Single(Writes(h))
         /\ \A e, f \in Writes(h) : e.seq = f.seq => e = f
         /\ \A e \in Writes(h) :
              /\ e.seq \in Seqs /\ e.seq \in Nat /\ e.seq <= MaxSeq
              /\ IsDone(h, e.seq) /\ e = EntryIn(h, e.seq)
         /\ \A s \in Seqs : /\ EntryIn(h, s).seq = s
                            /\ IsDone(h, s) => EntryIn(h, s) \in Writes(h)
<1>1. \A s \in Seqs : EntryIn(h, s).seq = s /\ s \in Nat /\ s <= MaxSeq
  BY Bounds DEF EntryIn, Seqs
<1>2. \A e \in Writes(h) : e.seq \in Seqs /\ IsDone(h, e.seq) /\ e = EntryIn(h, e.seq)
  BY <1>1 DEF Writes
<1>3. \A e \in Writes(h) : e \in Entry
  <2> SUFFICES ASSUME NEW e \in Writes(h) PROVE e \in Entry
    OBVIOUS
  <2>1. h[e.seq] \in AWrite BY <1>2 DEF IsDone
  <2> QED BY <1>2, <2>1 DEF EntryIn, AWrite, Entry
<1>4. Single(Writes(h)) BY <1>2, <1>3, Bounds DEF Single
<1> QED BY <1>1, <1>2, <1>3, <1>4 DEF Writes

\* What a reader has to be told is what all the writes together answer.
LEMMA ExpectedAnswer ==
  ASSUME ClientsOK, NEW k \in Key, NEW s \in Nat
  PROVE  Expected(k, s) = Answer(Writes(hist), k, s)
<1> DEFINE W == Writes(hist)
           told == {n \in Seqs : /\ n <= s /\ hist[n] # None
                                 /\ hist[n].key = k /\ hist[n].state = "done"}
           n == CHOOSE n \in told : \A m \in told : m <= n
<1>1. /\ hist \in [Seqs -> {None} \cup AWrite] /\ Single(W) /\ k \in Int
      /\ \A e \in W : e.seq \in Seqs /\ e.seq \in Nat /\ IsDone(hist, e.seq)
                      /\ e = EntryIn(hist, e.seq)
      /\ \A t \in Seqs : /\ EntryIn(hist, t).seq = t
                         /\ IsDone(hist, t) => EntryIn(hist, t) \in W
  BY WritesAre DEF ClientsOK, Key
<1>2. \A e \in Visible(W, k, s) : e.seq \in told /\ e.del = hist[e.seq].del
  <2> SUFFICES ASSUME NEW e \in Visible(W, k, s)
               PROVE  e.seq \in told /\ e.del = hist[e.seq].del
    OBVIOUS
  <2>1. e \in W /\ e.key = k /\ e.seq <= s BY DEF Visible
  <2>2. e.key = hist[e.seq].key /\ e.del = hist[e.seq].del
    BY <1>1, <2>1 DEF EntryIn
  <2> QED BY <1>1, <2>1, <2>2 DEF IsDone
<1>3. \A t \in told : EntryIn(hist, t) \in Visible(W, k, s) /\ EntryIn(hist, t).seq = t
  <2> SUFFICES ASSUME NEW t \in told
               PROVE  EntryIn(hist, t) \in Visible(W, k, s) /\ EntryIn(hist, t).seq = t
    OBVIOUS
  <2>1. EntryIn(hist, t) \in W /\ EntryIn(hist, t).seq = t BY <1>1 DEF IsDone
  <2>2. EntryIn(hist, t).key = k BY DEF EntryIn
  <2> QED BY <2>1, <2>2 DEF Visible
<1>4. Expected(k, s) = IF told = {} THEN Absent ELSE IF hist[n].del THEN Absent ELSE n
  BY DEF Expected
<1>5. told \subseteq Nat BY DEF Seqs
<1> HIDE DEF told, W
<1>6. CASE told = {} BY <1>2, <1>4, <1>6 DEF Answer, W
<1>7. CASE told # {}
  <2>1. Visible(W, k, s) # {} BY <1>3, <1>7
  <2> DEFINE x == Newest(W, k, s)
  <2>2. x \in Visible(W, k, s) /\ \A f \in Visible(W, k, s) : f.seq <= x.seq
    BY <1>1, <2>1, NewestExists
  <2>3. Answer(W, k, s) = AnswerOf(x) BY <2>1 DEF Answer
  <2> HIDE DEF x
  <2>4. x.seq \in told /\ \A t \in told : t <= x.seq
    <3>1. \A t \in told : t <= x.seq BY <1>3, <2>2
    <3> QED BY <1>2, <2>2, <3>1
  <2>5. ASSUME NEW t \in told, \A m \in told : m <= t PROVE t = x.seq
    <3>1. t \in Nat /\ x.seq \in Nat /\ t <= x.seq /\ x.seq <= t
      BY <1>5, <2>4, <2>5
    <3> QED BY <3>1
  <2>6. n = x.seq
    <3>1. n \in told /\ \A m \in told : m <= n BY <2>4
    <3> QED BY <2>5, <3>1
  <2> HIDE DEF n
  <2> QED BY <1>2, <1>4, <1>7, <2>2, <2>3, <2>6 DEF AnswerOf, W
<1> QED BY <1>6, <1>7

LEMMA RecordedIs ==
  ASSUME NEW ls, NEW log
  PROVE  \A s : s \in Recorded(ls, log) <=>
           \E n \in DOMAIN ls : n >= log /\ s \in RecordsOf(ls, n)
BY DEF Recorded

LEMMA LogsRightInit == Init => LogsRight /\ HistRight
BY NoneIsNone DEF Init, LogsRight, HistRight, Working

--------------------
\* What the steps do to the logs.
LEMMA RecordsWith ==
  ASSUME Types, logs' = With(logs, next, <<>>), synced' = With(synced, next, 0),
         next \notin DOMAIN logs
  PROVE  /\ DOMAIN logs' = DOMAIN logs \cup {next}
         /\ \A n \in DOMAIN logs : logs'[n] = logs[n]
         /\ Len(logs'[next]) = 0 /\ RecordsOf(logs', next) = {}
         /\ \A n \in DOMAIN logs : RecordsOf(logs', n) = RecordsOf(logs, n)
         /\ \A log : Recorded(logs', log) = Recorded(logs, log)
<1>1. /\ DOMAIN logs' = DOMAIN logs \cup {next}
      /\ \A n \in DOMAIN logs : logs'[n] = logs[n]
  BY DEF With
<1>2. Len(logs'[next]) = 0 BY <1>1, NewLogIs
<1>3. RecordsOf(logs', next) = {} BY <1>2 DEF RecordsOf
<1>4. \A n \in DOMAIN logs : RecordsOf(logs', n) = RecordsOf(logs, n)
  BY <1>1 DEF RecordsOf
<1>5. ASSUME NEW log PROVE Recorded(logs', log) = Recorded(logs, log)
  <2>1. \A s : s \in Recorded(logs', log) <=> s \in Recorded(logs, log)
    BY <1>1, <1>3, <1>4, RecordedIs
  <2> QED BY <2>1
<1> QED BY <1>1, <1>2, <1>3, <1>4, <1>5

\* A log that is deleted is not needed any more.
LEMMA RecordsSwept ==
  ASSUME Types, NEW live, NEW log \in Nat, DeleteObsoleteFiles(live, log)
  PROVE  /\ DOMAIN logs' \subseteq DOMAIN logs
         /\ \A n \in DOMAIN logs' : logs'[n] = logs[n] /\ RecordsOf(logs', n) = RecordsOf(logs, n)
         /\ \A n \in DOMAIN logs : n >= log => n \in DOMAIN logs'
         /\ Recorded(logs', log) = Recorded(logs, log)
<1>1. /\ \A n \in DOMAIN logs' : n \in DOMAIN logs /\ logs'[n] = logs[n]
      /\ \A n \in DOMAIN logs : n >= log => n \in DOMAIN logs'
  BY DEF DeleteObsoleteFiles, Sweep
<1>2. \A n \in DOMAIN logs' : RecordsOf(logs', n) = RecordsOf(logs, n)
  BY <1>1 DEF RecordsOf
<1>3. \A s : s \in Recorded(logs', log) <=> s \in Recorded(logs, log)
  BY <1>1, <1>2, RecordedIs
<1> QED BY <1>1, <1>2, <1>3

\* The end of a log that got longer.
LEMMA LogKeeps ==
  ASSUME LogsOK, NEW left \in Log, logs' = [logs EXCEPT ![logfile] = @ \o left]
  PROVE  \A n \in DOMAIN logs :
           /\ \A i \in 1..Len(logs[n]) : i \in 1..Len(logs'[n]) /\ logs'[n][i] = logs[n][i]
           /\ n = logfile => \A i \in 1..Len(left) :
                /\ Len(logs[n]) + i \in 1..Len(logs'[n])
                /\ logs'[n][Len(logs[n]) + i] = left[i]
<1> SUFFICES ASSUME NEW n \in DOMAIN logs
             PROVE  /\ \A i \in 1..Len(logs[n]) : i \in 1..Len(logs'[n]) /\ logs'[n][i] = logs[n][i]
                    /\ n = logfile => \A i \in 1..Len(left) :
                         /\ Len(logs[n]) + i \in 1..Len(logs'[n])
                         /\ logs'[n][Len(logs[n]) + i] = left[i]
  OBVIOUS
<1>1. CASE n # logfile BY <1>1
<1>2. CASE n = logfile
  <2> DEFINE R == [entry : Entry, torn : BOOLEAN]
  <2>1. logs[n] \in Log /\ left \in Log /\ logs'[n] = logs[n] \o left /\ Log = Seq(R)
    BY <1>2 DEF LogsOK, Log
  <2> HIDE DEF R
  <2>2. /\ Len(logs[n]) \in Nat /\ Len(left) \in Nat
        /\ Len(logs[n] \o left) = Len(logs[n]) + Len(left)
    BY <2>1
  <2>3. \A i \in 1..(Len(logs[n]) + Len(left)) :
          (logs[n] \o left)[i] = IF i <= Len(logs[n]) THEN logs[n][i]
                                 ELSE left[i - Len(logs[n])]
    BY <2>1
  <2>4. ASSUME NEW i \in 1..Len(logs[n])
        PROVE  i \in 1..Len(logs'[n]) /\ logs'[n][i] = logs[n][i]
    <3>1. i \in 1..(Len(logs[n]) + Len(left)) /\ i <= Len(logs[n]) BY <2>2
    <3> QED BY <2>1, <2>2, <2>3, <3>1
  <2>5. ASSUME NEW i \in 1..Len(left)
        PROVE  /\ Len(logs[n]) + i \in 1..Len(logs'[n])
               /\ logs'[n][Len(logs[n]) + i] = left[i]
    <3>1. /\ Len(logs[n]) + i \in 1..(Len(logs[n]) + Len(left))
          /\ ~(Len(logs[n]) + i <= Len(logs[n])) /\ (Len(logs[n]) + i) - Len(logs[n]) = i
      BY <2>2
    <3> QED BY <2>1, <2>2, <2>3, <3>1
  <2> QED BY <2>4, <2>5
<1> QED BY <1>1, <1>2

\* A record is added, or may be left by a write that failed.
LEMMA RecordsAdded ==
  ASSUME Types, "torn" \notin Faults, logfile \in DOMAIN logs,
         NEW k \in Key, NEW del \in Deletes, NEW sync \in SyncOptions,
         Adding(k, del, sync)
  PROVE  LET e == [key |-> k, seq |-> last + 1, del |-> del]
         IN  /\ e \in Entry /\ last + 1 \in Seqs /\ last \in Nat
             /\ DOMAIN logs' = DOMAIN logs
             /\ \A n \in DOMAIN logs : \A i \in 1..Len(logs'[n]) :
                  \/ i \in 1..Len(logs[n]) /\ logs'[n][i] = logs[n][i]
                  \/ n = logfile /\ logs'[n][i] = Record(e, FALSE)
             /\ \A n \in DOMAIN logs : n # logfile => RecordsOf(logs', n) = RecordsOf(logs, n)
             /\ RecordsOf(logs, logfile) \subseteq RecordsOf(logs', logfile)
             /\ RecordsOf(logs', logfile) \subseteq RecordsOf(logs, logfile) \cup {last + 1}
             /\ AddRecord(k, del, sync) => last + 1 \in RecordsOf(logs', logfile)
             /\ \A s \in Seqs : s # last + 1 => hist'[s] = hist[s]
             /\ hist'[last + 1] # None /\ EntryIn(hist', last + 1) = e
             /\ hist'[last + 1].state # "done"
<1> DEFINE e == [key |-> k, seq |-> last + 1, del |-> del]
           r == Record(e, FALSE)
<1>1. last < MaxSeq /\ del \in BOOLEAN /\ sync \in BOOLEAN
  <2>1. last < MaxSeq BY DEF AddRecord, AddRecordFails
  <2> QED BY <2>1, Bounds
<1>2. e \in Entry /\ last + 1 \in Seqs /\ last \in Nat
  BY <1>1, EntryIs, Bounds DEF MemOK
<1>3. <<r>> \in Log /\ \A l \in Log : Append(l, r) = l \o <<r>>
  BY <1>2, RecordIs
<1>4. \E left \in {<<>>, <<r>>} :
        /\ logs' = [logs EXCEPT ![logfile] = @ \o left]
        /\ AddRecord(k, del, sync) => left = <<r>>
  <2>1. CASE AddRecord(k, del, sync)
    <3>1. logs' = [logs EXCEPT ![logfile] = Append(@, r)] BY <2>1 DEF AddRecord
    <3>2. logs[logfile] \in Log BY DEF LogsOK
    <3> HIDE DEF r
    <3>3. Append(logs[logfile], r) = logs[logfile] \o <<r>> BY <1>3, <3>2
    <3>4. logs' = [logs EXCEPT ![logfile] = @ \o <<r>>] BY <3>1, <3>3
    <3> QED BY <3>4
  <2>2. CASE AddRecordFails(k, del, sync) /\ ~AddRecord(k, del, sync)
    BY <2>2 DEF AddRecordFails
  <2> QED BY <2>1, <2>2
<1>5. PICK left \in {<<>>, <<r>>} :
        /\ logs' = [logs EXCEPT ![logfile] = @ \o left]
        /\ AddRecord(k, del, sync) => left = <<r>>
  BY <1>4
<1>6. /\ left \in Log /\ Len(left) \in {0, 1} /\ \A i \in 1..Len(left) : left[i] = r
      /\ left = <<r>> => Len(left) = 1
  <2>1. <<>> \in Log BY DEF Log
  <2> HIDE DEF r
  <2>2. CASE left = <<>> BY <2>1, <2>2
  <2>3. CASE left = <<r>> BY <1>3, <2>3
  <2> QED BY <2>2, <2>3
<1>7. r.entry = e /\ e.seq = last + 1 BY DEF Record
<1>8. \E st \in {"pending", "failed"} :
        hist' = [hist EXCEPT ![last + 1] =
             [key |-> k, del |-> del, sync |-> sync, state |-> st]]
  BY DEF AddRecord, AddRecordFails
<1>9. /\ \A s \in Seqs : s # last + 1 => hist'[s] = hist[s]
      /\ hist'[last + 1] \in AWrite /\ EntryIn(hist', last + 1) = e
      /\ hist'[last + 1].state # "done"
  <2>1. PICK st \in {"pending", "failed"} :
          hist' = [hist EXCEPT ![last + 1] =
               [key |-> k, del |-> del, sync |-> sync, state |-> st]]
    BY <1>8
  <2>2. /\ \A s \in Seqs : s # last + 1 => hist'[s] = hist[s]
        /\ hist'[last + 1] = [key |-> k, del |-> del, sync |-> sync, state |-> st]
    <3> HIDE DEF e, r
    <3> QED BY <1>2, <2>1 DEF ClientsOK
  <2>3. hist'[last + 1] \in AWrite /\ st # "done" BY <1>1, <2>2 DEF AWrite
  <2> QED BY <2>2, <2>3 DEF EntryIn
<1>10. /\ DOMAIN logs' = DOMAIN logs
       /\ \A n \in DOMAIN logs : n # logfile => logs'[n] = logs[n]
  BY <1>5
<1> HIDE DEF e, r
<1>11. \A n \in DOMAIN logs : \A i \in 1..Len(logs'[n]) :
         \/ i \in 1..Len(logs[n]) /\ logs'[n][i] = logs[n][i]
         \/ n = logfile /\ logs'[n][i] = r
  <2> SUFFICES ASSUME NEW n \in DOMAIN logs, NEW i \in 1..Len(logs'[n])
               PROVE  \/ i \in 1..Len(logs[n]) /\ logs'[n][i] = logs[n][i]
                      \/ n = logfile /\ logs'[n][i] = r
    OBVIOUS
  <2>1. CASE n # logfile BY <1>10, <2>1
  <2>2. CASE n = logfile
    <3>1. \/ i \in 1..Len(logs[n]) /\ logs'[n][i] = logs[n][i]
          \/ /\ i - Len(logs[n]) \in 1..Len(left)
             /\ logs'[n][i] = left[i - Len(logs[n])]
      BY <1>5, <1>6, <2>2, LogLonger
    <3> QED BY <1>6, <2>2, <3>1
  <2> QED BY <2>1, <2>2
<1>12. RecordsOf(logs, logfile) \subseteq RecordsOf(logs', logfile)
  BY <1>5, <1>6, LogKeeps DEF RecordsOf
<1>13. RecordsOf(logs', logfile) \subseteq RecordsOf(logs, logfile) \cup {last + 1}
  BY <1>7, <1>11 DEF RecordsOf
<1>14. AddRecord(k, del, sync) => last + 1 \in RecordsOf(logs', logfile)
  <2> SUFFICES ASSUME AddRecord(k, del, sync)
               PROVE  last + 1 \in RecordsOf(logs', logfile)
    OBVIOUS
  <2>1. left = <<r>> /\ Len(left) = 1 BY <1>5, <1>6
  <2>3. 1 \in 1..Len(left) /\ left[1] = r BY <1>6, <2>1
  <2>2. /\ Len(logs[logfile]) + 1 \in 1..Len(logs'[logfile])
        /\ logs'[logfile][Len(logs[logfile]) + 1] = r
    BY <1>5, <1>6, <2>3, LogKeeps
  <2> QED BY <1>7, <2>2 DEF RecordsOf
<1>15. \A n \in DOMAIN logs : n # logfile => RecordsOf(logs', n) = RecordsOf(logs, n)
  BY <1>10 DEF RecordsOf
<1> QED BY <1>2, <1>9, <1>10, <1>11, <1>12, <1>13, <1>14, <1>15, NoneIsNone DEF e, r

--------------------
USE DEF Base

LEMMA EditMadeIs ==
  ASSUME Base, LogsRight, EditMade
  PROVE  /\ UNCHANGED <<logs, manifest, phase, mem, imm, logfile, logNumber, last,
                        current, writer, held, reader, job, bgError, hist>>
         /\ phase = "up" /\ edit = None /\ edit' # None /\ edit' \in AnEdit
         /\ Working /\ logNumber = manifest.log
         /\ edit'.last = last /\ next \in Nat /\ next' \in Nat /\ next <= next'
         /\ edit'.log = IF edit'.kind = "memtable" THEN logfile ELSE manifest.log
         /\ edit'.kind = "memtable" => imm # {}
<1>1. CASE WriteLevel0Table
  <2>1. /\ UNCHANGED <<logs, manifest, phase, mem, imm, logfile, logNumber, last,
                        current, writer, held, reader, job, bgError, hist>>
        /\ phase = "up" /\ edit = None /\ imm # {} /\ (job = None => ~bgError)
        /\ next' = next + 1
        /\ edit'.kind = "memtable" /\ edit'.last = last /\ edit'.log = logfile
    BY <1>1 DEF WriteLevel0Table, memVars, clientVars, observers
  <2>2. edit' \in AnEdit
    <3>1. Types' BY <1>1, WriteLevel0TableTypes
    <3>2. edit' # None
      <4>1. "kind" \in DOMAIN edit' BY <1>1 DEF WriteLevel0Table
      <4> QED BY <4>1 DEF None
    <3> QED BY <3>1, <3>2 DEF PhaseOK
  <2>3. Working /\ logNumber = manifest.log BY <2>1 DEF Working, LogsRight
  <2> QED BY <2>1, <2>2, <2>3, NoneIsNone DEF MemOK
<1>2. CASE TrivialMove
  <2>1. /\ UNCHANGED <<logs, manifest, phase, mem, imm, logfile, logNumber, last,
                        current, writer, held, reader, job, bgError, hist, next>>
        /\ phase = "up" /\ edit = None /\ ~bgError
    BY <1>2 DEF TrivialMove, Idle, diskVars, memVars, versionVars, clientVars, observers
  <2>2. PICK l \in 0..(NumLevels - 2) : \E n \in current[l] : edit' = MoveEdit(l, n)
    BY <1>2 DEF TrivialMove
  <2>3. edit'.kind = "move" /\ edit'.log = logNumber /\ edit'.last = last
        /\ "kind" \in DOMAIN edit'
    BY <2>2
  <2>4. edit' \in AnEdit
    <3>1. Types' BY <1>2, TrivialMoveTypes
    <3>2. edit' # None BY <2>3 DEF None
    <3> QED BY <3>1, <3>2 DEF PhaseOK
  <2>5. Working /\ logNumber = manifest.log BY <2>1 DEF Working, LogsRight
  <2> QED BY <2>1, <2>3, <2>4, <2>5, NoneIsNone DEF MemOK
<1>3. CASE InstallCompactionResults
  <2>1. /\ UNCHANGED <<logs, manifest, phase, mem, imm, logfile, logNumber, last,
                        current, writer, held, reader, job, bgError, hist, next>>
        /\ phase = "up" /\ edit = None /\ job # None
        /\ edit'.kind = "compaction" /\ edit'.log = logNumber /\ edit'.last = last
        /\ "kind" \in DOMAIN edit'
    BY <1>3 DEF InstallCompactionResults, diskVars, memVars, versionVars, clientVars, observers
  <2>4. edit' \in AnEdit
    <3>1. Types' BY <1>3, InstallTypes
    <3>2. edit' # None BY <2>1 DEF None
    <3> QED BY <3>1, <3>2 DEF PhaseOK
  <2>5. Working /\ logNumber = manifest.log BY <2>1 DEF Working, LogsRight
  <2> QED BY <2>1, <2>4, <2>5, NoneIsNone DEF MemOK
<1> QED BY <1>1, <1>2, <1>3 DEF EditMade

LEMMA RightMade ==
  ASSUME Base, LogsRight, HistRight, EditMade
  PROVE  LogsRight' /\ HistRight'
<1>1. logfile \in Nat /\ next \in Nat BY Bounds DEF MemOK
<1>2. LogsRight'
  <2>1. phase = "up" => logfile < next' BY <1>1, EditMadeIs DEF LogsRight
  <2> QED BY <2>1, EditMadeIs DEF LogsRight
<1>3. HistRight' BY EditMadeIs DEF HistRight
<1> QED BY <1>2, <1>3

LEMMA QuietIs ==
  ASSUME Base, QuietStep
  PROVE  /\ UNCHANGED <<logs, manifest, phase, mem, imm, logfile, logNumber, last,
                        current, writer, edit, hist>>
         /\ next \in Nat /\ next' \in Nat /\ next <= next'
         /\ Working' => Working
<1>1. next \in Nat /\ next <= next BY DEF MemOK
<1>2. CASE GetSnapshot \/ \E s \in Seqs \cup {0} : ReleaseSnapshot(s)
  <2>1. UNCHANGED <<logs, manifest, phase, mem, imm, logfile, logNumber, last,
                    current, writer, edit, hist, next, job, bgError>>
    BY <1>2 DEF GetSnapshot, ReleaseSnapshot, diskVars, memVars, versionVars, observers
  <2> QED BY <1>1, <2>1 DEF Working
<1>3. CASE StartRead \/ EndRead
  <2>1. UNCHANGED <<logs, manifest, phase, mem, imm, logfile, logNumber, last,
                    current, writer, edit, hist, next, job, bgError>>
    BY <1>3 DEF StartRead, EndRead, diskVars, memVars, versionVars, observers
  <2> QED BY <1>1, <2>1 DEF Working
<1>4. CASE StartCompaction
  <2>1. /\ UNCHANGED <<logs, manifest, phase, mem, imm, logfile, logNumber, last,
                       current, writer, edit, hist, next, bgError>>
        /\ ~bgError
    BY <1>4 DEF StartCompaction, Idle, diskVars, memVars, versionVars, clientVars, observers
  <2> QED BY <1>1, <2>1 DEF Working
<1>5. CASE WriteOutputs
  <2>1. /\ UNCHANGED <<logs, manifest, phase, mem, imm, logfile, logNumber, last,
                       current, writer, edit, hist, bgError>>
        /\ job # None /\ next' \in Nat /\ next <= next'
    BY <1>5, OutputsAre DEF memVars, clientVars, observers
  <2> QED BY <1>1, <2>1 DEF Working
<1>6. CASE TableFails
  <2>1. /\ UNCHANGED <<manifest, phase, mem, imm, logfile, logNumber, last,
                       current, writer, edit, hist, next>>
        /\ bgError' /\ edit = None /\ job' \in {job, None}
    BY <1>6 DEF TableFails, memVars, versionVars, clientVars, observers
  <2>2. logs' = logs BY <1>6, <2>1 DEF TableFails, DeleteObsoleteFiles
  <2> QED BY <1>1, <2>1, <2>2 DEF Working
<1>7. CASE UNCHANGED vars
  <2>1. UNCHANGED <<logs, manifest, phase, mem, imm, logfile, logNumber, last,
                    current, writer, edit, hist, next, job, bgError>>
    BY <1>7 DEF vars, diskVars, memVars, versionVars, clientVars, observers
  <2> QED BY <1>1, <2>1 DEF Working
<1> QED BY <1>2, <1>3, <1>4, <1>5, <1>6, <1>7 DEF QuietStep

\* What the readers and the snapshots know.
LEMMA HoldersQuiet ==
  ASSUME Base, HistRight, QuietStep
  PROVE  /\ held' = held \/ held' = held \cup {last} \/ held' \subseteq held
         /\ \A s \in held' : s <= last
         /\ \/ reader' = reader \/ reader' = None
            \/ reader' = [seq |-> last, mem |-> mem, imm |-> imm, files |-> current]
         /\ reader' # None => reader'.seq <= last
<1>1. last \in Nat /\ last <= last BY Bounds DEF MemOK
<1>2. CASE GetSnapshot \/ \E s \in Seqs \cup {0} : ReleaseSnapshot(s)
  <2>1. reader' = reader /\ (held' = held \cup {last} \/ held' \subseteq held)
    BY <1>2 DEF GetSnapshot, ReleaseSnapshot
  <2> QED BY <1>1, <2>1 DEF HistRight
<1>3. CASE StartRead \/ EndRead BY <1>1, <1>3 DEF StartRead, EndRead, HistRight
<1>4. CASE StartCompaction \/ WriteOutputs \/ TableFails \/ UNCHANGED vars
  <2>1. UNCHANGED <<held, reader>>
    <3>1. CASE WriteOutputs BY <3>1, OutputsAre DEF clientVars
    <3> QED BY <1>4, <3>1 DEF StartCompaction, TableFails, vars, clientVars
  <2> QED BY <2>1 DEF HistRight
<1> QED BY <1>2, <1>3, <1>4 DEF QuietStep

LEMMA RightQuiet ==
  ASSUME Base, LogsRight, HistRight, QuietStep
  PROVE  LogsRight' /\ HistRight'
<1>1. logfile \in Nat BY Bounds DEF MemOK
<1>2. LogsRight'
  <2>1. phase \in {"opening", "up"} => logfile < next'
    BY <1>1, QuietIs DEF LogsRight
  <2> QED BY <2>1, QuietIs DEF LogsRight
<1>3. HistRight' BY QuietIs, HoldersQuiet DEF HistRight
<1> QED BY <1>2, <1>3

\* The edit is in the manifest and the version, or may be in the manifest.
LEMMA InstalledIs ==
  ASSUME Base, LogsRight, LogAndApply
  PROVE  /\ phase = "up" /\ phase' = "up" /\ edit # None /\ edit \in AnEdit /\ edit' = None
         /\ manifest' = Written /\ manifest'.log = edit.log /\ edit.log \in Nat
         /\ manifest'.files = current' /\ current' = Apply(current, edit)
         /\ current' \in Files
         /\ logNumber' = edit.log /\ manifest.log <= edit.log /\ edit.log <= logfile
         /\ imm' = (IF edit.kind = "memtable" THEN {} ELSE imm)
         /\ job' = (IF edit.kind = "memtable" THEN job ELSE None)
         /\ UNCHANGED <<mem, logfile, next, last, writer, held, reader, hist, bgError>>
         /\ DOMAIN logs' \subseteq DOMAIN logs
         /\ \A n \in DOMAIN logs' : logs'[n] = logs[n] /\ RecordsOf(logs', n) = RecordsOf(logs, n)
         /\ \A n \in DOMAIN logs : n >= edit.log => n \in DOMAIN logs'
         /\ Recorded(logs', edit.log) = Recorded(logs, edit.log)
         /\ \A n \in DOMAIN tables' : n \in DOMAIN tables /\ tables'[n] = tables[n]
<1>1. /\ phase = "up" /\ phase' = "up" /\ edit # None /\ edit' = None
      /\ manifest' = Written /\ current' = Apply(current, edit)
      /\ logNumber' = edit.log
      /\ imm' = (IF edit.kind = "memtable" THEN {} ELSE imm)
      /\ job' = (IF edit.kind = "memtable" THEN job ELSE None)
      /\ UNCHANGED <<mem, logfile, next, last, writer, held, reader, hist, bgError>>
      /\ \/ UNCHANGED <<tables, logs, synced>>
         \/ DeleteObsoleteFiles(Live(current', job'), edit.log)
  BY DEF LogAndApply, clientVars, observers
<1>2. edit \in AnEdit /\ edit.log \in Nat /\ current \in Files /\ current' \in Files
  <2>1. edit \in AnEdit /\ current \in Files BY <1>1 DEF PhaseOK, MemOK
  <2> QED BY <1>1, <2>1, ApplyIs DEF AnEdit
<1>3. current = manifest.files BY <1>1 DEF SameVersion
<1>4. manifest'.files = current' /\ manifest'.log = edit.log
  BY <1>1, <1>3 DEF Written
<1>5. manifest.log <= edit.log /\ edit.log <= logfile
  <2>1. manifest.log \in Nat /\ logfile \in Nat BY Bounds DEF ManifestOK, MemOK
  <2> QED BY <1>1, <2>1 DEF LogsRight
<1>6. /\ DOMAIN logs' \subseteq DOMAIN logs
      /\ \A n \in DOMAIN logs' : logs'[n] = logs[n] /\ RecordsOf(logs', n) = RecordsOf(logs, n)
      /\ \A n \in DOMAIN logs : n >= edit.log => n \in DOMAIN logs'
      /\ Recorded(logs', edit.log) = Recorded(logs, edit.log)
  <2>1. CASE UNCHANGED <<tables, logs, synced>> BY <2>1
  <2>2. CASE DeleteObsoleteFiles(Live(current', job'), edit.log)
    BY <1>2, <2>2, RecordsSwept
  <2> QED BY <1>1, <2>1, <2>2
<1>7. \A n \in DOMAIN tables' : n \in DOMAIN tables /\ tables'[n] = tables[n]
  BY <1>1, SweepKeeps
<1> QED BY <1>1, <1>2, <1>4, <1>5, <1>6, <1>7

LEMMA RightInstalled ==
  ASSUME Base, LogsRight, HistRight, LogAndApply
  PROVE  LogsRight' /\ HistRight'
<1>1. manifest.log \in Nat /\ edit.log \in Nat /\ \A n \in DOMAIN logs : n \in Nat
  BY InstalledIs, Bounds DEF ManifestOK, LogsOK, FileNumber
<1>2. /\ manifest'.log = edit.log /\ manifest.log <= edit.log
      /\ \A n \in DOMAIN logs' : n \in DOMAIN logs /\ logs'[n] = logs[n]
                                 /\ RecordsOf(logs', n) = RecordsOf(logs, n)
      /\ hist' = hist
  BY InstalledIs
<1>3. \A n \in Nat : edit.log <= n => manifest.log <= n BY <1>1, <1>2
<1>4. logfile \in DOMAIN logs' /\ edit.log <= logfile
  <2>1. logfile >= edit.log /\ logfile \in DOMAIN logs
    BY InstalledIs DEF LogsRight
  <2> QED BY <2>1, InstalledIs
<1>5. LogsRight'
  <2>1. \A n \in DOMAIN logs' : \A i \in 1..Len(logs'[n]) :
          LET r == logs'[n][i]
          IN  /\ ~r.torn
              /\ n >= manifest'.log =>
                   hist'[r.entry.seq] # None /\ r.entry = EntryIn(hist', r.entry.seq)
    BY <1>1, <1>2, <1>3 DEF LogsRight
  <2>2. \A m, n \in DOMAIN logs' : manifest'.log <= m /\ m < n =>
          \A s \in RecordsOf(logs', m), t \in RecordsOf(logs', n) : s < t
    BY <1>1, <1>2, <1>3 DEF LogsRight
  <2>3. \A n \in DOMAIN logs' : n <= logfile BY <1>2, InstalledIs DEF LogsRight
  <2> QED BY <1>2, <1>4, <2>1, <2>2, <2>3, InstalledIs DEF LogsRight
<1>6. HistRight' BY <1>2, <1>4, InstalledIs DEF HistRight
<1> QED BY <1>5, <1>6

\* What a failed record of the manifest leaves, where it leaves no part.
LEMMA FailedIs ==
  ASSUME "torn" \notin Faults, "nested" \notin Faults, Base, LogsRight, LogAndApplyFails
  PROVE  /\ phase = "up" /\ phase' = "up" /\ edit # None /\ edit \in AnEdit /\ edit' = None
         /\ job' = None /\ bgError'
         /\ \/ manifest' = manifest
            \/ /\ manifest' = Written /\ manifest'.log = edit.log
               /\ manifest'.files = Apply(current, edit) /\ manifest'.last = edit.last
         /\ edit.log \in Nat /\ manifest.log <= edit.log /\ edit.log <= logfile
         /\ UNCHANGED <<logs, tables, mem, imm, logfile, logNumber, next, last, current,
                        writer, held, reader, hist>>
<1>1. /\ phase = "up" /\ phase' = "up" /\ edit # None /\ edit' = None /\ bgError'
      /\ (edit.kind = "memtable" /\ job # None => "nested" \in Faults)
      /\ job' = IF edit.kind = "memtable" THEN job ELSE None
      /\ UNCHANGED <<logs, tables, mem, imm, logfile, logNumber, next, last, current,
                     writer, held, reader, hist>>
  BY DEF LogAndApplyFails, DeleteObsoleteFiles, memVars, versionVars, clientVars, observers
<1>2. manifest' = manifest \/ manifest' = Written BY FailedRecord
<1>3. edit \in AnEdit /\ edit.log \in Nat /\ current = manifest.files
  BY <1>1 DEF PhaseOK, AnEdit, SameVersion
<1>4. manifest.log <= edit.log /\ edit.log <= logfile
  <2>1. manifest.log \in Nat /\ logfile \in Nat BY Bounds DEF ManifestOK, MemOK
  <2> QED BY <1>1, <2>1 DEF LogsRight
<1> QED BY <1>1, <1>2, <1>3, <1>4 DEF Written

LEMMA RightFailed ==
  ASSUME "torn" \notin Faults, "nested" \notin Faults,
         Base, LogsRight, HistRight, LogAndApplyFails
  PROVE  LogsRight' /\ HistRight'
<1>1. manifest.log \in Nat /\ edit.log \in Nat /\ \A n \in DOMAIN logs : n \in Nat
  BY FailedIs, Bounds DEF ManifestOK, LogsOK, FileNumber
<1>2. /\ manifest'.log \in {manifest.log, edit.log} /\ manifest.log <= edit.log
      /\ edit.log <= logfile
      /\ UNCHANGED <<logs, hist, logfile, next>>
  BY FailedIs
<1>3. /\ \A n \in Nat : manifest'.log <= n => manifest.log <= n
      /\ manifest.log <= logfile => manifest'.log <= logfile
  BY <1>1, <1>2
<1>4. LogsRight'
  <2>1. \A n \in DOMAIN logs : \A i \in 1..Len(logs[n]) :
          LET r == logs[n][i]
          IN  /\ ~r.torn
              /\ n >= manifest'.log =>
                   hist[r.entry.seq] # None /\ r.entry = EntryIn(hist, r.entry.seq)
    BY <1>1, <1>2, <1>3 DEF LogsRight
  <2>2. \A m, n \in DOMAIN logs : manifest'.log <= m /\ m < n =>
          \A s \in RecordsOf(logs, m), t \in RecordsOf(logs, n) : s < t
    BY <1>1, <1>2, <1>3 DEF LogsRight
  <2>3. ~Working' BY FailedIs DEF Working
  <2> QED BY <1>2, <1>3, <2>1, <2>2, <2>3, FailedIs DEF LogsRight
<1>5. HistRight' BY FailedIs DEF HistRight
<1> QED BY <1>4, <1>5

--------------------
\* What the tables have to hold.

\* The store opens.
LEMMA OpeningIs ==
  ASSUME Base, phase = "replaying" \/ phase = "opening"
  PROVE  /\ edit \in AnEdit /\ edit # None /\ edit.kind = "open"
         /\ writer = None /\ reader = None /\ job = None
         /\ mem = {} /\ imm = {} /\ held = {} /\ ~bgError
         /\ edit.log \in Nat /\ manifest.log \in Nat /\ next \in Nat
         /\ \A n \in DOMAIN logs : n \in Nat
<1>1. edit \in AnEdit /\ edit.log \in Nat BY DEF PhaseOK, AnEdit
<1> QED BY <1>1, NoneIsNone, Bounds DEF PhaseOK, ManifestOK, MemOK, LogsOK, FileNumber

LEMMA RightOpening ==
  ASSUME Base, LogsRight, HistRight, DiskRight,
         Recover \/ RecoverLogFile \/ NewLog \/ OpenDone
  PROVE  LogsRight' /\ HistRight'
<1>1. CASE Recover
  <2>1. /\ phase = "down" /\ phase' = "replaying" /\ edit'.log = manifest.log
        /\ UNCHANGED <<logs, manifest, hist, writer, held, reader>>
    BY <1>1 DEF Recover, diskVars, clientVars, observers
  <2>2. manifest.log \in Nat /\ writer = None /\ reader = None /\ held = {}
    BY <2>1, Bounds DEF ManifestOK, PhaseOK
  <2>3. LogsRight' BY <2>1, <2>2 DEF LogsRight, Working
  <2>4. HistRight' BY <2>1, <2>2 DEF HistRight
  <2> QED BY <2>3, <2>4
<1>2. CASE RecoverLogFile
  <2>1. PICK n \in DOMAIN logs : /\ edit.log <= n
                                 /\ \E made : edit' = [edit EXCEPT !.add = At(0, @[0] \cup made),
                                                                   !.log = n + 1]
    BY <1>2 DEF RecoverLogFile
  <2>2. /\ phase = "replaying" /\ phase' = "replaying"
        /\ UNCHANGED <<logs, manifest, hist, writer, held, reader>>
    BY <1>2 DEF RecoverLogFile, clientVars, observers
  <2>3. edit'.log = n + 1 /\ n \in Nat /\ edit.log \in Nat /\ manifest.log \in Nat
    BY <2>1, <2>2, OpeningIs DEF AnEdit
  <2>4. manifest.log <= edit'.log BY <2>1, <2>2, <2>3 DEF LogsRight
  <2>5. LogsRight' BY <2>2, <2>4 DEF LogsRight, Working
  <2>6. HistRight' BY <2>2, OpeningIs DEF HistRight
  <2> QED BY <2>5, <2>6
<1>3. CASE NewLog
  <2>1. /\ phase = "replaying" /\ phase' = "opening" /\ \A n \in DOMAIN logs : n < edit.log
        /\ logs' = With(logs, next, <<>>) /\ synced' = With(synced, next, 0)
        /\ logfile' = next /\ next' = next + 1
        /\ edit' = [edit EXCEPT !.log = next, !.next = next + 1, !.last = last]
        /\ UNCHANGED <<manifest, last, hist, writer, held, reader>>
    BY <1>3 DEF NewLog, clientVars, observers
  <2>2. /\ edit'.log = next /\ edit.log <= next /\ manifest.log <= edit.log
        /\ manifest.log <= next
    BY <2>1, OpeningIs DEF AnEdit, LogsGrow, LogsRight
  <2>3. \A n \in DOMAIN logs : n < next BY <2>1, <2>2, OpeningIs
  <2>4. /\ DOMAIN logs' = DOMAIN logs \cup {next}
        /\ \A n \in DOMAIN logs : logs'[n] = logs[n] /\ RecordsOf(logs', n) = RecordsOf(logs, n)
        /\ Len(logs'[next]) = 0 /\ RecordsOf(logs', next) = {}
    <3>1. next \notin DOMAIN logs
      <4>1. next \in Nat /\ ~(next < next) BY <2>1, OpeningIs
      <4> QED BY <2>3, <4>1
    <3> QED BY <2>1, <3>1, RecordsWith
  <2>5. /\ next < next' /\ next \in DOMAIN logs' BY <2>1, <2>4, OpeningIs
  <2>6. \A n \in DOMAIN logs' : \A i \in 1..Len(logs'[n]) :
          LET r == logs'[n][i]
          IN  /\ ~r.torn
              /\ n >= manifest'.log =>
                   hist'[r.entry.seq] # None /\ r.entry = EntryIn(hist', r.entry.seq)
    BY <2>1, <2>4 DEF LogsRight
  <2>7. \A m, n \in DOMAIN logs' : manifest'.log <= m /\ m < n =>
          \A s \in RecordsOf(logs', m), t \in RecordsOf(logs', n) : s < t
    BY <2>1, <2>4 DEF LogsRight
  <2>8. LogsRight' BY <2>1, <2>2, <2>5, <2>6, <2>7 DEF LogsRight, Working
  <2>9. \A s \in Seqs : hist[s] # None => s <= last
    <3> SUFFICES ASSUME NEW s \in Seqs, hist[s] # None PROVE s <= last
      OBVIOUS
    <3>1. Recorded(logs, edit.log) = {}
      <4>1. ~ \E n \in DOMAIN logs : n >= edit.log BY <2>1, OpeningIs
      <4> QED BY <4>1, RecordedIs
    <3>2. EntryIn(hist, s) \in Writes(hist) /\ EntryIn(hist, s).seq = s
      BY <2>1, WritesAre DEF HistRight, IsDone, ClientsOK
    <3>3. EntryIn(hist, s) \in Flushed(hist, logs, edit.log)
      BY <3>1, <3>2 DEF Flushed
    <3> QED BY <2>1, <3>2, <3>3, OpeningIs DEF DiskRight, Covers, EditLast
  <2>10. HistRight' BY <2>1, <2>9, OpeningIs DEF HistRight
  <2> QED BY <2>8, <2>10
<1>4. CASE OpenDone
  <2>1. /\ phase = "opening" /\ phase' = "up" /\ manifest' = Written /\ edit' = None
        /\ logNumber' = edit.log /\ bgError' = bgError
        /\ DeleteObsoleteFiles(AllFiles(current'), edit.log)
        /\ UNCHANGED <<logfile, next, last, hist, writer, held, reader>>
    BY <1>4 DEF OpenDone, memVars, clientVars, observers
  <2>2. /\ manifest'.log = edit.log /\ edit.log = logfile /\ logfile \in DOMAIN logs
        /\ manifest.log <= logfile /\ logfile < next
    BY <2>1 DEF Written, LogsRight
  <2>3. /\ DOMAIN logs' \subseteq DOMAIN logs
        /\ \A n \in DOMAIN logs' : logs'[n] = logs[n] /\ RecordsOf(logs', n) = RecordsOf(logs, n)
        /\ \A n \in DOMAIN logs : n >= edit.log => n \in DOMAIN logs'
    BY <2>1, OpeningIs, RecordsSwept
  <2>4. logfile \in DOMAIN logs' /\ logfile \in Nat
    BY <2>1, <2>2, <2>3, OpeningIs
  <2>5. \A n \in DOMAIN logs' : n <= logfile BY <2>1, <2>2, <2>3 DEF LogsFollow
  <2>6. \A n \in Nat : logfile <= n => manifest.log <= n
    BY <2>1, <2>2, <2>4, OpeningIs
  <2>7. \A n \in DOMAIN logs' : \A i \in 1..Len(logs'[n]) :
          LET r == logs'[n][i]
          IN  /\ ~r.torn
              /\ n >= manifest'.log =>
                   hist'[r.entry.seq] # None /\ r.entry = EntryIn(hist', r.entry.seq)
    BY <2>1, <2>2, <2>3, <2>6, OpeningIs DEF LogsRight
  <2>8. \A m, n \in DOMAIN logs' : manifest'.log <= m /\ m < n =>
          \A s \in RecordsOf(logs', m), t \in RecordsOf(logs', n) : s < t
    BY <2>1, <2>2, <2>3, <2>6, OpeningIs DEF LogsRight
  <2>9. manifest'.log <= logfile BY <2>2, <2>4
  <2>10. LogsRight'
    BY <2>1, <2>2, <2>4, <2>5, <2>7, <2>8, <2>9 DEF LogsRight, Working
  <2>11. HistRight' BY <2>1, OpeningIs DEF HistRight
  <2> QED BY <2>10, <2>11
<1> QED BY <1>1, <1>2, <1>3, <1>4

\* The memtable is full, and a log begins for the next one.
LEMMA RightSwitch ==
  ASSUME Base, LogsRight, HistRight, SwitchMemTable
  PROVE  /\ LogsRight' /\ HistRight'
         /\ logfile \in Nat /\ logfile < next /\ manifest.log <= logfile
         /\ DOMAIN logs' = DOMAIN logs \cup {next}
         /\ \A n \in DOMAIN logs : RecordsOf(logs', n) = RecordsOf(logs, n)
         /\ RecordsOf(logs', next) = {}
         /\ \A log : Recorded(logs', log) = Recorded(logs, log)
<1>1. /\ phase = "up" /\ phase' = "up" /\ writer = None /\ ~bgError /\ imm = {}
      /\ logs' = With(logs, next, <<>>) /\ synced' = With(synced, next, 0)
      /\ logfile' = next /\ next' = next + 1
      /\ UNCHANGED <<manifest, last, logNumber, hist, writer, held, reader, job, edit, bgError>>
  BY DEF SwitchMemTable, Ready, clientVars, observers
<1>2. /\ logfile \in Nat /\ next \in Nat /\ manifest.log \in Nat
      /\ \A n \in DOMAIN logs : n \in Nat
  BY Bounds DEF MemOK, ManifestOK, LogsOK, FileNumber
<1>3. /\ \A n \in DOMAIN logs : n < next
      /\ logfile < next /\ manifest.log <= next /\ manifest.log <= logfile
  BY <1>1, <1>2 DEF LogsRight
<1>4. next \notin DOMAIN logs
  <2>1. ~(next < next) BY <1>2
  <2> QED BY <1>3, <2>1
<1>5. /\ DOMAIN logs' = DOMAIN logs \cup {next}
      /\ \A n \in DOMAIN logs : logs'[n] = logs[n] /\ RecordsOf(logs', n) = RecordsOf(logs, n)
      /\ Len(logs'[next]) = 0 /\ RecordsOf(logs', next) = {}
      /\ \A log : Recorded(logs', log) = Recorded(logs, log)
  BY <1>1, <1>4, RecordsWith
<1>6. /\ next < next' /\ next \in DOMAIN logs' /\ \A n \in DOMAIN logs' : n <= next
  BY <1>1, <1>2, <1>3, <1>5
<1>7. \A n \in DOMAIN logs' : \A i \in 1..Len(logs'[n]) :
        LET r == logs'[n][i]
        IN  /\ ~r.torn
            /\ n >= manifest'.log =>
                 hist'[r.entry.seq] # None /\ r.entry = EntryIn(hist', r.entry.seq)
  BY <1>1, <1>5 DEF LogsRight
<1>8. \A m, n \in DOMAIN logs' : manifest'.log <= m /\ m < n =>
        \A s \in RecordsOf(logs', m), t \in RecordsOf(logs', n) : s < t
  BY <1>1, <1>5 DEF LogsRight
<1>9. LogsRight' BY <1>1, <1>3, <1>6, <1>7, <1>8 DEF LogsRight, Working
<1>10. HistRight' BY <1>1 DEF HistRight
<1> QED BY <1>2, <1>3, <1>5, <1>9, <1>10

\* A record is added, or may be left by a write that failed.
LEMMA RightAdded ==
  ASSUME Base, LogsRight, HistRight, "torn" \notin Faults,
         NEW k \in Key, NEW del \in Deletes, NEW sync \in SyncOptions,
         Adding(k, del, sync)
  PROVE  LogsRight' /\ HistRight'
<1> DEFINE e == [key |-> k, seq |-> last + 1, del |-> del]
<1>1. /\ phase = "up" /\ phase' = "up" /\ writer = None
      /\ UNCHANGED <<manifest, mem, imm, logfile, logNumber, next, held, reader, job, edit,
                     bgError>>
      /\ AddRecord(k, del, sync) => writer'.entry = e /\ last' = last
      /\ ~AddRecord(k, del, sync) => writer' = None /\ last' = last + 1
  <2>1. CASE AddRecord(k, del, sync)
    BY <2>1 DEF AddRecord, Ready, memVars, versionVars
  <2>2. CASE ~AddRecord(k, del, sync)
    <3>1. AddRecordFails(k, del, sync) BY <2>2
    <3> QED BY <2>2, <3>1 DEF AddRecordFails, Ready, memVars, clientVars
  <2> QED BY <2>1, <2>2
<1>2. logfile \in DOMAIN logs BY <1>1 DEF LogsRight
<1>3. /\ e \in Entry /\ last + 1 \in Seqs /\ last \in Nat
      /\ DOMAIN logs' = DOMAIN logs
      /\ \A n \in DOMAIN logs : \A i \in 1..Len(logs'[n]) :
           \/ i \in 1..Len(logs[n]) /\ logs'[n][i] = logs[n][i]
           \/ n = logfile /\ logs'[n][i] = Record(e, FALSE)
      /\ \A n \in DOMAIN logs : n # logfile => RecordsOf(logs', n) = RecordsOf(logs, n)
      /\ RecordsOf(logs', logfile) \subseteq RecordsOf(logs, logfile) \cup {last + 1}
      /\ AddRecord(k, del, sync) => last + 1 \in RecordsOf(logs', logfile)
      /\ \A s \in Seqs : s # last + 1 => hist'[s] = hist[s]
      /\ hist'[last + 1] # None /\ EntryIn(hist', last + 1) = e
  BY <1>2, RecordsAdded
<1>4. \A n \in DOMAIN logs : \A i \in 1..Len(logs[n]) :
        logs[n][i].entry.seq \in Seqs /\ logs[n][i].entry.seq <= last
        /\ logs[n][i].entry.seq # last + 1
  <2> SUFFICES ASSUME NEW n \in DOMAIN logs, NEW i \in 1..Len(logs[n])
               PROVE  logs[n][i].entry.seq \in Seqs /\ logs[n][i].entry.seq <= last
                      /\ logs[n][i].entry.seq # last + 1
    OBVIOUS
  <2>1. logs[n][i].entry.seq \in Seqs /\ logs[n][i].entry.seq <= last
    BY <1>1, LogIs DEF LogsOK, LogsFollow
  <2> QED BY <1>3, <2>1 DEF Seqs
<1>5. \A n \in DOMAIN logs : \A s \in RecordsOf(logs, n) : s \in Nat /\ s < last + 1
  BY <1>3, <1>4 DEF RecordsOf, Seqs
<1>6. \A n \in DOMAIN logs' : \A i \in 1..Len(logs'[n]) :
        LET r == logs'[n][i]
        IN  /\ ~r.torn
            /\ n >= manifest'.log =>
                 hist'[r.entry.seq] # None /\ r.entry = EntryIn(hist', r.entry.seq)
  <2> SUFFICES ASSUME NEW n \in DOMAIN logs, NEW i \in 1..Len(logs'[n])
               PROVE  LET r == logs'[n][i]
                      IN  /\ ~r.torn
                          /\ n >= manifest.log =>
                               /\ hist'[r.entry.seq] # None
                               /\ r.entry = EntryIn(hist', r.entry.seq)
    BY <1>1, <1>3
  <2>1. CASE i \in 1..Len(logs[n]) /\ logs'[n][i] = logs[n][i]
    <3>1. hist'[logs[n][i].entry.seq] = hist[logs[n][i].entry.seq]
      BY <1>3, <1>4, <2>1
    <3> QED BY <2>1, <3>1 DEF LogsRight, EntryIn
  <2>2. CASE logs'[n][i] = Record(e, FALSE)
    <3>1. /\ logs'[n][i].entry = e /\ ~logs'[n][i].torn
          /\ logs'[n][i].entry.seq = last + 1
      BY <2>2 DEF Record
    <3> HIDE DEF e
    <3> QED BY <1>3, <3>1
  <2> QED BY <1>3, <2>1, <2>2
<1>7. \A m, n \in DOMAIN logs' : manifest'.log <= m /\ m < n =>
        \A s \in RecordsOf(logs', m), t \in RecordsOf(logs', n) : s < t
  <2> SUFFICES ASSUME NEW m \in DOMAIN logs, NEW n \in DOMAIN logs, manifest.log <= m, m < n,
                      NEW s \in RecordsOf(logs', m), NEW t \in RecordsOf(logs', n)
               PROVE  s < t
    BY <1>1, <1>3
  <2>1. m # logfile /\ n \in Nat /\ m \in Nat
    <3>1. n <= logfile /\ n \in Nat /\ m \in Nat /\ logfile \in Nat
      BY <1>1, <1>2 DEF LogsRight, LogsOK, FileNumber
    <3> QED BY <3>1
  <2>2. s \in RecordsOf(logs, m) BY <1>3, <2>1
  <2>3. t \in RecordsOf(logs, n) \/ t = last + 1 BY <1>3
  <2> QED BY <1>5, <2>2, <2>3 DEF LogsRight
<1>8. LogsRight' BY <1>1, <1>3, <1>6, <1>7 DEF LogsRight, Working
<1>9. HistRight'
  <2>1. \A s \in Seqs : hist'[s] # None => s <= last \/ s = last + 1
    BY <1>1, <1>3 DEF HistRight
  <2>2. \A s \in held : s <= last /\ s \in Nat
    BY Bounds DEF HistRight, ClientsOK
  <2>3. reader # None => reader.seq <= last /\ reader.seq \in Nat
    BY Bounds DEF HistRight, ClientsOK, AReader
  <2>4. CASE AddRecord(k, del, sync)
    <3>1. writer' # None
      <4>1. "entry" \in DOMAIN writer' BY <2>4 DEF AddRecord
      <4> QED BY <4>1 DEF None
    <3> HIDE DEF e
    <3> QED BY <1>1, <1>3, <2>1, <2>2, <2>3, <2>4, <3>1 DEF HistRight
  <2>5. CASE ~AddRecord(k, del, sync)
    <3>1. /\ \A s \in Seqs : hist'[s] # None => s <= last + 1
          /\ \A s \in held : s <= last + 1
          /\ reader # None => reader.seq <= last + 1
      BY <1>3, <2>1, <2>2, <2>3 DEF Seqs
    <3> HIDE DEF e
    <3> QED BY <1>1, <2>5, <3>1 DEF HistRight
  <2> QED BY <2>4, <2>5
<1> QED BY <1>8, <1>9

\* The write that runs ends.
LEMMA EndsIs ==
  ASSUME Base, LogsRight, HistRight, WriteDone \/ SyncFails
  PROVE  /\ phase = "up" /\ phase' = "up" /\ writer # None /\ writer' = None
         /\ UNCHANGED <<logs, tables, manifest, imm, logfile, logNumber, next, current, held,
                        reader, job, edit>>
         /\ last \in Nat /\ last + 1 \in Seqs /\ last' = last + 1
         /\ writer.entry = EntryIn(hist, last + 1)
         /\ last + 1 \in RecordsOf(logs, logfile) /\ logfile \in DOMAIN logs
         /\ \A s \in Seqs : s # last + 1 => hist'[s] = hist[s]
         /\ \A s \in Seqs : EntryIn(hist', s) = EntryIn(hist, s)
         /\ \A s \in Seqs : hist'[s] = None <=> hist[s] = None
         /\ WriteDone => IsDone(hist', last + 1) /\ mem' = mem \cup {writer.entry}
                         /\ bgError' = bgError
         /\ ~WriteDone => ~IsDone(hist', last + 1) /\ mem' = mem /\ bgError'
<1>1. /\ phase = "up" /\ phase' = "up" /\ writer # None /\ writer' = None
      /\ UNCHANGED <<logs, tables, manifest, imm, logfile, logNumber, next, current, held,
                     reader, job, edit>>
      /\ last' = writer.entry.seq
      /\ WriteDone => mem' = mem \cup {writer.entry} /\ bgError' = bgError
      /\ ~WriteDone => mem' = mem /\ bgError'
  BY DEF WriteDone, SyncFails, diskVars, memVars
<1>2. /\ writer.entry.seq = last + 1 /\ last \in Nat /\ last + 1 \in Seqs
      /\ hist[last + 1] \in AWrite
  BY <1>1, WriterIs, Bounds DEF LogsFollow, MemOK
<1>3. \E st \in {"done", "failed"} :
        /\ hist' = [hist EXCEPT ![last + 1].state = st]
        /\ WriteDone <=> st = "done"
  <2>1. CASE WriteDone
    <3>1. hist' = [hist EXCEPT ![last + 1].state = "done"]
      BY <1>1, <1>2, <2>1 DEF WriteDone
    <3> QED BY <2>1, <3>1
  <2>2. CASE ~WriteDone
    <3>1. hist' = [hist EXCEPT ![last + 1].state = "failed"]
      BY <1>1, <1>2, <2>2 DEF SyncFails
    <3> QED BY <2>2, <3>1
  <2> QED BY <2>1, <2>2
<1>4. PICK st \in {"done", "failed"} :
        /\ hist' = [hist EXCEPT ![last + 1].state = st]
        /\ WriteDone <=> st = "done"
  BY <1>3
<1>5. /\ \A t \in Seqs : t # last + 1 => hist'[t] = hist[t]
      /\ hist'[last + 1] = [hist[last + 1] EXCEPT !.state = st]
      /\ hist'[last + 1] \in AWrite /\ hist'[last + 1].state = st
  BY <1>2, <1>4, HistIs
<1>6. EntryIn(hist', last + 1) = EntryIn(hist, last + 1)
  BY <1>2, <1>5 DEF EntryIn, AWrite
<1>7. hist'[last + 1] # None /\ hist[last + 1] # None BY <1>2, <1>5, NoneIsNone
<1>8. WriteDone <=> IsDone(hist', last + 1) BY <1>4, <1>5, <1>7 DEF IsDone
<1>9. \A s \in Seqs : EntryIn(hist', s) = EntryIn(hist, s)
  BY <1>5, <1>6 DEF EntryIn
<1>10. /\ writer.entry = EntryIn(hist, last + 1)
       /\ last + 1 \in RecordsOf(logs, logfile) /\ logfile \in DOMAIN logs
  BY <1>1 DEF HistRight, LogsRight
<1> QED BY <1>1, <1>2, <1>5, <1>7, <1>8, <1>9, <1>10

LEMMA RightEnds ==
  ASSUME Base, LogsRight, HistRight, WriteDone \/ SyncFails
  PROVE  LogsRight' /\ HistRight'
<1>1. \A n \in DOMAIN logs : \A i \in 1..Len(logs[n]) : logs[n][i].entry.seq \in Seqs
  BY LogIs DEF LogsOK
<1>2. \A n \in DOMAIN logs : \A i \in 1..Len(logs[n]) :
        LET r == logs[n][i]
        IN  /\ ~r.torn
            /\ n >= manifest.log =>
                 hist'[r.entry.seq] # None /\ r.entry = EntryIn(hist', r.entry.seq)
  BY <1>1, EndsIs DEF LogsRight
<1>3. bgError' \/ bgError' = bgError BY EndsIs
<1>4. LogsRight' BY <1>2, <1>3, EndsIs DEF LogsRight, Working
<1>5. /\ \A s \in held : s <= last /\ s \in Nat
      /\ reader # None => reader.seq <= last /\ reader.seq \in Nat
  <2>1. held \subseteq Nat BY Bounds DEF ClientsOK
  <2>2. reader # None => reader.seq \in Nat BY Bounds DEF ClientsOK, AReader
  <2> QED BY <2>1, <2>2 DEF HistRight
<1>6. HistRight'
  <2>1. \A s \in Seqs : hist'[s] # None => s <= last + 1
    <3> SUFFICES ASSUME NEW s \in Seqs, hist'[s] # None PROVE s <= last + 1
      OBVIOUS
    <3>1. s <= last \/ s = last + 1 BY EndsIs DEF HistRight
    <3> QED BY <3>1, EndsIs DEF Seqs
  <2>2. /\ \A s \in held : s <= last + 1
        /\ reader # None => reader.seq <= last + 1
    BY <1>5, EndsIs
  <2> QED BY <2>1, <2>2, EndsIs DEF HistRight
<1> QED BY <1>4, <1>6

LEMMA EndIs ==
  ASSUME Base, LogsRight, HistRight, Ending
  PROVE  WritesLeft
<1>1. /\ phase # "down"
      /\ \/ manifest' = manifest
         \/ edit # None /\ phase # "replaying" /\ manifest' = Written
  BY CrashIs
<1>2. CASE phase # "up" /\ UNCHANGED <<manifest, logs, hist>>
  <2>1. /\ manifest.log \in Nat /\ \A n \in DOMAIN logs : n \in Nat
        /\ \A s \in Seqs : hist[s] # None => IsDone(hist, s)
    BY <1>2, Bounds DEF ManifestOK, LogsOK, FileNumber, HistRight, IsDone
  <2>2. \A s \in Recorded(logs, manifest.log) : s \in Seqs /\ hist[s] # None
    <3> SUFFICES ASSUME NEW s \in Recorded(logs, manifest.log)
                 PROVE  s \in Seqs /\ hist[s] # None
      OBVIOUS
    <3>1. PICK n \in DOMAIN logs : n >= manifest.log /\ s \in RecordsOf(logs, n)
      BY RecordedIs
    <3>2. PICK i \in 1..Len(logs[n]) : s = logs[n][i].entry.seq
      BY <3>1 DEF RecordsOf
    <3> QED BY <3>1, <3>2, LogIs DEF LogsOK, LogsRight
  <2> QED BY <1>2, <2>1, <2>2 DEF WritesLeft, IsDone
<1>3. SUFFICES ASSUME NEW power \in BOOLEAN, NEW keep \in Survivors(power),
                      LogsCut(power, keep)
               PROVE  WritesLeft
  BY <1>2, CrashIs
<1>4. /\ DOMAIN logs' = DOMAIN logs
      /\ \A n \in DOMAIN logs :
           /\ n \in Nat
           /\ keep[n] \in Nat /\ Len(logs[n]) \in Nat /\ keep[n] <= Len(logs[n])
           /\ SubSeq(logs[n], 1, keep[n]) = logs'[n] /\ logs'[n] \in Log
           /\ Len(logs'[n]) = keep[n]
           /\ \A i \in 1..keep[n] : logs'[n][i] = logs[n][i]
           /\ \A i \in 1..Len(logs[n]) : logs[n][i].entry.seq \in Seqs
  BY <1>3, KeepIs, LogIs DEF LogsOK, FileNumber
<1>5. \/ manifest' = manifest
      \/ /\ edit # None /\ edit \in AnEdit /\ phase # "replaying" /\ manifest' = Written
         /\ manifest'.log = edit.log
  BY <1>1 DEF PhaseOK, Written
<1>6. manifest.log \in Nat /\ manifest'.log \in Nat /\ manifest.log <= manifest'.log
  <2>1. manifest.log \in Nat /\ (edit \in AnEdit => edit.log \in Nat) /\ logfile \in Nat
    BY Bounds DEF ManifestOK, AnEdit, MemOK
  <2>2. edit # None /\ phase # "replaying" => manifest.log <= edit.log
    <3>1. CASE phase = "opening" BY <3>1 DEF LogsRight
    <3>2. CASE phase = "up" BY <2>1, <3>2 DEF LogsRight
    <3> QED BY <1>1, <3>1, <3>2 DEF PhaseOK
  <2> QED BY <1>5, <2>1, <2>2
<1> DEFINE lg == manifest'.log
           whole == [n \in DOMAIN logs |-> Len(logs[n])]
<1>7. \A s : s \in Logged(manifest', whole) <=> s \in Recorded(logs, lg)
  <2>1. \A s : s \in Logged(manifest', whole) <=>
          \E n \in DOMAIN logs : n >= lg /\ \E i \in 1..whole[n] : s = logs[n][i].entry.seq
    BY DEF Logged
  <2> QED BY <2>1, RecordedIs DEF RecordsOf
<1>8. \A n \in DOMAIN logs : \A s :
        s \in RecordsOf(logs', n) <=> \E i \in 1..keep[n] : s = logs[n][i].entry.seq
  BY <1>4 DEF RecordsOf
<1>9. \A s : s \in Logged(manifest', keep) <=> s \in Recorded(logs', lg)
  <2>1. \A s : s \in Logged(manifest', keep) <=>
          \E n \in DOMAIN logs : n >= lg /\ \E i \in 1..keep[n] : s = logs[n][i].entry.seq
    BY DEF Logged
  <2> QED BY <1>4, <1>8, <2>1, RecordedIs
<1>10. \A n \in DOMAIN logs : RecordsOf(logs', n) \subseteq RecordsOf(logs, n)
  <2>1. \A n \in DOMAIN logs : \A i \in 1..keep[n] : i \in 1..Len(logs[n])
    BY <1>4
  <2> QED BY <1>8, <2>1 DEF RecordsOf
<1>11. \A s : s \in Readables(manifest', keep) <=> s \in Recorded(logs', lg)
  <2>1. \A n \in DOMAIN logs : Readable(logs'[n]) = {logs'[n][i].entry : i \in 1..keep[n]}
    <3> SUFFICES ASSUME NEW n \in DOMAIN logs
                 PROVE  Readable(logs'[n]) = {logs'[n][i].entry : i \in 1..keep[n]}
      OBVIOUS
    <3>1. DOMAIN logs'[n] = 1..keep[n] BY <1>4, LogIs
    <3>2. {i \in DOMAIN logs'[n] : logs'[n][i].torn} = {}
      <4>1. \A i \in 1..keep[n] : ~logs'[n][i].torn BY <1>4 DEF LogsRight
      <4> QED BY <3>1, <4>1
    <3> QED BY <3>1, <3>2 DEF Readable
  <2>2. \A s : s \in Readables(manifest', keep) <=>
          \E n \in DOMAIN logs : n >= lg /\ \E e \in Readable(logs'[n]) : s = e.seq
    <3>1. \A s : s \in Readables(manifest', keep) <=>
            \E n \in DOMAIN logs : n >= lg
              /\ \E e \in Readable(SubSeq(logs[n], 1, keep[n])) : s = e.seq
      BY DEF Readables
    <3>2. \A n \in DOMAIN logs : SubSeq(logs[n], 1, keep[n]) = logs'[n] BY <1>4
    <3> HIDE DEF lg
    <3> QED BY <3>1, <3>2
  <2>3. \A n \in DOMAIN logs : \A s :
          s \in RecordsOf(logs', n) <=> \E e \in Readable(logs'[n]) : s = e.seq
    <3> SUFFICES ASSUME NEW n \in DOMAIN logs, NEW s
                 PROVE  s \in RecordsOf(logs', n) <=> \E e \in Readable(logs'[n]) : s = e.seq
      OBVIOUS
    <3>1. RecordsOf(logs', n) = {logs'[n][i].entry.seq : i \in 1..keep[n]}
      BY <1>4 DEF RecordsOf
    <3>2. Readable(logs'[n]) = {logs'[n][i].entry : i \in 1..keep[n]} BY <2>1
    <3> QED BY <3>1, <3>2
  <2> QED BY <1>4, <2>2, <2>3, RecordedIs
<1> DEFINE cut == Logged(manifest', whole) \ Logged(manifest', keep)
<1>12. ASSUME NEW s \in Seqs
       PROVE  hist'[s] =
                IF hist[s] = None \/ s \in cut THEN None
                ELSE IF hist[s].state # "done" /\ s \notin Readables(manifest', keep) THEN None
                ELSE [hist[s] EXCEPT !.state = "done",
                                     !.sync = @ /\ hist[s].state = "done"]
  BY <1>3 DEF After
<1> HIDE DEF whole
<1>13. ASSUME NEW s \in Seqs, hist'[s] # None
       PROVE  /\ hist[s] # None /\ EntryIn(hist', s) = EntryIn(hist, s) /\ IsDone(hist', s)
              /\ s \in Recorded(logs, lg) => s \in Recorded(logs', lg)
              /\ s \notin Recorded(logs, lg) => IsDone(hist, s)
  <2>1. /\ hist[s] # None /\ s \notin cut
        /\ hist[s].state = "done" \/ s \in Readables(manifest', keep)
        /\ hist'[s] = [hist[s] EXCEPT !.state = "done", !.sync = @ /\ hist[s].state = "done"]
    BY <1>12, <1>13
  <2>2. hist[s] \in AWrite BY <2>1 DEF ClientsOK
  <2>3. /\ hist'[s].key = hist[s].key /\ hist'[s].del = hist[s].del
        /\ hist'[s].state = "done"
    <3> DEFINE y == hist[s].sync /\ hist[s].state = "done"
    <3>1. hist'[s] = [hist[s] EXCEPT !.state = "done", !.sync = y] BY <2>1
    <3> HIDE DEF y
    <3> QED BY <2>2, <3>1 DEF AWrite
  <2>4. EntryIn(hist', s) = EntryIn(hist, s) /\ IsDone(hist', s)
    BY <1>13, <2>3 DEF EntryIn, IsDone
  <2>5. \A t : t \in Recorded(logs', lg) => t \in Recorded(logs, lg)
    BY <1>4, <1>10, RecordedIs
  <2> HIDE DEF lg
  <2> QED BY <1>7, <1>9, <1>11, <2>1, <2>4, <2>5 DEF IsDone
<1>14. ASSUME NEW s \in Seqs, hist[s] # None, s \notin cut,
              hist[s].state = "done" \/ s \in Readables(manifest', keep)
       PROVE  hist'[s] # None
  <2>1. hist'[s] = [hist[s] EXCEPT !.state = "done", !.sync = @ /\ hist[s].state = "done"]
    BY <1>12, <1>14
  <2>2. hist[s] \in AWrite BY <1>14 DEF ClientsOK
  <2>3. "key" \in DOMAIN hist'[s] BY <2>1, <2>2 DEF AWrite
  <2> QED BY <2>3 DEF None
<1>15. ASSUME NEW s \in Recorded(logs', lg) PROVE s \in Seqs /\ hist'[s] # None
  <2>1. PICK n \in DOMAIN logs : n >= lg /\ s \in RecordsOf(logs', n)
    BY <1>4, RecordedIs
  <2>2. PICK i \in 1..Len(logs[n]) : s = logs[n][i].entry.seq
    BY <1>10, <2>1 DEF RecordsOf
  <2>3. n >= manifest.log /\ s \in Seqs BY <1>4, <1>6, <2>1, <2>2
  <2>4. hist[s] # None BY <2>2, <2>3 DEF LogsRight
  <2>5. s \notin cut /\ s \in Readables(manifest', keep) BY <1>9, <1>11
  <2> HIDE DEF cut, lg
  <2> QED BY <1>14, <2>3, <2>4, <2>5
<1>16. ASSUME NEW s \in Seqs, IsDone(hist, s), s \notin Recorded(logs, lg)
       PROVE  hist'[s] # None
  <2>1. s \notin cut BY <1>7, <1>16
  <2> HIDE DEF cut
  <2> QED BY <1>14, <1>16, <2>1 DEF IsDone
<1>17. \A n \in DOMAIN logs : \A i \in 1..Len(logs'[n]) :
         i \in 1..Len(logs[n]) /\ logs'[n][i] = logs[n][i]
  BY <1>4
<1> QED BY <1>4, <1>5, <1>6, <1>10, <1>13, <1>15, <1>16, <1>17 DEF WritesLeft

USE DEF WritesLeft

LEMMA RightCrash ==
  ASSUME Base, LogsRight, HistRight, Ending
  PROVE  LogsRight' /\ HistRight'
<1>1. \A n \in Nat : n >= manifest'.log => n >= manifest.log BY EndIs
<1>2. ASSUME NEW n \in DOMAIN logs', NEW i \in 1..Len(logs'[n])
      PROVE  LET r == logs'[n][i]
             IN  /\ ~r.torn
                 /\ n >= manifest'.log =>
                      hist'[r.entry.seq] # None /\ r.entry = EntryIn(hist', r.entry.seq)
  <2> DEFINE r == logs'[n][i]
  <2>1. n \in DOMAIN logs /\ n \in Nat /\ i \in 1..Len(logs[n]) /\ r = logs[n][i]
    BY EndIs
  <2>2. ~r.torn BY <2>1 DEF LogsRight
  <2>3. ASSUME n >= manifest'.log
        PROVE  hist'[r.entry.seq] # None /\ r.entry = EntryIn(hist', r.entry.seq)
    <3>1. r.entry = EntryIn(hist, r.entry.seq)
      BY <1>1, <2>1, <2>3 DEF LogsRight
    <3>2. r.entry.seq \in Recorded(logs', manifest'.log)
      BY <2>3, RecordedIs DEF RecordsOf
    <3>3. r.entry.seq \in Seqs /\ hist'[r.entry.seq] # None BY <3>2, EndIs
    <3> QED BY <3>1, <3>3, EndIs
  <2> QED BY <2>2, <2>3
<1>3. \A m, n \in DOMAIN logs' : manifest'.log <= m /\ m < n =>
        \A s \in RecordsOf(logs', m), t \in RecordsOf(logs', n) : s < t
  <2>1. /\ DOMAIN logs' = DOMAIN logs /\ \A n \in DOMAIN logs : n \in Nat
        /\ \A n \in DOMAIN logs : RecordsOf(logs', n) \subseteq RecordsOf(logs, n)
    BY EndIs
  <2> QED BY <1>1, <2>1 DEF LogsRight
<1>4. LogsRight' BY <1>2, <1>3, CrashIs DEF LogsRight, Working
<1>5. HistRight' BY EndIs, CrashIs DEF HistRight, IsDone
<1> QED BY <1>4, <1>5

--------------------
LEMMA KnownAre ==
  ASSUME Base
  PROVE  /\ Known(manifest.files) /\ Known(current)
         /\ edit # None => Known(Apply(current, edit))
<1>1. /\ manifest.files \in Files /\ current \in Files
      /\ next \in Nat /\ manifest.next \in Nat
      /\ edit # None => edit \in AnEdit /\ phase # "down"
  BY DEF ManifestOK, MemOK, PhaseOK
<1>2. AllFiles(manifest.files) \in SUBSET FileNumber BY <1>1, FilesAre
<1>3. Known(manifest.files) BY <1>1, <1>2, BelowIs DEF Known, FilesKept, Fresh
<1>4. Known(current) BY <1>1 DEF Known, FilesKept, Fresh
<1>5. edit # None => Known(Apply(current, edit))
  <2> SUFFICES ASSUME edit # None PROVE Known(Apply(current, edit))
    OBVIOUS
  <2>1. /\ Apply(current, edit) \in Files
        /\ AllFiles(Apply(current, edit)) \subseteq AllFiles(current) \cup AllFiles(edit.add)
    BY <1>1, ApplyIs, FilesOf
  <2>2. /\ InTables(current) /\ InTables(edit.add)
        /\ Below(AllFiles(current), next) /\ Below(AllFiles(edit.add), next)
    BY <1>1 DEF FilesKept, Fresh
  <2> QED BY <2>1, <2>2 DEF Known, InTables, Below
<1> QED BY <1>3, <1>4, <1>5

LEMMA KnownStay ==
  ASSUME Base, Next \/ UNCHANGED vars, NEW fs, Known(fs),
         AllFiles(fs) \subseteq DOMAIN tables'
  PROVE  \A n \in AllFiles(fs) : tables'[n] = tables[n]
<1>1. /\ AllFiles(fs) \subseteq DOMAIN tables /\ next \in Nat
      /\ \A n \in AllFiles(fs) : n \in Nat
      /\ phase # "down" => \A n \in AllFiles(fs) : n < next
  BY FilesAre DEF Known, InTables, Below, MemOK, FileNumber
<1>2. CASE ClientStep BY <1>2, ClientSame
<1>3. CASE Recover \/ NewLog BY <1>3 DEF Recover, NewLog, diskVars
<1>4. CASE RecoverLogFile
  <2>1. \A n \in DOMAIN tables : n # next => tables'[n] = tables[n]
    BY <1>4, TablesForIs DEF RecoverLogFile
  <2>2. \A m \in AllFiles(fs) : m # next BY <1>1, <1>4 DEF RecoverLogFile
  <2> QED BY <1>1, <2>1, <2>2
<1>5. CASE OpenDone
  <2>1. DeleteObsoleteFiles(AllFiles(current'), edit.log) BY <1>5 DEF OpenDone
  <2> QED BY <2>1, SweepKeeps
<1>6. CASE WriteLevel0Table
  <2>1. phase = "up" /\ tables' = With(tables, next, imm)
    BY <1>6 DEF WriteLevel0Table
  <2>2. \A n \in AllFiles(fs) : n # next BY <1>1, <2>1
  <2> QED BY <1>1, <2>1, <2>2 DEF With
<1>7. CASE StartCompaction \/ TrivialMove \/ InstallCompactionResults
  BY <1>7 DEF StartCompaction, TrivialMove, InstallCompactionResults, diskVars
<1>8. CASE WriteOutputs
  <2>1. phase = "up" /\ \E made \in SUBSET FileNumber :
          /\ \A n \in made : n >= next
          /\ \A n \in DOMAIN tables \ made : tables'[n] = tables[n]
    BY <1>8, OutputsAre
  <2>2. PICK made \in SUBSET FileNumber :
          /\ \A n \in made : n >= next
          /\ \A n \in DOMAIN tables \ made : tables'[n] = tables[n]
    BY <2>1
  <2>3. \A n \in AllFiles(fs) : n \notin made BY <1>1, <2>1, <2>2
  <2> QED BY <1>1, <2>2, <2>3
<1>9. CASE TableFails \/ LogAndApply \/ LogAndApplyFails
  <2>1. \/ UNCHANGED tables
        \/ \E live, log : DeleteObsoleteFiles(live, log)
    <3>1. CASE TableFails BY <3>1 DEF TableFails
    <3>2. CASE LogAndApply
      <4>1. \/ UNCHANGED tables
            \/ DeleteObsoleteFiles(Live(current', job'), edit.log)
        BY <3>2 DEF LogAndApply
      <4> QED BY <4>1
    <3>3. CASE LogAndApplyFails
      <4>1. \/ UNCHANGED tables
            \/ DeleteObsoleteFiles(Live(current, job'), logNumber)
        BY <3>3 DEF LogAndApplyFails
      <4> QED BY <4>1
    <3> QED BY <1>9, <3>1, <3>2, <3>3
  <2> QED BY <1>1, <2>1, SweepKeeps
<1>10. CASE Ending BY <1>10, CrashIs
<1> QED BY <1>2, <1>3, <1>4, <1>5, <1>6, <1>7, <1>8, <1>9, <1>10 DEF Next, ClientStep

\* What a version holds depends on its tables only.
LEMMA StoredSame ==
  ASSUME NEW t, NEW u, NEW fs, \A n \in AllFiles(fs) : u[n] = t[n]
  PROVE  /\ Stored(u, fs) = Stored(t, fs)
         /\ Layered(t, fs) => Layered(u, fs)
         /\ fs \in Files /\ DisjointIn(t, fs) => DisjointIn(u, fs)
<1>1. \A l \in Level : \A n \in fs[l] : u[n] = t[n] BY DEF AllFiles
<1>2. Stored(u, fs) = Stored(t, fs) BY DEF Stored
<1>3. Layered(t, fs) => Layered(u, fs) BY <1>1, Bounds DEF Layered
<1>4. fs \in Files /\ DisjointIn(t, fs) => DisjointIn(u, fs) BY DisjointLess
<1> QED BY <1>2, <1>3, <1>4

--------------------
\* The tables go on holding what the logs do not.
LEMMA CoversStay ==
  ASSUME NEW t, NEW u, NEW fs, NEW gs, NEW h, NEW g, NEW ls, NEW ks, NEW log, NEW lag,
         NEW bound, Covers(t, fs, h, ls, log, bound),
         Stored(u, gs) = Stored(t, fs), Flushed(g, ks, lag) = Flushed(h, ls, log),
         \A s \in Recorded(ks, lag) :
           s \in Recorded(ls, log) \/ \A e \in Flushed(h, ls, log) : e.seq < s
  PROVE  Covers(u, gs, g, ks, lag, bound)
BY DEF Covers

LEMMA DiskSame ==
  ASSUME Base, FilesKept', Next \/ UNCHANGED vars, DiskRight,
         UNCHANGED <<manifest, current, edit, phase>>, phase = "replaying" => last' = last,
         \A log \in {manifest.log} \cup (IF edit = None THEN {} ELSE {edit.log}) :
           /\ Flushed(hist', logs', log) = Flushed(hist, logs, log)
           /\ \A s \in Recorded(logs', log) :
                s \in Recorded(logs, log) \/ \A e \in Flushed(hist, logs, log) : e.seq < s
  PROVE  DiskRight'
<1>1. /\ InTables(manifest.files)' /\ InTables(current)'
      /\ edit # None => InTables(Apply(current, edit))'
  <2>1. edit # None => edit \in AnEdit /\ current \in Files
    BY DEF PhaseOK, MemOK
  <2>2. edit # None => AllFiles(Apply(current, edit)) \subseteq AllFiles(current) \cup AllFiles(edit.add)
    BY <2>1, FilesOf
  <2>3. InTables(manifest.files)' /\ InTables(current)' /\ (edit # None => InTables(edit.add)')
    BY <2>1 DEF FilesKept
  <2> QED BY <2>2, <2>3 DEF InTables
<1>2. /\ Stored(tables', manifest.files) = Stored(tables, manifest.files)
      /\ edit # None => Stored(tables', Apply(current, edit)) = Stored(tables, Apply(current, edit))
  BY <1>1, KnownAre, KnownStay, StoredSame DEF InTables
<1>3. Covers(tables', manifest.files, hist', logs', manifest.log, manifest.last)
  BY <1>2, CoversStay DEF DiskRight
<1>4. ASSUME edit # None
      PROVE  Covers(tables', Apply(current, edit), hist', logs', edit.log, EditLast)
  BY <1>2, <1>4, CoversStay DEF DiskRight
<1> QED BY <1>3, <1>4 DEF DiskRight, EditLast

\* A log that the manifest does not have becomes a table of the edit.
LEMMA ReplayIs ==
  ASSUME AllReplayed, Base, LogsRight, RecoverLogFile,
         \A l \in Level \ {0} : edit.add[l] = {}
  PROVE  /\ phase = "replaying" /\ phase' = "replaying"
         /\ UNCHANGED <<logs, manifest, current, hist>>
         /\ edit \in AnEdit /\ edit' \in AnEdit /\ edit' # None
         /\ \E n \in DOMAIN logs, made \in SUBSET FileNumber : Replayed(n, made)
<1>1. PICK n \in DOMAIN logs :
        LET E == Readable(logs[n])
            made == TableFor(E)
        IN  /\ edit.log <= n
            /\ \A m \in DOMAIN logs : edit.log <= m => n <= m
            /\ made \subseteq FileNumber
            /\ tables' = [m \in DOMAIN tables \cup made |->
                            IF m \in made THEN E ELSE tables[m]]
            /\ last' = Largest({last} \cup {e.seq : e \in E})
            /\ edit' = [edit EXCEPT !.add = At(0, @[0] \cup made),
                                    !.log = n + 1]
  <2>1. PICK n \in DOMAIN logs : \E made \in TablesFor(n) :
          LET E == Readable(logs[n])
          IN  /\ edit.log <= n
              /\ \A m \in DOMAIN logs : edit.log <= m => n <= m
              /\ made \subseteq FileNumber
              /\ tables' = [m \in DOMAIN tables \cup made |->
                              IF m \in made THEN E ELSE tables[m]]
              /\ last' = Largest({last} \cup {e.seq : e \in E})
              /\ edit' = [edit EXCEPT !.add = At(0, @[0] \cup made),
                                      !.log = n + 1]
    BY DEF RecoverLogFile
  <2>2. PICK made \in TablesFor(n) :
          LET E == Readable(logs[n])
          IN  /\ edit.log <= n
              /\ \A m \in DOMAIN logs : edit.log <= m => n <= m
              /\ made \subseteq FileNumber
              /\ tables' = [m \in DOMAIN tables \cup made |->
                              IF m \in made THEN E ELSE tables[m]]
              /\ last' = Largest({last} \cup {e.seq : e \in E})
              /\ edit' = [edit EXCEPT !.add = At(0, @[0] \cup made),
                                      !.log = n + 1]
    BY <2>1
  <2>3. made = TableFor(Readable(logs[n])) BY TablesForIs DEF AllReplayed
  <2> QED BY <2>2, <2>3
<1>2. /\ phase = "replaying" /\ phase' = "replaying"
      /\ UNCHANGED <<logs, manifest, current, hist>>
  BY DEF RecoverLogFile, observers
<1>3. Types' BY RecoverLogFileTypes
<1>4. edit \in AnEdit /\ edit' \in AnEdit /\ edit' # None /\ current \in Files
  BY <1>2, <1>3, NoneIsNone DEF PhaseOK, MemOK
<1>5. n \in Nat /\ edit.log \in Nat /\ manifest.log <= n /\ logs[n] \in Log
  <2>1. n \in Nat /\ edit.log \in Nat /\ manifest.log \in Nat /\ logs[n] \in Log
    BY <1>4, Bounds DEF LogsOK, FileNumber, AnEdit, ManifestOK
  <2> QED BY <1>1, <1>2, <2>1 DEF LogsRight
<1> DEFINE E == Readable(logs[n])
           made == TableFor(E)
<1>6. \A s \in RecordsOf(logs, n) : s \in Seqs /\ hist[s] # None
  BY <1>5, LogIs DEF RecordsOf, LogsRight
<1>7. E = {EntryIn(hist, s) : s \in RecordsOf(logs, n)}
  <2>1. DOMAIN logs[n] = 1..Len(logs[n]) BY <1>5, LogIs
  <2>2. {i \in DOMAIN logs[n] : logs[n][i].torn} = {} BY <2>1 DEF LogsRight
  <2>3. E = {logs[n][i].entry : i \in 1..Len(logs[n])}
    BY <2>1, <2>2 DEF Readable
  <2>4. \A i \in 1..Len(logs[n]) : logs[n][i].entry = EntryIn(hist, logs[n][i].entry.seq)
    BY <1>5 DEF LogsRight
  <2>5. \A e : e \in E <=> \E i \in 1..Len(logs[n]) : e = EntryIn(hist, logs[n][i].entry.seq)
    BY <2>3, <2>4
  <2>6. \A e : e \in {EntryIn(hist, s) : s \in RecordsOf(logs, n)}
          <=> \E i \in 1..Len(logs[n]) : e = EntryIn(hist, logs[n][i].entry.seq)
    BY DEF RecordsOf
  <2> HIDE DEF E
  <2> QED BY <2>5, <2>6
<1>8. \A s \in RecordsOf(logs, n) : \E e \in E : e.seq = s
  <2>1. \A s : EntryIn(hist, s).seq = s BY DEF EntryIn
  <2> HIDE DEF E
  <2> QED BY <1>7, <2>1
<1>9. last \in Nat /\ last' \in Nat /\ last <= last' /\ \A s \in RecordsOf(logs, n) : s <= last'
  <2> DEFINE S == {last} \cup {e.seq : e \in E}
  <2>1. \A s \in S : s \in 0..MaxSeq
    <3>1. \A e \in E : e.seq \in 0..MaxSeq
      BY <1>5, ReadableIs, Bounds DEF Entry, Seqs
    <3> HIDE DEF E
    <3> QED BY <3>1, Bounds DEF MemOK
  <2>2. last' = Largest(S) BY <1>1
  <2>3. \A s \in RecordsOf(logs, n) : s \in S BY <1>8
  <2>4. last \in S OBVIOUS
  <2> HIDE DEF S
  <2>5. last' \in S /\ \A s \in S : s <= last'
    BY <2>1, <2>2, <2>4, Bounds, LargestExists
  <2> QED BY <2>1, <2>3, <2>4, <2>5, Bounds
<1>10. /\ made \subseteq {next} /\ (made = {} => E = {}) /\ made \in SUBSET FileNumber
       /\ \A m \in DOMAIN tables \ made : tables'[m] = tables[m]
       /\ \A m \in made : tables'[m] = E
  BY <1>1 DEF TableFor
<1> HIDE DEF made, E
<1>11. /\ edit'.log = n + 1 /\ edit'.last = edit.last /\ edit'.del = edit.del
       /\ edit'.add = At(0, edit.add[0] \cup made)
  BY <1>1, <1>4 DEF AnEdit, made, E
<1>12. \A l \in Level : edit'.add[l] = IF l = 0 THEN edit.add[0] \cup made ELSE {}
  <2>1. edit.add[0] \cup made \in SUBSET FileNumber /\ 0 \in Level
    BY <1>4, <1>10, Bounds DEF AnEdit, Files
  <2> QED BY <1>11, <2>1, AtIs
<1>13. /\ \A l \in Level \ {0} : Apply(current, edit')[l] = Apply(current, edit)[l]
       /\ Apply(current, edit')[0] = Apply(current, edit)[0] \cup made
  <2>1. \A l \in Level : /\ Apply(current, edit')[l] = (current[l] \ edit'.del[l]) \cup edit'.add[l]
                         /\ Apply(current, edit)[l] = (current[l] \ edit.del[l]) \cup edit.add[l]
    BY <1>4, ApplyIs
  <2> QED BY <1>11, <1>12, <2>1, Bounds
<1>14. \A l \in Level \ {0} : edit'.add[l] = {} BY <1>12
<1> DEFINE D == {EntryIn(hist, s) : s \in RecordsOf(logs, n)}
<1>15. /\ made = {} => D = {}
       /\ \A m \in made : tables'[m] = D
  BY <1>7, <1>10
<1>16. edit.log <= n /\ \A m \in DOMAIN logs : edit.log <= m => n <= m BY <1>1
<1> HIDE DEF D
<1>17. Replayed(n, made)
  BY <1>5, <1>6, <1>9, <1>10, <1>11, <1>13, <1>14, <1>15, <1>16 DEF Replayed, D
<1> QED BY <1>2, <1>4, <1>10, <1>17

\* Files that are added.
LEMMA StoredMore ==
  ASSUME NEW t, NEW u, NEW fs, NEW gs, NEW ns, NEW E,
         AllFiles(gs) = AllFiles(fs) \cup ns,
         \A n \in AllFiles(fs) : u[n] = t[n], \A n \in ns : u[n] = E, (ns = {} => E = {})
  PROVE  Stored(u, gs) = Stored(t, fs) \cup E
<1>1. \A n : n \in AllFiles(gs) <=> n \in AllFiles(fs) \/ n \in ns OBVIOUS
<1>2. \A e : e \in Stored(u, gs) <=> \E n \in AllFiles(gs) : e \in u[n]
  BY StoredIs
<1>3. \A e : e \in Stored(t, fs) <=> \E n \in AllFiles(fs) : e \in t[n]
  BY StoredIs
<1>4. \A e : e \in Stored(u, gs) <=> e \in Stored(t, fs) \cup E
  BY <1>1, <1>2, <1>3
<1> QED BY <1>4

\* Logs of one number on, and the others.
LEMMA RecordedLater ==
  ASSUME \A n \in DOMAIN logs : n \in Nat, NEW a \in Nat, NEW b \in Nat, a <= b
  PROVE  /\ Recorded(logs, b) \subseteq Recorded(logs, a)
         /\ \A s \in Recorded(logs, a) : s \in Recorded(logs, b) \/
              \E n \in DOMAIN logs : a <= n /\ n < b /\ s \in RecordsOf(logs, n)
<1>1. \A n \in DOMAIN logs : n >= b => n >= a OBVIOUS
<1>2. \A n \in DOMAIN logs : n >= a => n >= b \/ n < b OBVIOUS
<1> QED BY <1>1, <1>2, RecordedIs

\* The same for the versions that somebody knows of.
LEMMA KnownSame ==
  ASSUME Base, Next \/ UNCHANGED vars, NEW fs, Known(fs),
         AllFiles(fs) \subseteq DOMAIN tables'
  PROVE  /\ Stored(tables', fs) = Stored(tables, fs)
         /\ Layered(tables, fs) => Layered(tables', fs)
         /\ \A n \in AllFiles(fs) : tables'[n] = tables[n]
BY KnownStay, StoredSame

LEMMA SameFiles ==
  ASSUME NEW fs \in Files, NEW gs \in Files, \A l \in Level : fs[l] = gs[l]
  PROVE  fs = gs
<1>1. fs = [l \in Level |-> fs[l]] /\ gs = [l \in Level |-> gs[l]] BY DEF Files
<1>2. [l \in Level |-> fs[l]] = [l \in Level |-> gs[l]] OBVIOUS
<1> HIDE DEF Level
<1> QED BY <1>1, <1>2

LEMMA DiskInit == Init => DiskRight
<1> SUFFICES ASSUME Init PROVE DiskRight
  OBVIOUS
<1>1. Writes(hist) = {} BY DEF Init, Writes, IsDone
<1>2. Stored(tables, manifest.files) = {} BY FilesOf DEF Init, Stored
<1>3. Covers(tables, manifest.files, hist, logs, manifest.log, manifest.last)
  BY <1>1, <1>2 DEF Covers, Complete, Flushed
<1> QED BY <1>3 DEF DiskRight, Init

LEMMA DiskQuiet ==
  ASSUME Base, Base', LogsRight, DiskRight, QuietStep
  PROVE  DiskRight'
<1>1. Next \/ UNCHANGED vars BY DEF QuietStep, Next
<1>2. UNCHANGED <<manifest, current, edit, last, phase, hist, logs>> BY QuietIs
<1> QED BY <1>1, <1>2, DiskSame

\* The store opens: the version is the one of the manifest.
LEMMA RecoverIs ==
  ASSUME Base, Base', Recover
  PROVE  /\ UNCHANGED <<tables, logs, manifest, hist>> /\ phase' = "replaying"
         /\ last' = manifest.last /\ current' = manifest.files
         /\ edit'.log = manifest.log /\ \A l \in Level : edit'.add[l] = {}
         /\ Apply(current', edit') = manifest.files
<1>1. /\ UNCHANGED <<tables, logs, manifest, hist>> /\ phase' = "replaying"
      /\ last' = manifest.last /\ current' = manifest.files
      /\ edit'.add = NoFiles /\ edit'.del = NoFiles /\ edit'.log = manifest.log
  BY DEF Recover, diskVars, observers
<1>2. edit' \in AnEdit /\ manifest.files \in Files /\ current' \in Files
  BY <1>1 DEF PhaseOK, ManifestOK
<1>3. Apply(current', edit') = manifest.files
  <2>1. \A l \in Level : NoFiles[l] = {} BY DEF NoFiles
  <2>2. \A l \in Level : Apply(current', edit')[l] = manifest.files[l]
    <3>1. \A l \in Level :
            Apply(current', edit')[l] = (current'[l] \ edit'.del[l]) \cup edit'.add[l]
      BY <1>2, ApplyIs
    <3> QED BY <1>1, <2>1, <3>1
  <2>3. Apply(current', edit') \in Files BY <1>2, ApplyIs
  <2> DEFINE fs == Apply(current', edit')
             gs == manifest.files
  <2>4. fs \in Files /\ gs \in Files /\ \A l \in Level : fs[l] = gs[l]
    BY <1>2, <2>2, <2>3
  <2> HIDE DEF fs, gs
  <2>5. fs = gs BY <2>4, SameFiles
  <2> QED BY <2>5 DEF fs, gs
<1>4. \A l \in Level : edit'.add[l] = {} BY <1>1 DEF NoFiles
<1> QED BY <1>1, <1>3, <1>4

LEMMA DiskRecover ==
  ASSUME Base, Base', LogsRight, DiskRight, Recover
  PROVE  DiskRight'
BY RecoverIs DEF DiskRight, EditLast

\* A log becomes a table: what it has records of is in tables now.
LEMMA DiskReplay ==
  ASSUME AllReplayed, Base, Base', LogsRight, HistRight, DiskRight, RecoverLogFile
  PROVE  DiskRight'
<1>1. \A l \in Level \ {0} : edit.add[l] = {} BY DEF DiskRight, RecoverLogFile
<1>2. /\ phase = "replaying" /\ phase' = "replaying"
      /\ UNCHANGED <<logs, manifest, current, hist>>
      /\ edit \in AnEdit /\ edit' \in AnEdit /\ edit' # None /\ edit # None
  BY <1>1, ReplayIs, OpeningIs DEF RecoverLogFile
<1> DEFINE E(n) == {EntryIn(hist, s) : s \in RecordsOf(logs, n)}
           fs == Apply(current, edit)
           gs == Apply(current, edit')
<1>3. PICK n \in DOMAIN logs, made \in SUBSET FileNumber : Replayed(n, made)
  BY <1>1, ReplayIs
<1>4. /\ edit.log <= n /\ n \in Nat /\ edit.log \in Nat
      /\ \A m \in DOMAIN logs : edit.log <= m => n <= m
      /\ edit'.log = n + 1 /\ edit'.last = edit.last
      /\ made \subseteq {next} /\ (made = {} => E(n) = {})
      /\ \A m \in DOMAIN tables \ made : tables'[m] = tables[m]
      /\ \A m \in made : tables'[m] = E(n)
      /\ last \in Nat /\ last' \in Nat /\ last <= last'
      /\ \A s \in RecordsOf(logs, n) : s \in Seqs /\ s <= last' /\ hist[s] # None
      /\ \A l \in Level \ {0} : edit'.add[l] = {} /\ gs[l] = fs[l]
      /\ gs[0] = fs[0] \cup made
  BY <1>3 DEF Replayed
<1> DEFINE D == E(n)
<1>5. Stored(tables', gs) = Stored(tables, fs) \cup D
  <2>1. \A m \in AllFiles(fs) : tables'[m] = tables[m]
    <3>1. Known(fs) /\ next \in Nat /\ \A m \in AllFiles(fs) : m \in Nat
      <4>1. Known(fs) BY <1>2, KnownAre
      <4> QED BY <4>1, FilesAre DEF Known, MemOK, FileNumber
    <3>2. \A m \in AllFiles(fs) : m \in DOMAIN tables /\ m < next
      BY <1>2, <3>1 DEF Known, InTables, Below
    <3>3. \A m \in AllFiles(fs) : m \notin made BY <1>4, <3>1, <3>2
    <3> QED BY <1>4, <3>2, <3>3
  <2>2. \A j \in Level : gs[j] = IF j = 0 THEN fs[j] \cup made ELSE fs[j]
    BY <1>4
  <2>3. (\A m \in made : tables'[m] = D) /\ (made = {} => D = {}) BY <1>4
  <2> HIDE DEF fs, gs, D, E
  <2>4. AllFiles(gs) = AllFiles(fs) \cup made
    <3>1. \A m : m \in AllFiles(gs) <=> m \in AllFiles(fs) \/ m \in made
      BY <2>2, Bounds DEF AllFiles
    <3> QED BY <3>1
  <2>5. \A e : e \in Stored(tables', gs) <=> \E m \in AllFiles(gs) : e \in tables'[m]
    BY StoredIs
  <2>6. \A e : e \in Stored(tables, fs) <=> \E m \in AllFiles(fs) : e \in tables[m]
    BY StoredIs
  <2>7. \A e : e \in Stored(tables', gs) <=> e \in Stored(tables, fs) \cup D
    BY <2>1, <2>3, <2>4, <2>5, <2>6
  <2> QED BY <2>7
<1>6. \A s \in Recorded(logs, edit.log) :
        s \in Recorded(logs, n + 1) \/ s \in RecordsOf(logs, n)
  <2>1. \A m \in DOMAIN logs : m \in Nat BY DEF LogsOK, FileNumber
  <2>2. \A m \in DOMAIN logs : edit.log <= m /\ m < n + 1 => m = n
    BY <1>4, <2>1
  <2> QED BY <1>4, <2>1, <2>2, RecordedLater
<1>7. /\ RecordsOf(logs, n) \subseteq Recorded(logs, edit.log)
      /\ Recorded(logs, n + 1) \subseteq Recorded(logs, edit.log)
      /\ \A s \in RecordsOf(logs, n), t \in Recorded(logs, n + 1) : s < t
  <2>1. \A m \in DOMAIN logs : m \in Nat BY DEF LogsOK, FileNumber
  <2>2. manifest.log <= n BY <1>2, <1>4, OpeningIs DEF LogsRight
  <2>3. \A m \in DOMAIN logs : n + 1 <= m => n < m BY <1>4, <2>1
  <2>4. \A s \in RecordsOf(logs, n), t \in Recorded(logs, n + 1) : s < t
    BY <2>2, <2>3, RecordedIs DEF LogsRight
  <2>5. RecordsOf(logs, n) \subseteq Recorded(logs, edit.log)
    BY <1>4, RecordedIs
  <2> QED BY <1>4, <2>1, <2>4, <2>5, RecordedLater
<1>8. /\ \A e \in Writes(hist) : e.seq \in Nat /\ e = EntryIn(hist, e.seq)
      /\ D \subseteq Writes(hist) /\ \A e \in D : e.seq \in RecordsOf(logs, n)
  <2>1. \A s \in Seqs : EntryIn(hist, s).seq = s /\ (IsDone(hist, s) => EntryIn(hist, s) \in Writes(hist))
    BY WritesAre DEF ClientsOK
  <2>2. \A s \in RecordsOf(logs, n) : s \in Seqs /\ IsDone(hist, s)
    BY <1>2, <1>4 DEF HistRight, IsDone
  <2>3. \A e \in Writes(hist) : e.seq \in Nat /\ e = EntryIn(hist, e.seq)
    BY WritesAre DEF ClientsOK
  <2> QED BY <2>1, <2>2, <2>3
<1>9. Flushed(hist, logs, n + 1) = Flushed(hist, logs, edit.log) \cup D
  <2>1. ASSUME NEW e \in Flushed(hist, logs, n + 1)
        PROVE  e \in Flushed(hist, logs, edit.log) \cup D
    BY <1>6, <1>8 DEF Flushed
  <2>2. \A e \in Flushed(hist, logs, edit.log) : e \in Flushed(hist, logs, n + 1)
    BY <1>7 DEF Flushed
  <2>3. ASSUME NEW e \in D PROVE e \in Flushed(hist, logs, n + 1)
    <3>1. e \in Writes(hist) /\ e.seq \in Nat /\ e.seq \in RecordsOf(logs, n)
      BY <1>8
    <3>2. ~(e.seq < e.seq) BY <3>1
    <3> HIDE DEF D
    <3> QED BY <1>7, <3>1, <3>2 DEF Flushed
  <2> QED BY <2>1, <2>2, <2>3
<1>10. Covers(tables, fs, hist, logs, edit.log, last)
  BY <1>2 DEF DiskRight, EditLast
<1> HIDE DEF fs, gs, D
<1>11. Complete(Stored(tables', gs), Flushed(hist, logs, n + 1), MaxSeq)
  <2>1. \A w \in Flushed(hist, logs, edit.log), e \in D : w.seq < e.seq
    BY <1>7, <1>8, <1>10 DEF Covers
  <2>2. Complete(Stored(tables, fs), Flushed(hist, logs, edit.log), MaxSeq)
    BY <1>10 DEF Covers
  <2>3. Complete(Stored(tables, fs) \cup D, Flushed(hist, logs, edit.log) \cup D, MaxSeq)
    BY <2>1, <2>2, CompleteWith
  <2> QED BY <1>5, <1>9, <2>3
<1>12. \A e \in Flushed(hist, logs, n + 1) :
         e.seq <= last' /\ \A s \in Recorded(logs, n + 1) : e.seq < s
  <2>1. ASSUME NEW e \in D
        PROVE  e.seq <= last' /\ \A s \in Recorded(logs, n + 1) : e.seq < s
    BY <1>4, <1>7, <1>8
  <2>2. ASSUME NEW e \in Flushed(hist, logs, edit.log)
        PROVE  e.seq <= last' /\ \A s \in Recorded(logs, n + 1) : e.seq < s
    <3>1. e.seq \in Nat /\ e.seq <= last /\ \A s \in Recorded(logs, edit.log) : e.seq < s
      BY <1>8, <1>10 DEF Covers, Flushed
    <3>2. e.seq <= last' BY <1>4, <3>1
    <3> QED BY <1>7, <3>1, <3>2
  <2> QED BY <1>9, <2>1, <2>2
<1>13. Covers(tables', gs, hist, logs, n + 1, last') BY <1>11, <1>12 DEF Covers
<1>14. Covers(tables', manifest.files, hist, logs, manifest.log, manifest.last)
  <2>1. AllFiles(manifest.files) \subseteq DOMAIN tables'
    BY <1>2 DEF FilesKept, InTables
  <2>2. Stored(tables', manifest.files) = Stored(tables, manifest.files)
    BY <2>1, KnownAre, KnownSame DEF Next
  <2> QED BY <2>2 DEF DiskRight, Covers
<1>15. Covers(tables', Apply(current', edit'), hist', logs', edit'.log, last')
  BY <1>2, <1>4, <1>13 DEF gs
<1> QED BY <1>2, <1>4, <1>14, <1>15 DEF DiskRight, EditLast

\* The log that the store goes on with.
LEMMA DiskNewLog ==
  ASSUME Base, Base', LogsRight, DiskRight, NewLog
  PROVE  DiskRight'
<1>1. /\ phase = "replaying" /\ phase' = "opening" /\ \A n \in DOMAIN logs : n < edit.log
      /\ logs' = With(logs, next, <<>>) /\ synced' = With(synced, next, 0)
      /\ edit' = [edit EXCEPT !.log = next, !.next = next + 1, !.last = last]
      /\ UNCHANGED <<tables, manifest, current, hist>>
  BY DEF NewLog, observers
<1>2. /\ edit \in AnEdit /\ edit # None /\ edit' \in AnEdit /\ edit' # None
      /\ edit'.log = next /\ edit'.last = last /\ edit'.add = edit.add /\ edit'.del = edit.del
      /\ edit.log \in Nat /\ next \in Nat /\ edit.log <= next
      /\ \A n \in DOMAIN logs : n \in Nat
  <2>1. edit \in AnEdit /\ edit.log <= next /\ edit' \in AnEdit
    BY <1>1, OpeningIs DEF LogsGrow, PhaseOK
  <2> QED BY <1>1, <2>1, OpeningIs, NoneIsNone DEF AnEdit
<1>3. \A log : Recorded(logs', log) = Recorded(logs, log)
  <2>1. next \notin DOMAIN logs
    <3>1. \A n \in DOMAIN logs : n < next BY <1>1, <1>2
    <3>2. ~(next < next) BY <1>2
    <3> QED BY <3>1, <3>2
  <2> QED BY <1>1, <2>1, RecordsWith
<1>4. Recorded(logs, edit.log) = {} /\ Recorded(logs, next) = {}
  <2>1. \A n \in DOMAIN logs : ~(n >= edit.log) /\ ~(n >= next) BY <1>1, <1>2
  <2> QED BY <2>1, RecordedIs
<1>5. /\ Flushed(hist', logs', manifest.log) = Flushed(hist, logs, manifest.log)
      /\ Flushed(hist', logs', next) = Flushed(hist, logs, edit.log)
  BY <1>1, <1>3, <1>4 DEF Flushed
<1>6. Covers(tables', manifest'.files, hist', logs', manifest'.log, manifest'.last)
  BY <1>1, <1>3, <1>5, CoversStay DEF DiskRight
<1>7. Covers(tables', Apply(current', edit'), hist', logs', edit'.log, edit'.last)
  <2>1. Apply(current', edit') = Apply(current, edit) BY <1>1, <1>2 DEF Apply
  <2>2. Covers(tables, Apply(current, edit), hist, logs, edit.log, last)
    BY <1>1, <1>2 DEF DiskRight, EditLast
  <2>3. Covers(tables', Apply(current', edit'), hist', logs', next, last)
    BY <1>1, <1>3, <1>4, <1>5, <2>1, <2>2, CoversStay
  <2> QED BY <1>2, <2>3
<1> QED BY <1>1, <1>6, <1>7 DEF DiskRight, EditLast

\* What the edit has becomes the manifest.
LEMMA DiskOpened ==
  ASSUME Base, Base', LogsRight, DiskRight, OpenDone
  PROVE  DiskRight'
<1>1. /\ phase = "opening" /\ phase' = "up" /\ manifest' = Written /\ edit' = None
      /\ current' = Apply(current, edit)
      /\ DeleteObsoleteFiles(AllFiles(current'), edit.log)
      /\ UNCHANGED hist
  BY DEF OpenDone, observers
<1>2. /\ edit # None /\ current = manifest.files /\ edit.log \in Nat
      /\ manifest'.files = Apply(current, edit) /\ manifest'.log = edit.log
      /\ manifest'.last = edit.last
  BY <1>1, OpeningIs DEF SameVersion, Written
<1>3. Recorded(logs', edit.log) = Recorded(logs, edit.log)
  BY <1>1, <1>2, RecordsSwept
<1>4. Stored(tables', Apply(current, edit)) = Stored(tables, Apply(current, edit))
  <2>1. AllFiles(Apply(current, edit)) \subseteq DOMAIN tables'
    BY <1>1, <1>2 DEF FilesKept, InTables
  <2> QED BY <1>2, <2>1, KnownAre, KnownSame DEF Next
<1>5. Covers(tables, Apply(current, edit), hist, logs, edit.log, edit.last)
  BY <1>1, <1>2 DEF DiskRight, EditLast
<1>6. Covers(tables', Apply(current, edit), hist', logs', edit.log, edit.last)
  <2>1. Flushed(hist', logs', edit.log) = Flushed(hist, logs, edit.log)
    BY <1>1, <1>3 DEF Flushed
  <2> QED BY <1>3, <1>4, <1>5, <2>1, CoversStay
<1> QED BY <1>1, <1>2, <1>6 DEF DiskRight

LEMMA DiskOpening ==
  ASSUME AllReplayed, Base, Base', LogsRight, HistRight, DiskRight,
         Recover \/ RecoverLogFile \/ NewLog \/ OpenDone
  PROVE  DiskRight'
BY DiskRecover, DiskReplay, DiskNewLog, DiskOpened

\* A log begins for the next memtable.
LEMMA DiskSwitch ==
  ASSUME Base, Base', LogsRight, HistRight, DiskRight, SwitchMemTable
  PROVE  DiskRight'
<1>1. UNCHANGED <<manifest, current, edit, last, phase, hist>>
  BY DEF SwitchMemTable, observers
<1>2. \A log : /\ Recorded(logs', log) = Recorded(logs, log)
               /\ Flushed(hist', logs', log) = Flushed(hist, logs, log)
  BY <1>1, RightSwitch DEF Flushed
<1> QED BY <1>1, <1>2, DiskSame DEF Next

\* No write that was answered is ahead of last, and the one that runs is not
\* answered yet.
LEMMA WritesKnown ==
  ASSUME Base, HistRight, phase \in {"opening", "up"}
  PROVE  \A e \in Writes(hist) : e.seq \in Nat /\ e.seq <= last /\ e.seq # last + 1
<1> SUFFICES ASSUME NEW e \in Writes(hist)
             PROVE  e.seq \in Nat /\ e.seq <= last /\ e.seq # last + 1
  OBVIOUS
<1>1. /\ e.seq \in Seqs /\ e.seq \in Nat /\ hist[e.seq] # None
      /\ hist[e.seq].state = "done"
  BY WritesAre DEF ClientsOK, IsDone
<1>2. e.seq <= last \/ (writer # None /\ e.seq = last + 1)
  BY <1>1 DEF HistRight
<1>3. ~(writer # None /\ e.seq = last + 1)
  <2>1. writer # None => hist[last + 1].state = "pending" BY DEF LogsFollow
  <2> QED BY <1>1, <2>1
<1>4. e.seq <= last /\ last \in Nat BY <1>2, <1>3, Bounds DEF MemOK
<1> QED BY <1>1, <1>4

\* A record that is added is of no write that was answered.
LEMMA AddedIs ==
  ASSUME Base, LogsRight, HistRight, "torn" \notin Faults,
         NEW k \in Key, NEW del \in Deletes, NEW sync \in SyncOptions,
         Adding(k, del, sync)
  PROVE  /\ phase = "up" /\ last \in Nat /\ (last' = last \/ last' = last + 1)
         /\ UNCHANGED <<tables, manifest, phase, mem, imm, logfile, next, current,
                        held, reader, job, edit, bgError>>
         /\ Writes(hist') = Writes(hist)
         /\ \A log : /\ Recorded(logs, log) \subseteq Recorded(logs', log)
                     /\ Recorded(logs', log) \subseteq Recorded(logs, log) \cup {last + 1}
                     /\ Flushed(hist', logs', log) = Flushed(hist, logs, log)
<1>1. /\ phase = "up" /\ writer = None /\ last' \in {last, last + 1}
      /\ UNCHANGED <<tables, manifest, phase, mem, imm, logfile, next, current,
                     held, reader, job, edit, bgError>>
  BY DEF AddRecord, AddRecordFails, Ready, memVars, versionVars, clientVars
<1>2. logfile \in DOMAIN logs BY <1>1 DEF LogsRight
<1>3. /\ last + 1 \in Seqs /\ last \in Nat
      /\ DOMAIN logs' = DOMAIN logs
      /\ \A n \in DOMAIN logs : n # logfile => RecordsOf(logs', n) = RecordsOf(logs, n)
      /\ RecordsOf(logs, logfile) \subseteq RecordsOf(logs', logfile)
      /\ RecordsOf(logs', logfile) \subseteq RecordsOf(logs, logfile) \cup {last + 1}
      /\ \A s \in Seqs : s # last + 1 => hist'[s] = hist[s]
      /\ hist'[last + 1] # None /\ hist'[last + 1].state # "done"
  BY <1>2, RecordsAdded
<1>4. \A s \in Seqs : IsDone(hist, s) => s # last + 1
  <2>1. \A s \in Seqs : hist[s] # None => s <= last BY <1>1 DEF HistRight
  <2>2. ~(last + 1 <= last) BY <1>3
  <2> QED BY <2>1, <2>2 DEF IsDone
<1>5. \A s \in Seqs : /\ IsDone(hist', s) <=> IsDone(hist, s)
                      /\ IsDone(hist, s) => EntryIn(hist', s) = EntryIn(hist, s)
  BY <1>3, <1>4 DEF IsDone, EntryIn
<1>6. Writes(hist') = Writes(hist) BY <1>5 DEF Writes
<1>7. \A log : /\ Recorded(logs, log) \subseteq Recorded(logs', log)
               /\ Recorded(logs', log) \subseteq Recorded(logs, log) \cup {last + 1}
  BY <1>3, RecordedIs
<1>8. \A log : Flushed(hist', logs', log) = Flushed(hist, logs, log)
  <2>1. \A e \in Writes(hist) : e.seq # last + 1 BY <1>1, WritesKnown
  <2> QED BY <1>6, <1>7, <2>1 DEF Flushed
<1> QED BY <1>1, <1>3, <1>6, <1>7, <1>8

LEMMA DiskAdded ==
  ASSUME Base, Base', LogsRight, HistRight, DiskRight, "torn" \notin Faults,
         NEW k \in Key, NEW del \in Deletes, NEW sync \in SyncOptions,
         Adding(k, del, sync)
  PROVE  DiskRight'
<1>1. /\ phase = "up" /\ UNCHANGED <<manifest, current, edit, phase>> /\ last \in Nat
      /\ \A log : /\ Recorded(logs', log) \subseteq Recorded(logs, log) \cup {last + 1}
                  /\ Flushed(hist', logs', log) = Flushed(hist, logs, log)
  BY AddedIs
<1>2. \A e \in Writes(hist) : e.seq < last + 1 BY <1>1, WritesKnown
<1>3. \A log : \A s \in Recorded(logs', log) :
        s \in Recorded(logs, log) \/ \A e \in Flushed(hist, logs, log) : e.seq < s
  BY <1>1, <1>2 DEF Flushed
<1>4. Next BY DEF Next
<1> QED BY <1>1, <1>3, <1>4, DiskSame

\* The write that ends is one more that was answered, or none.
LEMMA EndsWrites ==
  ASSUME Base, LogsRight, HistRight, WriteDone \/ SyncFails
  PROVE  /\ WriteDone => Writes(hist') = Writes(hist) \cup {writer.entry}
         /\ ~WriteDone => Writes(hist') = Writes(hist)
         /\ writer.entry.seq = last + 1
         /\ \A log \in Nat : log <= logfile =>
              Flushed(hist', logs', log) = Flushed(hist, logs, log)
<1>1. /\ last \in Nat /\ last + 1 \in Seqs /\ phase = "up" /\ logs' = logs
      /\ writer.entry = EntryIn(hist, last + 1)
      /\ last + 1 \in RecordsOf(logs, logfile) /\ logfile \in DOMAIN logs
      /\ \A s \in Seqs : s # last + 1 => hist'[s] = hist[s]
      /\ \A s \in Seqs : EntryIn(hist', s) = EntryIn(hist, s)
      /\ WriteDone => IsDone(hist', last + 1)
      /\ ~WriteDone => ~IsDone(hist', last + 1)
  BY EndsIs
<1>2. ~IsDone(hist, last + 1) BY EndsIs DEF LogsFollow, IsDone
<1>3. \A s \in Seqs : s # last + 1 => (IsDone(hist', s) <=> IsDone(hist, s))
  BY <1>1 DEF IsDone
<1>4. \A e : e \in Writes(hist') <=> \E s \in Seqs : IsDone(hist', s) /\ e = EntryIn(hist, s)
  BY <1>1 DEF Writes
<1>5. \A e : e \in Writes(hist) <=> \E s \in Seqs : IsDone(hist, s) /\ e = EntryIn(hist, s)
  BY DEF Writes
<1>6. WriteDone => Writes(hist') = Writes(hist) \cup {writer.entry}
  <2> SUFFICES ASSUME WriteDone PROVE Writes(hist') = Writes(hist) \cup {writer.entry}
    OBVIOUS
  <2>1. \A e : e \in Writes(hist') <=> e \in Writes(hist) \/ e = writer.entry
    BY <1>1, <1>2, <1>3, <1>4, <1>5
  <2> QED BY <2>1
<1>7. ~WriteDone => Writes(hist') = Writes(hist)
  <2> SUFFICES ASSUME ~WriteDone PROVE Writes(hist') = Writes(hist)
    OBVIOUS
  <2>1. \A e : e \in Writes(hist') <=> e \in Writes(hist)
    BY <1>1, <1>2, <1>3, <1>4, <1>5
  <2> QED BY <2>1
<1>8. writer.entry.seq = last + 1 BY <1>1 DEF EntryIn
<1>9. ASSUME NEW log \in Nat, log <= logfile
      PROVE  Flushed(hist', logs', log) = Flushed(hist, logs, log)
  <2>1. last + 1 \in Recorded(logs, log) BY <1>1, <1>9, RecordedIs
  <2>2. Writes(hist') = Writes(hist) \/ Writes(hist') = Writes(hist) \cup {writer.entry}
    BY <1>6, <1>7
  <2> QED BY <1>1, <1>8, <2>1, <2>2 DEF Flushed
<1> QED BY <1>6, <1>7, <1>8, <1>9

LEMMA DiskEnds ==
  ASSUME Base, Base', LogsRight, HistRight, DiskRight, WriteDone \/ SyncFails
  PROVE  DiskRight'
<1>1. /\ phase = "up" /\ UNCHANGED <<manifest, current, edit, phase, logs>>
      /\ manifest.log \in Nat /\ manifest.log <= logfile /\ logfile \in Nat
  <2>1. manifest.log \in Nat /\ logfile \in Nat BY Bounds DEF ManifestOK, MemOK
  <2>2. phase = "up" /\ UNCHANGED <<manifest, current, edit, phase, logs>> BY EndsIs
  <2> QED BY <2>1, <2>2 DEF LogsRight
<1>2. edit # None => edit.log \in Nat /\ edit.log <= logfile
  BY <1>1 DEF LogsRight
<1>3. \A log \in {manifest.log} \cup (IF edit = None THEN {} ELSE {edit.log}) :
        Flushed(hist', logs', log) = Flushed(hist, logs, log)
  BY <1>1, <1>2, EndsWrites
<1>4. Next BY DEF Next
<1> QED BY <1>1, <1>3, <1>4, DiskSame

\* The edit is in the manifest.
LEMMA DiskInstalled ==
  ASSUME Base, Base', LogsRight, DiskRight, LogAndApply
  PROVE  DiskRight'
<1>1. /\ phase = "up" /\ phase' = "up" /\ edit # None /\ edit' = None
      /\ manifest' = Written /\ manifest'.log = edit.log /\ manifest'.files = current'
      /\ current' = Apply(current, edit) /\ hist' = hist
      /\ Recorded(logs', edit.log) = Recorded(logs, edit.log)
  BY InstalledIs
<1>2. manifest'.last = edit.last BY <1>1 DEF Written
<1>3. Stored(tables', Apply(current, edit)) = Stored(tables, Apply(current, edit))
  <2>1. AllFiles(Apply(current, edit)) \subseteq DOMAIN tables'
    BY <1>1 DEF FilesKept, InTables
  <2> QED BY <1>1, <2>1, KnownAre, KnownSame DEF Next
<1>4. Covers(tables, Apply(current, edit), hist, logs, edit.log, edit.last)
  BY <1>1 DEF DiskRight, EditLast
<1>5. Covers(tables', Apply(current, edit), hist', logs', edit.log, edit.last)
  <2>1. Flushed(hist', logs', edit.log) = Flushed(hist, logs, edit.log)
    BY <1>1 DEF Flushed
  <2> QED BY <1>1, <1>3, <1>4, <2>1, CoversStay
<1> QED BY <1>1, <1>2, <1>5 DEF DiskRight

\* The edit may be in the manifest.
LEMMA DiskFailed ==
  ASSUME "torn" \notin Faults, "nested" \notin Faults,
         Base, Base', LogsRight, DiskRight, LogAndApplyFails
  PROVE  DiskRight'
<1>1. /\ phase = "up" /\ phase' = "up" /\ edit # None /\ edit' = None
      /\ UNCHANGED <<tables, logs, hist>>
      /\ \/ manifest' = manifest
         \/ /\ manifest'.log = edit.log
            /\ manifest'.files = Apply(current, edit) /\ manifest'.last = edit.last
  BY FailedIs
<1>2. Covers(tables, Apply(current, edit), hist, logs, edit.log, edit.last)
  BY <1>1 DEF DiskRight, EditLast
<1>3. Covers(tables', manifest'.files, hist', logs', manifest'.log, manifest'.last)
  BY <1>1, <1>2 DEF DiskRight
<1> QED BY <1>1, <1>3 DEF DiskRight

\* What the logs lose had not to be covered.
LEMMA DiskCrash ==
  ASSUME Base, Base', LogsRight, HistRight, DiskRight, Ending
  PROVE  DiskRight'
<1> DEFINE m == manifest'.log
<1>1. /\ phase' = "down" /\ edit' = None /\ UNCHANGED tables
      /\ \/ manifest' = manifest
         \/ edit # None /\ edit \in AnEdit /\ phase # "replaying" /\ manifest' = Written
      /\ DOMAIN logs' = DOMAIN logs
      /\ \A n \in DOMAIN logs : RecordsOf(logs', n) \subseteq RecordsOf(logs, n)
      /\ \A s \in Seqs : hist'[s] # None =>
           /\ hist[s] # None /\ EntryIn(hist', s) = EntryIn(hist, s) /\ IsDone(hist', s)
           /\ s \in Recorded(logs, m) => s \in Recorded(logs', m)
           /\ s \notin Recorded(logs, m) => IsDone(hist, s)
      /\ \A s \in Seqs : IsDone(hist, s) /\ s \notin Recorded(logs, m) => hist'[s] # None
  BY EndIs, CrashIs
<1>2. Covers(tables, manifest'.files, hist, logs, m, manifest'.last)
  <2>1. CASE manifest' = manifest BY <2>1 DEF DiskRight
  <2>2. CASE edit # None /\ edit \in AnEdit /\ phase # "replaying" /\ manifest' = Written
    <3>1. current = manifest.files BY <2>2 DEF SameVersion, PhaseOK
    <3>2. /\ manifest'.files = Apply(current, edit) /\ m = edit.log
          /\ manifest'.last = edit.last
      BY <2>2, <3>1 DEF Written
    <3> QED BY <2>2, <3>2 DEF DiskRight, EditLast
  <2> QED BY <1>1, <2>1, <2>2
<1> HIDE DEF m
<1>3. Recorded(logs', m) \subseteq Recorded(logs, m) BY <1>1, RecordedIs
<1>4. Flushed(hist', logs', m) = Flushed(hist, logs, m)
  <2>1. ASSUME NEW e \in Flushed(hist', logs', m) PROVE e \in Flushed(hist, logs, m)
    <3>1. /\ e.seq \in Seqs /\ IsDone(hist', e.seq) /\ e = EntryIn(hist', e.seq)
          /\ e.seq \notin Recorded(logs', m)
      BY WritesAre DEF Flushed, ClientsOK
    <3>2. /\ e = EntryIn(hist, e.seq) /\ e.seq \notin Recorded(logs, m)
          /\ IsDone(hist, e.seq)
      BY <1>1, <3>1 DEF IsDone
    <3> QED BY <3>1, <3>2, WritesAre DEF Flushed, ClientsOK
  <2>2. ASSUME NEW e \in Flushed(hist, logs, m) PROVE e \in Flushed(hist', logs', m)
    <3>1. /\ e.seq \in Seqs /\ IsDone(hist, e.seq) /\ e = EntryIn(hist, e.seq)
          /\ e.seq \notin Recorded(logs, m)
      BY WritesAre DEF Flushed, ClientsOK
    <3>2. /\ e = EntryIn(hist', e.seq) /\ e.seq \notin Recorded(logs', m)
          /\ IsDone(hist', e.seq)
      BY <1>1, <1>3, <3>1
    <3> QED BY <3>1, <3>2, WritesAre DEF Flushed, ClientsOK
  <2> QED BY <2>1, <2>2
<1>5. Covers(tables', manifest'.files, hist', logs', m, manifest'.last)
  BY <1>1, <1>2, <1>3, <1>4, CoversStay
<1> QED BY <1>1, <1>5 DEF DiskRight, m

--------------------
\* What the memtables hold.

\* The store is open: all there is is in tables.
LEMMA OpenedIs ==
  ASSUME Base, Base', LogsRight, HistRight, OpenDone
  PROVE  /\ phase' = "up" /\ mem' = {} /\ imm' = {} /\ held' = {} /\ hist' = hist
         /\ last' = last /\ edit' = None /\ job' = None /\ reader' = None
         /\ manifest'.log = logfile' /\ manifest'.files = current'
         /\ current' = Apply(current, edit)
         /\ Recorded(logs', logfile') = {}
         /\ \A n \in DOMAIN tables' : n \in DOMAIN tables /\ tables'[n] = tables[n]
<1>1. /\ phase = "opening" /\ phase' = "up" /\ manifest' = Written /\ edit' = None
      /\ current' = Apply(current, edit) /\ bgError' = bgError
      /\ DeleteObsoleteFiles(AllFiles(current'), edit.log)
      /\ UNCHANGED <<mem, imm, logfile, last, writer, held, reader, job, hist>>
  BY DEF OpenDone, memVars, clientVars, observers
<1>2. /\ edit \in AnEdit /\ edit.log = logfile /\ edit.log \in Nat
      /\ current = manifest.files
      /\ mem = {} /\ imm = {} /\ held = {} /\ job = None /\ reader = None
  BY <1>1, OpeningIs DEF LogsRight, SameVersion
<1>3. Recorded(logs', edit.log) = Recorded(logs, edit.log)
  BY <1>1, <1>2, RecordsSwept
<1>4. Recorded(logs, edit.log) = {}
  <2>1. \A n \in DOMAIN logs : n \in Nat /\ n <= edit.log /\ (n = edit.log => Len(logs[n]) = 0)
    BY <1>1, OpeningIs DEF LogsFollow
  <2>2. \A n \in DOMAIN logs : n >= edit.log => RecordsOf(logs, n) = {}
    <3>1. \A n \in DOMAIN logs : n >= edit.log => n = edit.log BY <1>2, <2>1
    <3> QED BY <2>1, <3>1 DEF RecordsOf
  <2> QED BY <2>2, RecordedIs
<1>5. \A n \in DOMAIN tables' : n \in DOMAIN tables /\ tables'[n] = tables[n]
  BY <1>1, SweepKeeps
<1> QED BY <1>1, <1>2, <1>3, <1>4, <1>5 DEF Written

LEMMA MemInit == Init => MemRight
BY DEF Init, MemRight, Working

LEMMA MemOpening ==
  ASSUME Base, Base', LogsRight, HistRight,
         Recover \/ RecoverLogFile \/ NewLog \/ OpenDone
  PROVE  MemRight'
<1>1. CASE Recover \/ RecoverLogFile \/ NewLog
  <2>1. phase' # "up" BY <1>1 DEF Recover, RecoverLogFile, NewLog
  <2> QED BY <2>1 DEF MemRight, Working
<1>2. CASE OpenDone BY <1>2, OpenedIs DEF MemRight
<1> QED BY <1>1, <1>2

LEMMA MemSwitch ==
  ASSUME Base, LogsRight, HistRight, MemRight, SwitchMemTable
  PROVE  MemRight'
<1>1. /\ phase = "up" /\ ~bgError /\ imm = {} /\ imm' = mem /\ mem' = {}
      /\ logfile' = next /\ UNCHANGED <<manifest, hist>>
  BY DEF SwitchMemTable, Ready, observers
<1>2. /\ \A log : Recorded(logs', log) = Recorded(logs, log)
      /\ manifest.log <= logfile /\ logfile < next /\ logfile \in Nat
  BY RightSwitch
<1>3. /\ manifest.log \in Nat /\ next \in Nat /\ \A n \in DOMAIN logs : n \in Nat /\ n <= logfile
  BY <1>1, Bounds DEF ManifestOK, MemOK, LogsOK, FileNumber, LogsRight
<1>4. Recorded(logs, next) = {}
  <2>1. \A n \in DOMAIN logs : ~(n >= next) BY <1>2, <1>3
  <2> QED BY <2>1, RecordedIs
<1>5. Recorded(logs, logfile) \subseteq Recorded(logs, manifest.log)
  BY <1>2, <1>3, RecordedLater
<1>6. \A w \in Writes(hist) :
        w.seq \in Recorded(logs, manifest.log) => w.seq \in Recorded(logs, logfile)
  BY <1>1 DEF MemRight, Working
<1>7. mem = {w \in Writes(hist) : w.seq \in Recorded(logs, logfile)}
  BY <1>1 DEF MemRight
<1>8. imm' = {w \in Writes(hist) : /\ w.seq \in Recorded(logs, manifest.log)
                                   /\ w.seq \notin Recorded(logs, next)}
  BY <1>1, <1>4, <1>5, <1>6, <1>7
<1> QED BY <1>1, <1>2, <1>4, <1>8 DEF MemRight

LEMMA MemAdded ==
  ASSUME Base, LogsRight, HistRight, MemRight, "torn" \notin Faults,
         NEW k \in Key, NEW del \in Deletes, NEW sync \in SyncOptions,
         Adding(k, del, sync)
  PROVE  MemRight'
<1>1. /\ phase = "up" /\ Writes(hist') = Writes(hist)
      /\ UNCHANGED <<manifest, phase, mem, imm, logfile, job, edit, bgError>>
      /\ \A log : /\ Recorded(logs, log) \subseteq Recorded(logs', log)
                  /\ Recorded(logs', log) \subseteq Recorded(logs, log) \cup {last + 1}
  BY AddedIs
<1>2. \A w \in Writes(hist) : \A log :
        w.seq \in Recorded(logs', log) <=> w.seq \in Recorded(logs, log)
  BY <1>1, WritesKnown
<1> QED BY <1>1, <1>2 DEF MemRight, Working

LEMMA MemEnds ==
  ASSUME Base, LogsRight, HistRight, MemRight, WriteDone \/ SyncFails
  PROVE  MemRight'
<1>1. /\ phase = "up"
      /\ UNCHANGED <<logs, manifest, phase, imm, logfile, job, edit>>
      /\ logfile \in DOMAIN logs /\ last + 1 \in RecordsOf(logs, logfile)
      /\ WriteDone => mem' = mem \cup {writer.entry} /\ bgError' = bgError
      /\ ~WriteDone => mem' = mem /\ bgError'
      /\ WriteDone => Writes(hist') = Writes(hist) \cup {writer.entry}
      /\ ~WriteDone => Writes(hist') = Writes(hist)
      /\ writer.entry.seq = last + 1
  BY EndsIs, EndsWrites
<1>2. last + 1 \in Recorded(logs, logfile)
  <2>1. logfile \in Nat /\ logfile >= logfile BY Bounds DEF MemOK
  <2> QED BY <1>1, <2>1, RecordedIs
<1>3. Working' => Working BY <1>1 DEF Working
<1>4. CASE WriteDone
  <2>1. mem' = {w \in Writes(hist') : w.seq \in Recorded(logs, logfile)}
    BY <1>1, <1>2, <1>4 DEF MemRight
  <2>2. Working' => imm' = {w \in Writes(hist') : /\ w.seq \in Recorded(logs, manifest.log)
                                                 /\ w.seq \notin Recorded(logs, logfile)}
    BY <1>1, <1>2, <1>3, <1>4 DEF MemRight
  <2> QED BY <1>1, <2>1, <2>2 DEF MemRight
<1>5. CASE ~WriteDone BY <1>1, <1>3, <1>5 DEF MemRight
<1> QED BY <1>4, <1>5

LEMMA MemQuiet ==
  ASSUME Base, MemRight, QuietStep
  PROVE  MemRight'
BY QuietIs DEF MemRight

LEMMA MemMade ==
  ASSUME Base, LogsRight, MemRight, EditMade
  PROVE  MemRight'
BY EditMadeIs DEF MemRight

LEMMA MemInstalled ==
  ASSUME Base, LogsRight, MemRight, LogAndApply
  PROVE  MemRight'
<1>1. /\ phase = "up" /\ phase' = "up" /\ edit # None /\ manifest'.log = edit.log
      /\ manifest.log <= edit.log /\ edit.log <= logfile /\ edit.log \in Nat
      /\ imm' = (IF edit.kind = "memtable" THEN {} ELSE imm)
      /\ UNCHANGED <<mem, logfile, hist>>
      /\ DOMAIN logs' \subseteq DOMAIN logs
      /\ \A n \in DOMAIN logs' : logs'[n] = logs[n] /\ RecordsOf(logs', n) = RecordsOf(logs, n)
      /\ \A n \in DOMAIN logs : n >= edit.log => n \in DOMAIN logs'
      /\ Recorded(logs', edit.log) = Recorded(logs, edit.log)
      /\ edit.log = IF edit.kind = "memtable" THEN logfile ELSE manifest.log
  BY InstalledIs DEF LogsRight
<1>2. Recorded(logs', logfile) = Recorded(logs, logfile)
  <2>1. logfile \in Nat /\ \A n \in DOMAIN logs : n \in Nat
    BY Bounds DEF MemOK, LogsOK, FileNumber
  <2>2. \A n \in DOMAIN logs : n >= logfile => n >= edit.log BY <1>1, <2>1
  <2>3. \A s : s \in Recorded(logs', logfile) <=> s \in Recorded(logs, logfile)
    BY <1>1, <2>2, RecordedIs
  <2> QED BY <2>3
<1>3. mem' = {w \in Writes(hist') : w.seq \in Recorded(logs', logfile')}
  BY <1>1, <1>2 DEF MemRight
<1>4. imm' = {w \in Writes(hist') : /\ w.seq \in Recorded(logs', manifest'.log)
                                    /\ w.seq \notin Recorded(logs', logfile')}
  <2>1. CASE edit.kind = "memtable"
    <3>1. imm' = {} /\ manifest'.log = logfile' BY <1>1, <2>1
    <3> QED BY <3>1
  <2>2. CASE edit.kind # "memtable"
    <3>1. imm' = imm /\ manifest'.log = manifest.log /\ edit.log = manifest.log
      BY <1>1, <2>2
    <3>2. Working BY <1>1 DEF Working
    <3> QED BY <1>1, <1>2, <3>1, <3>2 DEF MemRight
  <2> QED BY <2>1, <2>2
<1> QED BY <1>3, <1>4 DEF MemRight

LEMMA MemFailed ==
  ASSUME "torn" \notin Faults, "nested" \notin Faults,
         Base, LogsRight, MemRight, LogAndApplyFails
  PROVE  MemRight'
<1>1. /\ phase = "up" /\ UNCHANGED <<mem, logfile, logs, hist>>
      /\ job' = None /\ edit' = None /\ bgError'
  BY FailedIs
<1> QED BY <1>1 DEF MemRight, Working

LEMMA MemCrash == ASSUME Types, Ending PROVE MemRight'
BY CrashIs DEF MemRight, Working

--------------------
\* The layers: what is asked first is newer.

LEMMA LayersInit == Init => LayersRight
<1>1. \A t : Layered(t, NoFiles) BY Bounds DEF Layered, NoFiles
<1> QED BY <1>1 DEF Init, LayersRight

\* Steps that make no version.
LEMMA LayersFrom ==
  ASSUME Base, Base', Next \/ UNCHANGED vars, LayersRight,
         manifest'.files \in Versions, current' \in Versions,
         edit' # None => Apply(current', edit') \in Versions
  PROVE  LayersRight'
<1>1. \A fs \in Versions : Known(fs) /\ Layered(tables, fs)
  <2>1. Layered(tables, NoFiles) BY Bounds DEF Layered, NoFiles
  <2>2. Known(NoFiles) BY FilesOf, AtIs, Bounds DEF Known, InTables, Below
  <2> QED BY <2>1, <2>2, KnownAre DEF Versions, LayersRight
<1>2. \A fs \in Versions : AllFiles(fs) \subseteq DOMAIN tables' => Layered(tables', fs)
  BY <1>1, KnownSame
<1>3. /\ AllFiles(manifest'.files) \subseteq DOMAIN tables'
      /\ AllFiles(current') \subseteq DOMAIN tables'
      /\ edit' # None => AllFiles(Apply(current', edit')) \subseteq DOMAIN tables'
  <2>1. edit' # None => edit' \in AnEdit /\ current' \in Files
    BY DEF PhaseOK, MemOK
  <2>2. edit' # None => AllFiles(Apply(current', edit')) \subseteq AllFiles(current') \cup AllFiles(edit'.add)
    BY <2>1, FilesOf
  <2>3. InTables(manifest.files)' /\ InTables(current)' /\ (edit' # None => InTables(edit.add)')
    BY <2>1 DEF FilesKept
  <2> QED BY <2>2, <2>3 DEF InTables
<1> QED BY <1>2, <1>3 DEF LayersRight

LEMMA LayersQuiet ==
  ASSUME Base, Base', LayersRight, QuietStep
  PROVE  LayersRight'
<1>1. Next \/ UNCHANGED vars BY DEF QuietStep, Next
<1>2. UNCHANGED <<manifest, current, edit>> BY QuietIs
<1> QED BY <1>1, <1>2, LayersFrom DEF Versions

\* Writers make no version.
LEMMA LayersClient ==
  ASSUME Base, Base', LayersRight, ClientStep
  PROVE  LayersRight'
<1>1. Next \/ UNCHANGED vars BY DEF ClientStep, Next
<1>2. UNCHANGED <<manifest, current, edit>> BY ClientSame
<1> QED BY <1>1, <1>2, LayersFrom DEF Versions

\* A log that becomes a table of level 0 is newer than all there is.
LEMMA LayersReplay ==
  ASSUME AllReplayed, Base, Base', LogsRight, HistRight, DiskRight, LayersRight, RecoverLogFile
  PROVE  LayersRight'
<1> DEFINE fs == Apply(current, edit)
           gs == Apply(current, edit')
<1>1. /\ phase = "replaying" /\ edit \in AnEdit /\ edit # None /\ edit' # None
      /\ UNCHANGED <<manifest, current>> /\ next \in Nat
      /\ \A l \in Level \ {0} : edit.add[l] = {}
      /\ Covers(tables, fs, hist, logs, edit.log, last) /\ Layered(tables, fs) /\ Known(fs)
  BY OpeningIs, ReplayIs, KnownAre DEF RecoverLogFile, DiskRight, EditLast, LayersRight
<1>2. PICK n \in DOMAIN logs, made \in SUBSET FileNumber : Replayed(n, made)
  BY <1>1, ReplayIs
<1>4. /\ edit.log <= n
      /\ made \subseteq {next}
      /\ \A m \in DOMAIN tables \ made : tables'[m] = tables[m]
      /\ \A m \in made : tables'[m] = {EntryIn(hist, s) : s \in RecordsOf(logs, n)}
      /\ \A l \in Level \ {0} : gs[l] = fs[l]
      /\ gs[0] = fs[0] \cup made
  BY <1>2 DEF Replayed
<1> HIDE DEF fs, gs
<1>5. \A m \in AllFiles(fs) : m \in Nat /\ m < next /\ tables'[m] = tables[m]
  <2>1. \A m \in AllFiles(fs) : m \in Nat /\ m < next /\ m \in DOMAIN tables
    BY <1>1, FilesAre DEF Known, InTables, Below, FileNumber
  <2>2. \A m \in AllFiles(fs) : m # next BY <1>1, <2>1
  <2> QED BY <1>4, <2>1, <2>2
<1>6. \A m \in AllFiles(fs), k \in made : \A e \in tables'[m], f \in tables'[k] : e.seq < f.seq
  <2>1. \A m \in AllFiles(fs) : \A e \in tables[m] : \A s \in RecordsOf(logs, n) : e.seq < s
    <3>1. RecordsOf(logs, n) \subseteq Recorded(logs, edit.log)
      <4>1. n >= edit.log BY <1>1, <1>4, OpeningIs
      <4> QED BY <4>1, RecordedIs
    <3>2. \A m \in AllFiles(fs) : \A e \in tables[m] : e \in Flushed(hist, logs, edit.log)
      BY <1>1, StoredIs DEF Covers, Complete
    <3> QED BY <1>1, <3>1, <3>2 DEF Covers
  <2>2. \A k \in made : \A f \in tables'[k] : f.seq \in RecordsOf(logs, n)
    BY <1>4 DEF EntryIn
  <2> QED BY <1>5, <2>1, <2>2
<1>7. Layered(tables', fs) BY <1>1, <1>5, StoredSame
<1>8. \A l \in Level : \A m \in fs[l] : m \in AllFiles(fs) BY DEF AllFiles
<1>9. Layered(tables', gs)
  <2>1. \A m, k \in gs[0] : m < k => \A e \in tables'[m], f \in tables'[k] : e.seq < f.seq
    <3> SUFFICES ASSUME NEW m \in gs[0], NEW k \in gs[0], m < k,
                        NEW e \in tables'[m], NEW f \in tables'[k]
                 PROVE  e.seq < f.seq
      OBVIOUS
    <3>1. CASE m \in fs[0] /\ k \in fs[0] BY <1>7, <3>1 DEF Layered
    <3>2. CASE k \in made /\ m \in fs[0] BY <1>6, <1>8, <3>2, Bounds
    <3>3. CASE m \in made
      <4>1. m = next /\ (k = next \/ k < next) /\ next \in Nat /\ k \in Nat
        BY <1>1, <1>4, <1>5, <1>8, <3>3, Bounds
      <4> QED BY <4>1
    <3> QED BY <1>4, <3>1, <3>2, <3>3
  <2>2. ASSUME NEW i \in Level, NEW j \in Level, i < j, NEW m \in gs[i], NEW k \in gs[j],
               NEW e \in tables'[m], NEW f \in tables'[k], e.key = f.key
        PROVE  f.seq < e.seq
    <3>1. k \in fs[j] BY <1>4, <2>2, Bounds DEF Level
    <3>2. CASE m \in fs[i] BY <1>7, <2>2, <3>1, <3>2 DEF Layered
    <3>3. CASE m \in made BY <1>6, <1>8, <3>1, <3>3
    <3> QED BY <1>4, <3>2, <3>3
  <2> QED BY <2>1, <2>2 DEF Layered
<1>10. Layered(tables', manifest.files) /\ Layered(tables', current)
  <2>1. InTables(manifest.files)' /\ InTables(current)' BY DEF FilesKept
  <2> QED BY <1>1, <2>1, KnownAre, KnownSame DEF Next, InTables, LayersRight
<1> QED BY <1>1, <1>9, <1>10 DEF LayersRight, gs

LEMMA LayersOpening ==
  ASSUME AllReplayed, Base, Base', LogsRight, HistRight, DiskRight, LayersRight,
         Recover \/ RecoverLogFile \/ NewLog \/ OpenDone
  PROVE  LayersRight'
<1>1. CASE Recover
  <2>1. Next BY <1>1 DEF Next
  <2> QED BY <1>1, <2>1, RecoverIs, LayersFrom DEF Versions
<1>2. CASE RecoverLogFile BY <1>2, LayersReplay
<1>3. CASE NewLog
  <2>1. /\ phase = "replaying"
        /\ edit' = [edit EXCEPT !.log = next, !.next = next + 1, !.last = last]
        /\ UNCHANGED <<manifest, current>>
    BY <1>3 DEF NewLog
  <2>2. /\ edit \in AnEdit /\ edit # None
        /\ edit'.add = edit.add /\ edit'.del = edit.del
    BY <2>1, OpeningIs DEF AnEdit
  <2>3. Apply(current', edit') = Apply(current, edit) BY <2>1, <2>2 DEF Apply
  <2>4. Next BY <1>3 DEF Next
  <2> QED BY <2>1, <2>2, <2>3, <2>4, LayersFrom DEF Versions
<1>4. CASE OpenDone
  <2>1. /\ manifest'.files = current' /\ current' = Apply(current, edit)
        /\ edit # None /\ edit' = None
    BY <1>4, OpenedIs, OpeningIs DEF OpenDone
  <2>2. Next BY <1>4 DEF Next
  <2> QED BY <2>1, <2>2, LayersFrom DEF Versions
<1> QED BY <1>1, <1>2, <1>3, <1>4

LEMMA LayersManifest ==
  ASSUME "torn" \notin Faults, "nested" \notin Faults, Base, Base', LogsRight, LayersRight,
         LogAndApply \/ LogAndApplyFails \/ Ending
  PROVE  LayersRight'
<1>1. Next BY DEF Next
<1>2. CASE LogAndApply
  <2>1. /\ manifest'.files = current' /\ current' = Apply(current, edit)
        /\ edit # None /\ edit' = None
    BY <1>2, InstalledIs
  <2> QED BY <1>1, <2>1, LayersFrom DEF Versions
<1>3. CASE LogAndApplyFails
  <2>1. /\ manifest'.files = manifest.files \/ manifest'.files = Apply(current, edit)
        /\ current' = current /\ edit # None /\ edit' = None
    BY <1>3, FailedIs
  <2> QED BY <1>1, <2>1, LayersFrom DEF Versions
<1>4. CASE Ending
  <2>1. /\ current' = NoFiles /\ edit' = None /\ phase # "down"
        /\ manifest' = manifest \/ (edit # None /\ manifest' = Written)
    BY <1>4, CrashIs
  <2>2. edit # None => Written.files = Apply(current, edit)
    BY <2>1 DEF Written, SameVersion
  <2> QED BY <1>1, <2>1, <2>2, LayersFrom DEF Versions
<1> QED BY <1>2, <1>3, <1>4

--------------------
\* What the memtables and the files of a version hold together.

\* What the entries of a table and of another have in common they cover.
LEMMA SameKey ==
  ASSUME NEW A, A \subseteq Entry, NEW B, B \subseteq Entry,
         KeyRange(A) \cap KeyRange(B) = {}, NEW e \in A, NEW f \in B
  PROVE  e.key # f.key
BY RangeIs

\* A memtable becomes a table: newer than all of the version, and nothing of its
\* keys is in the levels above it.
LEMMA FlushIs ==
  ASSUME Base, Base', LogsRight, ViewsRight, WriteLevel0Table
  PROVE  /\ phase = "up" /\ phase' = "up" /\ edit = None /\ edit' # None
         /\ edit'.kind = "memtable" /\ edit'.log = logfile /\ edit'.last = last
         /\ current = manifest.files /\ Working
         /\ \E l \in Level :
              /\ l > 0 => \A j \in Level : j <= l =>
                   \A n \in current[j] : KeyRange(tables[n]) \cap KeyRange(imm) = {}
              /\ \A j \in Level : Apply(current, edit')[j] =
                                    IF j = l THEN current[j] \cup {next} ELSE current[j]
         /\ tables'[next] = imm /\ next \in Nat
         /\ \A n \in AllFiles(current) : n \in Nat /\ n < next /\ tables'[n] = tables[n]
         /\ Stored(tables', Apply(current, edit')) = Stored(tables, current) \cup imm
         /\ \A e \in Stored(tables, current), f \in imm : e.seq < f.seq
<1>1. PICK l \in PickLevels(KeyRange(imm)) :
        /\ phase = "up" /\ phase' = "up" /\ edit = None /\ next <= MaxFile
        /\ job = None => ~bgError
        /\ tables' = With(tables, next, imm)
        /\ edit' = MemTableEdit(l)
        /\ UNCHANGED current
  BY DEF WriteLevel0Table
<1>2. /\ edit' # None /\ edit' \in AnEdit /\ Working
      /\ next \in Nat /\ next \in FileNumber /\ l \in Level
  <2>1. EditMade BY DEF EditMade
  <2>2. next \in Nat /\ next > 0 BY <1>1 DEF MemOK, PhaseOK
  <2> QED BY <1>1, <2>1, <2>2, EditMadeIs, Bounds DEF PickLevels, Level, FileNumber
<1>3. current = manifest.files BY <1>1 DEF SameVersion
<1>4. l > 0 => \A j \in Level : j <= l =>
        \A n \in current[j] : KeyRange(tables[n]) \cap KeyRange(imm) = {}
  <2>1. l > 0 => \A j \in 0..l : Overlapping(current, j, KeyRange(imm)) = {}
    BY DEF PickLevels
  <2>2. \A j \in Level : j <= l => j \in 0..l BY <1>2, Bounds DEF Level
  <2> QED BY <2>1, <2>2 DEF Overlapping, Span
<1>5. /\ current \in Files
      /\ \A j \in Level : Apply(current, edit')[j] =
                            IF j = l THEN current[j] \cup {next} ELSE current[j]
  <2>1. \A j \in Level : NoFiles[j] = {} BY DEF NoFiles
  <2>2. current \in Files /\ \A j \in Level : At(l, {next})[j] = IF j = l THEN {next} ELSE {}
    BY <1>2, AtIs DEF MemOK
  <2>3. \A j \in Level :
          Apply(current, edit')[j] = (current[j] \ edit'.del[j]) \cup edit'.add[j]
    BY <1>2, <2>2, ApplyIs
  <2>4. edit'.del = NoFiles /\ edit'.add = At(l, {next}) BY <1>1
  <2> QED BY <2>1, <2>2, <2>3, <2>4
<1>6. \A n \in AllFiles(current) : n \in Nat /\ n < next /\ tables'[n] = tables[n]
  <2>1. \A n \in AllFiles(current) : n \in Nat /\ n < next /\ n \in DOMAIN tables
    BY <1>1, <1>5, KnownAre, FilesAre DEF Known, InTables, Below, FileNumber
  <2>2. \A n \in AllFiles(current) : n # next BY <1>2, <2>1
  <2> QED BY <1>1, <2>1, <2>2 DEF With
<1>7. tables'[next] = imm BY <1>1 DEF With
<1> DEFINE gs == Apply(current, edit')
<1>8. Stored(tables', gs) = Stored(tables, current) \cup imm
  <2>1. AllFiles(gs) = AllFiles(current) \cup {next}
    <3>1. \A m : m \in AllFiles(gs) <=> m \in AllFiles(current) \/ m \in {next}
      BY <1>2, <1>5 DEF AllFiles
    <3> QED BY <3>1
  <2> DEFINE ns == {next}
  <2>2. /\ AllFiles(gs) = AllFiles(current) \cup ns
        /\ \A n \in ns : tables'[n] = imm
        /\ ns # {}
    BY <1>7, <2>1
  <2>3. \A n \in AllFiles(current) : tables'[n] = tables[n] BY <1>6
  <2> HIDE DEF gs, ns
  <2> QED BY <2>2, <2>3, StoredMore
<1>9. \A e \in Stored(tables, current), f \in imm : e.seq < f.seq
  BY <1>1 DEF ViewsRight, View
<1>10. edit'.kind = "memtable" /\ edit'.log = logfile /\ edit'.last = last
  BY <1>1
<1>11. phase = "up" /\ phase' = "up" /\ edit = None BY <1>1
<1> QED BY <1>2, <1>3, <1>4, <1>5, <1>6, <1>7, <1>8, <1>9, <1>10, <1>11

LEMMA LayersFlush ==
  ASSUME Base, Base', LogsRight, ViewsRight, LayersRight, WriteLevel0Table
  PROVE  LayersRight'
<1> DEFINE gs == Apply(current, edit')
<1>1. PICK l \in Level :
        /\ l > 0 => \A j \in Level : j <= l =>
             \A n \in current[j] : KeyRange(tables[n]) \cap KeyRange(imm) = {}
        /\ \A j \in Level : gs[j] = IF j = l THEN current[j] \cup {next} ELSE current[j]
  BY FlushIs
<1>2. /\ edit' # None /\ tables'[next] = imm /\ next \in Nat
      /\ \A n \in AllFiles(current) : n \in Nat /\ n < next /\ tables'[n] = tables[n]
      /\ \A e \in Stored(tables, current), f \in imm : e.seq < f.seq
      /\ UNCHANGED <<manifest, current>> /\ current = manifest.files
  BY FlushIs DEF WriteLevel0Table
<1> HIDE DEF gs
<1>3. \A j \in Level : \A n \in current[j] : n \in AllFiles(current)
  BY DEF AllFiles
<1>4. Layered(tables', current) BY <1>2, StoredSame DEF LayersRight
<1>5. \A n \in AllFiles(current) : \A e \in tables'[n] : e \in Stored(tables, current)
  BY <1>2, StoredIs
<1>6. \A j \in Level : \A n \in current[j] : \A e \in tables'[n], f \in tables'[next] : e.seq < f.seq
  BY <1>2, <1>3, <1>5
<1>7. ASSUME NEW i \in Level, NEW m \in current[i], i < l
      PROVE  \A e \in tables'[m], f \in tables'[next] : e.key # f.key
  <2>1. l > 0 /\ i <= l BY <1>7, Bounds DEF Level
  <2>2. KeyRange(tables[m]) \cap KeyRange(imm) = {} BY <1>1, <2>1
  <2>3. imm \subseteq Entry /\ tables[m] \subseteq Entry /\ tables'[m] = tables[m]
    <3>1. m \in DOMAIN tables BY <1>3 DEF FilesKept, InTables
    <3> QED BY <1>2, <1>3, <3>1 DEF MemOK, TablesOK
  <2> QED BY <1>2, <2>2, <2>3, SameKey
<1>8. \A m, k \in gs[0] : m < k => \A e \in tables'[m], f \in tables'[k] : e.seq < f.seq
  <2> SUFFICES ASSUME NEW m \in gs[0], NEW k \in gs[0], m < k,
                      NEW e \in tables'[m], NEW f \in tables'[k]
               PROVE  e.seq < f.seq
    OBVIOUS
  <2>1. CASE m \in current[0] /\ k \in current[0] BY <1>4, <2>1 DEF Layered
  <2>2. CASE m \in current[0] /\ k = next BY <1>6, <2>2, Bounds
  <2>3. CASE m = next
    <3>1. k = next \/ k \in current[0] BY <1>1, Bounds
    <3>2. (k = next \/ k < next) /\ next \in Nat /\ k \in Nat
      BY <1>2, <1>3, <3>1, Bounds
    <3> QED BY <2>3, <3>2
  <2> QED BY <1>1, <2>1, <2>2, <2>3, Bounds
<1>9. ASSUME NEW i \in Level, NEW j \in Level, i < j, NEW m \in gs[i], NEW k \in gs[j],
             NEW e \in tables'[m], NEW f \in tables'[k], e.key = f.key
      PROVE  f.seq < e.seq
  <2>1. CASE m \in current[i] /\ k \in current[j]
    BY <1>4, <1>9, <2>1 DEF Layered
  <2>2. CASE m = next /\ k \in current[j] BY <1>6, <2>2
  <2>3. CASE m \in current[i] /\ k = next /\ j = l BY <1>7, <1>9, <2>3
  <2>4. CASE m = next /\ i = l /\ k = next /\ j = l
    BY <1>9, <2>4, Bounds DEF Level
  <2> QED BY <1>1, <2>1, <2>2, <2>3, <2>4
<1>10. Layered(tables', gs) BY <1>8, <1>9 DEF Layered
<1> QED BY <1>2, <1>4, <1>10 DEF LayersRight, gs

LEMMA DiskFlush ==
  ASSUME Base, Base', LogsRight, HistRight, DiskRight, MemRight, ViewsRight, WriteLevel0Table
  PROVE  DiskRight'
<1> DEFINE gs == Apply(current, edit')
           old == Flushed(hist, logs, manifest.log)
           new == Flushed(hist, logs, logfile)
<1>1. /\ phase = "up" /\ phase' = "up" /\ edit' # None /\ Working
      /\ edit'.log = logfile /\ edit'.last = last /\ current = manifest.files
      /\ \A n \in AllFiles(current) : tables'[n] = tables[n]
      /\ Stored(tables', gs) = Stored(tables, current) \cup imm
      /\ UNCHANGED <<logs, manifest, hist, current>>
  BY FlushIs DEF WriteLevel0Table, observers
<1>2. /\ manifest.log \in Nat /\ logfile \in Nat /\ manifest.log <= logfile
      /\ \A n \in DOMAIN logs : n \in Nat
  <2>1. manifest.log <= logfile BY <1>1 DEF LogsRight
  <2>2. manifest.log \in Nat /\ logfile \in Nat BY Bounds DEF ManifestOK, MemOK
  <2>3. \A n \in DOMAIN logs : n \in Nat BY DEF LogsOK, FileNumber
  <2> QED BY <2>1, <2>2, <2>3
<1>3. imm = {w \in Writes(hist) : /\ w.seq \in Recorded(logs, manifest.log)
                                  /\ w.seq \notin Recorded(logs, logfile)}
  BY <1>1 DEF MemRight
<1>4. Recorded(logs, logfile) \subseteq Recorded(logs, manifest.log)
  BY <1>2, RecordedLater
<1>5. new = old \cup imm BY <1>3, <1>4 DEF Flushed
<1>6. Covers(tables, current, hist, logs, manifest.log, manifest.last)
  BY <1>1 DEF DiskRight
<1>7. \A e \in imm, s \in Recorded(logs, logfile) : e.seq < s
  <2> SUFFICES ASSUME NEW e \in imm, NEW s \in Recorded(logs, logfile) PROVE e.seq < s
    OBVIOUS
  <2>1. PICK m \in DOMAIN logs : /\ manifest.log <= m /\ m < logfile
                                 /\ e.seq \in RecordsOf(logs, m)
    BY <1>2, <1>3, RecordedLater
  <2>2. PICK n \in DOMAIN logs : n >= logfile /\ s \in RecordsOf(logs, n)
    BY RecordedIs
  <2>3. m < n BY <1>2, <2>1, <2>2
  <2> QED BY <2>1, <2>2, <2>3 DEF LogsRight
<1>8. Complete(Stored(tables', gs), new, MaxSeq)
  <2>1. \A w \in old, e \in imm : w.seq < e.seq BY <1>3, <1>6 DEF Covers
  <2>2. Complete(Stored(tables, current), old, MaxSeq) BY <1>6 DEF Covers
  <2> HIDE DEF old, new, gs
  <2>3. Complete(Stored(tables, current) \cup imm, old \cup imm, MaxSeq)
    BY <2>1, <2>2, CompleteWith
  <2> QED BY <1>1, <1>5, <2>3
<1>9. \A e \in new : e.seq <= last /\ \A s \in Recorded(logs, logfile) : e.seq < s
  <2>1. \A e \in new : e.seq <= last BY <1>1, WritesKnown DEF Flushed
  <2>2. \A e \in old, s \in Recorded(logs, logfile) : e.seq < s
    BY <1>4, <1>6 DEF Covers
  <2> QED BY <1>5, <1>7, <2>1, <2>2
<1>10. Covers(tables', gs, hist, logs, logfile, last) BY <1>8, <1>9 DEF Covers
<1>11. Covers(tables', manifest.files, hist, logs, manifest.log, manifest.last)
  <2>1. Stored(tables', current) = Stored(tables, current) BY <1>1, StoredSame
  <2> QED BY <1>1, <1>6, <2>1 DEF Covers
<1> HIDE DEF gs
<1>12. Covers(tables', Apply(current', edit'), hist', logs', edit'.log, edit'.last)
  BY <1>1, <1>10 DEF gs
<1> QED BY <1>1, <1>11, <1>12 DEF DiskRight, EditLast

LEMMA ViewsFlush ==
  ASSUME Base, Base', LogsRight, ViewsRight, WriteLevel0Table
  PROVE  ViewsRight'
<1> DEFINE gs == Apply(current, edit')
<1>1. /\ phase = "up" /\ edit' # None /\ edit'.kind = "memtable"
      /\ Stored(tables', gs) = Stored(tables, current) \cup imm
      /\ Stored(tables', current) = Stored(tables, current)
      /\ UNCHANGED <<hist, current, mem, imm, held, last>>
  <2>1. UNCHANGED <<hist, current, mem, imm, held, last>>
    BY DEF WriteLevel0Table, observers, memVars, clientVars
  <2>2. \A n \in AllFiles(current) : tables'[n] = tables[n] BY FlushIs
  <2>3. Stored(tables', current) = Stored(tables, current) BY <2>2, StoredSame
  <2> QED BY <2>1, <2>3, FlushIs
<1>2. View(imm, current) BY <1>1 DEF ViewsRight
<1>3. SmallestSnapshot' = SmallestSnapshot /\ ImmAfter' = {}
  BY <1>1 DEF SmallestSnapshot, ImmAfter
<1>4. View(imm, current)' BY <1>1, <1>2, <1>3 DEF View
<1> HIDE DEF gs
<1>5. /\ mem \cup {} \cup Stored(tables', gs) = mem \cup imm \cup Stored(tables, current)
      /\ \A e \in Stored(tables', gs), f \in mem : e.seq < f.seq
  BY <1>1, <1>2 DEF View
<1>6. View(ImmAfter, Apply(current, edit))'
  BY <1>1, <1>2, <1>3, <1>5 DEF View, gs
<1> QED BY <1>4, <1>6 DEF ViewsRight

\* An edit that moves entries down changes nothing but the version it makes.
LEMMA DiskEdit ==
  ASSUME Base, LogsRight, HistRight, DiskRight, EditMade, edit'.kind # "memtable",
         UNCHANGED tables,
         Complete(Stored(tables, Apply(current, edit')), Flushed(hist, logs, manifest.log), MaxSeq)
  PROVE  DiskRight'
<1>1. /\ UNCHANGED <<logs, manifest, phase, current, hist>> /\ phase = "up"
      /\ edit' # None /\ edit'.log = manifest.log /\ edit'.last = last /\ Working
  BY EditMadeIs
<1>2. current = manifest.files BY <1>1 DEF Working, SameVersion
<1>3. Covers(tables, current, hist, logs, manifest.log, manifest.last)
  BY <1>2 DEF DiskRight
<1>4. \A e \in Flushed(hist, logs, manifest.log) : e.seq <= last
  BY <1>1, WritesKnown DEF Flushed
<1> DEFINE gs == Apply(current, edit')
<1>5. Complete(Stored(tables, gs), Flushed(hist, logs, manifest.log), MaxSeq)
  OBVIOUS
<1> HIDE DEF gs
<1>6. Covers(tables, gs, hist, logs, manifest.log, last)
  BY <1>3, <1>4, <1>5 DEF Covers
<1>7. Covers(tables', Apply(current', edit'), hist', logs', edit'.log, edit'.last)
  BY <1>1, <1>6 DEF gs
<1> QED BY <1>1, <1>2, <1>3, <1>7 DEF DiskRight, EditLast

LEMMA ViewsEdit ==
  ASSUME Base, LogsRight, ViewsRight, EditMade, edit'.kind # "memtable", UNCHANGED tables,
         Stored(tables, Apply(current, edit')) \subseteq Stored(tables, current),
         Complete(mem \cup imm \cup Stored(tables, Apply(current, edit')), Writes(hist),
                  SmallestSnapshot)
  PROVE  ViewsRight'
<1>1. /\ UNCHANGED <<mem, imm, last, current, held, hist>> /\ phase = "up"
  BY EditMadeIs
<1>2. View(imm, current) BY <1>1 DEF ViewsRight
<1>3. SmallestSnapshot' = SmallestSnapshot /\ ImmAfter' = imm
  BY <1>1 DEF SmallestSnapshot, ImmAfter
<1>4. View(imm, current)' BY <1>1, <1>2, <1>3 DEF View
<1>5. View(imm, Apply(current, edit')) BY <1>2 DEF View
<1>6. View(ImmAfter, Apply(current, edit))' BY <1>1, <1>3, <1>5 DEF View
<1> QED BY <1>4, <1>6 DEF ViewsRight

\* A file goes down a level: no other file of its own level has its keys.
LEMMA MoveIs ==
  ASSUME Base, Base', LogsRight, TrivialMove
  PROVE  /\ EditMade /\ edit'.kind # "memtable" /\ UNCHANGED tables
         /\ \E l \in Level : \E n \in current[l] :
              /\ l + 1 \in Level
              /\ \A m \in current[l] \ {n} : KeyRange(tables[m]) \cap KeyRange(tables[n]) = {}
              /\ \A j \in Level : Apply(current, edit')[j] =
                   IF j = l THEN current[l] \ {n}
                   ELSE IF j = l + 1 THEN current[j] \cup {n} ELSE current[j]
         /\ Stored(tables, Apply(current, edit')) = Stored(tables, current)
<1>1. EditMade /\ current' = current /\ current \in Files /\ edit' \in AnEdit
  BY EditMadeIs DEF EditMade, MemOK
<1>2. PICK l \in 0..(NumLevels - 2) : \E n \in current[l] :
        /\ Inputs(current, l, Span(n)) = {n} \/ l > 0
        /\ edit' = MoveEdit(l, n)
        /\ UNCHANGED tables
  BY DEF TrivialMove, diskVars
<1>3. PICK n \in current[l] :
        /\ Inputs(current, l, Span(n)) = {n} \/ l > 0
        /\ edit' = MoveEdit(l, n)
        /\ UNCHANGED tables
  BY <1>2
<1>4. l \in Level /\ l + 1 \in Level /\ l + 1 # 0 /\ l # l + 1
  BY Bounds DEF Level
<1>5. {n} \in SUBSET FileNumber BY <1>1, <1>4 DEF Files
<1>6. edit'.add = At(l + 1, {n}) /\ edit'.del = At(l, {n}) /\ edit'.kind # "memtable"
  BY <1>3
<1>7. \A j \in Level : /\ edit'.add[j] = IF j = l + 1 THEN {n} ELSE {}
                       /\ edit'.del[j] = IF j = l THEN {n} ELSE {}
  BY <1>4, <1>5, <1>6, AtIs
<1> DEFINE gs == Apply(current, edit')
<1>8. \A j \in Level : gs[j] =
        IF j = l THEN current[l] \ {n}
        ELSE IF j = l + 1 THEN current[j] \cup {n} ELSE current[j]
  <2>1. \A j \in Level : gs[j] = (current[j] \ edit'.del[j]) \cup edit'.add[j]
    BY <1>1, ApplyIs
  <2> HIDE DEF gs
  <2> SUFFICES ASSUME NEW j \in Level
               PROVE  gs[j] = IF j = l THEN current[l] \ {n}
                              ELSE IF j = l + 1 THEN current[j] \cup {n} ELSE current[j]
    OBVIOUS
  <2>2. CASE j = l BY <1>4, <1>7, <2>1, <2>2
  <2>3. CASE j = l + 1
    <3>1. edit'.add[j] = {n} /\ edit'.del[j] = {} /\ j # l BY <1>4, <1>7, <2>3
    <3>2. gs[j] = (current[j] \ {}) \cup {n} BY <2>1, <3>1
    <3>3. gs[j] = current[j] \cup {n} BY <3>2
    <3> QED BY <2>3, <3>1, <3>3
  <2>4. CASE j # l /\ j # l + 1
    <3>1. edit'.add[j] = {} /\ edit'.del[j] = {} BY <1>7, <2>4
    <3>2. gs[j] = (current[j] \ {}) \cup {} BY <2>1, <3>1
    <3>3. gs[j] = current[j] BY <3>2
    <3> QED BY <2>4, <3>3
  <2> QED BY <2>2, <2>3, <2>4
<1>9. \A m \in current[l] \ {n} : KeyRange(tables[m]) \cap KeyRange(tables[n]) = {}
  <2>1. CASE l > 0 BY <1>4, <2>1 DEF LevelsOK, DisjointIn
  <2>2. CASE Inputs(current, l, Span(n)) = {n}
    <3>1. InTables(current) BY DEF FilesKept
    <3>2. Span(n) \in SUBSET Key /\ Convex(Span(n)) /\ Span(n) # {}
      BY <1>1, <1>4, <3>1, SpansAre
    <3>3. \A m \in current[l] : Span(m) \cap Span(n) # {} => m \in Inputs(current, l, Span(n))
      BY <1>4, <3>1, <3>2, InputsJoin
    <3> QED BY <2>2, <3>3 DEF Span
  <2> QED BY <1>3, <2>1, <2>2
<1> HIDE DEF gs
<1>10. AllFiles(gs) = AllFiles(current)
  <2>1. \A m : m \in AllFiles(gs) <=> \E j \in Level : m \in gs[j]
    BY DEF AllFiles
  <2>2. \A m : m \in AllFiles(current) <=> \E j \in Level : m \in current[j]
    BY DEF AllFiles
  <2>3. ASSUME NEW m \in AllFiles(gs) PROVE m \in AllFiles(current)
    BY <1>3, <1>4, <1>8, <2>1, <2>2
  <2>4. ASSUME NEW m \in AllFiles(current) PROVE m \in AllFiles(gs)
    <3>1. CASE m = n BY <1>4, <1>8, <2>1, <3>1
    <3>2. CASE m # n
      <4>1. PICK j \in Level : m \in current[j] BY <2>2
      <4>2. m \in gs[j] BY <1>8, <3>2, <4>1
      <4> QED BY <2>1, <4>2
    <3> QED BY <3>1, <3>2
  <2> QED BY <2>3, <2>4
<1>11. Stored(tables, gs) = Stored(tables, current) BY <1>10 DEF Stored
<1> QED BY <1>1, <1>3, <1>4, <1>6, <1>8, <1>9, <1>11 DEF gs

LEMMA MoveRight ==
  ASSUME Base, Base', LogsRight, HistRight, DiskRight, ViewsRight, TrivialMove
  PROVE  DiskRight' /\ ViewsRight'
<1>1. /\ EditMade /\ edit'.kind # "memtable" /\ UNCHANGED tables
      /\ Stored(tables, Apply(current, edit')) = Stored(tables, current)
  BY MoveIs
<1>2. phase = "up" /\ current = manifest.files
  BY <1>1, EditMadeIs DEF Working, SameVersion
<1>3. DiskRight' BY <1>1, <1>2, DiskEdit DEF DiskRight, Covers
<1>4. ViewsRight' BY <1>1, <1>2, ViewsEdit DEF ViewsRight, View
<1> QED BY <1>3, <1>4

LEMMA LayersMove ==
  ASSUME Base, Base', LogsRight, LayersRight, TrivialMove
  PROVE  LayersRight'
<1> DEFINE gs == Apply(current, edit')
<1>1. /\ UNCHANGED <<tables, manifest, current>> /\ Layered(tables, current) /\ edit' # None
  BY MoveIs, EditMadeIs DEF LayersRight
<1>2. PICK l \in Level : \E n \in current[l] :
        /\ l + 1 \in Level
        /\ \A m \in current[l] \ {n} : KeyRange(tables[m]) \cap KeyRange(tables[n]) = {}
        /\ \A j \in Level : gs[j] =
             IF j = l THEN current[l] \ {n}
             ELSE IF j = l + 1 THEN current[j] \cup {n} ELSE current[j]
  BY MoveIs
<1>3. PICK n \in current[l] :
        /\ l + 1 \in Level
        /\ \A m \in current[l] \ {n} : KeyRange(tables[m]) \cap KeyRange(tables[n]) = {}
        /\ \A j \in Level : gs[j] =
             IF j = l THEN current[l] \ {n}
             ELSE IF j = l + 1 THEN current[j] \cup {n} ELSE current[j]
  BY <1>2
<1> HIDE DEF gs
<1>4. \A j \in Level : \A m \in gs[j] :
        \/ m \in current[j] /\ (j = l => m # n)
        \/ m = n /\ j = l + 1
  BY <1>3
<1>5. l \in Nat /\ \A j \in Level : j \in Nat BY DEF Level
<1>6. \A m \in current[l] : tables[m] \subseteq Entry
  <2>1. \A m \in current[l] : m \in DOMAIN tables
    BY DEF FilesKept, InTables, AllFiles
  <2> QED BY <2>1 DEF TablesOK
<1>7. \A m, k \in gs[0] : m < k => \A e \in tables[m], f \in tables[k] : e.seq < f.seq
  <2>1. 0 # l + 1 /\ 0 \in Level BY <1>5, Bounds
  <2>2. \A m \in gs[0] : m \in current[0] BY <1>4, <2>1
  <2> QED BY <1>1, <2>2 DEF Layered
<1>10. \A i, j \in Level : i < j => \A m \in current[i], k \in current[j] :
         \A e \in tables[m], f \in tables[k] : e.key = f.key => f.seq < e.seq
  BY <1>1 DEF Layered
<1>8. ASSUME NEW i \in Level, NEW j \in Level, i < j, NEW m \in gs[i], NEW k \in gs[j],
             NEW e \in tables[m], NEW f \in tables[k], e.key = f.key
      PROVE  f.seq < e.seq
  <2>1. CASE m \in current[i] /\ k \in current[j]
    BY <1>1, <1>8, <2>1 DEF Layered
  <2>2. CASE m \in current[i] /\ (i = l => m # n) /\ k = n /\ j = l + 1
    <3>1. CASE i = l BY <1>3, <1>6, <1>8, <2>2, <3>1, SameKey
    <3>2. CASE i # l
      <4>1. i < l
        <5>1. i \in Nat /\ l \in Nat /\ i < l + 1 BY <1>5, <1>8, <2>2
        <5> QED BY <3>2, <5>1
      <4>2. k \in current[l] /\ e \in tables[m] /\ f \in tables[k] BY <2>2
      <4> HIDE DEF Level
      <4> QED BY <1>8, <1>10, <2>2, <4>1, <4>2
    <3> QED BY <3>1, <3>2
  <2>3. CASE m = n /\ i = l + 1 /\ k \in current[j]
    <3>1. l < j
      <4>1. j \in Nat /\ l \in Nat /\ l + 1 < j BY <1>5, <1>8, <2>3
      <4> QED BY <4>1
    <3>2. m \in current[l] /\ e \in tables[m] /\ f \in tables[k] BY <2>3
    <3> QED BY <1>8, <1>10, <2>3, <3>1, <3>2
  <2>4. CASE i = l + 1 /\ j = l + 1 BY <1>5, <1>8, <2>4
  <2> QED BY <1>4, <2>1, <2>2, <2>3, <2>4
<1>9. Layered(tables, gs) BY <1>7, <1>8 DEF Layered
<1> QED BY <1>1, <1>9 DEF LayersRight, gs

\* The oldest sequence number that is still read from, which only grows.
LEMMA SmallestIs ==
  ASSUME Base
  PROVE  /\ SmallestSnapshot \in Nat /\ last \in Nat
         /\ held = {} => SmallestSnapshot = last
         /\ held # {} => SmallestSnapshot \in held
         /\ \A s \in held : SmallestSnapshot <= s /\ s \in Nat
<1>1. held \in SUBSET Nat /\ last \in Nat BY Bounds DEF ClientsOK, MemOK
<1>2. CASE held = {} BY <1>1, <1>2 DEF SmallestSnapshot
<1>3. CASE held # {} BY <1>1, <1>3, SmallestExists DEF SmallestSnapshot
<1> QED BY <1>1, <1>2, <1>3

LEMMA SmallestGrows ==
  ASSUME Base, Base', HistRight, held' \subseteq held \cup {last}, last <= last'
  PROVE  SmallestSnapshot <= SmallestSnapshot' /\ SmallestSnapshot' \in Nat
<1>1. /\ SmallestSnapshot \in Nat /\ last \in Nat
      /\ held = {} => SmallestSnapshot = last
      /\ held # {} => SmallestSnapshot \in held
      /\ \A s \in held : SmallestSnapshot <= s /\ s \in Nat
  BY SmallestIs
<1>2. /\ SmallestSnapshot' \in Nat /\ last' \in Nat
      /\ held' = {} => SmallestSnapshot' = last'
      /\ held' # {} => SmallestSnapshot' \in held'
  <2>1. \A s \in held' : s \in Nat BY <1>1
  <2>2. last' \in Nat BY Bounds DEF MemOK
  <2>3. CASE held' = {} BY <2>2, <2>3 DEF SmallestSnapshot
  <2>4. CASE held' # {}
    <3>1. held' \in SUBSET Nat BY <2>1
    <3>2. \E s \in held' : \A t \in held' : s <= t
      BY <2>4, <3>1, SmallestExists
    <3> QED BY <2>1, <2>2, <2>4, <3>2 DEF SmallestSnapshot
  <2> QED BY <2>3, <2>4
<1>3. SmallestSnapshot <= last
  <2>1. \A s \in held : s <= last BY DEF HistRight
  <2> QED BY <1>1, <2>1
<1>4. \A s \in held \cup {last} : SmallestSnapshot <= s BY <1>1, <1>3
<1> QED BY <1>1, <1>2, <1>3, <1>4

\* Readers need no more than what there is.
LEMMA CompleteSooner ==
  ASSUME NEW E, NEW W, NEW small, NEW sooner, Complete(E, W, small),
         \A w \in W : w.seq <= sooner
  PROVE  Complete(E, W, sooner)
BY DEF Complete

LEMMA ViewsInit == Init => ViewsRight
BY DEF Init, ViewsRight

LEMMA ViewsOpening ==
  ASSUME Base, Base', LogsRight, HistRight, DiskRight, DiskRight',
         Recover \/ RecoverLogFile \/ NewLog \/ OpenDone
  PROVE  ViewsRight'
<1>1. CASE Recover \/ RecoverLogFile \/ NewLog
  <2>1. phase' # "up" BY <1>1 DEF Recover, RecoverLogFile, NewLog
  <2> QED BY <2>1 DEF ViewsRight
<1>2. CASE OpenDone
  <2>1. /\ phase = "opening" /\ phase' = "up" /\ mem' = {} /\ imm' = {} /\ held' = {}
        /\ hist' = hist /\ last' = last /\ edit' = None
        /\ manifest'.log = logfile' /\ manifest'.files = current'
        /\ Recorded(logs', logfile') = {}
    BY <1>2, OpenedIs DEF OpenDone
  <2>2. Flushed(hist', logs', manifest'.log) = Writes(hist) BY <2>1 DEF Flushed
  <2>3. Complete(Stored(tables', current'), Writes(hist), MaxSeq)
    BY <2>1, <2>2 DEF DiskRight, Covers
  <2>4. Complete(Stored(tables', current'), Writes(hist), last)
    BY <2>1, <2>3, WritesKnown, CompleteSooner
  <2>5. SmallestSnapshot' = last BY <2>1 DEF SmallestSnapshot
  <2>6. mem' \cup imm' \cup Stored(tables', current') = Stored(tables', current')
    BY <2>1
  <2>7. View(imm, current)' BY <2>1, <2>4, <2>5, <2>6 DEF View
  <2> QED BY <2>1, <2>7 DEF ViewsRight
<1> QED BY <1>1, <1>2

LEMMA ViewsSwitch ==
  ASSUME Base, Base', LogsRight, HistRight, ViewsRight, SwitchMemTable
  PROVE  ViewsRight'
<1>1. /\ phase = "up" /\ imm = {} /\ imm' = mem /\ mem' = {}
      /\ UNCHANGED <<tables, current, edit, hist, held, last>>
  BY DEF SwitchMemTable, Ready, clientVars, observers
<1>2. SmallestSnapshot' = SmallestSnapshot BY <1>1 DEF SmallestSnapshot
<1>3. edit # None => ImmAfter = {} /\ ImmAfter' = mem
  BY <1>1 DEF LogsRight, ImmAfter
<1>4. mem' \cup imm' = mem \cup imm BY <1>1
<1>5. View(imm, current)' BY <1>1, <1>2, <1>4 DEF ViewsRight, View
<1>6. ASSUME edit # None PROVE View(ImmAfter, Apply(current, edit))'
  <2>1. View({}, Apply(current, edit)) BY <1>1, <1>3, <1>6 DEF ViewsRight
  <2>2. mem \cup {} \cup Stored(tables, Apply(current, edit))
          = mem' \cup ImmAfter' \cup Stored(tables', Apply(current', edit'))
    BY <1>1, <1>3, <1>6
  <2> QED BY <1>1, <1>2, <1>3, <1>6, <2>1, <2>2 DEF View
<1> QED BY <1>1, <1>5, <1>6 DEF ViewsRight

\* Steps that leave what there is alone, while time goes on for the readers.
LEMMA ViewsLater ==
  ASSUME Base, Base', HistRight, ViewsRight, Next \/ UNCHANGED vars,
         UNCHANGED <<mem, imm, current, edit, phase>>, Writes(hist') = Writes(hist),
         held' \subseteq held \cup {last}, last <= last'
  PROVE  ViewsRight'
<1> SUFFICES ASSUME phase = "up" PROVE ViewsRight'
  BY DEF ViewsRight
<1>1. /\ SmallestSnapshot <= SmallestSnapshot' /\ SmallestSnapshot \in Nat
      /\ SmallestSnapshot' \in Nat
  BY SmallestGrows, SmallestIs
<1>2. Writes(hist) \subseteq AnyEntry BY WritesAre, Bounds DEF ClientsOK
<1>3. /\ AllFiles(current) \subseteq DOMAIN tables'
      /\ edit # None => AllFiles(Apply(current, edit)) \subseteq DOMAIN tables'
  <2>1. edit # None => edit \in AnEdit /\ current \in Files
    BY DEF PhaseOK, MemOK
  <2>2. edit # None => AllFiles(Apply(current, edit)) \subseteq AllFiles(current) \cup AllFiles(edit.add)
    BY <2>1, FilesOf
  <2>3. AllFiles(current) \subseteq DOMAIN tables' /\ (edit # None => AllFiles(edit.add) \subseteq DOMAIN tables')
    BY <2>1 DEF FilesKept, InTables
  <2> QED BY <2>2, <2>3
<1>4. /\ Stored(tables', current) = Stored(tables, current)
      /\ edit # None => Stored(tables', Apply(current, edit)) = Stored(tables, Apply(current, edit))
  BY <1>3, KnownAre, KnownSame
<1>5. \A i, fs : View(i, fs) =>
        Complete(mem \cup i \cup Stored(tables, fs), Writes(hist), SmallestSnapshot')
  BY <1>1, <1>2, CompleteLater DEF View
<1>6. View(imm, current)' BY <1>4, <1>5 DEF ViewsRight, View
<1>7. ASSUME edit # None PROVE View(ImmAfter, Apply(current, edit))'
  <2>1. ImmAfter' = ImmAfter BY DEF ImmAfter
  <2>2. View(ImmAfter, Apply(current, edit)) BY <1>7 DEF ViewsRight
  <2> QED BY <1>4, <1>5, <1>7, <2>1, <2>2 DEF View
<1> QED BY <1>6, <1>7 DEF ViewsRight

LEMMA ViewsQuiet ==
  ASSUME Base, Base', HistRight, ViewsRight, QuietStep
  PROVE  ViewsRight'
<1>1. Next \/ UNCHANGED vars BY DEF QuietStep, Next
<1>2. UNCHANGED <<mem, imm, current, edit, phase, hist, last>> BY QuietIs
<1>3. held' \subseteq held \cup {last} BY HoldersQuiet
<1>4. last <= last' BY <1>2, Bounds DEF MemOK
<1>5. Writes(hist') = Writes(hist) BY <1>2
<1> QED BY <1>1, <1>2, <1>3, <1>4, <1>5, ViewsLater

LEMMA ViewsAdded ==
  ASSUME Base, Base', LogsRight, HistRight, ViewsRight, "torn" \notin Faults,
         NEW k \in Key, NEW del \in Deletes, NEW sync \in SyncOptions,
         Adding(k, del, sync)
  PROVE  ViewsRight'
<1>1. Next BY DEF Next
<1>2. /\ UNCHANGED <<mem, imm, current, edit, phase, held>>
      /\ last \in Nat /\ (last' = last \/ last' = last + 1)
      /\ Writes(hist') = Writes(hist)
  BY AddedIs
<1>3. last <= last' /\ held' \subseteq held \cup {last} BY <1>2
<1> QED BY <1>1, <1>2, <1>3, ViewsLater

\* The entry of a write comes to the memtable.
LEMMA ViewsEnds ==
  ASSUME Base, Base', LogsRight, HistRight, ViewsRight, WriteDone \/ SyncFails
  PROVE  ViewsRight'
<1>1. /\ phase = "up" /\ phase' = "up" /\ last \in Nat /\ last' = last + 1
      /\ UNCHANGED <<tables, imm, current, held, edit>>
      /\ WriteDone => mem' = mem \cup {writer.entry}
      /\ ~WriteDone => mem' = mem
  BY EndsIs
<1>2. /\ WriteDone => Writes(hist') = Writes(hist) \cup {writer.entry}
      /\ ~WriteDone => Writes(hist') = Writes(hist)
      /\ writer.entry.seq = last + 1
  BY EndsWrites
<1>3. Next BY DEF Next
<1>4. last <= last' /\ held' \subseteq held \cup {last} BY <1>1
<1>5. CASE ~WriteDone BY <1>1, <1>2, <1>3, <1>4, <1>5, ViewsLater
<1>6. CASE WriteDone
  <2>1. /\ SmallestSnapshot <= SmallestSnapshot' /\ SmallestSnapshot \in Nat
        /\ SmallestSnapshot' \in Nat
    BY <1>4, SmallestGrows, SmallestIs
  <2>2. Writes(hist) \subseteq AnyEntry BY WritesAre, Bounds DEF ClientsOK
  <2>3. \A w \in Writes(hist) : w.seq < writer.entry.seq
    <3>1. \A w \in Writes(hist) : w.seq \in Nat /\ w.seq <= last
      BY <1>1, WritesKnown
    <3> QED BY <1>1, <1>2, <3>1
  <2>4. ASSUME NEW i, NEW fs, View(i, fs), UNCHANGED tables PROVE View(i, fs)'
    <3> DEFINE E == mem \cup i \cup Stored(tables, fs)
               W == Writes(hist)
               N == {writer.entry}
    <3>1. Complete(E, W, SmallestSnapshot) BY <2>4 DEF View
    <3>2. \A w \in W, n \in N : w.seq < n.seq BY <2>3
    <3>3. E \subseteq W BY <3>1 DEF Complete
    <3>4. W \subseteq AnyEntry BY <2>2
    <3>5. mem' \cup i \cup Stored(tables', fs) = E \cup N BY <1>1, <1>6, <2>4
    <3>6. Writes(hist') = W \cup N BY <1>2, <1>6
    <3>7. mem' = mem \cup N BY <1>1, <1>6
    <3>8. i \subseteq E /\ Stored(tables, fs) \subseteq E OBVIOUS
    <3>9. /\ \A e \in Stored(tables, fs), f \in i \cup mem : e.seq < f.seq
          /\ \A e \in i, f \in mem : e.seq < f.seq
      BY <2>4 DEF View
    <3> HIDE DEF E, W, N
    <3>10. Complete(E, W, SmallestSnapshot') BY <2>1, <3>1, <3>4, CompleteLater
    <3>11. Complete(E \cup N, W \cup N, SmallestSnapshot')
      BY <3>2, <3>10, CompleteWith
    <3>12. \A e \in E, n \in N : e.seq < n.seq BY <3>2, <3>3
    <3>13. /\ \A e \in Stored(tables, fs), f \in i \cup mem' : e.seq < f.seq
           /\ \A e \in i, f \in mem' : e.seq < f.seq
      BY <3>7, <3>8, <3>9, <3>12
    <3> QED BY <2>4, <3>5, <3>6, <3>11, <3>13 DEF View
  <2>5. View(imm, current)'
    <3>1. View(imm, current) BY <1>1 DEF ViewsRight
    <3>2. imm' = imm /\ current' = current /\ UNCHANGED tables BY <1>1
    <3> QED BY <2>4, <3>1, <3>2 DEF View
  <2>6. ASSUME edit # None PROVE View(ImmAfter, Apply(current, edit))'
    <3>1. View(ImmAfter, Apply(current, edit)) BY <1>1, <2>6 DEF ViewsRight
    <3>2. ImmAfter' = ImmAfter /\ Apply(current', edit') = Apply(current, edit) /\ UNCHANGED tables
      BY <1>1 DEF ImmAfter
    <3> DEFINE i == ImmAfter
               fs == Apply(current, edit)
    <3>3. View(i, fs) /\ ImmAfter' = i /\ Apply(current', edit') = fs
      BY <3>1, <3>2
    <3> HIDE DEF i, fs
    <3>4. View(ImmAfter, Apply(current, edit))' <=>
            /\ Complete(mem' \cup i \cup Stored(tables', fs), Writes(hist'), SmallestSnapshot')
            /\ \A e \in Stored(tables', fs), f \in i \cup mem' : e.seq < f.seq
            /\ \A e \in i, f \in mem' : e.seq < f.seq
      BY <3>3 DEF View
    <3> QED BY <2>4, <3>2, <3>3, <3>4 DEF View
  <2> QED BY <1>1, <2>5, <2>6 DEF ViewsRight
<1> QED BY <1>5, <1>6

\* The edit becomes the version.
LEMMA ViewsInstalled ==
  ASSUME Base, Base', LogsRight, ViewsRight, LogAndApply
  PROVE  ViewsRight'
<1>1. /\ phase = "up" /\ phase' = "up" /\ edit # None /\ edit' = None
      /\ current' = Apply(current, edit)
      /\ UNCHANGED <<mem, held, last, hist>>
      /\ imm' = (IF edit.kind = "memtable" THEN {} ELSE imm)
  BY InstalledIs
<1>2. SmallestSnapshot' = SmallestSnapshot /\ imm' = ImmAfter
  BY <1>1 DEF SmallestSnapshot, ImmAfter
<1>3. Stored(tables', Apply(current, edit)) = Stored(tables, Apply(current, edit))
  <2>1. AllFiles(Apply(current, edit)) \subseteq DOMAIN tables'
    BY <1>1 DEF FilesKept, InTables
  <2> QED BY <1>1, <2>1, KnownAre, KnownSame DEF Next
<1>4. View(ImmAfter, Apply(current, edit)) BY <1>1 DEF ViewsRight
<1>5. View(imm, current)' BY <1>1, <1>2, <1>3, <1>4 DEF View
<1> QED BY <1>1, <1>5 DEF ViewsRight

LEMMA ViewsFailed ==
  ASSUME "torn" \notin Faults, "nested" \notin Faults,
         Base, Base', LogsRight, ViewsRight, LogAndApplyFails
  PROVE  ViewsRight'
<1>1. /\ phase = "up" /\ edit' = None
      /\ UNCHANGED <<tables, mem, imm, current, held, last, hist>>
  BY FailedIs
<1>2. SmallestSnapshot' = SmallestSnapshot BY <1>1 DEF SmallestSnapshot
<1>3. View(imm, current)' BY <1>1, <1>2 DEF View, ViewsRight
<1> QED BY <1>1, <1>3 DEF ViewsRight

LEMMA ViewsCrash == ASSUME Types, Ending PROVE ViewsRight'
BY CrashIs DEF ViewsRight

--------------------
\* The compaction that runs.

LEMMA JobsInit == Init => JobsRight
BY DEF Init, JobsRight

LEMMA JobNone == ASSUME job' = None PROVE JobsRight'
BY DEF JobsRight

\* What a compaction has depends on its tables.
LEMMA JobSame ==
  ASSUME NEW t, NEW u, NEW j \in AJob,
         j.above \subseteq j.base[j.level], j.below \subseteq j.base[j.level + 1],
         \A n \in AllFiles(j.base) \cup j.outputs : u[n] = t[n]
  PROVE  /\ InputsOf(u, j) = InputsOf(t, j) /\ OutputsOf(u, j) = OutputsOf(t, j)
         /\ BaseOf(u, j) = BaseOf(t, j)
         /\ \A cur : (\A n \in AllFiles(cur) : u[n] = t[n]) =>
              (JobRight(t, cur, j) => JobRight(u, cur, j))
<1>1. /\ j.level \in Level /\ j.level + 1 \in Level /\ j.base \in Files
      /\ \A l \in (j.level + 2)..(NumLevels - 1) : l \in Level
  BY Bounds DEF AJob, Level
<1>2. \A l \in Level : \A n \in j.base[l] : u[n] = t[n] BY DEF AllFiles
<1>3. \A n \in j.above \cup j.below : u[n] = t[n] BY <1>1, <1>2
<1>4. InputsOf(u, j) = InputsOf(t, j) BY <1>3 DEF InputsOf
<1>5. OutputsOf(u, j) = OutputsOf(t, j) BY DEF OutputsOf
<1>6. BaseOf(u, j) = BaseOf(t, j)
  <2>1. \A l \in (j.level + 2)..(NumLevels - 1) : \A n \in j.base[l] : u[n] = t[n]
    BY <1>1, <1>2
  <2>2. \A k : k \in BaseOf(u, j) <=> k \in BaseOf(t, j) BY <2>1 DEF BaseOf
  <2> QED BY <2>2
<1>7. ASSUME NEW cur, \A n \in AllFiles(cur) : u[n] = t[n], JobRight(t, cur, j)
      PROVE  JobRight(u, cur, j)
  <2>1. \A l \in Level : \A n \in cur[l] : u[n] = t[n] BY <1>7 DEF AllFiles
  <2>2. \A n \in cur[j.level] : u[n] = t[n] BY <1>1, <2>1
  <2> QED BY <1>4, <1>5, <1>6, <1>7, <2>1, <2>2 DEF JobRight
<1> QED BY <1>4, <1>5, <1>6, <1>7

\* The tables of a compaction that goes on stay.
LEMMA JobTablesStay ==
  ASSUME Base, Base', JobsRight, Next \/ UNCHANGED vars, job # None,
         job'.base = job.base, job'.outputs = job.outputs, job' # None
  PROVE  /\ \A n \in AllFiles(job.base) \cup job.outputs : tables'[n] = tables[n]
         /\ job \in AJob /\ job.above \subseteq job.base[job.level]
         /\ job.below \subseteq job.base[job.level + 1]
<1>1. job \in AJob /\ job' \in AJob BY DEF ClientsOK
<1>2. /\ job.base \in Files /\ InTables(job.base) /\ Below(AllFiles(job.base), next)
      /\ job.outputs \subseteq DOMAIN tables /\ Below(job.outputs, next)
      /\ job.outputs \in SUBSET FileNumber
      /\ job.above \subseteq job.base[job.level]
      /\ job.below \subseteq job.base[job.level + 1]
  BY <1>1 DEF AJob, FilesKept, JobsRight, Fresh
<1>3. AllFiles(job.base) \subseteq DOMAIN tables' /\ job.outputs \subseteq DOMAIN tables'
  BY <1>1 DEF FilesKept, InTables
<1>4. \A n \in AllFiles(job.base) : tables'[n] = tables[n]
  BY <1>2, <1>3, KnownStay DEF Known
<1> DEFINE fs == At(0, job.outputs)
<1>5. fs \in Files /\ AllFiles(fs) = job.outputs BY <1>2, AtIs, FilesOf, Bounds
<1> HIDE DEF fs
<1>6. \A n \in job.outputs : tables'[n] = tables[n]
  BY <1>2, <1>3, <1>5, KnownStay DEF Known, InTables
<1> QED BY <1>1, <1>2, <1>4, <1>6

\* Steps that leave the compaction alone.
LEMMA JobsLater ==
  ASSUME Base, Base', HistRight, JobsRight, Next \/ UNCHANGED vars,
         phase = "up", phase' = "up",
         job' = job, current' = current, edit' = edit,
         held' \subseteq held \cup {last}, last <= last', next <= next'
  PROVE  JobsRight'
<1> SUFFICES ASSUME job # None PROVE JobsRight'
  BY DEF JobsRight
<1>1. /\ \A n \in AllFiles(job.base) \cup job.outputs : tables'[n] = tables[n]
      /\ job \in AJob /\ job.above \subseteq job.base[job.level]
      /\ job.below \subseteq job.base[job.level + 1]
  BY JobTablesStay
<1>2. job'.smallest <= SmallestSnapshot'
  <2>1. SmallestSnapshot <= SmallestSnapshot' /\ SmallestSnapshot' \in Nat
    BY SmallestGrows
  <2>2. job.smallest \in Nat /\ SmallestSnapshot \in Nat
    BY <1>1, SmallestIs, Bounds DEF AJob
  <2> QED BY <2>1, <2>2 DEF JobsRight
<1>3. Below(AllFiles(job.base), next')
  <2>1. AllFiles(job.base) \in SUBSET FileNumber BY <1>1, FilesAre DEF AJob
  <2>2. next \in Nat /\ next' \in Nat BY DEF MemOK
  <2> QED BY <2>1, <2>2, BelowIs DEF JobsRight
<1>4. /\ \A n \in AllFiles(current) : tables'[n] = tables[n]
      /\ edit # None => \A n \in AllFiles(Apply(current, edit)) : tables'[n] = tables[n]
  <2>1. edit # None => edit \in AnEdit /\ current \in Files
    BY DEF PhaseOK, MemOK
  <2>2. edit # None => AllFiles(Apply(current, edit)) \subseteq AllFiles(current) \cup AllFiles(edit.add)
    BY <2>1, FilesOf
  <2>3. AllFiles(current) \subseteq DOMAIN tables' /\ (edit # None => AllFiles(edit.add) \subseteq DOMAIN tables')
    BY <2>1 DEF FilesKept, InTables
  <2>4. edit # None => AllFiles(Apply(current, edit)) \subseteq DOMAIN tables'
    BY <2>2, <2>3
  <2> QED BY <2>3, <2>4, KnownAre, KnownStay
<1>5. JobRight(tables', current, job) BY <1>1, <1>4, JobSame DEF JobsRight
<1>6. edit # None /\ edit.kind = "memtable" => JobRight(tables', Apply(current, edit), job)
  BY <1>1, <1>4, JobSame DEF JobsRight
<1> QED BY <1>2, <1>3, <1>5, <1>6 DEF JobsRight

\* DoCompactionWork: the outputs together are what is kept of the inputs.
LEMMA PiecesCover ==
  ASSUME NEW E, E \subseteq Entry, Single(E), NEW ends \in Ends(E), NEW f \in E
  PROVE  \E e \in ends : f \in Piece(E, ends, e)
<1>1. Final(E) \in E /\ \A g \in E \ {Final(E)} : Precedes(g, Final(E))
  BY EndsExist
<1>2. \A g, h \in E : /\ ~(Precedes(g, h) /\ Precedes(h, g)) /\ ~Precedes(g, g)
                      /\ g # h => Precedes(g, h) \/ Precedes(h, g)
  <2> SUFFICES ASSUME NEW g \in E, NEW h \in E
               PROVE  /\ ~(Precedes(g, h) /\ Precedes(h, g)) /\ ~Precedes(g, g)
                      /\ g # h => Precedes(g, h) \/ Precedes(h, g)
    OBVIOUS
  <2>1. g.key \in Int /\ g.seq \in Int /\ h.key \in Int /\ h.seq \in Int
    BY DEF Single, AnyEntry
  <2>2. g # h => g.key # h.key \/ g.seq # h.seq BY DEF Single
  <2> QED BY <2>1, <2>2 DEF Precedes
<1>3. ends \subseteq E /\ Final(E) \in ends
  <2>1. \A g \in E : ~Precedes(Final(E), g) BY <1>1, <1>2
  <2> QED BY <1>1, <2>1 DEF Ends
<1> DEFINE D == {e \in ends : ~Precedes(e, f)}
<1>4. D \subseteq E /\ D # {} /\ Single(D)
  <2>1. ~Precedes(Final(E), f) BY <1>1, <1>2
  <2> QED BY <1>3, <2>1 DEF Single
<1>5. First(D) \in D /\ \A e \in D \ {First(D)} : Precedes(First(D), e)
  <2> HIDE DEF D
  <2> QED BY <1>4, EndsExist
<1> DEFINE e == First(D)
<1>6. e \in ends /\ ~Precedes(e, f) /\ e \in E BY <1>3, <1>5
<1>7. \A d \in ends : Precedes(d, e) => Precedes(d, f)
  <2> SUFFICES ASSUME NEW d \in ends, Precedes(d, e), ~Precedes(d, f) PROVE FALSE
    OBVIOUS
  <2>1. d \in D /\ d \in E BY <1>3
  <2>2. d = e \/ Precedes(e, d) BY <1>5, <2>1
  <2> HIDE DEF e, D
  <2> QED BY <1>2, <1>6, <2>1, <2>2
<1> HIDE DEF e, D
<1> QED BY <1>6, <1>7 DEF Piece

LEMMA MergedIs ==
  /\ Merged = Kept(InputsOf(tables, job), job.smallest, BaseOf(tables, job))
  /\ Merged \subseteq InputsOf(tables, job)
<1>1. BaseKeys = BaseOf(tables, job) BY DEF BaseKeys, BaseOf, Span
<1>2. Merged = Kept(InputsOf(tables, job), job.smallest, BaseOf(tables, job))
  BY <1>1 DEF Merged, InputsOf
<1> QED BY <1>2 DEF Kept

LEMMA InputsStored ==
  ASSUME Base, job # None
  PROVE  /\ InputsOf(tables, job) \subseteq Stored(tables, current)
         /\ \A i \in InputsOf(tables, job) : \E l \in {job.level, job.level + 1} :
              l \in Level /\ \E n \in current[l] :
                i \in tables[n] /\ (l = job.level => n \in job.above)
                                /\ (l = job.level + 1 => n \in job.below)
<1>1. /\ job.level \in Level /\ job.level + 1 \in Level /\ job.level # job.level + 1
      /\ job.above \subseteq current[job.level] /\ job.below \subseteq current[job.level + 1]
  BY JobFiles DEF LevelsOK, JobOK, ClientsOK, Level
<1>2. \A i \in InputsOf(tables, job) : \E n \in job.above \cup job.below : i \in tables[n]
  BY DEF InputsOf
<1>3. \A i \in InputsOf(tables, job) : \E l \in {job.level, job.level + 1} :
        l \in Level /\ \E n \in current[l] :
          i \in tables[n] /\ (l = job.level => n \in job.above)
                          /\ (l = job.level + 1 => n \in job.below)
  <2> SUFFICES ASSUME NEW i \in InputsOf(tables, job)
               PROVE  \E l \in {job.level, job.level + 1} :
                        l \in Level /\ \E n \in current[l] :
                          i \in tables[n] /\ (l = job.level => n \in job.above)
                                          /\ (l = job.level + 1 => n \in job.below)
    OBVIOUS
  <2>1. PICK n \in job.above \cup job.below : i \in tables[n] BY <1>2
  <2>2. CASE n \in job.above BY <1>1, <2>1, <2>2
  <2>3. CASE n \in job.below BY <1>1, <2>1, <2>3
  <2> QED BY <2>2, <2>3
<1>4. InputsOf(tables, job) \subseteq Stored(tables, current) BY <1>3, StoredIs
<1> QED BY <1>3, <1>4

\* What a compaction has written.
LEMMA OutputsAll ==
  ASSUME Base, ViewsRight, WriteOutputs
  PROVE  \E made \in SUBSET FileNumber :
           /\ job' = [job EXCEPT !.outputs = made, !.built = TRUE]
           /\ UNION {tables'[n] : n \in made} = Merged
<1>1. phase = "up" /\ job # None /\ edit = None BY OutputsAre
<1> DEFINE before(ends, e) == Cardinality({d \in ends : Precedes(d, e)})
           numbers(ends) == {next + before(ends, e) : e \in ends}
<1>2. PICK ends \in Ends(Merged) :
        /\ numbers(ends) \subseteq FileNumber
        /\ tables' = [n \in DOMAIN tables \cup numbers(ends) |->
             IF n \in numbers(ends)
             THEN Piece(Merged, ends,
                        CHOOSE e \in ends : next + before(ends, e) = n)
             ELSE tables[n]]
        /\ job' = [job EXCEPT !.outputs = numbers(ends), !.built = TRUE]
  BY DEF WriteOutputs
<1>3. Merged \subseteq Entry /\ IsFiniteSet(Merged) /\ Single(Merged)
  <2>1. Merged \subseteq Entry /\ IsFiniteSet(Merged) BY <1>1, MergedIn
  <2>2. Merged \subseteq Writes(hist)
    BY <1>1, MergedIs, InputsStored DEF ViewsRight, View, Complete
  <2>3. Single(Writes(hist)) BY WritesAre DEF ClientsOK
  <2> QED BY <2>1, <2>2, <2>3 DEF Single
<1>4. ends \subseteq Merged /\ IsFiniteSet(ends) /\ ends \subseteq Entry
  <2>1. ends \subseteq Merged BY DEF Ends
  <2> QED BY <1>3, <2>1, FS_Subset
<1>5. \A e \in ends : IsFiniteSet({d \in ends : Precedes(d, e)}) /\ before(ends, e) \in Nat
  <2> SUFFICES ASSUME NEW e \in ends
               PROVE  IsFiniteSet({d \in ends : Precedes(d, e)}) /\ before(ends, e) \in Nat
    OBVIOUS
  <2>1. {d \in ends : Precedes(d, e)} \subseteq ends OBVIOUS
  <2>2. IsFiniteSet({d \in ends : Precedes(d, e)}) BY <1>4, <2>1, FS_Subset
  <2> QED BY <2>2, FS_CardinalityType
<1>6. ASSUME NEW e \in ends, NEW f \in ends, Precedes(e, f)
      PROVE  before(ends, e) < before(ends, f)
  <2> DEFINE D == {d \in ends : Precedes(d, e)}
             F == {d \in ends : Precedes(d, f)}
  <2>1. \A d \in ends : d.key \in Int /\ d.seq \in Int
    BY <1>4, Bounds DEF AnyEntry
  <2>2. \A d \in ends : Precedes(d, e) => Precedes(d, f)
    BY <1>6, <2>1 DEF Precedes
  <2>3. ~Precedes(e, e) BY <2>1 DEF Precedes
  <2>4. D \subseteq F /\ e \in F /\ e \notin D BY <1>6, <2>2, <2>3
  <2>5. IsFiniteSet(F) /\ Cardinality(F) \in Nat /\ Cardinality(D) \in Nat
    BY <1>5
  <2>6. Cardinality(D) <= Cardinality(F) /\ (Cardinality(D) = Cardinality(F) => D = F)
    <3> HIDE DEF D, F
    <3> QED BY <2>4, <2>5, FS_Subset
  <2>7. Cardinality(D) < Cardinality(F)
    <3> HIDE DEF D, F
    <3> QED BY <2>4, <2>5, <2>6
  <2> QED BY <2>7
<1>7. next \in Nat BY DEF MemOK
<1>8. ASSUME NEW e \in ends, NEW f \in ends, next + before(ends, e) = next + before(ends, f)
      PROVE  e = f
  <2>1. before(ends, e) \in Nat /\ before(ends, f) \in Nat BY <1>5
  <2>2. ~(before(ends, e) < before(ends, f)) /\ ~(before(ends, f) < before(ends, e))
    <3> HIDE DEF before
    <3> QED BY <1>7, <1>8, <2>1
  <2>3. ~Precedes(e, f) /\ ~Precedes(f, e)
    <3> HIDE DEF before
    <3> QED BY <1>6, <2>2
  <2>4. e \in Merged /\ f \in Merged /\ e.key \in Int /\ f.key \in Int /\ e.seq \in Int /\ f.seq \in Int
    BY <1>4, Bounds DEF AnyEntry
  <2>5. e.key = f.key /\ e.seq = f.seq BY <2>3, <2>4 DEF Precedes
  <2> QED BY <1>3, <2>4, <2>5 DEF Single
<1> DEFINE made == numbers(ends)
<1>9. \A e \in ends : tables'[next + before(ends, e)] = Piece(Merged, ends, e)
  <2> SUFFICES ASSUME NEW e \in ends
               PROVE  tables'[next + before(ends, e)] = Piece(Merged, ends, e)
    OBVIOUS
  <2> DEFINE n == next + before(ends, e)
  <2>1. n \in made OBVIOUS
  <2>2. tables'[n] = Piece(Merged, ends, CHOOSE f \in ends : next + before(ends, f) = n)
    <3> HIDE DEF before, n
    <3> QED BY <1>2, <2>1
  <2>3. (CHOOSE f \in ends : next + before(ends, f) = n) = e
    <3> HIDE DEF before
    <3> QED BY <1>8
  <2> HIDE DEF n, before
  <2> QED BY <2>2, <2>3 DEF n
<1>10. \A f : f \in UNION {tables'[n] : n \in made} <=> \E e \in ends : f \in Piece(Merged, ends, e)
  <2> HIDE DEF before
  <2> QED BY <1>9
<1>11. UNION {tables'[n] : n \in made} = Merged
  <2> HIDE DEF made
  <2>1. \A e \in ends : Piece(Merged, ends, e) \subseteq Merged BY DEF Piece
  <2>2. \A f \in Merged : \E e \in ends : f \in Piece(Merged, ends, e)
    BY <1>3, PiecesCover
  <2> QED BY <1>10, <2>1, <2>2
<1>12. made \in SUBSET FileNumber /\ job' = [job EXCEPT !.outputs = made, !.built = TRUE]
  <2> HIDE DEF before
  <2> QED BY <1>2
<1> HIDE DEF made
<1> QED BY <1>11, <1>12

\* The other files of the level share no key with those a compaction takes.
LEMMA ClosedApart ==
  ASSUME Types, InTables(current), NEW ks \in SUBSET Key, Convex(ks), ks # {},
         NEW n \in Closure(current, ks), NEW m \in current[0], m \notin Closure(current, ks)
  PROVE  Span(m) \cap Span(n) = {}
<1>1. \A k \in current[0] : Span(k) \in SUBSET Key /\ Convex(Span(k))
  BY SpansAre, Bounds DEF MemOK
<1> DEFINE r == ks \cup Ranges(tables, Closure(current, ks))
<1>2. Closure(current, ks) = {k \in current[0] : Span(k) \cap r # {}}
  BY <1>1, ClosureIs
<1>3. Span(n) \subseteq r BY RangesIs DEF Span
<1> HIDE DEF r
<1> QED BY <1>2, <1>3

LEMMA AboveApart ==
  ASSUME ~Manual, Types, InTables(current), DisjointIn(tables, current),
         NEW l \in Level, NEW seed \in Seeds(l), NEW in \in OtherInputs(l, seed),
         in[1] \subseteq current[l],
         NEW n \in in[1], NEW m \in current[l], m \notin in[1]
  PROVE  Span(m) \cap Span(n) = {}
<1> DEFINE below == Inputs(current, l + 1, RangeOf(seed))
           R == RangeOf(seed \cup below)
           wider == Inputs(current, l, R)
<1>1. CASE l # 0 BY <1>1 DEF DisjointIn, Span
<1>2. CASE l = 0
  <2>1. \A k \in current[0] : Span(k) \in SUBSET Key /\ Convex(Span(k)) /\ Span(k) # {}
    BY SpansAre, Bounds DEF MemOK
  <2>2. PICK k \in current[0] : seed = Closure(current, Span(k))
    BY <1>2 DEF Seeds, Inputs
  <2>3. in[1] = seed \/ in[1] = wider
    <3>1. in \in {<<seed, below>>, <<wider, below>>} BY DEF OtherInputs
    <3> HIDE DEF wider, below
    <3> QED BY <3>1
  <2>4. CASE in[1] = seed BY <1>2, <2>1, <2>2, <2>4, ClosedApart
  <2>5. CASE in[1] = wider
    <3>1. wider = Closure(current, R) BY <1>2 DEF Inputs
    <3>2. R \in SUBSET Key /\ Convex(R) /\ R # {}
      <4> DEFINE K == Ranges(tables, seed) \cap Key
      <4>1. seed \subseteq current[0] /\ seed # {} /\ Ranges(tables, seed) # {}
            /\ Ranges(tables, seed) \in SUBSET Key
        BY <1>2, SeedHangs
      <4> HIDE DEF below
      <4> DEFINE A == {h \in Ranges(tables, seed \cup below) : h \in Key}
      <4>2. Ranges(tables, seed) \subseteq A
        <5>1. Ranges(tables, seed) \subseteq Ranges(tables, seed \cup below)
          BY RangesIs
        <5> QED BY <4>1, <5>1
      <4>3. Ranges(tables, seed \cup below) \in SUBSET Key
        <5>1. below \subseteq current[l + 1]
          BY <1>2, InputsIn, Bounds DEF below, MemOK, Level
        <5>2. \A h \in seed \cup below : KeyRange(tables[h]) \in SUBSET Key
          <6>1. l + 1 \in Level BY <1>2, Bounds DEF Level
          <6>2. \A h \in current[l + 1] : Span(h) \in SUBSET Key
            BY <6>1, SpansAre DEF MemOK
          <6> QED BY <2>1, <4>1, <5>1, <6>2 DEF Span
        <5> HIDE DEF below
        <5> QED BY <5>2, RangesIs
      <4>4. R = Hull(Ranges(tables, seed \cup below))
        BY DEF RangeOf, Ranges, Span
      <4> HIDE DEF R
      <4> QED BY <4>1, <4>2, <4>3, <4>4, HullIs
    <3> HIDE DEF wider, R
    <3> QED BY <1>2, <2>5, <3>1, <3>2, ClosedApart
  <2> QED BY <2>3, <2>4, <2>5
<1> QED BY <1>1, <1>2

\* A compaction begins.
LEMMA JobsStart ==
  ASSUME ~Manual, Base, Base', LayersRight, StartCompaction
  PROVE  JobsRight'
<1>1. /\ phase = "up" /\ edit = None /\ edit' = None /\ job' # None /\ job' \in AJob
      /\ UNCHANGED <<tables, current, next, held, last>>
  <2>1. /\ phase = "up" /\ edit = None /\ edit' = None /\ job' \in AJob
        /\ UNCHANGED <<tables, current, next, held, last>>
    BY StartIs DEF diskVars, versionVars, clientVars
  <2> QED BY <2>1, NoneIsNone
<1>2. PICK l \in 0..(NumLevels - 2) : \E seed \in Seeds(l) : \E in \in OtherInputs(l, seed) : Begun(l, in)
  BY StartIs
<1>3. PICK seed \in Seeds(l) : \E in \in OtherInputs(l, seed) : Begun(l, in)
  BY <1>2
<1>4. PICK in \in OtherInputs(l, seed) : Begun(l, in)
  BY <1>3
<1> DEFINE j == job'
<1>5. /\ j.level = l /\ j.above = in[1] /\ j.below = in[2] /\ j.base = current
      /\ j.smallest = SmallestSnapshot /\ ~j.built
  BY <1>4
<1>6. \A n \in in[1], m \in current[l] \ in[1] : KeyRange(tables[m]) \cap KeyRange(tables[n]) = {}
  BY <1>4, AboveApart DEF FilesKept, LevelsOK, Span
<1> HIDE DEF j
<1>7. l \in Nat /\ l + 1 \in Level /\ l \in Level /\ l < l + 1
  BY <1>4 DEF Level
<1>8. \A i \in InputsOf(tables, j) : \E n \in in[1] \cup in[2] : i \in tables[n]
  BY <1>5 DEF InputsOf
<1>9. \A k \in Level : \A n \in current[k] : tables[n] \subseteq Entry
  <2>1. \A k \in Level : \A n \in current[k] : n \in DOMAIN tables
    BY DEF FilesKept, InTables, AllFiles
  <2> QED BY <2>1 DEF TablesOK
<1>10. ASSUME NEW n \in current[l] \ in[1], NEW e \in tables[n], NEW i \in InputsOf(tables, j),
              e.key = i.key
       PROVE  i.seq < e.seq
  <2>1. PICK m \in in[1] \cup in[2] : i \in tables[m] BY <1>8
  <2>2. CASE m \in in[1]
    <3>1. KeyRange(tables[n]) \cap KeyRange(tables[m]) = {} BY <1>6, <2>2
    <3>2. tables[n] \subseteq Entry /\ tables[m] \subseteq Entry
      BY <1>4, <1>9, <2>2
    <3> QED BY <1>10, <2>1, <3>1, <3>2, SameKey
  <2>3. CASE m \in in[2]
    <3>1. m \in current[l + 1] /\ n \in current[l] BY <1>4, <2>3
    <3> QED BY <1>7, <1>10, <2>1, <3>1 DEF LayersRight, Layered
  <2> QED BY <2>2, <2>3
<1>11. ASSUME NEW k \in Level, k > l + 1, NEW n \in current[k], NEW e \in tables[n],
              NEW i \in InputsOf(tables, j), e.key = i.key
       PROVE  i.key \notin BaseOf(tables, j)
  <2>1. k \in (l + 2)..(NumLevels - 1) BY <1>7, <1>11, Bounds DEF Level
  <2>2. e.key \in KeyRange(tables[n]) BY <1>9, <1>11, RangeIs
  <2> QED BY <1>5, <1>11, <2>1, <2>2 DEF BaseOf
<1>12. JobRight(tables, current, j) BY <1>5, <1>10, <1>11 DEF JobRight
<1>13. SmallestSnapshot' = SmallestSnapshot /\ SmallestSnapshot <= SmallestSnapshot
  <2>1. SmallestSnapshot' = SmallestSnapshot BY <1>1 DEF SmallestSnapshot
  <2> QED BY <2>1, SmallestIs
<1>14. Below(AllFiles(current), next) BY <1>1, KnownAre DEF Known
<1> QED BY <1>1, <1>5, <1>12, <1>13, <1>14 DEF JobsRight, j

\* A memtable becomes a table while a compaction runs: it is newer than the
\* inputs, and below the outputs it has none of their keys.
LEMMA JobsFlush ==
  ASSUME Base, Base', LogsRight, HistRight, ViewsRight, JobsRight, WriteLevel0Table
  PROVE  JobsRight'
<1> SUFFICES ASSUME job # None PROVE JobsRight'
  BY DEF WriteLevel0Table, JobsRight
<1>1. UNCHANGED <<job, current, held, last>> /\ next' = next + 1 /\ next \in Nat
  BY DEF WriteLevel0Table, clientVars, MemOK
<1> DEFINE gs == Apply(current, edit')
<1>2. PICK l \in Level :
        /\ l > 0 => \A j \in Level : j <= l =>
             \A n \in current[j] : KeyRange(tables[n]) \cap KeyRange(imm) = {}
        /\ \A j \in Level : gs[j] = IF j = l THEN current[j] \cup {next} ELSE current[j]
  BY FlushIs
<1>3. /\ tables'[next] = imm /\ \A n \in AllFiles(current) : tables'[n] = tables[n]
      /\ \A e \in Stored(tables, current), f \in imm : e.seq < f.seq
  BY FlushIs
<1> HIDE DEF gs
<1>4. /\ \A n \in AllFiles(job.base) \cup job.outputs : tables'[n] = tables[n]
      /\ job \in AJob /\ job.above \subseteq job.base[job.level]
      /\ job.below \subseteq job.base[job.level + 1]
  BY <1>1, JobTablesStay DEF Next
<1>5. /\ InputsOf(tables', job) = InputsOf(tables, job)
      /\ BaseOf(tables', job) = BaseOf(tables, job)
      /\ JobRight(tables', current, job)
  BY <1>3, <1>4, JobSame DEF JobsRight
<1>6. /\ job.level \in Level /\ job.level + 1 \in Level
      /\ job.level \in Nat /\ l \in Nat
  BY <1>4, JobFiles DEF Level
<1>7. ASSUME NEW n \in gs[job.level] \ job.above, NEW e \in tables'[n],
             NEW i \in InputsOf(tables', job), e.key = i.key
      PROVE  i.seq < e.seq
  <2>1. CASE n \in current[job.level] BY <1>5, <1>7, <2>1 DEF JobRight
  <2>2. CASE n = next BY <1>3, <1>5, <1>7, <2>2, InputsStored
  <2> QED BY <1>2, <1>6, <2>1, <2>2
<1>8. ASSUME NEW k \in Level, k > job.level + 1, NEW n \in gs[k], NEW e \in tables'[n],
             NEW i \in InputsOf(tables', job), e.key = i.key
      PROVE  i.key \notin BaseOf(tables', job)
  <2>1. CASE n \in current[k] BY <1>5, <1>8, <2>1 DEF JobRight
  <2>2. CASE n = next /\ k = l
    <3>1. PICK h \in {job.level, job.level + 1} :
            h \in Level /\ \E m \in current[h] : i \in tables[m]
      BY <1>5, InputsStored
    <3>2. PICK m \in current[h] : i \in tables[m] BY <3>1
    <3>3. l > 0 /\ h <= l BY <1>6, <1>8, <2>2
    <3>4. KeyRange(tables[m]) \cap KeyRange(imm) = {} BY <1>2, <3>1, <3>3
    <3>5. tables[m] \subseteq Entry /\ imm \subseteq Entry
      <4>1. m \in DOMAIN tables BY <3>1 DEF FilesKept, InTables, AllFiles
      <4> QED BY <4>1 DEF TablesOK, MemOK
    <3>6. e \in imm BY <1>3, <2>2
    <3> QED BY <1>8, <3>2, <3>4, <3>5, <3>6, SameKey
  <2> QED BY <1>2, <2>1, <2>2
<1>9. JobRight(tables', gs, job) BY <1>5, <1>7, <1>8 DEF JobRight
<1>10. SmallestSnapshot' = SmallestSnapshot BY <1>1 DEF SmallestSnapshot
<1>11. Below(AllFiles(job.base), next')
  <2>1. AllFiles(job.base) \in SUBSET FileNumber BY <1>4, FilesAre DEF AJob
  <2>2. next \in Nat /\ next' \in Nat /\ next <= next' BY <1>1
  <2> QED BY <2>1, <2>2, BelowIs DEF JobsRight
<1> QED BY <1>1, <1>5, <1>9, <1>10, <1>11 DEF JobsRight, gs

\* The outputs are written.
LEMMA JobsOutputs ==
  ASSUME Base, Base', ViewsRight, JobsRight, WriteOutputs
  PROVE  JobsRight'
<1>1. /\ job # None /\ edit' = edit /\ edit = None /\ UNCHANGED <<current, held, last>>
      /\ next \in Nat /\ next' \in Nat /\ next <= next'
  BY OutputsAre DEF clientVars, MemOK
<1>2. PICK made \in SUBSET FileNumber :
        /\ job' = [job EXCEPT !.outputs = made, !.built = TRUE]
        /\ UNION {tables'[n] : n \in made} = Merged
  BY OutputsAll
<1>3. job \in AJob BY <1>1 DEF ClientsOK
<1> DEFINE j == job'
<1>4. /\ j.level = job.level /\ j.above = job.above /\ j.below = job.below /\ j.base = job.base
      /\ j.smallest = job.smallest /\ j.outputs = made /\ j.built /\ j \in AJob
  BY <1>2, <1>3 DEF AJob
<1> HIDE DEF j
<1>5. /\ job.base \in Files /\ InTables(job.base) /\ Below(AllFiles(job.base), next)
      /\ job.above \subseteq job.base[job.level]
      /\ job.below \subseteq job.base[job.level + 1]
  BY <1>1, <1>3 DEF AJob, FilesKept, JobsRight
<1>6. \A n \in AllFiles(job.base) \cup AllFiles(current) : tables'[n] = tables[n]
  <2>1. AllFiles(job.base) \subseteq DOMAIN tables'
    BY <1>4 DEF FilesKept, InTables, j
  <2>2. AllFiles(current) \subseteq DOMAIN tables'
    BY <1>1 DEF FilesKept, InTables
  <2> QED BY <1>5, <2>1, <2>2, KnownAre, KnownStay DEF Known, Next
<1> DEFINE k == [job EXCEPT !.outputs = {}, !.built = FALSE]
<1>7. /\ k \in AJob /\ k.level = job.level /\ k.above = job.above /\ k.below = job.below
      /\ k.base = job.base /\ k.smallest = job.smallest /\ k.outputs = {} /\ ~k.built
  BY <1>3 DEF AJob
<1> HIDE DEF k
<1>8. /\ InputsOf(tables, k) = InputsOf(tables, job) /\ BaseOf(tables, k) = BaseOf(tables, job)
      /\ InputsOf(tables', k) = InputsOf(tables', j) /\ BaseOf(tables', k) = BaseOf(tables', j)
  BY <1>4, <1>7 DEF InputsOf, BaseOf
<1>9. JobRight(tables, current, k) BY <1>1, <1>7, <1>8 DEF JobsRight, JobRight
<1>10. /\ JobRight(tables', current, k) /\ InputsOf(tables', k) = InputsOf(tables, k)
       /\ BaseOf(tables', k) = BaseOf(tables, k)
  BY <1>5, <1>6, <1>7, <1>9, JobSame
<1>11. OutputsOf(tables', j) = Kept(InputsOf(tables', j), j.smallest, BaseOf(tables', j))
  <2>1. OutputsOf(tables', j) = Merged BY <1>2, <1>4 DEF OutputsOf
  <2> QED BY <1>4, <1>8, <1>10, <2>1, MergedIs
<1>12. JobRight(tables', current, j)
  BY <1>4, <1>7, <1>8, <1>10, <1>11 DEF JobRight
<1>13. SmallestSnapshot' = SmallestSnapshot BY <1>1 DEF SmallestSnapshot
<1>14. Below(AllFiles(job.base), next')
  <2>1. AllFiles(job.base) \in SUBSET FileNumber BY <1>5, FilesAre
  <2> QED BY <1>1, <1>5, <2>1, BelowIs
<1>15. job.smallest <= SmallestSnapshot BY <1>1 DEF JobsRight
<1> QED BY <1>1, <1>4, <1>12, <1>13, <1>14, <1>15 DEF JobsRight, j

\* The memtable that became a table belongs to the version.
LEMMA JobsInstalled ==
  ASSUME Base, Base', LogsRight, HistRight, JobsRight, LogAndApply
  PROVE  JobsRight'
<1>1. /\ edit # None /\ edit' = None /\ current' = Apply(current, edit)
      /\ UNCHANGED <<held, last, next>>
      /\ job' = (IF edit.kind = "memtable" THEN job ELSE None)
  BY InstalledIs
<1>2. CASE job' = None BY <1>2, JobNone
<1>3. CASE job' # None
  <2>1. edit.kind = "memtable" /\ job' = job /\ job # None BY <1>1, <1>3
  <2>2. /\ \A n \in AllFiles(job.base) \cup job.outputs : tables'[n] = tables[n]
        /\ job \in AJob /\ job.above \subseteq job.base[job.level]
        /\ job.below \subseteq job.base[job.level + 1]
    BY <2>1, JobTablesStay DEF Next
  <2>3. \A n \in AllFiles(current') : tables'[n] = tables[n]
    <3>1. AllFiles(Apply(current, edit)) \subseteq DOMAIN tables'
      BY <1>1 DEF FilesKept, InTables
    <3> QED BY <1>1, <3>1, KnownAre, KnownStay DEF Next
  <2>4. JobRight(tables', current', job)
    BY <1>1, <2>1, <2>2, <2>3, JobSame DEF JobsRight
  <2>5. SmallestSnapshot' = SmallestSnapshot BY <1>1 DEF SmallestSnapshot
  <2> QED BY <1>1, <2>1, <2>4, <2>5 DEF JobsRight
<1> QED BY <1>2, <1>3

\* All the other steps.
LEMMA JobsOther ==
  ASSUME "torn" \notin Faults, "nested" \notin Faults, Base, Base', LogsRight, HistRight,
         JobsRight,
         \/ Recover \/ RecoverLogFile \/ NewLog \/ OpenDone \/ SwitchMemTable
         \/ GetSnapshot \/ (\E s \in Seqs \cup {0} : ReleaseSnapshot(s))
         \/ StartRead \/ EndRead \/ TableFails \/ UNCHANGED vars
         \/ TrivialMove \/ InstallCompactionResults \/ LogAndApplyFails \/ Ending
  PROVE  JobsRight'
<1>1. CASE Recover \/ RecoverLogFile \/ NewLog \/ OpenDone
  <2>1. job' = job /\ phase # "up"
    BY <1>1 DEF Recover, RecoverLogFile, NewLog, OpenDone
  <2> QED BY <2>1, JobNone DEF PhaseOK
<1>2. CASE TrivialMove
  <2>1. job' = None BY <1>2 DEF TrivialMove, Idle
  <2> QED BY <2>1, JobNone
<1>3. CASE LogAndApplyFails \/ Ending BY <1>3, FailedIs, CrashIs, JobNone
<1>4. CASE InstallCompactionResults
  <2>1. /\ UNCHANGED <<tables, current, next, job, held, last>> /\ job # None
        /\ edit' # None /\ edit'.kind = "compaction" /\ edit = None
    BY <1>4, EditMadeIs DEF EditMade, InstallCompactionResults, diskVars, versionVars
  <2>2. SmallestSnapshot' = SmallestSnapshot BY <2>1 DEF SmallestSnapshot
  <2> QED BY <2>1, <2>2 DEF JobsRight
<1>5. CASE SwitchMemTable
  <2>1. /\ phase = "up" /\ phase' = "up" /\ UNCHANGED <<job, current, edit, held, last>>
        /\ next' = next + 1 /\ next \in Nat /\ last \in Nat
    BY <1>5, Bounds DEF SwitchMemTable, Ready, clientVars, MemOK
  <2>2. held' \subseteq held \cup {last} /\ last <= last' /\ next <= next'
    BY <2>1
  <2> QED BY <1>5, <2>1, <2>2, JobsLater DEF Next
<1>6. CASE \/ GetSnapshot \/ (\E s \in Seqs \cup {0} : ReleaseSnapshot(s))
           \/ StartRead \/ EndRead \/ TableFails \/ UNCHANGED vars
  <2>1. QuietStep BY <1>6 DEF QuietStep
  <2>2. /\ UNCHANGED <<phase, current, edit, last>> /\ next <= next'
        /\ held' \subseteq held \cup {last} /\ last <= last'
    <3>1. UNCHANGED <<phase, current, edit, last>> /\ next <= next' /\ last \in Nat
      BY <2>1, QuietIs, Bounds DEF MemOK
    <3> QED BY <2>1, <3>1, HoldersQuiet
  <2>3. job' = job \/ job' = None
    BY <1>6 DEF GetSnapshot, ReleaseSnapshot, StartRead, EndRead, TableFails, vars
  <2>4. CASE job' = None BY <2>4, JobNone
  <2>5. CASE job' # None
    <3>1. job' = job /\ phase = "up" BY <2>3, <2>5 DEF PhaseOK
    <3>2. Next \/ UNCHANGED vars BY <1>6 DEF Next
    <3> QED BY <2>2, <3>1, <3>2, JobsLater
  <2> QED BY <2>4, <2>5
<1> QED BY <1>1, <1>2, <1>3, <1>4, <1>5, <1>6

LEMMA JobsAdded ==
  ASSUME Base, Base', LogsRight, HistRight, JobsRight, "torn" \notin Faults,
         NEW k \in Key, NEW del \in Deletes, NEW sync \in SyncOptions,
         Adding(k, del, sync)
  PROVE  JobsRight'
<1>1. Next BY DEF Next
<1>2. /\ UNCHANGED <<job, next, current, edit, phase, held>> /\ phase = "up"
      /\ last \in Nat /\ (last' = last \/ last' = last + 1)
  BY AddedIs
<1>3. last <= last' /\ held' \subseteq held \cup {last} /\ next <= next'
  BY <1>2 DEF MemOK
<1> QED BY <1>1, <1>2, <1>3, JobsLater

LEMMA JobsEnds ==
  ASSUME Base, Base', LogsRight, HistRight, JobsRight, WriteDone \/ SyncFails
  PROVE  JobsRight'
<1>1. Next BY DEF Next
<1>2. /\ UNCHANGED <<job, next, current, edit, held>> /\ phase = "up" /\ phase' = "up"
      /\ last \in Nat /\ last' = last + 1
  BY EndsIs
<1>3. last <= last' /\ held' \subseteq held \cup {last} /\ next <= next'
  BY <1>2 DEF MemOK
<1> QED BY <1>1, <1>2, <1>3, JobsLater

\* The outputs take the place of the inputs: what is left beside them, level by
\* level, and what the outputs hold.
LEMMA InstallIs ==
  ASSUME Base, LogsRight, JobsRight, InstallCompactionResults
  PROVE  /\ EditMade /\ edit'.kind # "memtable" /\ UNCHANGED tables /\ edit' # None
         /\ phase = "up" /\ job # None /\ job.built /\ current = manifest.files
         /\ job.level \in Level /\ job.level + 1 \in Level /\ job.level \in Nat
         /\ \A l \in Level : Apply(current, edit')[l] =
              IF l = job.level THEN current[l] \ job.above
              ELSE IF l = job.level + 1 THEN (current[l] \ job.below) \cup job.outputs
              ELSE current[l]
         /\ job.smallest \in Seq0 /\ job.smallest <= SmallestSnapshot
         /\ OutputsOf(tables, job) =
              Kept(InputsOf(tables, job), job.smallest, BaseOf(tables, job))
<1>1. /\ UNCHANGED tables /\ phase = "up" /\ job # None /\ job.built
      /\ edit' = CompactionEdit
  BY DEF InstallCompactionResults, diskVars
<1>2. /\ job \in AJob /\ job.level \in Level /\ job.level + 1 \in Level
      /\ job.above \in SUBSET FileNumber /\ job.outputs \in SUBSET FileNumber
      /\ current \in Files /\ job.smallest \in Seq0
  BY <1>1, JobFiles DEF MemOK, AJob
<1>3. EditMade BY DEF EditMade
<1>4. edit' # None /\ edit' \in AnEdit /\ current = manifest.files
  BY <1>1, <1>3, EditMadeIs DEF Working, SameVersion
<1>5. /\ edit'.kind = "compaction" /\ edit'.add = At(job.level + 1, job.outputs)
      /\ edit'.del = [At(job.level, job.above) EXCEPT ![job.level + 1] = job.below]
  BY <1>1
<1>6. job.level \in Nat /\ job.level # job.level + 1 BY <1>2 DEF Level
<1>7. /\ \A l \in Level : edit'.add[l] = IF l = job.level + 1 THEN job.outputs ELSE {}
      /\ \A l \in Level : edit'.del[l] = IF l = job.level + 1 THEN job.below
                                         ELSE IF l = job.level THEN job.above ELSE {}
  <2>1. DOMAIN At(job.level, job.above) = Level BY DEF At, NoFiles
  <2>2. \A l \in Level : At(job.level, job.above)[l] = IF l = job.level THEN job.above ELSE {}
    BY <1>2, AtIs
  <2> QED BY <1>2, <1>5, <2>1, <2>2, AtIs
<1>8. \A l \in Level : Apply(current, edit')[l] = (current[l] \ edit'.del[l]) \cup edit'.add[l]
  BY <1>2, <1>4, ApplyIs
<1>9. \A l \in Level : Apply(current, edit')[l] =
        IF l = job.level THEN current[l] \ job.above
        ELSE IF l = job.level + 1 THEN (current[l] \ job.below) \cup job.outputs
        ELSE current[l]
  <2> DEFINE gs == Apply(current, edit')
             a == edit'.add
             d == edit'.del
  <2>1. /\ \A l \in Level : gs[l] = (current[l] \ d[l]) \cup a[l]
        /\ \A l \in Level : a[l] = IF l = job.level + 1 THEN job.outputs ELSE {}
        /\ \A l \in Level : d[l] = IF l = job.level + 1 THEN job.below
                                   ELSE IF l = job.level THEN job.above ELSE {}
    BY <1>7, <1>8
  <2> HIDE DEF gs, a, d
  <2>2. \A l \in Level : gs[l] =
          IF l = job.level THEN current[l] \ job.above
          ELSE IF l = job.level + 1 THEN (current[l] \ job.below) \cup job.outputs
          ELSE current[l]
    <3> SUFFICES ASSUME NEW l \in Level
                 PROVE  gs[l] = IF l = job.level THEN current[l] \ job.above
                                ELSE IF l = job.level + 1
                                     THEN (current[l] \ job.below) \cup job.outputs
                                     ELSE current[l]
      OBVIOUS
    <3>1. CASE l = job.level
      <4>1. a[l] = {} /\ d[l] = job.above BY <1>6, <2>1, <3>1
      <4> QED BY <2>1, <3>1, <4>1
    <3>2. CASE l = job.level + 1
      <4>1. a[l] = job.outputs /\ d[l] = job.below /\ l # job.level
        BY <1>6, <2>1, <3>2
      <4> QED BY <2>1, <3>2, <4>1
    <3>3. CASE l # job.level /\ l # job.level + 1
      <4>1. a[l] = {} /\ d[l] = {} BY <2>1, <3>3
      <4> QED BY <2>1, <3>3, <4>1
    <3> QED BY <3>1, <3>2, <3>3
  <2>3. gs = Apply(current, edit') BY DEF gs
  <2> QED BY <2>2, <2>3
<1>10. /\ job.smallest <= SmallestSnapshot
       /\ OutputsOf(tables, job) =
            Kept(InputsOf(tables, job), job.smallest, BaseOf(tables, job))
  BY <1>1 DEF JobsRight, JobRight
<1> QED BY <1>1, <1>2, <1>3, <1>4, <1>5, <1>6, <1>9, <1>10

\* What is left beside the inputs has newer entries of their keys, unless it is
\* below the outputs and the key is not taken for a base-level one.
LEMMA RestIs ==
  ASSUME Base, LogsRight, LayersRight, JobsRight, InstallCompactionResults
  PROVE  LET rest(l) == IF l = job.level THEN current[l] \ job.above
                        ELSE IF l = job.level + 1 THEN current[l] \ job.below
                        ELSE current[l]
             I == InputsOf(tables, job)
         IN  /\ \A l \in Level : \A n \in rest(l) : \A r \in tables[n], i \in I :
                  r.key = i.key =>
                    IF l <= job.level THEN i.seq < r.seq
                    ELSE l > job.level + 1 /\ r.seq < i.seq /\ i.key \notin BaseOf(tables, job)
<1> DEFINE rest(l) == IF l = job.level THEN current[l] \ job.above
                      ELSE IF l = job.level + 1 THEN current[l] \ job.below
                      ELSE current[l]
           I == InputsOf(tables, job)
<1>1. /\ job # None /\ job.level \in Level /\ job.level + 1 \in Level /\ job.level \in Nat
  BY InstallIs
<1>2. job \in AJob /\ JobRight(tables, current, job) /\ JobOK(tables, current, job)
  BY <1>1 DEF ClientsOK, JobsRight, LevelsOK
<1>3. SUFFICES ASSUME NEW l \in Level, NEW n \in rest(l), NEW r \in tables[n], NEW i \in I,
                      r.key = i.key
               PROVE  IF l <= job.level THEN i.seq < r.seq
                      ELSE l > job.level + 1 /\ r.seq < i.seq /\ i.key \notin BaseOf(tables, job)
  OBVIOUS
<1>4. PICK h \in {job.level, job.level + 1} :
        h \in Level /\ \E m \in current[h] : i \in tables[m]
  BY <1>1, InputsStored
<1>5. PICK m \in current[h] : i \in tables[m] BY <1>4
<1>6. n \in current[l] /\ l \in Nat /\ h \in Nat BY <1>1, <1>4 DEF Level
<1>7. CASE l < job.level
  <2>1. l < h /\ l <= job.level BY <1>1, <1>4, <1>6, <1>7
  <2>2. i.seq < r.seq BY <1>3, <1>4, <1>5, <1>6, <2>1 DEF LayersRight, Layered
  <2> QED BY <2>1, <2>2
<1>8. CASE l = job.level
  <2>1. n \in current[job.level] \ job.above BY <1>8
  <2>2. i.seq < r.seq BY <1>2, <1>3, <2>1 DEF JobRight
  <2>3. l <= job.level BY <1>1, <1>8
  <2> QED BY <2>2, <2>3
<1>9. CASE l = job.level + 1
  <2>1. n \in current[job.level + 1] \ job.below BY <1>1, <1>9
  <2>2. KeyRange(tables[n]) \cap Ranges(tables, job.above \cup job.below) = {}
    BY <1>2, <2>1 DEF JobOK
  <2>3. PICK k \in job.above \cup job.below : i \in tables[k] BY DEF InputsOf
  <2>4. KeyRange(tables[k]) \subseteq Ranges(tables, job.above \cup job.below)
    BY RangesIs
  <2>5. tables[n] \subseteq Entry /\ tables[k] \subseteq Entry
    <3>1. n \in DOMAIN tables BY <1>6 DEF FilesKept, InTables, AllFiles
    <3>2. k \in DOMAIN tables BY <1>1, JobFiles
    <3> QED BY <3>1, <3>2 DEF TablesOK
  <2>6. r.key # i.key BY <2>2, <2>3, <2>4, <2>5, SameKey
  <2> QED BY <1>3, <2>6
<1>10. CASE l > job.level + 1
  <2>1. h < l /\ ~(l <= job.level) BY <1>1, <1>4, <1>6, <1>10
  <2>2. r.seq < i.seq BY <1>3, <1>4, <1>5, <1>6, <2>1 DEF LayersRight, Layered
  <2>3. i.key \notin BaseOf(tables, job)
    BY <1>2, <1>3, <1>6, <1>10 DEF JobRight
  <2> QED BY <1>10, <2>1, <2>2, <2>3
<1>11. l < job.level \/ l = job.level \/ l = job.level + 1 \/ l > job.level + 1
  BY <1>1, <1>6
<1> QED BY <1>7, <1>8, <1>9, <1>10, <1>11

\* What a version and the one that the edit makes of it hold, with the entries that
\* are not taken apart.
LEMMA InstallStored ==
  ASSUME Base, LogsRight, LayersRight, JobsRight, InstallCompactionResults
  PROVE  \E R :
           LET I == InputsOf(tables, job)
           IN  /\ Stored(tables, current) = R \cup I
               /\ Stored(tables, Apply(current, edit'))
                    = R \cup Kept(I, job.smallest, BaseOf(tables, job))
               /\ \A r \in R, i \in I :
                    r.key = i.key /\ i.key \in BaseOf(tables, job) => i.seq < r.seq
<1> DEFINE rest(l) == IF l = job.level THEN current[l] \ job.above
                      ELSE IF l = job.level + 1 THEN current[l] \ job.below
                      ELSE current[l]
           R == UNION {tables[n] : n \in UNION {rest(l) : l \in Level}}
           I == InputsOf(tables, job)
           gs == Apply(current, edit')
<1>1. /\ job # None /\ job.level \in Level /\ job.level + 1 \in Level /\ job.level \in Nat
      /\ \A l \in Level : gs[l] =
           IF l = job.level THEN current[l] \ job.above
           ELSE IF l = job.level + 1 THEN (current[l] \ job.below) \cup job.outputs
           ELSE current[l]
      /\ OutputsOf(tables, job) = Kept(I, job.smallest, BaseOf(tables, job))
  BY InstallIs
<1>2. job.level # job.level + 1 BY <1>1
<1>3. \A r : r \in R <=> \E l \in Level : \E n \in rest(l) : r \in tables[n]
  OBVIOUS
<1>4. \A l \in Level : rest(l) \subseteq current[l] OBVIOUS
<1>5. R \cup I \subseteq Stored(tables, current)
  <2>1. R \subseteq Stored(tables, current) BY <1>3, <1>4, StoredIs
  <2> QED BY <1>1, <2>1, InputsStored
<1>6. Stored(tables, current) \subseteq R \cup I
  <2> SUFFICES ASSUME NEW l \in Level, NEW n \in current[l], NEW e \in tables[n], e \notin I
               PROVE  e \in R
    BY StoredIs
  <2>1. n \notin job.above /\ n \notin job.below BY DEF InputsOf
  <2>2. n \in rest(l) BY <2>1
  <2> HIDE DEF rest, R
  <2> QED BY <1>3, <2>2
<1>7. \A l \in Level : gs[l] = IF l = job.level + 1 THEN rest(l) \cup job.outputs ELSE rest(l)
  <2> SUFFICES ASSUME NEW l \in Level
               PROVE  gs[l] = IF l = job.level + 1 THEN rest(l) \cup job.outputs ELSE rest(l)
    OBVIOUS
  <2> HIDE DEF gs
  <2>1. CASE l = job.level BY <1>1, <1>2, <2>1
  <2>2. CASE l = job.level + 1 BY <1>1, <1>2, <2>2
  <2>3. CASE l # job.level /\ l # job.level + 1 BY <1>1, <2>3
  <2> QED BY <2>1, <2>2, <2>3
<1>8. Stored(tables, gs) = R \cup OutputsOf(tables, job)
  <2> HIDE DEF gs, rest, R
  <2>1. ASSUME NEW e \in Stored(tables, gs) PROVE e \in R \cup OutputsOf(tables, job)
    <3>1. PICK l \in Level : \E n \in gs[l] : e \in tables[n] BY <2>1, StoredIs
    <3>2. PICK n \in gs[l] : e \in tables[n] BY <3>1
    <3>3. n \in rest(l) \/ n \in job.outputs BY <1>7
    <3> QED BY <1>3, <3>2, <3>3 DEF OutputsOf
  <2>2. \A e \in R : e \in Stored(tables, gs)
    <3> SUFFICES ASSUME NEW l \in Level, NEW n \in rest(l), NEW e \in tables[n]
                 PROVE  e \in Stored(tables, gs)
      BY <1>3
    <3>1. n \in gs[l] BY <1>7
    <3> QED BY <3>1, StoredIs
  <2>3. \A e \in OutputsOf(tables, job) : e \in Stored(tables, gs)
    <3> SUFFICES ASSUME NEW n \in job.outputs, NEW e \in tables[n]
                 PROVE  e \in Stored(tables, gs)
      BY DEF OutputsOf
    <3>1. n \in gs[job.level + 1] BY <1>1, <1>7
    <3> QED BY <1>1, <3>1, StoredIs
  <2> QED BY <2>1, <2>2, <2>3
<1>9. \A r \in R, i \in I : r.key = i.key /\ i.key \in BaseOf(tables, job) => i.seq < r.seq
  <2>1. \A l \in Level : \A n \in rest(l) : \A r \in tables[n], i \in I :
          r.key = i.key =>
            IF l <= job.level THEN i.seq < r.seq
            ELSE l > job.level + 1 /\ r.seq < i.seq /\ i.key \notin BaseOf(tables, job)
    BY RestIs
  <2> HIDE DEF rest, R, I
  <2> SUFFICES ASSUME NEW r \in R, NEW i \in I, r.key = i.key, i.key \in BaseOf(tables, job)
               PROVE  i.seq < r.seq
    OBVIOUS
  <2>2. PICK l \in Level : \E n \in rest(l) : r \in tables[n] BY <1>3
  <2>3. PICK n \in rest(l) : r \in tables[n] BY <2>2
  <2> QED BY <2>1, <2>3
<1>10. /\ Stored(tables, current) = R \cup I
       /\ Stored(tables, gs) = R \cup Kept(I, job.smallest, BaseOf(tables, job))
  BY <1>1, <1>5, <1>6, <1>8
<1> HIDE DEF R, gs
<1> WITNESS R
<1> QED BY <1>9, <1>10 DEF gs

\* A compaction keeps the answers, of the files alone and of all there is.
LEMMA InstallRight ==
  ASSUME Base, LogsRight, HistRight, DiskRight, LayersRight, ViewsRight, JobsRight,
         InstallCompactionResults
  PROVE  DiskRight' /\ ViewsRight'
<1> DEFINE I == InputsOf(tables, job)
           K == Kept(I, job.smallest, BaseOf(tables, job))
           base == BaseOf(tables, job)
           F == Flushed(hist, logs, manifest.log)
           small == SmallestSnapshot
<1>1. /\ EditMade /\ edit'.kind # "memtable" /\ UNCHANGED tables /\ edit' # None
      /\ phase = "up" /\ job # None /\ current = manifest.files
      /\ job.smallest \in Seq0 /\ job.smallest <= small
  BY InstallIs
<1>2. PICK R : /\ Stored(tables, current) = R \cup I
               /\ Stored(tables, Apply(current, edit')) = R \cup K
               /\ \A r \in R, i \in I : r.key = i.key /\ i.key \in base => i.seq < r.seq
  BY InstallStored
<1>3. Single(Writes(hist)) /\ Single(F)
  <2>1. Single(Writes(hist)) BY WritesAre DEF ClientsOK
  <2> QED BY <2>1 DEF Flushed, Single
<1>4. /\ job.smallest \in Nat /\ job.smallest <= MaxSeq /\ MaxSeq \in Nat
      /\ small \in Nat
  BY <1>1, Bounds, SmallestIs
<1>5. Complete(R \cup I, F, MaxSeq) BY <1>1, <1>2 DEF DiskRight, Covers
<1>6. Complete(mem \cup imm \cup (R \cup I), Writes(hist), small)
  BY <1>1, <1>2 DEF ViewsRight, View
<1>7. \A e \in R \cup I, f \in imm \cup mem : e.seq < f.seq
  BY <1>1, <1>2 DEF ViewsRight, View
<1> HIDE DEF I, K, base, F, small
<1>8. Complete(R \cup K, F, MaxSeq)
  BY <1>2, <1>3, <1>4, <1>5, CompleteCompacted DEF K, base
<1>9. Complete((mem \cup imm \cup R) \cup K, Writes(hist), small)
  <2>1. Complete((mem \cup imm \cup R) \cup I, Writes(hist), small)
    <3>1. (mem \cup imm \cup R) \cup I = mem \cup imm \cup (R \cup I) OBVIOUS
    <3> QED BY <1>6, <3>1
  <2>2. \A r \in mem \cup imm \cup R, i \in I : r.key = i.key /\ i.key \in base => i.seq < r.seq
    BY <1>2, <1>7
  <2> DEFINE Q == mem \cup imm \cup R
  <2>3. Complete(Q \cup I, Writes(hist), small)
        /\ \A r \in Q, i \in I : r.key = i.key /\ i.key \in base => i.seq < r.seq
    BY <2>1, <2>2
  <2> HIDE DEF Q
  <2>4. Complete(Q \cup K, Writes(hist), small)
    BY <1>1, <1>3, <1>4, <2>3, CompleteCompacted DEF K, base, small
  <2> QED BY <2>4 DEF Q
<1>10. DiskRight'
  <2>1. Complete(Stored(tables, Apply(current, edit')), Flushed(hist, logs, manifest.log), MaxSeq)
    BY <1>2, <1>8 DEF F
  <2> QED BY <1>1, <2>1, DiskEdit
<1>11. ViewsRight'
  <2>1. K \subseteq I BY DEF K, Kept
  <2>2. Stored(tables, Apply(current, edit')) \subseteq Stored(tables, current)
    BY <1>2, <2>1
  <2>3. (mem \cup imm \cup R) \cup K = mem \cup imm \cup (R \cup K) OBVIOUS
  <2>4. Complete(mem \cup imm \cup Stored(tables, Apply(current, edit')), Writes(hist),
                 SmallestSnapshot)
    BY <1>2, <1>9, <2>3 DEF small
  <2> QED BY <1>1, <2>2, <2>4, ViewsEdit
<1> QED BY <1>10, <1>11

\* The version that a compaction makes.
LEMMA LayersInstall ==
  ASSUME Base, LogsRight, LayersRight, JobsRight, InstallCompactionResults
  PROVE  LayersRight'
<1> DEFINE gs == Apply(current, edit')
           rest(l) == IF l = job.level THEN current[l] \ job.above
                      ELSE IF l = job.level + 1 THEN current[l] \ job.below
                      ELSE current[l]
           I == InputsOf(tables, job)
<1>1. /\ UNCHANGED <<tables, manifest, current>> /\ edit' # None
      /\ Layered(tables, current)
      /\ job.level \in Level /\ job.level + 1 \in Level /\ job.level \in Nat
      /\ \A l \in Level : gs[l] =
           IF l = job.level THEN current[l] \ job.above
           ELSE IF l = job.level + 1 THEN (current[l] \ job.below) \cup job.outputs
           ELSE current[l]
  BY InstallIs, EditMadeIs DEF LayersRight
<1>2. \A l \in Level : \A n \in rest(l) : \A r \in tables[n], i \in I :
        r.key = i.key =>
          IF l <= job.level THEN i.seq < r.seq
          ELSE l > job.level + 1 /\ r.seq < i.seq /\ i.key \notin BaseOf(tables, job)
  BY RestIs
<1>3. \A n \in job.outputs : tables[n] \subseteq I
  <2>1. OutputsOf(tables, job) \subseteq I BY InstallIs DEF Kept
  <2> HIDE DEF I
  <2> QED BY <2>1 DEF OutputsOf
<1>4. \A l \in Level : \A n \in gs[l] :
        \/ n \in rest(l) /\ n \in current[l]
        \/ n \in job.outputs /\ l = job.level + 1
  <2> HIDE DEF gs
  <2> SUFFICES ASSUME NEW l \in Level, NEW n \in gs[l]
               PROVE  \/ n \in rest(l) /\ n \in current[l]
                      \/ n \in job.outputs /\ l = job.level + 1
    OBVIOUS
  <2>0. job.level # job.level + 1 BY <1>1
  <2>1. CASE l = job.level BY <1>1, <2>0, <2>1
  <2>2. CASE l = job.level + 1 BY <1>1, <2>0, <2>2
  <2>3. CASE l # job.level /\ l # job.level + 1 BY <1>1, <2>3
  <2> QED BY <2>1, <2>2, <2>3
<1>5. \A m, n \in gs[0] : m < n => \A e \in tables[m], f \in tables[n] : e.seq < f.seq
  <2>1. 0 # job.level + 1 /\ 0 \in Level BY <1>1, Bounds
  <2>2. \A m \in gs[0] : m \in current[0] BY <1>4, <2>1
  <2> QED BY <1>1, <2>2 DEF Layered
<1> HIDE DEF gs, rest, I
<1>6. ASSUME NEW i \in Level, NEW j \in Level, i < j, NEW m \in gs[i], NEW n \in gs[j],
             NEW e \in tables[m], NEW f \in tables[n], e.key = f.key
      PROVE  f.seq < e.seq
  <2>0. i \in Nat /\ j \in Nat BY DEF Level
  <2>1. CASE m \in current[i] /\ n \in current[j]
    BY <1>1, <1>6, <2>1 DEF Layered
  <2>2. CASE m \in rest(i) /\ n \in job.outputs /\ j = job.level + 1
    <3>1. f \in I BY <1>3, <2>2
    <3>2. i <= job.level BY <1>1, <1>6, <2>0, <2>2
    <3> QED BY <1>2, <1>6, <2>2, <3>1, <3>2
  <2>3. CASE m \in job.outputs /\ i = job.level + 1 /\ n \in rest(j)
    <3>1. e \in I BY <1>3, <2>3
    <3>2. ~(j <= job.level) BY <1>1, <1>6, <2>0, <2>3
    <3> QED BY <1>2, <1>6, <2>3, <3>1, <3>2
  <2>4. CASE i = job.level + 1 /\ j = job.level + 1 BY <1>6, <2>0, <2>4
  <2> QED BY <1>4, <2>1, <2>2, <2>3, <2>4
<1>7. Layered(tables, gs) BY <1>5, <1>6 DEF Layered
<1> QED BY <1>1, <1>7 DEF LayersRight, gs

--------------------
\* Readers.

\* All there is in memory and in the version are entries of the writes.
LEMMA ViewSingle ==
  ASSUME Base, NEW i, NEW fs, View(i, fs)
  PROVE  Single(mem \cup i \cup Stored(tables, fs))
<1>1. Single(Writes(hist)) BY WritesAre DEF ClientsOK
<1>2. mem \cup i \cup Stored(tables, fs) \subseteq Writes(hist)
  BY DEF View, Complete
<1> HIDE DEF Types
<1> QED BY <1>1, <1>2 DEF Single

\* A reader begins.
LEMMA ReaderStarts ==
  ASSUME Base, Base', HistRight, LayersRight, ViewsRight,
         phase = "up", reader' = [seq |-> last, mem |-> mem, imm |-> imm, files |-> current],
         UNCHANGED <<tables, hist>>, next <= next', next \in Nat, next' \in Nat
  PROVE  ReaderRight'
<1>1. View(imm, current) BY DEF ViewsRight
<1>2. Single(mem \cup imm \cup Stored(tables, current)) BY <1>1, ViewSingle
<1>3. /\ InTables(current) /\ Below(AllFiles(current), next)
      /\ DisjointIn(tables, current) /\ Layered(tables, current)
  BY DEF FilesKept, Fresh, LevelsOK, LayersRight
<1>4. Below(AllFiles(current), next')
  <2>1. AllFiles(current) \in SUBSET FileNumber BY FilesAre DEF MemOK
  <2> QED BY <1>3, <2>1, BelowIs
<1>5. ASSUME NEW k \in Key
      PROVE  Answer(mem \cup imm \cup Stored(tables, current), k, last)
               = Answer(Writes(hist), k, last)
  <2>1. Single(Writes(hist)) /\ k \in Int
    BY WritesAre, Bounds DEF ClientsOK, Key
  <2>2. SmallestSnapshot \in Nat /\ last \in Nat /\ SmallestSnapshot <= last
    <3>1. SmallestSnapshot = last \/ SmallestSnapshot \in held BY SmallestIs
    <3>2. SmallestSnapshot \in Nat /\ last \in Nat BY SmallestIs
    <3> QED BY <3>1, <3>2 DEF HistRight
  <2>3. Complete(mem \cup imm \cup Stored(tables, current), Writes(hist), SmallestSnapshot)
    BY <1>1 DEF View
  <2> DEFINE E == mem \cup imm \cup Stored(tables, current)
             W == Writes(hist)
             small == SmallestSnapshot
  <2>4. Complete(E, W, small) /\ Single(W) /\ small \in Nat /\ small <= last
    BY <2>1, <2>2, <2>3
  <2> HIDE DEF E, W, small
  <2>5. Answer(E, k, last) = Answer(W, k, last)
    BY <2>1, <2>2, <2>4, CompleteAnswers
  <2> QED BY <2>5 DEF E, W
<1>6. /\ \A e \in Stored(tables, current), f \in imm \cup mem : e.seq < f.seq
      /\ \A e \in imm, f \in mem : e.seq < f.seq
  BY <1>1 DEF View
<1>7. /\ reader'.seq = last /\ reader'.mem = mem /\ reader'.imm = imm
      /\ reader'.files = current
  OBVIOUS
<1>8. tables' = tables /\ hist' = hist OBVIOUS
<1>9. /\ AllFiles(reader'.files) \subseteq DOMAIN tables'
      /\ Below(AllFiles(reader'.files), next')
  BY <1>3, <1>4, <1>7, <1>8 DEF InTables
<1>10. /\ Single(reader'.mem \cup reader'.imm \cup Stored(tables', reader'.files))
       /\ DisjointIn(tables', reader'.files) /\ Layered(tables', reader'.files)
  BY <1>2, <1>3, <1>7, <1>8
<1>11. /\ \A e \in Stored(tables', reader'.files), f \in reader'.imm \cup reader'.mem :
            e.seq < f.seq
       /\ \A e \in reader'.imm, f \in reader'.mem : e.seq < f.seq
  BY <1>6, <1>7, <1>8
<1>12. \A k \in Key :
         Answer(reader'.mem \cup reader'.imm \cup Stored(tables', reader'.files), k, reader'.seq)
           = Answer(Writes(hist'), k, reader'.seq)
  BY <1>5, <1>7, <1>8
<1> QED BY <1>9, <1>10, <1>11, <1>12 DEF ReaderRight, InTables

\* A reader goes on, while writes come that it does not see.
LEMMA ReaderLater ==
  ASSUME Base, Base', ReaderRight, Next \/ UNCHANGED vars, phase # "down",
         reader' = reader, next <= next', next \in Nat, next' \in Nat,
         reader # None =>
           \A e : e.seq <= reader.seq => (e \in Writes(hist') <=> e \in Writes(hist))
  PROVE  ReaderRight'
<1> SUFFICES ASSUME reader # None PROVE ReaderRight'
  BY DEF ReaderRight
<1> DEFINE fs == reader.files
           all == reader.mem \cup reader.imm \cup Stored(tables, fs)
<1>1. reader \in AReader /\ fs \in Files /\ reader.seq \in Nat
  <2>1. reader \in AReader BY DEF ClientsOK
  <2> QED BY <2>1, Bounds DEF AReader
<1>2. /\ InTables(fs) /\ Below(AllFiles(fs), next) /\ Single(all)
      /\ DisjointIn(tables, fs) /\ Layered(tables, fs)
      /\ \A e \in Stored(tables, fs), f \in reader.imm \cup reader.mem : e.seq < f.seq
      /\ \A e \in reader.imm, f \in reader.mem : e.seq < f.seq
      /\ \A k \in Key : Answer(all, k, reader.seq) = Answer(Writes(hist), k, reader.seq)
  BY DEF ReaderRight
<1>3. AllFiles(fs) \subseteq DOMAIN tables'
  <2>1. reader' \in AReader /\ FilesKept' BY <1>1
  <2> QED BY <2>1 DEF FilesKept, InTables
<1>4. Known(fs) BY <1>1, <1>2 DEF Known
<1> HIDE DEF fs
<1>5. /\ Stored(tables', fs) = Stored(tables, fs) /\ Layered(tables', fs)
      /\ DisjointIn(tables', fs)
  <2>1. \A n \in AllFiles(fs) : tables'[n] = tables[n] BY <1>3, <1>4, KnownSame
  <2> QED BY <1>1, <1>2, <2>1, StoredSame
<1>6. Below(AllFiles(fs), next')
  <2>1. AllFiles(fs) \in SUBSET FileNumber BY <1>1, FilesAre
  <2> QED BY <1>2, <2>1, BelowIs
<1>7. \A k \in Key : Answer(Writes(hist'), k, reader.seq) = Answer(Writes(hist), k, reader.seq)
  <2> SUFFICES ASSUME NEW k \in Key
               PROVE  Answer(Writes(hist'), k, reader.seq) = Answer(Writes(hist), k, reader.seq)
    OBVIOUS
  <2>1. Visible(Writes(hist'), k, reader.seq) = Visible(Writes(hist), k, reader.seq)
    BY DEF Visible
  <2> QED BY <2>1 DEF Answer, Newest
<1>8. /\ AllFiles(reader'.files) \subseteq DOMAIN tables' /\ Below(AllFiles(reader'.files), next')
      /\ DisjointIn(tables', reader'.files) /\ Layered(tables', reader'.files)
      /\ Stored(tables', reader'.files) = Stored(tables, fs)
  BY <1>3, <1>5, <1>6 DEF fs
<1>9. Single(reader'.mem \cup reader'.imm \cup Stored(tables', reader'.files))
  BY <1>2, <1>8
<1>10. /\ \A e \in Stored(tables', reader'.files), f \in reader'.imm \cup reader'.mem :
            e.seq < f.seq
       /\ \A e \in reader'.imm, f \in reader'.mem : e.seq < f.seq
  BY <1>2, <1>8
<1>11. \A k \in Key :
         Answer(reader'.mem \cup reader'.imm \cup Stored(tables', reader'.files), k, reader'.seq)
           = Answer(Writes(hist'), k, reader'.seq)
  BY <1>2, <1>7, <1>8
<1> QED BY <1>8, <1>9, <1>10, <1>11 DEF ReaderRight, InTables

LEMMA ReaderNone == ASSUME reader' = None PROVE ReaderRight'
BY DEF ReaderRight

LEMMA ReaderInit == Init => ReaderRight
BY DEF Init, ReaderRight

LEMMA ReaderOpening ==
  ASSUME Base, Recover \/ RecoverLogFile \/ NewLog \/ OpenDone
  PROVE  ReaderRight'
<1>1. reader' = reader /\ phase # "up"
  BY DEF Recover, RecoverLogFile, NewLog, OpenDone, clientVars
<1> QED BY <1>1, ReaderNone DEF PhaseOK

LEMMA ReaderQuiet ==
  ASSUME Base, Base', HistRight, LayersRight, ViewsRight, ReaderRight, QuietStep
  PROVE  ReaderRight'
<1>1. /\ hist' = hist /\ next \in Nat /\ next' \in Nat /\ next <= next'
  BY QuietIs
<1>2. CASE reader' = None BY <1>2, ReaderNone
<1>3. CASE reader' = reader /\ reader # None
  <2>1. Next \/ UNCHANGED vars BY DEF QuietStep, Next
  <2>2. phase # "down" BY <1>3 DEF PhaseOK
  <2> QED BY <1>1, <1>3, <2>1, <2>2, ReaderLater
<1>4. CASE StartRead
  <2>1. /\ phase = "up" /\ UNCHANGED tables
        /\ reader' = [seq |-> last, mem |-> mem, imm |-> imm, files |-> current]
    BY <1>4 DEF StartRead, diskVars
  <2> QED BY <1>1, <2>1, ReaderStarts
<1>5. reader' = reader \/ reader' = None \/ StartRead
  BY DEF QuietStep, GetSnapshot, ReleaseSnapshot, EndRead, StartCompaction, WriteOutputs,
         TableFails, vars, clientVars
<1> QED BY <1>2, <1>3, <1>4, <1>5

LEMMA ReaderWork ==
  ASSUME "torn" \notin Faults, "nested" \notin Faults, Base, Base', LogsRight, ReaderRight,
         SwitchMemTable \/ EditMade \/ LogAndApply \/ LogAndApplyFails
  PROVE  ReaderRight'
<1>1. /\ UNCHANGED <<reader, hist>> /\ next \in Nat /\ next' \in Nat /\ next <= next'
      /\ phase = "up"
  <2>1. next \in Nat BY DEF MemOK
  <2>2. CASE SwitchMemTable
    BY <2>1, <2>2 DEF SwitchMemTable, Ready, clientVars, observers
  <2>3. CASE EditMade BY <2>3, EditMadeIs
  <2>4. CASE LogAndApply BY <2>1, <2>4, InstalledIs
  <2>5. CASE LogAndApplyFails BY <2>1, <2>5, FailedIs
  <2> QED BY <2>2, <2>3, <2>4, <2>5
<1>2. Next BY DEF Next, EditMade
<1> QED BY <1>1, <1>2, ReaderLater

LEMMA ReaderAdded ==
  ASSUME Base, Base', LogsRight, HistRight, ReaderRight, "torn" \notin Faults,
         NEW k \in Key, NEW del \in Deletes, NEW sync \in SyncOptions,
         Adding(k, del, sync)
  PROVE  ReaderRight'
<1>1. Next BY DEF Next
<1>2. /\ UNCHANGED <<reader, next>> /\ phase = "up" /\ Writes(hist') = Writes(hist)
  BY AddedIs
<1>3. next \in Nat /\ next' \in Nat /\ next <= next' BY <1>2 DEF MemOK
<1> QED BY <1>1, <1>2, <1>3, ReaderLater

LEMMA ReaderEnds ==
  ASSUME Base, Base', LogsRight, HistRight, ReaderRight, WriteDone \/ SyncFails
  PROVE  ReaderRight'
<1>1. Next BY DEF Next
<1>2. /\ UNCHANGED <<reader, next>> /\ phase = "up" /\ last \in Nat BY EndsIs
<1>3. next \in Nat /\ next' \in Nat /\ next <= next' BY <1>2 DEF MemOK
<1>4. reader # None => reader.seq \in Nat /\ reader.seq <= last
  <2>1. reader # None => reader \in AReader BY DEF ClientsOK
  <2> QED BY <2>1, Bounds DEF AReader, HistRight
<1>5. writer.entry.seq = last + 1
      /\ (Writes(hist') = Writes(hist) \cup {writer.entry} \/ Writes(hist') = Writes(hist))
  BY EndsWrites
<1>6. ASSUME reader # None, NEW e, e.seq <= reader.seq
      PROVE  e \in Writes(hist') <=> e \in Writes(hist)
  <2>1. e # writer.entry BY <1>2, <1>4, <1>5, <1>6
  <2> QED BY <1>5, <2>1
<1> QED BY <1>1, <1>2, <1>3, <1>6, ReaderLater

LEMMA ReaderCrash == ASSUME Ending PROVE ReaderRight'
BY ReaderNone DEF Crash, OpenFails

--------------------
\* Every read answers with the last write.

LEMMA ReadsInit == Init => ReadsRight
BY LogsRightInit, DiskInit, MemInit, LayersInit, ViewsInit, JobsInit, ReaderInit
   DEF ReadsRight

LEMMA ReadsOpening ==
  ASSUME "torn" \notin Faults, "nested" \notin Faults, AllReplayed, Base, Base', ReadsRight,
         Recover \/ RecoverLogFile \/ NewLog \/ OpenDone
  PROVE  ReadsRight'
<1>1. /\ LogsRight /\ HistRight /\ DiskRight /\ MemRight
      /\ LayersRight /\ ViewsRight /\ JobsRight /\ ReaderRight
  BY DEF ReadsRight
<1>2. LogsRight' /\ HistRight' BY <1>1, RightOpening
<1>3. DiskRight' /\ MemRight' /\ LayersRight'
  BY <1>1, DiskOpening, MemOpening, LayersOpening
<1>4. ViewsRight' BY <1>1, <1>3, ViewsOpening
<1>5. JobsRight' /\ ReaderRight' BY <1>1, JobsOther, ReaderOpening
<1> QED BY <1>2, <1>3, <1>4, <1>5 DEF ReadsRight

LEMMA ReadsWrites ==
  ASSUME "torn" \notin Faults, "nested" \notin Faults, Base, Base', ReadsRight,
         \/ SwitchMemTable \/ WriteDone \/ SyncFails
         \/ \E k \in Key, del \in Deletes, sync \in SyncOptions :
              Adding(k, del, sync)
  PROVE  ReadsRight'
<1>1. /\ LogsRight /\ HistRight /\ DiskRight /\ MemRight
      /\ LayersRight /\ ViewsRight /\ JobsRight /\ ReaderRight
  BY DEF ReadsRight
<1>2. LayersRight'
  <2>1. ClientStep BY DEF ClientStep
  <2> QED BY <1>1, <2>1, LayersClient
<1>3. CASE SwitchMemTable
  <2>1. LogsRight' /\ HistRight' /\ DiskRight' /\ MemRight' /\ ViewsRight'
    BY <1>1, <1>3, RightSwitch, DiskSwitch, MemSwitch, ViewsSwitch
  <2>2. JobsRight' /\ ReaderRight' BY <1>1, <1>3, JobsOther, ReaderWork
  <2> QED BY <1>2, <2>1, <2>2 DEF ReadsRight
<1>4. CASE WriteDone \/ SyncFails
  <2>1. LogsRight' /\ HistRight' /\ DiskRight' /\ MemRight' /\ ViewsRight'
    BY <1>1, <1>4, RightEnds, DiskEnds, MemEnds, ViewsEnds
  <2>2. JobsRight' /\ ReaderRight' BY <1>1, <1>4, JobsEnds, ReaderEnds
  <2> QED BY <1>2, <2>1, <2>2 DEF ReadsRight
<1>5. CASE \E k \in Key, del \in Deletes, sync \in SyncOptions :
             Adding(k, del, sync)
  <2>1. PICK k \in Key, del \in Deletes, sync \in SyncOptions :
          Adding(k, del, sync)
    BY <1>5
  <2>2. LogsRight' /\ HistRight' /\ DiskRight' /\ MemRight' /\ ViewsRight'
    BY <1>1, <2>1, RightAdded, DiskAdded, MemAdded, ViewsAdded
  <2>3. JobsRight' /\ ReaderRight' BY <1>1, <2>1, JobsAdded, ReaderAdded
  <2> QED BY <1>2, <2>2, <2>3 DEF ReadsRight
<1> QED BY <1>3, <1>4, <1>5

LEMMA ReadsQuiet ==
  ASSUME "torn" \notin Faults, "nested" \notin Faults, ~Manual, Base, Base', ReadsRight,
         QuietStep
  PROVE  ReadsRight'
<1>1. /\ LogsRight /\ HistRight /\ DiskRight /\ MemRight
      /\ LayersRight /\ ViewsRight /\ JobsRight /\ ReaderRight
  BY DEF ReadsRight
<1>2. LogsRight' /\ HistRight' /\ DiskRight' /\ MemRight'
  BY <1>1, RightQuiet, DiskQuiet, MemQuiet
<1>3. LayersRight' /\ ViewsRight' /\ ReaderRight'
  BY <1>1, LayersQuiet, ViewsQuiet, ReaderQuiet
<1>4. JobsRight'
  <2>1. CASE StartCompaction BY <1>1, <2>1, JobsStart
  <2>2. CASE WriteOutputs BY <1>1, <2>2, JobsOutputs
  <2>3. CASE \/ GetSnapshot \/ (\E s \in Seqs \cup {0} : ReleaseSnapshot(s))
             \/ StartRead \/ EndRead \/ TableFails \/ UNCHANGED vars
    BY <1>1, <2>3, JobsOther
  <2> QED BY <2>1, <2>2, <2>3 DEF QuietStep
<1> QED BY <1>2, <1>3, <1>4 DEF ReadsRight

LEMMA ReadsMade ==
  ASSUME "torn" \notin Faults, "nested" \notin Faults, Base, Base', ReadsRight, EditMade
  PROVE  ReadsRight'
<1>1. /\ LogsRight /\ HistRight /\ DiskRight /\ MemRight
      /\ LayersRight /\ ViewsRight /\ JobsRight /\ ReaderRight
  BY DEF ReadsRight
<1>2. LogsRight' /\ HistRight' /\ MemRight' /\ ReaderRight'
  BY <1>1, RightMade, MemMade, ReaderWork
<1>3. CASE WriteLevel0Table
  <2>1. DiskRight' /\ ViewsRight' BY <1>1, <1>3, DiskFlush, ViewsFlush
  <2>2. LayersRight' /\ JobsRight' BY <1>1, <1>3, LayersFlush, JobsFlush
  <2> QED BY <1>2, <2>1, <2>2 DEF ReadsRight
<1>4. CASE TrivialMove
  <2>1. DiskRight' /\ ViewsRight' /\ LayersRight' /\ JobsRight'
    BY <1>1, <1>4, MoveRight, LayersMove, JobsOther
  <2> QED BY <1>2, <2>1 DEF ReadsRight
<1>5. CASE InstallCompactionResults
  <2>1. DiskRight' /\ ViewsRight' /\ LayersRight' /\ JobsRight'
    BY <1>1, <1>5, InstallRight, LayersInstall, JobsOther
  <2> QED BY <1>2, <2>1 DEF ReadsRight
<1> QED BY <1>3, <1>4, <1>5 DEF EditMade

LEMMA ReadsManifest ==
  ASSUME "torn" \notin Faults, "nested" \notin Faults, Base, Base', ReadsRight,
         LogAndApply \/ LogAndApplyFails \/ Ending
  PROVE  ReadsRight'
<1>1. /\ LogsRight /\ HistRight /\ DiskRight /\ MemRight
      /\ LayersRight /\ ViewsRight /\ JobsRight /\ ReaderRight
  BY DEF ReadsRight
<1>2. LayersRight' BY <1>1, LayersManifest
<1>3. CASE LogAndApply
  <2>1. LogsRight' /\ HistRight' /\ DiskRight' /\ MemRight' /\ ViewsRight'
    BY <1>1, <1>3, RightInstalled, DiskInstalled, MemInstalled, ViewsInstalled
  <2>2. JobsRight' /\ ReaderRight' BY <1>1, <1>3, JobsInstalled, ReaderWork
  <2> QED BY <1>2, <2>1, <2>2 DEF ReadsRight
<1>4. CASE LogAndApplyFails
  <2>1. LogsRight' /\ HistRight' /\ DiskRight' /\ MemRight' /\ ViewsRight'
    BY <1>1, <1>4, RightFailed, DiskFailed, MemFailed, ViewsFailed
  <2>2. JobsRight' /\ ReaderRight' BY <1>1, <1>4, JobsOther, ReaderWork
  <2> QED BY <1>2, <2>1, <2>2 DEF ReadsRight
<1>5. CASE Ending
  <2>1. LogsRight' /\ HistRight' /\ DiskRight' /\ MemRight' /\ ViewsRight'
    BY <1>1, <1>5, RightCrash, DiskCrash, MemCrash, ViewsCrash
  <2>2. JobsRight' /\ ReaderRight' BY <1>1, <1>5, JobsOther, ReaderCrash
  <2> QED BY <1>2, <2>1, <2>2 DEF ReadsRight
<1> QED BY <1>3, <1>4, <1>5

LEMMA ReadsNext ==
  ASSUME "torn" \notin Faults, "nested" \notin Faults, AllReplayed, ~Manual,
         Base, Base', ReadsRight, [Next]_vars
  PROVE  ReadsRight'
<1>1. CASE Recover \/ RecoverLogFile \/ NewLog \/ OpenDone
  BY <1>1, ReadsOpening
<1>2. CASE \/ SwitchMemTable \/ WriteDone \/ SyncFails
           \/ \E k \in Key, del \in Deletes, sync \in SyncOptions :
                Adding(k, del, sync)
  BY <1>2, ReadsWrites
<1>3. CASE QuietStep BY <1>3, ReadsQuiet
<1>4. CASE EditMade BY <1>4, ReadsMade
<1>5. CASE LogAndApply \/ LogAndApplyFails \/ Ending BY <1>5, ReadsManifest
<1> QED BY <1>1, <1>2, <1>3, <1>4, <1>5 DEF Next, QuietStep, EditMade

LEMMA AlwaysReads ==
  ASSUME ~Manual, ~CutInsideKey, "torn" \notin Faults, "nested" \notin Faults,
         "replay" \notin Faults
  PROVE  Spec => [](Base /\ ReadsRight)
<1>1. Spec => [](Types /\ FilesKept) BY AlwaysKept
<1>2. Spec => [](Fresh /\ SameVersion /\ LevelsOK) BY AlwaysApart
<1>3. Spec => [](LogsGrow /\ OnMedium /\ LogsFollow) BY AlwaysOnMedium
<1>4. (Types /\ FilesKept) /\ (Fresh /\ SameVersion /\ LevelsOK)
        /\ (LogsGrow /\ OnMedium /\ LogsFollow) => Base
  BY DEF Base
<1>5. Init => ReadsRight BY ReadsInit
<1>6. Base /\ Base' /\ ReadsRight /\ [Next]_vars => ReadsRight' BY ReadsNext DEF AllReplayed
<1> HIDE DEF Base, Types
<1> QED BY <1>1, <1>2, <1>3, <1>4, <1>5, <1>6, PTL DEF Spec

\* Reads of the memtables and the version that the store has now.
LEMMA ReadsNow ==
  ASSUME Base, ReadsRight, phase = "up", NEW k \in Key, NEW s \in Nat, SmallestSnapshot <= s
  PROVE  Get(mem, imm, current, k, s) = Answer(Writes(hist), k, s)
<1>1. View(imm, current) /\ Layered(tables, current)
  BY DEF ReadsRight, ViewsRight, LayersRight
<1>2. Single(mem \cup imm \cup Stored(tables, current)) BY <1>1, ViewSingle
<1>3. /\ TablesOK /\ current \in Files /\ InTables(current) /\ DisjointIn(tables, current)
  BY DEF MemOK, FilesKept, LevelsOK
<1>4. /\ \A e \in Stored(tables, current), f \in imm \cup mem : e.seq < f.seq
      /\ \A e \in imm, f \in mem : e.seq < f.seq
      /\ Complete(mem \cup imm \cup Stored(tables, current), Writes(hist), SmallestSnapshot)
  BY <1>1 DEF View
<1>5. Get(mem, imm, current, k, s) = Answer(mem \cup imm \cup Stored(tables, current), k, s)
  BY <1>1, <1>2, <1>3, <1>4, GetAnswer
<1>6. Answer(mem \cup imm \cup Stored(tables, current), k, s) = Answer(Writes(hist), k, s)
  <2> DEFINE E == mem \cup imm \cup Stored(tables, current)
             W == Writes(hist)
             small == SmallestSnapshot
  <2>1. Complete(E, W, small) /\ Single(W) /\ small \in Nat /\ small <= s /\ k \in Int
    BY <1>4, WritesAre, SmallestIs, Bounds DEF ClientsOK, Key
  <2> HIDE DEF E, W, small
  <2>2. Answer(E, k, s) = Answer(W, k, s) BY <2>1, CompleteAnswers
  <2> QED BY <2>2 DEF E, W
<1> QED BY <1>5, <1>6

\* A Get answers with the last write of the key that was answered, or that
\* recovery brought back, wherever flushes, moves, compactions, crashes and
\* recoveries have put its entries (DBImpl::Get, Version::Get).  Left out are
\* manual compactions and outputs that end inside a key, with which an old value
\* may return, records of a log of which a part is left, a memtable that fails
\* inside a compaction, and at a start the table of a log that is not the last.
THEOREM LatestReads ==
  ASSUME ~Manual, ~CutInsideKey, "torn" \notin Faults, "nested" \notin Faults,
         "replay" \notin Faults
  PROVE  Spec => []LatestRead
<1>1. ASSUME Base, ReadsRight PROVE LatestRead
  <2> SUFFICES ASSUME phase = "up", NEW k \in Key
               PROVE  Get(mem, imm, current, k, last) = Expected(k, MaxSeq)
    BY DEF LatestRead
  <2>1. /\ last \in Nat /\ MaxSeq \in Nat /\ last <= MaxSeq /\ SmallestSnapshot \in Nat
        /\ SmallestSnapshot <= last
    <3>1. last \in Nat /\ MaxSeq \in Nat /\ last <= MaxSeq
      BY <1>1, Bounds DEF MemOK
    <3>2. SmallestSnapshot \in Nat /\ (SmallestSnapshot = last \/ SmallestSnapshot \in held)
      BY <1>1, SmallestIs
    <3>3. \A s \in held : s <= last BY <1>1 DEF ReadsRight, HistRight
    <3> QED BY <3>1, <3>2, <3>3
  <2>2. Get(mem, imm, current, k, last) = Answer(Writes(hist), k, last)
    BY <1>1, <2>1, ReadsNow
  <2>3. Expected(k, MaxSeq) = Answer(Writes(hist), k, MaxSeq)
    BY <1>1, <2>1, ExpectedAnswer
  <2>4. Visible(Writes(hist), k, last) = Visible(Writes(hist), k, MaxSeq)
    <3>1. HistRight BY <1>1 DEF ReadsRight
    <3>2. \A e \in Writes(hist) : e.seq \in Nat /\ e.seq <= last
      BY <1>1, <3>1, WritesKnown
    <3> QED BY <2>1, <3>2 DEF Visible
  <2>5. Answer(Writes(hist), k, last) = Answer(Writes(hist), k, MaxSeq)
    BY <2>4 DEF Answer, Newest
  <2> QED BY <2>2, <2>3, <2>5
<1> HIDE DEF Base
<1> QED BY <1>1, AlwaysReads, PTL

\* No write that was acknowledged with sync = true goes or changes.
LEMMA SyncedStays ==
  ASSUME Types, HistRight, OnMedium, LogsFollow, [Next]_vars PROVE SyncedStay
<1>1. CASE Ending BY <1>1, SyncCrash
<1>2. CASE UNCHANGED hist BY <1>2 DEF SyncedStay
<1>3. CASE \E k \in Key, del \in Deletes, sync \in SyncOptions :
             Adding(k, del, sync)
  <2>1. PICK k \in Key, del \in Deletes, sync \in SyncOptions :
          Adding(k, del, sync)
    BY <1>3
  <2>2. /\ phase = "up" /\ writer = None
        /\ \E st \in {"pending", "failed"} :
             hist' = [hist EXCEPT ![last + 1] =
               [key |-> k, del |-> del, sync |-> sync, state |-> st]]
    BY <2>1 DEF AddRecord, AddRecordFails, Ready
  <2>3. last \in Nat /\ \A s \in Seqs : Synced(s) => s <= last
    BY <2>2, Bounds DEF HistRight, Synced, MemOK
  <2> QED BY <2>2, <2>3 DEF SyncedStay, ClientsOK
<1>4. CASE WriteDone \/ SyncFails
  <2>1. /\ writer # None /\ writer.entry.seq \in Seqs
        /\ \E st \in {"done", "failed"} :
             hist' = [hist EXCEPT ![writer.entry.seq].state = st]
    BY <1>4, WriterIs DEF WriteDone, SyncFails
  <2>2. ~Synced(writer.entry.seq) BY <2>1 DEF LogsFollow, Synced
  <2> QED BY <2>1, <2>2, HistIs DEF SyncedStay
<1>5. CASE \/ Recover \/ RecoverLogFile \/ NewLog \/ OpenDone \/ SwitchMemTable
           \/ GetSnapshot \/ (\E s \in Seqs \cup {0} : ReleaseSnapshot(s))
           \/ StartRead \/ EndRead \/ UNCHANGED vars
  BY <1>2, <1>5 DEF Recover, RecoverLogFile, NewLog, OpenDone, SwitchMemTable,
     GetSnapshot, ReleaseSnapshot, StartRead, EndRead, observers, vars
<1>6. CASE \/ WriteLevel0Table \/ StartCompaction \/ TrivialMove \/ WriteOutputs
           \/ InstallCompactionResults \/ TableFails \/ LogAndApply \/ LogAndApplyFails
  BY <1>2, <1>6 DEF WriteLevel0Table, StartCompaction, TrivialMove, WriteOutputs,
     InstallCompactionResults, TableFails, LogAndApply, LogAndApplyFails, observers
<1> QED BY <1>1, <1>3, <1>4, <1>5, <1>6 DEF Next

\* A write that was acknowledged with sync = true is never lost: no end of the
\* process or of the machine takes it away or changes it, and a Get of its key
\* answers with it or with a newer write (DBImpl::Write, WritableFile::Sync,
\* DBImpl::Recover), under the same assumptions.
THEOREM SyncedWritesKept ==
  ASSUME ~Manual, ~CutInsideKey, "torn" \notin Faults, "nested" \notin Faults,
         "replay" \notin Faults
  PROVE  Spec => SyncedKept
<1> DEFINE Inv == Base /\ ReadsRight
           Medium == LogsGrow /\ OnMedium /\ LogsFollow
           Held == phase = "up" => \A s \in Seqs : Synced(s) => Found(s)
<1>1. Inv /\ Medium /\ [Next]_vars => [SyncedStay]_vars
  BY SyncedStays DEF ReadsRight
<1>2. Inv /\ LatestRead => Held
  <2> SUFFICES ASSUME Inv, LatestRead, phase = "up", NEW s \in Seqs, Synced(s)
               PROVE  Found(s)
    OBVIOUS
  <2> DEFINE k == hist[s].key
             writes == {n \in Seqs : /\ n <= MaxSeq /\ hist[n] # None
                                     /\ hist[n].key = k /\ hist[n].state = "done"}
             t == CHOOSE n \in writes : \A m \in writes : m <= n
  <2>1. k \in Key /\ s \in writes
    BY Bounds DEF Synced, ClientsOK, AWrite, Seqs
  <2>2. Get(mem, imm, current, k, last) = Expected(k, MaxSeq) BY <2>1 DEF LatestRead
  <2>3. t \in writes /\ \A m \in writes : m <= t
    <3>1. writes \subseteq 0..MaxSeq BY Bounds DEF Seqs
    <3> HIDE DEF writes
    <3> QED BY <2>1, <3>1, Bounds, LargestExists DEF Largest
  <2>4. Expected(k, MaxSeq) = IF hist[t].del THEN Absent ELSE t
    BY <2>1 DEF Expected
  <2> HIDE DEF t
  <2> QED BY <2>1, <2>2, <2>3, <2>4 DEF Found
<1>3. SyncedKept <=> [][SyncedStay]_vars /\ []Held BY DEF SyncedKept, SyncedStay
<1>4. Spec => []Medium BY AlwaysOnMedium
<1>5. Spec => []Inv /\ []LatestRead BY AlwaysReads, LatestReads
<1> HIDE DEF Inv, Medium, Held
<1> QED BY <1>1, <1>2, <1>3, <1>4, <1>5, PTL DEF Spec

\* A Get through a snapshot answers what was true when the snapshot was taken,
\* whatever compactions have dropped since (DBImpl::DoCompactionWork,
\* smallest_snapshot), under the same assumptions.
THEOREM SnapshotReads ==
  ASSUME ~Manual, ~CutInsideKey, "torn" \notin Faults, "nested" \notin Faults,
         "replay" \notin Faults
  PROVE  Spec => []SnapshotsRead
<1>1. ASSUME Base, ReadsRight PROVE SnapshotsRead
  <2> SUFFICES ASSUME NEW s \in held, NEW k \in Key
               PROVE  Get(mem, imm, current, k, s) = Expected(k, s)
    BY DEF SnapshotsRead
  <2>1. phase = "up" BY <1>1 DEF PhaseOK
  <2>2. s \in Nat /\ SmallestSnapshot <= s BY <1>1, SmallestIs
  <2>3. Get(mem, imm, current, k, s) = Answer(Writes(hist), k, s)
    BY <1>1, <2>1, <2>2, ReadsNow
  <2>4. Expected(k, s) = Answer(Writes(hist), k, s)
    BY <1>1, <2>2, ExpectedAnswer
  <2> QED BY <2>3, <2>4
<1> HIDE DEF Base
<1> QED BY <1>1, AlwaysReads, PTL

\* A reader that let go of the mutex finds its tables and reads what was true at
\* its start, though memtables, versions and files have changed since
\* (Version::Ref, VersionSet::AddLiveFiles), under the same assumptions.
THEOREM PinnedReads ==
  ASSUME ~Manual, ~CutInsideKey, "torn" \notin Faults, "nested" \notin Faults,
         "replay" \notin Faults
  PROVE  Spec => []ReaderReads
<1>1. ASSUME Base, ReadsRight PROVE ReaderReads
  <2> SUFFICES ASSUME reader # None
               PROVE  /\ AllFiles(reader.files) \subseteq DOMAIN tables
                      /\ \A k \in Key :
                           Get(reader.mem, reader.imm, reader.files, k, reader.seq)
                             = Expected(k, reader.seq)
    BY DEF ReaderReads
  <2> DEFINE fs == reader.files
             m == reader.mem
             i == reader.imm
             s == reader.seq
  <2>1. fs \in Files /\ s \in Nat /\ TablesOK
    <3>1. reader \in AReader BY <1>1 DEF ClientsOK
    <3> QED BY <1>1, <3>1, Bounds DEF AReader
  <2>2. /\ InTables(fs) /\ Single(m \cup i \cup Stored(tables, fs))
        /\ DisjointIn(tables, fs) /\ Layered(tables, fs)
        /\ \A e \in Stored(tables, fs), f \in i \cup m : e.seq < f.seq
        /\ \A e \in i, f \in m : e.seq < f.seq
        /\ \A k \in Key :
             Answer(m \cup i \cup Stored(tables, fs), k, s) = Answer(Writes(hist), k, s)
    BY <1>1 DEF ReadsRight, ReaderRight
  <2> HIDE DEF fs, m, i, s
  <2>3. ASSUME NEW k \in Key PROVE Get(m, i, fs, k, s) = Expected(k, s)
    <3>1. Get(m, i, fs, k, s) = Answer(m \cup i \cup Stored(tables, fs), k, s)
      BY <2>1, <2>2, GetAnswer
    <3>2. Expected(k, s) = Answer(Writes(hist), k, s)
      BY <1>1, <2>1, ExpectedAnswer
    <3> QED BY <2>2, <3>1, <3>2
  <2>4. \A k \in Key : Get(reader.mem, reader.imm, reader.files, k, reader.seq)
                         = Expected(k, reader.seq)
    BY <2>3 DEF fs, m, i, s
  <2>5. AllFiles(reader.files) \subseteq DOMAIN tables BY <2>2 DEF InTables, fs
  <2> QED BY <2>4, <2>5
<1> HIDE DEF Base
<1> QED BY <1>1, AlwaysReads, PTL
=============================================================================
