---------------------------- MODULE StoreEntries ----------------------------
(***************************************************************************)
(* The entries of leveldb and their order, apart from where they are kept. *)
(*                                                                         *)
(* An entry is the internal key: the user key, the sequence number of the  *)
(* write, and whether the write deleted the key.  A value is told apart by *)
(* the sequence number of the write that put it there, so the answer of a  *)
(* read is that number, or Absent.                                         *)
(***************************************************************************)
EXTENDS Integers

Absent == 0

\* The order of internal keys: by user key, and the newest write first.
Precedes(a, b) == a.key < b.key \/ (a.key = b.key /\ a.seq > b.seq)

\* What a reader at sequence number s may see of the key.
Visible(E, k, s) == {e \in E : e.key = k /\ e.seq <= s}

\* The first entry at or behind <<k, s>> in that order.
Newest(E, k, s) ==
  CHOOSE e \in Visible(E, k, s) : \A f \in Visible(E, k, s) : f.seq <= e.seq

\* What a lookup that found the entry answers.
AnswerOf(e) == IF e.del THEN Absent ELSE e.seq

\* A reader at s of all the entries E.
Answer(E, k, s) ==
  IF Visible(E, k, s) = {} THEN Absent ELSE AnswerOf(Newest(E, k, s))

\* The entries U are asked first, and B only when they have nothing to say: a
\* memtable before the files, a level before the next.
AnswerThrough(U, B, k, s) ==
  IF Visible(U, k, s) # {} THEN AnswerOf(Newest(U, k, s)) ELSE Answer(B, k, s)

-----------------------------------------------------------------------------
(* What a compaction leaves out                                            *)

\* An entry that no snapshot can see: a newer one of its key is old enough
\* for every snapshot there is.
Hidden(E, e, smallest) ==
  \E f \in E : f.key = e.key /\ f.seq > e.seq /\ f.seq <= smallest

\* A deletion with nothing left below it to hide.
Obsolete(e, smallest, base) ==
  e.del /\ e.seq <= smallest /\ e.key \in base

\* The entries of E that are written to the outputs; base holds the keys
\* that the levels below the outputs have no entry of.
Kept(E, smallest, base) ==
  {e \in E : ~Hidden(E, e, smallest) /\ ~Obsolete(e, smallest, base)}

=============================================================================
