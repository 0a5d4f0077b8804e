----------------------------- MODULE SortedSet ------------------------------
(***************************************************************************)
(* What a memtable's list promises: a set of keys that only grows, and an  *)
(* iterator whose every move takes effect at one moment between its call   *)
(* and its return, however insertions are carried out meanwhile.           *)
(***************************************************************************)
EXTENDS Integers

CONSTANTS Key, Head, Null   \* Head is before and Null behind every key

VARIABLES
  keys,   \* the keys in the set
  node,   \* where the iterator is; Null when it is not valid
  ask     \* the search it carries out: a kind and a key, or none

setVars == <<keys, node, ask>>

NoAsk == [kind |-> "none", key |-> Null]
Asks == [kind : {"ge", "lt"}, key : Key \cup {Null}]

\* The first key at or behind k, and the last one before it.
IsFirst(n, k) ==
  /\ n \in keys \cup {Null} /\ n >= k
  /\ \A j \in keys : j >= k => n <= j

IsFinal(n, k) ==
  /\ n \in keys \cup {Head} /\ n < k
  /\ \A j \in keys : j < k => j <= n

SetInit == keys = {} /\ node = Null /\ ask = NoAsk

Add(k) ==
  /\ k \notin keys
  /\ keys' = keys \cup {k}
  /\ UNCHANGED <<node, ask>>

\* The iterator is made anew, or moves to the first key or the next at once.
Reset ==
  /\ ask = NoAsk
  /\ node' = Null
  /\ UNCHANGED <<keys, ask>>

Step ==
  /\ ask = NoAsk
  /\ \E k \in {Head} \cup ({node} \ {Null}) : IsFirst(node', k + 1)
  /\ UNCHANGED <<keys, ask>>

Ask(a) ==
  /\ ask = NoAsk
  /\ ask' = a
  /\ UNCHANGED <<keys, node>>

Answer ==
  /\ ask # NoAsk
  /\ \/ ask.kind = "ge" /\ IsFirst(node', ask.key)
     \/ /\ ask.kind = "lt"
        /\ \E n \in keys \cup {Head} :
             IsFinal(n, ask.key) /\ node' = IF n = Head THEN Null ELSE n
  /\ ask' = NoAsk
  /\ UNCHANGED keys

SetNext ==
  \/ \E k \in Key : Add(k)
  \/ Reset \/ Step \/ Answer
  \/ \E a \in Asks : Ask(a)

SetSpec == SetInit /\ [][SetNext]_setVars

=============================================================================
