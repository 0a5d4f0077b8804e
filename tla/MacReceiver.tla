---------------------------- MODULE MacReceiver -----------------------------
(***************************************************************************)
(* The Mac application: ViewController listens to the whole room, carries  *)
(* out what it finds there and takes it away again.                        *)
(***************************************************************************)
EXTENDS Room

CONSTANT SettingsLast  \* the dictionary happens to put the settings last

VARIABLES
  timers,     \* running 0.1 s timers, each to take a screenshot
  uploads,    \* screenshots on their way to the storage
  stored,     \* how many addresses the storage has given
  dot,        \* where the red dot was last put
  black,      \* the blackout covers the screen
  performed   \* performed[p]: how often command p was carried out

macVars == <<timers, uploads, stored, dot, black, performed>>

\* The blocks of the Mac's main queue, beside the events of its listener: a
\* command to carry out, and the storage's answer to an upload.
Perform(p, a) == [kind |-> "perform", press |-> p, action |-> a]
Uploaded(url) == [kind |-> "uploaded", url |-> url]
MacBlock == [kind : {"perform"}, press : Press, action : Action \ {"blank"}]
              \cup [kind : {"uploaded"}, url : Range(Urls)]

-----------------------------------------------------------------------------
(* The callback of the listener *)

\* The children of the room, in the order the dictionary happens to have.
Children(tree) ==
  {p \in Press : tree[p] # None}
    \cup (IF \E s \in Setting : tree[s] # None THEN {"settings"} ELSE {})

Orders(tree) ==
  {order \in Bijection(1..Cardinality(Children(tree)), Children(tree)) :
     SettingsLast => \A i \in DOMAIN order :
                        order[i] = "settings" => i = Cardinality(Children(tree))}

WantsImage(tree) == tree["wants"] = "true"

\* The children the loop gets through: the settings have no action, so when
\* they ask for no image the guard breaks out of the whole loop.
Reached(order, tree) ==
  IF WantsImage(tree) THEN Len(order)
  ELSE Cardinality({i \in DOMAIN order :
                      \A j \in 1..i : order[j] # "settings"})

\* Fault: the whole room is cleared, though the loop broke off.
LoopWritesAll(order, tree) ==
  [i \in DOMAIN order |->
     IF order[i] = "settings" THEN SetWants("false") ELSE Remove(order[i])]

\* Fault: a request is not taken back.
LoopWritesLeaving(order, tree) ==
  LET later == SelectSeq(SubSeq(order, 1, Reached(order, tree)), LAMBDA x : x \in Press)
  IN [i \in DOMAIN later |-> Remove(later[i])]

\* The writes of the loop, in its order: the request is taken back, every
\* command reached is removed.
LoopWrites(order, tree) ==
  [i \in 1..Reached(order, tree) |->
     IF order[i] = "settings" THEN SetWants("false") ELSE Remove(order[i])]

\* The k-th of a set of places.
Nth(places, k) == CHOOSE i \in places : Cardinality({j \in places : j <= i}) = k

\* One block for every one of these places, in the order of the loop.
Blocks(places, order, tree) ==
  [k \in 1..Cardinality(places) |->
     LET p == order[Nth(places, k)] IN Perform(p, tree[p])]

\* Fault: the blackout is left to a block as well.
LoopBlocksAll(order, tree) ==
  Blocks({i \in 1..Reached(order, tree) : order[i] \in Press}, order, tree)

\* Fault: the last command of the loop is forgotten.
LoopBlocksShort(order, tree) ==
  Blocks({i \in 1..(Reached(order, tree) - 1) :
            order[i] \in Press /\ tree[order[i]] # "blank"}, order, tree)

\* Where the loop comes by a command other than the blackout.
Deferred(order, tree) ==
  {i \in 1..Reached(order, tree) : order[i] \in Press /\ tree[order[i]] # "blank"}

\* Every command reached but the blackout is left to a block of its own.
LoopBlocks(order, tree) == Blocks(Deferred(order, tree), order, tree)

\* The blackout is switched at once.
Switched(order, tree) ==
  {p \in Press : tree[p] = "blank" /\ \E i \in 1..Reached(order, tree) : order[i] = p}

\* Fault: a place beyond the screen is passed over.
DotAtVisible(tree) ==
  IF ~WantsImage(tree) /\ tree["coord"] \notin {None, Off} THEN tree["coord"] ELSE dot

\* With no image asked for, the loop moves the dot to the place it finds.
DotAt(tree) ==
  IF ~WantsImage(tree) /\ tree["coord"] # None THEN tree["coord"] ELSE dot

MacCallback ==
  /\ mainq[Mac] # <<>>
  /\ Head(mainq[Mac]).kind = "event"
  /\ LET tree == Head(mainq[Mac]).tree IN
     \E order \in Orders(tree) :
       /\ Dispatch(Mac, LoopWrites(order, tree))
       /\ mainq' = [mainq EXCEPT ![Mac] = Tail(@) \o LoopBlocks(order, tree)]
       /\ uploads' = IF WantsImage(tree) THEN uploads + 1 ELSE uploads
       /\ dot' = DotAt(tree)
       /\ black' = (black # (Cardinality(Switched(order, tree)) % 2 = 1))
       /\ performed' = [p \in Press |->
            IF p \in Switched(order, tree) THEN performed[p] + 1 ELSE performed[p]]
  /\ UNCHANGED <<serverVars, pending, held, unacked, cache, loaded, online, drops>>
  /\ UNCHANGED <<timers, stored>>

-----------------------------------------------------------------------------
(* The blocks, the timers and the storage *)

\* A key press starts the timer of a screenshot; play and volume do not.
RunPerform ==
  /\ mainq[Mac] # <<>>
  /\ Head(mainq[Mac]).kind = "perform"
  /\ LET job == Head(mainq[Mac]) IN
       /\ performed' = [performed EXCEPT ![job.press] = @ + 1]
       /\ timers' = IF job.action \in {"keydown", "keyup"} THEN timers + 1 ELSE timers
  /\ mainq' = [mainq EXCEPT ![Mac] = Tail(@)]
  /\ UNCHANGED <<serverVars, calls, pending, held, unacked, cache, loaded, online, drops>>
  /\ UNCHANGED <<uploads, stored, dot, black>>

\* The timer fires in the run loop: a screenshot is taken and sent.
TimerFires ==
  /\ timers > 0
  /\ timers' = timers - 1
  /\ uploads' = uploads + 1
  /\ UNCHANGED <<syncVars, stored, dot, black, performed>>

\* The storage has the image and its address, or has failed: then nothing
\* more is done.  Urls bounds how often it succeeds.
StorageAnswers ==
  /\ uploads > 0
  /\ uploads' = uploads - 1
  /\ \/ /\ stored < Len(Urls)
        /\ stored' = stored + 1
        /\ mainq' = [mainq EXCEPT ![Mac] = Append(@, Uploaded(Urls[stored + 1]))]
     \/ UNCHANGED <<stored, mainq>>
  /\ UNCHANGED <<serverVars, calls, pending, held, unacked, cache, loaded, online, drops>>
  /\ UNCHANGED <<timers, dot, black, performed>>

RunUploaded ==
  /\ mainq[Mac] # <<>>
  /\ Head(mainq[Mac]).kind = "uploaded"
  /\ Dispatch(Mac, <<SetSettings(Head(mainq[Mac]).url)>>)
  /\ mainq' = [mainq EXCEPT ![Mac] = Tail(@)]
  /\ UNCHANGED <<serverVars, pending, held, unacked, cache, loaded, online, drops>>
  /\ UNCHANGED macVars

MacInit ==
  /\ timers = 0
  /\ uploads = 0
  /\ dot = None
  /\ black = FALSE

NothingDone == stored = 0 /\ performed = [p \in Press |-> 0]

MacMain == MacCallback \/ RunPerform \/ RunUploaded
MacStep == MacMain \/ TimerFires \/ StorageAnswers

MacTypeOK ==
  /\ timers \in Nat
  /\ uploads \in Nat
  /\ stored \in 0..Len(Urls)
  /\ dot \in Point \cup {Off, None}
  /\ black \in BOOLEAN
  /\ performed \in [Press -> Nat]
=============================================================================
