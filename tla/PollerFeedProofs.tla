-------------------------- MODULE PollerFeedProofs --------------------------
(***************************************************************************)
(* Proofs about what Poller prints, for any ledger, batch size and history *)
(* of kills.  With one endpoint, any number of concurrent calls and any    *)
(* start block: the blocks link without a hole, no block lies below a LIB  *)
(* given before, a restart repeats at most one block, and the whole output *)
(* is a linked feed.  With any number of endpoints: from genesis on the    *)
(* output is still a linked feed.  With one endpoint and one call at a     *)
(* time: the LIB never goes back.                                          *)
(***************************************************************************)
EXTENDS PollerProofs

(***************************************************************************)
(* One line: a single endpoint, every zeroed previous hash patched, and no *)
(* block of the hard-coded range (rpc.go:64-66) behind one that is served; *)
(* the code takes the slots of that range for skipped ones, which hold no  *)
(* block at all.                                                           *)
(***************************************************************************)
Served == {b \in Produced : b >= StartBlock /\ b \notin UglyHack}

OneLine ==
  /\ NumClients = 1
  /\ Zeroed \subseteq BlockToPatch
  /\ \A a, b \in Produced : StartBlock <= a /\ a < b /\ b \in UglyHack => a \in UglyHack

First(b) == b \in Served /\ \A s \in Served : b <= s
Child(b, p) == b \in Served /\ ParentSlot[b] = p /\ p < b
Newest == feed[Len(feed)]

(* What the results of a batch say of their slots, whenever they are used. *)
Results ==
  \A i \in items :
    /\ i.out = "block" => i.slot \in Produced \ UglyHack /\ i.lib <= i.slot
    /\ i.out = "skip" => i.slot \notin Produced \ UglyHack

(* No block is left out between the head of the chain and the slot wanted. *)
Wanted ==
  /\ phase = "resolve" => next >= StartBlock /\ \A s \in Served : next <= s
  /\ phase = "poll" => \/ next = last
                       \/ fired /\ last < next /\ \A s \in Served : s <= last \/ next <= s

(* The head is the place stored, or nothing is stored and it is the first  *)
(* block; a block that waits to be printed follows it.                     *)
Place ==
  /\ phase \in {"poll", "fire"} => last \in Served
  /\ phase \in {"poll", "fire"} /\ ~fired => cursor = Nil /\ First(last)
  /\ phase = "poll" \/ (phase = "fire" /\ pending # <<>>) => (fired => cursor = last)
  /\ phase = "fire" /\ pending = <<>> =>
       fired /\ feed # <<>> /\ (Newest = last \/ cursor = last)
  /\ phase # "fire" => pending = <<>>
  /\ pending # <<>> =>
       /\ Len(pending) = 1
       /\ pending[1].slot \in Served /\ pending[1].lib <= pending[1].slot
       /\ IF fired THEN Child(pending[1].slot, last) ELSE pending[1].slot = last

(* What was printed is at most one block ahead of the place stored.        *)
History ==
  /\ cursor = Nil => feed = <<>> \/ (Len(feed) = 1 /\ First(feed[1]))
  /\ cursor # Nil => /\ cursor \in Served /\ feed # <<>>
                     /\ Newest = cursor \/ Child(Newest, cursor)
  /\ \A i \in 1 .. Len(feed) : feed[i] <= Newest
  /\ line.slot = IF feed = <<>> THEN 0 ELSE Newest
  /\ highLib <= line.slot

LInv == AlwaysLinks /\ Results /\ Wanted /\ Place /\ History

-----------------------------------------------------------------------------
(* A block has at most one child.                                          *)
LEMMA OneChild ==
  ASSUME NEW p, NEW b, NEW c, Child(b, p), Child(c, p)
  PROVE  b = c
<1>1. b \in Produced \ {0} /\ c \in Produced \ {0} /\ p \in Nat /\ p < b /\ p < c
  <2>1. b \in Produced /\ c \in Produced /\ p < b /\ p < c /\ ParentSlot[b] = p
    BY DEF Child, Served
  <2>2. p \in Nat /\ b \in Nat /\ c \in Nat
    BY <2>1, LedgerAssumption
  <2> QED
    BY <2>1, <2>2
<1>2. ~(b < c) /\ ~(c < b)
  BY <1>1, LedgerAssumption DEF Child
<1> QED
  BY <1>1, <1>2, LedgerAssumption

LEMMA OneFirst ==
  ASSUME NEW b, NEW c, First(b), First(c)
  PROVE  b = c
BY LedgerAssumption DEF First, Served

(* The next block that is served is the child of the one before it.        *)
LEMMA NextIsChild ==
  ASSUME OneLine, NEW a \in Served, NEW b \in Served, a < b,
         \A s \in Served : s <= a \/ b <= s
  PROVE  Child(b, a)
<1> DEFINE p == ParentSlot[b]
<1>1. a \in Nat /\ b \in Nat \ {0} /\ b \in Produced /\ a \in Produced /\ a \notin UglyHack
      /\ StartBlock \in Nat /\ StartBlock <= a
  BY LedgerAssumption, PollerAssumption DEF Served
<1>2. p \in Produced /\ p \in Nat /\ p < b /\ a <= p
  BY <1>1, LedgerAssumption
<1>3. p = a
  <2> SUFFICES ASSUME a < p PROVE FALSE
    BY <1>1, <1>2
  <2>1. p \notin UglyHack
    BY <1>1, <1>2 DEF OneLine
  <2>2. p \in Served
    BY <1>1, <1>2, <2>1 DEF Served
  <2> QED
    BY <1>1, <1>2, <2>2
<1> QED
  BY <1>2, <1>3 DEF Child

(* Every previous hash is the parent's.                                    *)
LEMMA PatchedHash ==
  ASSUME OneLine, NEW b
  PROVE  fixPreviousBlockHash(b) = ParentSlot[b]
BY DEF OneLine, fixPreviousBlockHash

-----------------------------------------------------------------------------
(* The invariant, action by action.                                        *)
LEMMA LineKept ==
  ASSUME LInv, UNCHANGED <<phase, place, items, cursor, printed>>
  PROVE  LInv'
<1>1. UNCHANGED <<phase, next, last, fired, pending, items, cursor, feed, line, highLib>>
  BY DEF place, printed
<1> QED
  BY <1>1 DEF LInv, AlwaysLinks, Results, Wanted, Place, History, Newest

LEMMA LineExit ==
  ASSUME LInv, NEW how \in {"down", "killed"}, Exit(how)
  PROVE  LInv'
BY DEF LInv, AlwaysLinks, Results, Wanted, Place, History, Newest, Exit, printed

LEMMA LineStart ==
  ASSUME LInv, Start
  PROVE  LInv'
<1>1. \A s \in Served : StartBlock <= s
  BY LedgerAssumption, PollerAssumption DEF Served
<1> QED
  BY <1>1, PollerAssumption
  DEF LInv, AlwaysLinks, Results, Wanted, Place, History, Newest, Start, printed

LEMMA LineResolve ==
  ASSUME OneLine, IInv, TInv, LInv, StartSkipped \/ InitState
  PROVE  LInv'
<1>1. /\ phase = "resolve" /\ asker \in Worker /\ call[asker].slot = next
      /\ next \in Nat /\ next >= StartBlock /\ StartBlock \in Nat
      /\ \A s \in Served : next <= s /\ s \in Nat
      /\ pending = <<>> /\ NumClients = 1
  BY LedgerAssumption, PollerAssumption
  DEF StartSkipped, InitState, TInv, PollerTypeOK, LInv, Wanted, Place, Served, OneLine
<1>2. CASE StartSkipped
  <2>1. next \notin Served
    BY <1>1, <1>2, Outcome DEF StartSkipped, Answered, Served
  <2>2. \A s \in Served : next + 1 <= s
    BY <1>1, <2>1
  <2> QED
    BY <1>1, <1>2, <2>2
    DEF LInv, AlwaysLinks, Results, Wanted, Place, History, Newest, StartSkipped, printed
<1>3. CASE InitState
  <2>1. First(next)
    BY <1>1, <1>3, Outcome DEF InitState, Answered, Served, First
  <2>2. /\ phase' = "poll" /\ next' = last' /\ pending' = <<>>
        /\ last' = IF cursor = Nil THEN next ELSE cursor
        /\ fired' = (cursor # Nil)
        /\ UNCHANGED <<items, cursor, feed, line, highLib>>
    BY <1>1, <1>3 DEF InitState, printed
  <2>3. Place'
    <3>1. CASE cursor = Nil
      BY <2>1, <2>2, <3>1 DEF Place, First
    <3>2. CASE cursor # Nil
      BY <2>2, <3>2 DEF Place, LInv, History
    <3> QED
      BY <3>1, <3>2
  <2> QED
    BY <2>2, <2>3 DEF LInv, AlwaysLinks, Results, Wanted, History, Newest
<1> QED
  BY <1>2, <1>3

LEMMA LineItems ==
  ASSUME OneLine, IInv, TInv, LInv,
         LoadNextBlocks \/ SkipItem \/ \E w \in Worker : Collect(w)
  PROVE  LInv'
<1>1. CASE LoadNextBlocks
  BY <1>1 DEF LoadNextBlocks, LInv, AlwaysLinks, Results, Wanted, Place, History, Newest,
              place, printed
<1>2. CASE SkipItem
  <2>1. /\ phase = "poll" /\ next' = next + 1
        /\ UNCHANGED <<phase, last, fired, pending, items, cursor, feed, line, highLib>>
        /\ next \notin Produced \ UglyHack
    BY <1>2 DEF SkipItem, printed, LInv, Results
  <2>2. /\ last \in Served /\ next \notin Served /\ last \in Nat /\ next \in Nat
        /\ \A s \in Served : s \in Nat
    BY <2>1, LedgerAssumption DEF LInv, Place, Served, TInv, PollerTypeOK
  <2>3. Wanted'
    BY <2>1, <2>2 DEF LInv, Wanted
  <2> QED
    BY <2>1, <2>3 DEF LInv, AlwaysLinks, Results, Place, History, Newest
<1>3. ASSUME NEW w \in Worker, Collect(w) PROVE LInv'
  <2> DEFINE i == [slot |-> call[w].slot, out |-> call[w].out, lib |-> call[w].lib]
  <2>1. /\ items' = items \cup {i}
        /\ UNCHANGED <<phase, next, last, fired, pending, cursor, feed, line, highLib>>
    BY <1>3 DEF Collect, place, printed
  <2>2. /\ i.out = "block" => i.slot \in Produced \ UglyHack /\ i.lib <= i.slot
        /\ i.out = "skip" => i.slot \notin Produced \ UglyHack
    BY Outcome DEF OneLine
  <2> HIDE DEF i
  <2>3. Results'
    BY <2>1, <2>2 DEF LInv, Results
  <2> QED
    BY <2>1, <2>3 DEF LInv, AlwaysLinks, Wanted, Place, History, Newest
<1> QED
  BY <1>1, <1>2, <1>3

(* A block that arrives links to the head of the chain.                    *)
LEMMA LineTake ==
  ASSUME OneLine, TInv, LInv, NEW i \in items, TakeBlock(i)
  PROVE  LInv'
<1> DEFINE b == [slot |-> i.slot, lib |-> i.lib]
<1>1. /\ phase = "poll" /\ pending = <<>> /\ i.slot = next /\ ProcessBlock(b)
      /\ last \in Served /\ (fired => cursor = last)
      /\ UNCHANGED <<cursor, feed, line, highLib>>
  BY DEF TakeBlock, LInv, Place, printed
<1>2. b \in Block /\ b.slot = next /\ next \in Nat /\ next \in Produced \ UglyHack
      /\ b.lib <= b.slot
  BY <1>1, LedgerAssumption DEF LInv, Results, TakeBlock, TInv, PollerTypeOK, Item, Block
<1>3. next = last \/ (fired /\ Child(next, last))
  <2> SUFFICES ASSUME next # last PROVE fired /\ Child(next, last)
    OBVIOUS
  <2>1. fired /\ last < next /\ \A s \in Served : s <= last \/ next <= s
    BY <1>1 DEF LInv, Wanted
  <2>2. next \in Served
    BY <1>1, <1>2, <2>1, LedgerAssumption, PollerAssumption DEF Served
  <2> QED
    BY <1>1, <2>1, <2>2, NextIsChild
<1> HIDE DEF b
<1>4. Segment(b) = <<b>> /\ Head(<<b>>) = b /\ Tail(<<b>>) = <<>>
  BY <1>1 DEF Segment
<1>5. Connected(b)
  BY <1>2, <1>3, PatchedHash DEF Connected, Child
<1>6. /\ phase' = "fire" /\ UNCHANGED <<next, last, fired>>
      /\ pending' = IF fired /\ next = last THEN <<>> ELSE <<b>>
  BY <1>1, <1>2, <1>4, <1>5 DEF ProcessBlock
<1>7. items' = items
  BY <1>6 DEF TakeBlock
<1>8. Place'
  <2>1. CASE fired /\ next = last
    <3>1. cursor # Nil
      BY <1>1, <2>1, LedgerAssumption, PollerAssumption DEF Served
    <3> QED
      BY <1>1, <1>6, <2>1, <3>1 DEF Place, LInv, History, Newest
  <2>2. CASE ~(fired /\ next = last)
    <3>1. pending' = <<b>> /\ Len(<<b>>) = 1 /\ <<b>>[1] = b /\ <<b>> # <<>>
      BY <1>6, <2>2
    <3>2. IF fired THEN Child(next, last) ELSE next = last
      BY <1>3, <2>2
    <3>3. next \in Served
      BY <1>1, <1>3 DEF Child
    <3> QED
      BY <1>1, <1>2, <1>6, <3>1, <3>2, <3>3 DEF Place, LInv, Newest
  <2> QED
    BY <2>1, <2>2
<1> QED
  BY <1>1, <1>6, <1>7, <1>8 DEF LInv, AlwaysLinks, Results, Wanted, History, Newest

LEMMA LineSave ==
  ASSUME TInv, LInv, SaveState
  PROVE  LInv'
<1>1. /\ phase = "fire" /\ pending = <<>> /\ last \in Served
      /\ fired /\ feed # <<>> /\ (Newest = last \/ cursor = last)
  BY DEF SaveState, LInv, Place
<1>2. /\ cursor' = last /\ next' = last + 1 /\ phase' = "poll"
      /\ UNCHANGED <<last, fired, pending, items, feed, line, highLib>>
  BY DEF SaveState, printed
<1>3. last \in Nat /\ last # Nil /\ \A s \in Served : s \in Nat
  BY <1>1, LedgerAssumption, PollerAssumption DEF Served
<1>4. Wanted'
  BY <1>1, <1>2, <1>3 DEF Wanted
<1>5. History'
  <2>1. Newest = last \/ Child(Newest, last)
    BY <1>1, <1>3 DEF LInv, History
  <2> QED
    BY <1>1, <1>2, <1>3, <2>1 DEF LInv, History, Newest
<1> QED
  BY <1>1, <1>2, <1>4, <1>5 DEF LInv, AlwaysLinks, Results, Place, Newest

(* What one printed block does to the feed: it is the child of the newest  *)
(* block, or the first one, or the newest block itself once more.          *)
FeedsOn(b) ==
  /\ b \in Block /\ b.slot \in Served /\ b.slot \in Nat /\ b.lib <= b.slot
  /\ pending = <<b>>
  /\ IF fired THEN cursor = last /\ Child(b.slot, last)
              ELSE cursor = Nil /\ First(b.slot)
  /\ \/ /\ ~Printed(b.slot) /\ feed' = Append(feed, b.slot)
        /\ IF fired THEN feed # <<>> /\ Newest = last ELSE feed = <<>>
     \/ /\ Printed(b.slot) /\ feed' = feed
        /\ feed # <<>> /\ Newest = b.slot

LEMMA FireFeed ==
  ASSUME TInv, LInv, Fire
  PROVE  FeedsOn(Head(pending))
<1> USE DEF FeedsOn
<1> DEFINE b == Head(pending)
<1>1. phase = "fire" /\ pending # <<>> /\ pending \in Seq(Block) /\ feed \in Seq(Produced)
  BY DEF Fire, TInv, PollerTypeOK
<1>2. Len(pending) = 1 /\ pending[1] = b /\ b \in Block /\ pending = <<b>>
  BY <1>1 DEF LInv, Place
<1> HIDE DEF b
<1>3. b.slot \in Served /\ b.slot \in Nat /\ b.lib <= b.slot
  BY <1>1, <1>2, LedgerAssumption DEF LInv, Place, Served
<1>4. feed' = IF Printed(b.slot) THEN feed ELSE Append(feed, b.slot)
  BY DEF Fire, b
<1>5. CASE ~fired
  <2>1. cursor = Nil /\ First(b.slot)
    BY <1>1, <1>2, <1>5 DEF LInv, Place
  <2>2. CASE feed = <<>>
    <3>1. ~Printed(b.slot)
      BY <2>2 DEF Printed
    <3> QED
      BY <1>2, <1>3, <1>4, <1>5, <2>1, <2>2, <3>1 DEF b
  <2>3. CASE feed # <<>>
    <3>1. Len(feed) = 1 /\ Newest = b.slot
      BY <2>1, <2>3, OneFirst DEF LInv, History, Newest
    <3>2. Printed(b.slot)
      BY <3>1 DEF Printed, Newest
    <3> QED
      BY <1>2, <1>3, <1>4, <1>5, <2>1, <2>3, <3>1, <3>2 DEF b
  <2> QED
    BY <2>2, <2>3
<1>6. CASE fired
  <2>1. cursor = last /\ Child(b.slot, last)
    BY <1>1, <1>2, <1>6 DEF LInv, Place
  <2>2. last \in Nat /\ last # Nil
    BY <1>1, LedgerAssumption, PollerAssumption DEF LInv, Place, Served
  <2>3. feed # <<>> /\ (Newest = last \/ Child(Newest, last))
    BY <2>1, <2>2 DEF LInv, History
  <2>4. CASE Newest = last
    <3>1. \A j \in 1 .. Len(feed) : feed[j] \in Nat /\ feed[j] <= last
      BY <1>1, <2>4, LedgerAssumption DEF LInv, History
    <3>2. ~Printed(b.slot)
      BY <1>3, <2>1, <2>2, <3>1 DEF Printed, Child
    <3> QED
      BY <1>2, <1>3, <1>4, <1>6, <2>1, <2>3, <2>4, <3>2 DEF b
  <2>5. CASE Child(Newest, last)
    <3>1. Newest = b.slot
      BY <2>1, <2>5, OneChild
    <3>2. Printed(b.slot)
      BY <1>1, <2>3, <3>1 DEF Printed, Newest
    <3> QED
      BY <1>2, <1>3, <1>4, <1>6, <2>1, <2>3, <3>1, <3>2 DEF b
  <2> QED
    BY <2>3, <2>4, <2>5
<1> QED
  BY <1>5, <1>6

LEMMA LineFire ==
  ASSUME TInv, LInv, Fire
  PROVE  LInv'
<1> USE DEF FeedsOn
<1> DEFINE b == Head(pending)
<1>1. FeedsOn(b)
  BY FireFeed
<1>2. /\ phase = "fire" /\ phase' = "fire" /\ last' = b.slot /\ fired' = TRUE
      /\ pending' = Tail(pending) /\ line' = b
      /\ highLib' = IF b.lib > highLib THEN b.lib ELSE highLib
      /\ UNCHANGED <<next, items, cursor>>
  BY DEF Fire
<1> HIDE DEF b
<1>3. pending' = <<>>
  BY <1>1, <1>2
<1>4. feed \in Seq(Produced) /\ line.slot \in Nat /\ highLib \in Nat /\ b.lib \in Nat
  BY <1>1 DEF TInv, PollerTypeOK, Block
<1>5. feed' # <<>> /\ Newest' = b.slot
  <2>1. ASSUME feed' = Append(feed, b.slot) PROVE feed' # <<>> /\ Newest' = b.slot
    BY <1>4, <2>1 DEF Newest
  <2> QED
    BY <1>1, <2>1 DEF Newest
<1>6. Place'
  BY <1>1, <1>2, <1>3, <1>5 DEF Place
<1>7. line.slot <= b.slot
  BY <1>1, <1>4 DEF LInv, History, Child
<1>8. highLib' <= line'.slot
  <2>1. highLib <= line.slot
    BY DEF LInv, History
  <2> QED
    BY <1>1, <1>2, <1>4, <1>7, <2>1
<1>9. \A j \in 1 .. Len(feed') : feed'[j] <= b.slot
  <2>1. \A j \in 1 .. Len(feed) : feed[j] \in Nat /\ feed[j] <= b.slot
    <3> SUFFICES ASSUME NEW j \in 1 .. Len(feed) PROVE feed[j] \in Nat /\ feed[j] <= b.slot
      OBVIOUS
    <3>1. feed # <<>> /\ feed[j] \in Nat /\ Newest \in Nat /\ feed[j] <= Newest
      <4>1. feed # <<>> /\ Len(feed) \in 1 .. Len(feed)
        BY <1>4
      <4> QED
        BY <1>4, <4>1, LedgerAssumption DEF LInv, History, Newest
    <3>2. Newest <= b.slot
      BY <1>7, <3>1 DEF LInv, History
    <3> QED
      BY <1>1, <3>1, <3>2
  <2>2. ASSUME feed' = Append(feed, b.slot)
        PROVE  \A j \in 1 .. Len(feed') : feed'[j] <= b.slot
    BY <1>1, <1>4, <2>1, <2>2
  <2> QED
    BY <1>1, <2>1, <2>2
<1>10. /\ cursor' = Nil => Len(feed') = 1 /\ First(feed'[1])
       /\ cursor' # Nil => cursor' \in Served /\ (Newest' = cursor' \/ Child(Newest', cursor'))
  <2>1. CASE fired
    <3>1. cursor \in Served /\ cursor # Nil
      BY <1>1, <1>2, <2>1, LedgerAssumption, PollerAssumption DEF LInv, Place, Served
    <3> QED
      BY <1>1, <1>2, <1>5, <2>1, <3>1
  <2>2. CASE ~fired
    <3>1. Len(feed') = 1
      <4>1. CASE feed' = Append(feed, b.slot)
        BY <1>1, <1>4, <2>2, <4>1
      <4>2. CASE feed' = feed /\ feed # <<>>
        BY <1>1, <2>2, <4>2 DEF LInv, History
      <4> QED
        BY <1>1, <4>1, <4>2
    <3> QED
      BY <1>1, <1>2, <1>5, <2>2, <3>1 DEF Newest
  <2> QED
    BY <2>1, <2>2
<1>11. History'
  BY <1>2, <1>5, <1>8, <1>9, <1>10 DEF History
<1> QED
  BY <1>2, <1>6, <1>11 DEF LInv, AlwaysLinks, Results, Wanted

LEMMA LInvStep ==
  ASSUME OneLine, IInv, TInv, LInv, [PollerNext]_allVars
  PROVE  LInv'
<1>1. CASE Poll
  <2>1. ASSUME NEW w \in Worker, Goroutine(w) PROVE LInv'
    <3>1. CASE Push(w) \/ Retry(w) \/ RunFails(w)
      BY <3>1, LineKept, LineExit DEF Push, Retry, RunFails, pollerVars
    <3>2. CASE AskAlone(w)
      BY <3>2 DEF AskAlone, LInv, AlwaysLinks, Results, Wanted, Place, History, Newest, printed
    <3> QED
      BY <2>1, <3>1, <3>2, LineItems DEF Goroutine
  <2>2. ASSUME TakeParent PROVE FALSE
    BY <2>2 DEF TakeParent, LInv, AlwaysLinks
  <2>3. CASE CloseBatch
    BY <2>3, LineKept DEF CloseBatch
  <2> QED
    BY <1>1, <2>1, <2>2, <2>3, LineStart, LineResolve, LineItems, LineTake, LineFire, LineSave
    DEF Poll, MainLoop
<1>2. CASE Kill
  BY <1>2, LineExit DEF Kill
<1>3. ASSUME NEW w \in Worker, FetcherStep(w) \/ PollerPanic(w) PROVE LInv'
  BY <1>3, LineKept, LineExit DEF FetcherStep, PollerPanic, pollerVars
<1>4. CASE UNCHANGED pollerVars
  BY <1>4, LineKept DEF pollerVars
<1> QED
  BY <1>1, <1>2, <1>3, <1>4 DEF PollerNext, allVars

LEMMA LineInvariance ==
  ASSUME OneLine
  PROVE  PollerSpec => [](IInv /\ TInv /\ LInv)
<1>1. PollerInit => LInv
  BY DEF PollerInit, LInv, AlwaysLinks, Results, Wanted, Place, History, Newest
<1>2. IInv /\ TInv /\ LInv /\ [PollerNext]_allVars => LInv'
  BY LInvStep
<1> QED
  BY <1>1, <1>2, TypeInvariance, PTL DEF PollerSpec

-----------------------------------------------------------------------------
(* Only Fire prints.                                                       *)
LEMMA OnlyFire ==
  ASSUME [PollerNext]_allVars
  PROVE  Fire \/ UNCHANGED printed
<1>1. CASE Poll
  <2>1. ASSUME NEW w \in Worker, Goroutine(w) PROVE UNCHANGED printed
    BY <2>1 DEF Goroutine, Push, Collect, Retry, RunFails, AskAlone, Exit, pollerVars
  <2>2. ASSUME NEW i \in items, TakeBlock(i) PROVE UNCHANGED printed
    BY <2>2 DEF TakeBlock
  <2> QED
    BY <1>1, <2>1, <2>2
    DEF Poll, MainLoop, Start, StartSkipped, InitState, LoadNextBlocks, CloseBatch, SkipItem,
        TakeParent, SaveState
<1>2. CASE Kill
  BY <1>2 DEF Kill, Exit
<1>3. ASSUME NEW w \in Worker, FetcherStep(w) \/ PollerPanic(w) PROVE UNCHANGED printed
  BY <1>3 DEF FetcherStep, PollerPanic, Exit, pollerVars
<1>4. CASE UNCHANGED pollerVars
  BY <1>4 DEF pollerVars
<1> QED
  BY <1>1, <1>2, <1>3, <1>4 DEF PollerNext, allVars

(***************************************************************************)
(* With one endpoint the poller never has to go back for a parent: however *)
(* the calls of a batch race, fail and overwrite the cached tips           *)
(* (rpc.go:71-92, 140-149), each block they return is the child of the one *)
(* handed on before it.                                                    *)
(***************************************************************************)
THEOREM BlocksLink ==
  ASSUME OneLine
  PROVE  PollerSpec => []AlwaysLinks
<1>1. LInv => AlwaysLinks
  BY DEF LInv
<1> QED
  BY <1>1, LineInvariance, PTL

(***************************************************************************)
(* With one endpoint no block is printed that lies below a LIB given with  *)
(* an earlier one (rpc.go:169-174), across batches and restarts.           *)
(***************************************************************************)
THEOREM NothingBelowLib ==
  ASSUME OneLine
  PROVE  PollerSpec => []NoBlockBelowLib
<1>1. LInv => NoBlockBelowLib
  BY DEF LInv, History, NoBlockBelowLib
<1> QED
  BY <1>1, LineInvariance, PTL

(***************************************************************************)
(* Wherever the process is killed between printing blocks and storing its  *)
(* place in --state-dir (fetcher.go:69), the next one repeats no block but *)
(* the last.                                                               *)
(***************************************************************************)
THEOREM RestartRepeatsLast ==
  ASSUME OneLine
  PROVE  PollerSpec => RepeatsOnlyLast
<1> DEFINE A == \A b \in Produced : line'.slot = b /\ Printed(b) => b = feed[Len(feed)]
<1>1. IInv /\ TInv /\ LInv /\ [PollerNext]_allVars => [A]_line
  <2> SUFFICES ASSUME TInv, LInv, [PollerNext]_allVars PROVE [A]_line
    OBVIOUS
  <2>1. CASE Fire
    <3>1. FeedsOn(Head(pending)) /\ line' = Head(pending)
      BY <2>1, FireFeed DEF Fire
    <3> QED
      BY <3>1 DEF FeedsOn, Newest
  <2>2. CASE UNCHANGED printed
    BY <2>2 DEF printed
  <2> QED
    BY <2>1, <2>2, OnlyFire
<1> QED
  BY <1>1, LineInvariance, PTL DEF PollerSpec, RepeatsOnlyLast

(***************************************************************************)
(* The command "fetch rpc" with one endpoint (fetcher.go:36-79,            *)
(* rpc.go:62-167) implements the linked feed: repetitions left out, what   *)
(* it prints over all its processes begins at or after the start block and *)
(* goes from each block to its child.                                      *)
(***************************************************************************)
THEOREM CommandImplementsFeed ==
  ASSUME OneLine
  PROVE  PollerSpec => PollerImplementsFeed
<1>1. PollerInit => PolledFeed!Init
  BY DEF PollerInit, PolledFeed!Init
<1>2. IInv /\ TInv /\ LInv /\ [PollerNext]_allVars => [PolledFeed!Next]_feed
  <2> SUFFICES ASSUME TInv, LInv, [PollerNext]_allVars PROVE [PolledFeed!Next]_feed
    OBVIOUS
  <2>1. CASE Fire
    <3> DEFINE b == Head(pending).slot
    <3>1. FeedsOn(Head(pending))
      BY <2>1, FireFeed
    <3>2. b \in Produced /\ b \in Nat /\ b >= StartBlock
      BY <3>1 DEF FeedsOn, Served
    <3>3. CASE feed' = Append(feed, b) /\ ~Printed(b)
      <4>1. feed = <<>> \/ (feed # <<>> /\ Child(b, Newest))
        BY <3>1, <3>3 DEF FeedsOn
      <4>2. ASSUME Child(b, Newest) PROVE ParentSlot[b] = Newest /\ b # Newest
        BY <3>2, <4>2, LedgerAssumption DEF Child
      <4> QED
        BY <3>2, <3>3, <4>1, <4>2
        DEF PolledFeed!Next, PolledFeed!Receive, PolledFeed!Newest, Newest
    <3> QED
      BY <3>1, <3>3 DEF FeedsOn
  <2>2. CASE UNCHANGED printed
    BY <2>2 DEF printed
  <2> QED
    BY <2>1, <2>2, OnlyFire
<1> QED
  BY <1>1, <1>2, LineInvariance, PTL DEF PollerSpec, PollerImplementsFeed, PolledFeed!Spec
-----------------------------------------------------------------------------
(***************************************************************************)
(* Any number of endpoints.  A block can then be lost and its parent asked *)
(* for, several blocks are printed before the place is stored, and a       *)
(* restart prints any number of them again.  What stays true is that the   *)
(* output is closed under parents: nothing was printed before all blocks   *)
(* below it.  The first block must be one no endpoint can pass over, which *)
(* is genesis; any other start block can be lost.                          *)
(***************************************************************************)
FromGenesis == StartBlock = 0 /\ 0 \notin UglyHack

Follows(b, p) == ParentSlot[b] = p /\ p < b

Chained(s) == \A k \in 1 .. Len(s) - 1 : Follows(s[k + 1].slot, s[k].slot)

HeadKnown(f, l) == IF f THEN Printed(l) ELSE l = 0

(* The head of the chain was printed or is genesis, and the segment on     *)
(* hand hangs together; once it is handed on it follows the head.          *)
Hanging ==
  /\ Chained(pending)
  /\ phase = "resolve" => next = 0
  /\ phase \in {"poll", "parent", "fire"} => HeadKnown(fired, last)
  /\ phase = "poll" => next = last \/ (fired /\ last < next)
  /\ phase \notin {"parent", "fire"} => pending = <<>>
  /\ phase = "parent" => fired /\ pending # <<>> /\ ~Connected(pending[1]) /\ last < pending[1].slot
  /\ phase = "fire" /\ pending = <<>> => fired
  /\ phase = "fire" /\ pending # <<>> =>
       IF fired THEN Follows(pending[1].slot, last)
                ELSE pending[1].slot = 0 /\ Len(pending) = 1

(* Whatever was printed, all blocks below it were.                         *)
Closed ==
  /\ cursor # Nil => Printed(cursor)
  /\ \A i \in 1 .. Len(feed) : feed[i] <= Newest
  /\ \A i \in 1 .. Len(feed), b \in Produced : b <= feed[i] => Printed(b)

GInv == Hanging /\ Closed

LEMMA ChainKept ==
  ASSUME GInv, UNCHANGED <<phase, next, last, fired, pending, cursor, printed>>
  PROVE  GInv'
BY DEF GInv, Hanging, Closed, HeadKnown, Connected, Printed, Newest, printed

LEMMA ChainExit ==
  ASSUME GInv, NEW how \in {"down", "killed"}, Exit(how)
  PROVE  GInv'
<1>1. Chained(<<>>)
  BY DEF Chained
<1> QED
  BY <1>1 DEF GInv, Hanging, Closed, Printed, Newest, Exit, printed

LEMMA ChainResolve ==
  ASSUME FromGenesis, IInv, TInv, GInv, Start \/ StartSkipped \/ InitState
  PROVE  GInv'
<1>1. Closed' <=> Closed
  BY DEF Closed, Printed, Newest, Start, StartSkipped, InitState, printed
<1>2. CASE Start
  BY <1>1, <1>2 DEF FromGenesis, GInv, Hanging, Start
<1>3. ASSUME StartSkipped PROVE FALSE
  <2>1. asker \in Worker /\ call[asker].slot = 0 /\ call[asker].out = "skip"
    BY <1>3 DEF StartSkipped, Answered, TInv, PollerTypeOK, GInv, Hanging
  <2> QED
    BY <2>1 DEF IInv, CallInv, FromGenesis
<1>4. CASE InitState
  <2>1. /\ phase' = "poll" /\ next' = last' /\ pending' = <<>> /\ Chained(pending)
        /\ last' = IF cursor = Nil THEN 0 ELSE cursor
        /\ fired' = (cursor # Nil) /\ feed' = feed
    BY <1>4 DEF InitState, GInv, Hanging, printed
  <2>2. HeadKnown(fired, last)'
    BY <2>1 DEF GInv, Closed, HeadKnown, Printed
  <2> QED
    BY <1>1, <2>1, <2>2 DEF GInv, Hanging, Chained
<1> QED
  BY <1>2, <1>3, <1>4

(* A block that hangs on to the segment makes a longer one.                *)
LEMMA LongerChain ==
  ASSUME NEW b \in Block, NEW s \in Seq(Block), s # <<>>, Chained(s),
         Follows(s[1].slot, b.slot)
  PROVE  Chained(<<b>> \o s) /\ (<<b>> \o s)[1] = b /\ <<b>> \o s # <<>>
<1> DEFINE t == <<b>> \o s
<1>1. /\ Len(t) = Len(s) + 1 /\ Len(s) \in Nat \ {0} /\ t[1] = b
      /\ \A k \in 1 .. Len(s) : t[k + 1] = s[k]
  OBVIOUS
<1> HIDE DEF t
<1>2. \A k \in 1 .. Len(t) - 1 : Follows(t[k + 1].slot, t[k].slot)
  <2> SUFFICES ASSUME NEW k \in 1 .. Len(s) PROVE Follows(t[k + 1].slot, t[k].slot)
    BY <1>1
  <2>1. CASE k = 1
    BY <1>1, <2>1
  <2>2. CASE k # 1
    <3>1. k - 1 \in 1 .. Len(s) - 1 /\ k - 1 + 1 = k /\ t[k] = s[k - 1] /\ t[k + 1] = s[k]
      BY <1>1, <2>2
    <3> QED
      BY <3>1 DEF Chained
  <2> QED
    BY <2>1, <2>2
<1> QED
  BY <1>1, <1>2 DEF Chained, t

LEMMA ShorterChain ==
  ASSUME NEW s \in Seq(Block), s # <<>>, Chained(s)
  PROVE  Chained(Tail(s)) /\ (Tail(s) # <<>> => Follows(Tail(s)[1].slot, s[1].slot))
<1>1. /\ Len(s) \in Nat \ {0} /\ Len(Tail(s)) = Len(s) - 1
      /\ \A k \in 1 .. Len(s) - 1 : Tail(s)[k] = s[k + 1]
  BY HeadTailProperties
<1> DEFINE t == Tail(s)
<1> HIDE DEF t
<1>2. \A k \in 1 .. Len(t) - 1 : Follows(t[k + 1].slot, t[k].slot)
  <2> SUFFICES ASSUME NEW k \in 1 .. Len(t) - 1 PROVE Follows(t[k + 1].slot, t[k].slot)
    OBVIOUS
  <2>1. k + 1 \in 1 .. Len(s) - 1 /\ t[k] = s[k + 1] /\ t[k + 1] = s[k + 1 + 1]
    BY <1>1 DEF t
  <2> QED
    BY <2>1 DEF Chained
<1>3. t # <<>> => Follows(t[1].slot, s[1].slot)
  <2> SUFFICES ASSUME t # <<>> PROVE Follows(t[1].slot, s[1].slot)
    OBVIOUS
  <2>1. t \in Seq(Block)
    BY HeadTailProperties DEF t
  <2>2. 1 \in 1 .. Len(s) - 1 /\ t[1] = s[1 + 1]
    BY <1>1, <2>1 DEF t
  <2> QED
    BY <2>2 DEF Chained
<1> QED
  BY <1>2, <1>3 DEF Chained, t

(* A previous hash names the parent or no block at all.                    *)
LEMMA HashIsParent ==
  ASSUME NEW b \in Produced, NEW p \in Produced, fixPreviousBlockHash(b) = p
  PROVE  ParentSlot[b] = p
BY LedgerAssumption, PollerAssumption DEF fixPreviousBlockHash

LEMMA ChainTake ==
  ASSUME TInv, GInv, NEW i \in items, TakeBlock(i)
  PROVE  GInv'
<1> DEFINE b == [slot |-> i.slot, lib |-> i.lib]
<1>1. /\ phase = "poll" /\ pending = <<>> /\ i.slot = next /\ ProcessBlock(b)
      /\ last \in Produced /\ HeadKnown(fired, last) /\ (next = last \/ (fired /\ last < next))
      /\ UNCHANGED <<cursor, feed, line, highLib>>
  BY DEF TakeBlock, GInv, Hanging, printed, TInv
<1>2. b \in Block /\ b.slot = next /\ next \in Produced
  BY <1>1 DEF TakeBlock, TInv, PollerTypeOK, Item, Block
<1>3. last \in Nat /\ next \in Nat
  BY <1>1, <1>2, LedgerAssumption
<1> HIDE DEF b
<1>4. Segment(b) = <<b>> /\ Head(<<b>>) = b /\ Tail(<<b>>) = <<>>
  BY <1>1 DEF Segment
<1>5. Chained(<<>>) /\ Chained(<<b>>) /\ <<b>>[1] = b /\ <<b>> # <<>> /\ Len(<<b>>) = 1
  BY DEF Chained
<1>6. Closed' /\ HeadKnown(fired, last)' /\ UNCHANGED <<last, fired>>
  <2>1. UNCHANGED <<last, fired>>
    BY <1>1 DEF ProcessBlock
  <2> QED
    BY <1>1, <2>1 DEF GInv, Closed, HeadKnown, Printed, Newest
<1>7. CASE Connected(b)
  <2>1. phase' = "fire" /\ pending' = IF fired /\ next = last THEN <<>> ELSE <<b>>
    BY <1>1, <1>2, <1>4, <1>7 DEF ProcessBlock
  <2>2. CASE fired /\ next = last
    BY <1>5, <1>6, <2>1, <2>2 DEF GInv, Hanging
  <2>3. CASE ~fired
    <3>1. pending' = <<b>> /\ b.slot = 0
      BY <1>1, <1>2, <2>1, <2>3 DEF HeadKnown
    <3> QED
      BY <1>5, <1>6, <2>1, <2>3, <3>1 DEF GInv, Hanging
  <2>4. CASE fired /\ next # last
    <3>1. pending' = <<b>> /\ Follows(b.slot, last)
      BY <1>1, <1>2, <1>7, <2>1, <2>4, HashIsParent DEF Connected, Follows
    <3> QED
      BY <1>5, <1>6, <2>1, <2>4, <3>1 DEF GInv, Hanging
  <2> QED
    BY <2>2, <2>3, <2>4
<1>8. CASE ~Connected(b)
  <2>1. phase' = "parent" /\ pending' = <<b>>
    BY <1>1, <1>4, <1>8 DEF ProcessBlock
  <2>2. fired /\ last < b.slot
    BY <1>1, <1>2, <1>8 DEF Connected
  <2>3. ~Connected(pending[1])'
    BY <1>5, <1>6, <1>8, <2>1 DEF Connected
  <2> QED
    BY <1>5, <1>6, <2>1, <2>2, <2>3 DEF GInv, Hanging
<1> QED
  BY <1>7, <1>8

LEMMA ChainParent ==
  ASSUME IInv, TInv, GInv, TakeParent
  PROVE  GInv'
<1> DEFINE b == [slot |-> call[asker].slot, lib |-> call[asker].lib]
           h == pending[1]
           seg == Segment(b)
<1>1. /\ phase = "parent" /\ asker \in Worker /\ ProcessBlock(b)
      /\ pending \in Seq(Block) /\ pending # <<>> /\ Chained(pending)
      /\ fired /\ ~Connected(h) /\ last < h.slot
      /\ last \in Produced /\ HeadKnown(fired, last)
      /\ UNCHANGED <<cursor, feed, line, highLib>>
  BY DEF TakeParent, GInv, Hanging, printed, TInv, PollerTypeOK
<1>2. b \in Block
  <2>1. call[asker].out = "block"
    BY DEF TakeParent, Answered
  <2> QED
    BY <1>1, <2>1, Outcome DEF Block
<1>3. h \in Block /\ Head(pending) = h /\ h.slot \in Produced /\ b.slot \in Produced
      /\ h.slot \in Nat /\ b.slot \in Nat /\ last \in Nat
  <2>1. h \in Block /\ Head(pending) = h
    BY <1>1
  <2> QED
    BY <1>1, <1>2, <2>1, LedgerAssumption DEF Block
<1>4. Closed' /\ HeadKnown(fired, last)' /\ UNCHANGED <<last, fired>>
  <2>1. UNCHANGED <<last, fired>>
    BY <1>1 DEF ProcessBlock
  <2> QED
    BY <1>1, <2>1 DEF GInv, Closed, HeadKnown, Printed, Newest
<1> HIDE DEF b, h
<1>5. CASE fixPreviousBlockHash(h.slot) = b.slot
  <2>1. seg = <<b>> \o pending
    BY <1>1, <1>3, <1>5 DEF Segment
  <2>2. b.slot # last
    BY <1>1, <1>5 DEF Connected
  <2>3. ParentSlot[h.slot] = b.slot
    BY <1>3, <1>5, HashIsParent
  <2>4. Follows(h.slot, b.slot) /\ last < b.slot
    BY <1>1, <1>3, <2>2, <2>3, LedgerAssumption DEF Follows
  <2>5. Chained(seg) /\ seg[1] = b /\ seg # <<>>
    BY <1>1, <1>2, <2>1, <2>4, LongerChain DEF h
  <2>6. Head(seg) = b
    BY <1>1, <1>2, <2>1
  <2> HIDE DEF seg
  <2>7. CASE Connected(b)
    <3>1. phase' = "fire" /\ pending' = seg
      BY <1>1, <2>2, <2>6, <2>7 DEF ProcessBlock, seg
    <3>2. Follows(b.slot, last)
      BY <1>1, <1>3, <2>2, <2>4, <2>7, HashIsParent DEF Connected, Follows
    <3> QED
      BY <1>1, <1>4, <2>5, <3>1, <3>2 DEF GInv, Hanging
  <2>8. CASE ~Connected(b)
    <3>1. phase' = "parent" /\ pending' = seg
      BY <1>1, <2>6, <2>8 DEF ProcessBlock, seg
    <3>2. ~Connected(pending[1])'
      BY <1>4, <2>5, <2>8, <3>1 DEF Connected
    <3> QED
      BY <1>1, <1>4, <2>4, <2>5, <3>1, <3>2 DEF GInv, Hanging
  <2> QED
    BY <2>7, <2>8
<1>6. CASE fixPreviousBlockHash(h.slot) # b.slot
  <2>1. seg = pending
    BY <1>1, <1>3, <1>6 DEF Segment
  <2>2. phase' = "parent" /\ pending' = pending
    BY <1>1, <1>3, <2>1 DEF ProcessBlock
  <2>3. ~Connected(pending[1])'
    BY <1>1, <1>4, <2>2 DEF Connected, h
  <2> QED
    BY <1>1, <1>4, <2>2, <2>3 DEF GInv, Hanging, h
<1> QED
  BY <1>5, <1>6

(* A block that is printed is the first, follows the newest one or was     *)
(* printed before.                                                         *)
Extends(b) ==
  \/ Printed(b) /\ feed' = feed /\ feed # <<>>
  \/ feed = <<>> /\ b = 0 /\ feed' = <<b>>
  \/ feed # <<>> /\ Follows(b, Newest) /\ feed' = Append(feed, b)

LEMMA FireExtends ==
  ASSUME TInv, GInv, Fire
  PROVE  Extends(Head(pending).slot) /\ Head(pending).slot \in Produced
<1> DEFINE b == Head(pending).slot
<1>1. /\ phase = "fire" /\ pending # <<>> /\ pending \in Seq(Block)
      /\ feed \in Seq(Produced) /\ Head(pending) = pending[1]
      /\ feed' = IF Printed(b) THEN feed ELSE Append(feed, b)
  BY DEF Fire, TInv, PollerTypeOK
<1>2. b \in Produced /\ b \in Nat /\ last \in Produced /\ last \in Nat
  <2>1. Head(pending) \in Block
    BY <1>1
  <2> QED
    BY <1>1, <2>1, LedgerAssumption DEF Block, TInv
<1>3. HeadKnown(fired, last) /\ IF fired THEN Follows(b, last) ELSE b = 0
  BY <1>1 DEF GInv, Hanging
<1> HIDE DEF b
<1>4. CASE Printed(b)
  <2>1. feed # <<>>
    BY <1>4 DEF Printed
  <2> QED
    BY <1>1, <1>2, <1>4, <2>1 DEF Extends, b
<1>5. CASE ~Printed(b)
  <2>1. feed' = Append(feed, b)
    BY <1>1, <1>5
  <2>2. ASSUME feed # <<>> PROVE Newest \in Produced /\ Newest \in Nat /\ Newest < b
    <3>1. Len(feed) \in 1 .. Len(feed) /\ Newest \in Produced
      BY <1>1, <2>2 DEF Newest
    <3>2. Newest \in Nat /\ ~(b <= Newest)
      BY <1>2, <1>5, <3>1, LedgerAssumption DEF GInv, Closed, Newest
    <3> QED
      BY <1>2, <3>1, <3>2
  <2>3. CASE fired
    <3>1. feed # <<>> /\ last <= Newest
      BY <1>3, <2>3 DEF HeadKnown, Printed, GInv, Closed
    <3>2. Newest <= last
      BY <1>2, <1>3, <2>2, <2>3, <3>1, LedgerAssumption DEF Follows
    <3>3. Newest = last
      BY <1>2, <2>2, <3>1, <3>2
    <3> QED
      BY <1>2, <1>3, <2>1, <2>3, <3>1, <3>3 DEF Extends, b
  <2>4. CASE ~fired
    <3>1. feed = <<>>
      BY <1>2, <1>3, <2>2, <2>4
    <3>2. feed' = <<b>>
      BY <2>1, <3>1
    <3> QED
      BY <1>2, <1>3, <2>4, <3>1, <3>2 DEF Extends, b
  <2> QED
    BY <2>3, <2>4
<1> QED
  BY <1>4, <1>5

LEMMA ChainFire ==
  ASSUME TInv, GInv, Fire
  PROVE  GInv'
<1>1. PICK b \in Nat : Extends(b) /\ b \in Produced /\ b = Head(pending).slot
  BY FireExtends, LedgerAssumption
<1>2. /\ phase = "fire" /\ phase' = "fire" /\ pending # <<>> /\ pending \in Seq(Block)
      /\ pending' = Tail(pending) /\ last' = b /\ fired' = TRUE /\ b = pending[1].slot
      /\ feed \in Seq(Produced) /\ cursor' = cursor
  BY <1>1 DEF Fire, TInv, PollerTypeOK
<1>3. Chained(pending') /\ (pending' # <<>> => Follows(pending'[1].slot, b))
  BY <1>2, ShorterChain DEF GInv, Hanging
<1>4. \A i \in 1 .. Len(feed) : feed[i] \in Produced /\ feed[i] \in Nat
  <2>1. \A i \in 1 .. Len(feed) : feed[i] \in Produced
    BY <1>2
  <2> QED
    BY <2>1, LedgerAssumption
<1>5. Printed(b)' /\ \A c : Printed(c) => Printed(c)'
  <2>1. CASE feed' = feed /\ Printed(b)
    BY <2>1 DEF Printed
  <2>2. CASE feed = <<>> /\ feed' = <<b>>
    <3>1. Len(<<b>>) = 1 /\ <<b>>[1] = b /\ Len(feed) = 0
      BY <2>2
    <3> QED
      BY <2>2, <3>1 DEF Printed
  <2>3. CASE feed' = Append(feed, b)
    <3>1. /\ Len(feed') = Len(feed) + 1 /\ Len(feed) \in Nat /\ feed'[Len(feed) + 1] = b
          /\ \A i \in 1 .. Len(feed) : feed'[i] = feed[i]
      BY <1>1, <1>2, <2>3
    <3> QED
      BY <3>1 DEF Printed
  <2> QED
    BY <1>1, <2>1, <2>2, <2>3 DEF Extends
<1>6. Closed'
  <2>1. cursor' # Nil => Printed(cursor)'
    BY <1>2, <1>5 DEF GInv, Closed, Printed
  <2>2. CASE feed' = feed
    BY <2>1, <2>2 DEF GInv, Closed, Newest, Printed
  <2>3. CASE feed = <<>> /\ b = 0 /\ feed' = <<b>>
    <3>1. Len(feed') = 1 /\ feed'[1] = 0 /\ \A i \in 1 .. Len(feed') : i = 1
      BY <2>3
    <3>2. \A c \in Produced : c <= 0 => c = b
      BY <2>3, LedgerAssumption
    <3> QED
      BY <1>5, <2>1, <2>3, <3>1, <3>2 DEF Closed, Newest
  <2>4. CASE feed # <<>> /\ Follows(b, Newest) /\ feed' = Append(feed, b)
    <3>1. /\ Len(feed') = Len(feed) + 1 /\ Len(feed) \in 1 .. Len(feed)
          /\ feed'[Len(feed) + 1] = b /\ \A i \in 1 .. Len(feed) : feed'[i] = feed[i]
      BY <1>1, <1>2, <2>4
    <3>2. Newest \in Nat /\ ParentSlot[b] = Newest /\ Newest < b /\ Newest' = b
      BY <1>4, <2>4, <3>1 DEF Follows, Newest
    <3>3. \A i \in 1 .. Len(feed) : feed[i] <= b
      BY <1>1, <1>4, <3>2 DEF GInv, Closed
    <3>4. \A i \in 1 .. Len(feed') : feed'[i] <= Newest'
      BY <1>1, <3>1, <3>2, <3>3
    <3>5. \A c \in Produced : c <= b => Printed(c)'
      <4> SUFFICES ASSUME NEW c \in Produced, c <= b, c # b PROVE Printed(c)'
        BY <1>5
      <4>1. c \in Nat /\ c < b /\ b # 0
        BY <1>1, LedgerAssumption
      <4>2. c <= Newest
        BY <1>1, <3>2, <4>1, LedgerAssumption
      <4>3. Printed(c)
        BY <3>1, <4>2 DEF GInv, Closed, Newest
      <4> QED
        BY <1>5, <4>3
    <3>6. \A i \in 1 .. Len(feed'), c \in Produced : c <= feed'[i] => Printed(c)'
      <4> SUFFICES ASSUME NEW i \in 1 .. Len(feed'), NEW c \in Produced, c <= feed'[i]
                   PROVE  Printed(c)'
        OBVIOUS
      <4>1. feed'[i] \in Nat /\ c \in Nat /\ feed'[i] <= b
        BY <1>1, <1>4, <3>1, <3>2, <3>4, LedgerAssumption
      <4> QED
        BY <1>1, <3>5, <4>1
    <3> QED
      BY <2>1, <3>4, <3>6 DEF Closed
  <2> QED
    BY <1>1, <2>2, <2>3, <2>4 DEF Extends
<1>7. Hanging'
  BY <1>2, <1>3, <1>5 DEF Hanging, HeadKnown
<1> QED
  BY <1>6, <1>7 DEF GInv

LEMMA ChainStep ==
  ASSUME FromGenesis, IInv, TInv, GInv, [PollerNext]_allVars
  PROVE  GInv'
<1>1. CASE Poll
  <2>1. ASSUME NEW w \in Worker, Goroutine(w) PROVE GInv'
    <3>1. CASE Push(w) \/ Collect(w) \/ Retry(w) \/ RunFails(w)
      BY <3>1, ChainKept, ChainExit DEF Push, Collect, Retry, RunFails, pollerVars, place
    <3>2. CASE AskAlone(w)
      BY <3>2, ChainKept DEF AskAlone
    <3> QED
      BY <2>1, <3>1, <3>2 DEF Goroutine
  <2>2. CASE LoadNextBlocks \/ CloseBatch
    BY <2>2, ChainKept DEF LoadNextBlocks, CloseBatch, place
  <2>3. CASE SkipItem
    <3>1. /\ phase = "poll" /\ next' = next + 1 /\ [slot |-> next, out |-> "skip", lib |-> 0] \in items
          /\ UNCHANGED <<phase, last, fired, pending, cursor, feed, line, highLib>>
          /\ next \in Nat /\ last \in Nat
      BY <2>3, LedgerAssumption DEF SkipItem, printed, TInv, PollerTypeOK
    <3>2. next # 0
      BY <3>1 DEF TInv, FromGenesis
    <3>3. fired /\ last <= next
      BY <3>1, <3>2 DEF GInv, Hanging, HeadKnown
    <3> QED
      BY <3>1, <3>3 DEF GInv, Hanging, Closed, HeadKnown, Connected, Printed, Newest
  <2>4. CASE SaveState
    <3>1. /\ phase = "fire" /\ pending = <<>> /\ fired /\ last \in Nat /\ HeadKnown(fired, last)
          /\ cursor' = last /\ next' = last + 1 /\ phase' = "poll"
          /\ UNCHANGED <<last, fired, pending, feed, line, highLib>>
      BY <2>4, LedgerAssumption DEF SaveState, printed, TInv, GInv, Hanging
    <3>2. Printed(last)'
      BY <3>1 DEF HeadKnown, Printed
    <3> QED
      BY <3>1, <3>2 DEF GInv, Hanging, Closed, HeadKnown, Printed, Newest
  <2> QED
    BY <1>1, <2>1, <2>2, <2>3, <2>4, ChainResolve, ChainTake, ChainParent, ChainFire
    DEF Poll, MainLoop
<1>2. CASE Kill
  BY <1>2, ChainExit DEF Kill
<1>3. ASSUME NEW w \in Worker, FetcherStep(w) \/ PollerPanic(w) PROVE GInv'
  BY <1>3, ChainKept, ChainExit DEF FetcherStep, PollerPanic, pollerVars, place
<1>4. CASE UNCHANGED pollerVars
  BY <1>4, ChainKept DEF pollerVars, place
<1> QED
  BY <1>1, <1>2, <1>3, <1>4 DEF PollerNext, allVars

(***************************************************************************)
(* With any number of endpoints, which may lag each other, lose blocks and *)
(* leave hashes zeroed (rpc.go:130-163, 228-268), the command started at   *)
(* genesis (fetcher.go:36-79) still prints a linked feed, over all its     *)
(* processes and wherever each was killed: a block that was passed over is *)
(* fetched again before anything above it is printed.                      *)
(***************************************************************************)
THEOREM FailoverImplementsFeed ==
  ASSUME FromGenesis
  PROVE  PollerSpec => PollerImplementsFeed
<1>1. PollerInit => PolledFeed!Init /\ GInv
  BY DEF PollerInit, PolledFeed!Init, GInv, Hanging, Closed, Chained
<1>2. IInv /\ TInv /\ GInv /\ [PollerNext]_allVars => GInv'
  BY ChainStep
<1>3. IInv /\ TInv /\ GInv /\ [PollerNext]_allVars => [PolledFeed!Next]_feed
  <2> SUFFICES ASSUME TInv, GInv, [PollerNext]_allVars PROVE [PolledFeed!Next]_feed
    OBVIOUS
  <2>1. CASE Fire
    <3> DEFINE b == Head(pending).slot
    <3>1. Extends(b) /\ b \in Produced /\ b \in Nat /\ feed \in Seq(Produced)
      BY <2>1, FireExtends, LedgerAssumption DEF TInv, PollerTypeOK
    <3> HIDE DEF b
    <3>2. CASE feed = <<>> /\ b = 0 /\ feed' = <<b>>
      <4>1. feed' = Append(feed, b) /\ b >= StartBlock
        BY <3>2 DEF FromGenesis
      <4> QED
        BY <3>1, <3>2, <4>1 DEF PolledFeed!Next, PolledFeed!Receive
    <3>3. CASE feed # <<>> /\ Follows(b, Newest) /\ feed' = Append(feed, b)
      <4>1. ParentSlot[b] = Newest /\ b # Newest
        BY <3>1, <3>3 DEF Follows
      <4> QED
        BY <3>1, <3>3, <4>1
        DEF PolledFeed!Next, PolledFeed!Receive, PolledFeed!Newest, Newest
    <3> QED
      BY <3>1, <3>2, <3>3 DEF Extends
  <2>2. CASE UNCHANGED printed
    BY <2>2 DEF printed
  <2> QED
    BY <2>1, <2>2, OnlyFire
<1> QED
  BY <1>1, <1>2, <1>3, TypeInvariance, PTL DEF PollerSpec, PollerImplementsFeed, PolledFeed!Spec
-----------------------------------------------------------------------------
(***************************************************************************)
(* One endpoint and one call at a time: the LIB never goes back.  The call *)
(* for a slot reads the finalized tip from the cache if that reaches the   *)
(* slot, and asks for it otherwise.  Either way the tip it will use is at  *)
(* least every LIB given with a lower block (Above), from the moment it is *)
(* known (Told) until the block is printed.                                *)
(***************************************************************************)
OneCall == OneLine /\ \A v, w \in Worker : v = w

(* x is no lower than the LIB h and those of the results below slot s.     *)
Above(x, s, h, its) ==
  h <= x /\ \A i \in its : i.out = "block" /\ i.slot < s => i.lib <= x

(* What a call knows, f being the cached tip and l the block printed last. *)
Told(me, f, l, h, its) ==
  l < me.slot =>
    /\ me.pc = "gotFinalized" /\ ~me.failed => Above(me.reply, me.slot, h, its)
    /\ me.pc \in {"snapshot", "getBlock", "convert"} =>
         me.slot <= f \/ Above(f, me.slot, h, its)
    /\ me.out = "block" => Above(me.lib, me.slot, h, its)

(* The results on hand, f being the finalized tip of the endpoint.         *)
Ordered(f, l, h, its) ==
  \A i \in its : i.out = "block" =>
    i.lib <= f /\ (l < i.slot => Above(i.lib, i.slot, h, its))

(* Slots are asked for in ascending order.                                 *)
Batched(its, b, bs, calls) ==
  /\ b.open => \A i \in its : i.slot < b.base + b.pushed
  /\ \A w \in bs : /\ calls[w].slot < b.base + b.pushed
                   /\ \A i \in its : i.slot < calls[w].slot

OnHand(p, its) ==
  p # <<>> => [slot |-> p[1].slot, out |-> "block", lib |-> p[1].lib] \in its

MInv ==
  /\ highLib <= finalized[1]
  /\ Ordered(finalized[1], line.slot, highLib, items)
  /\ OnHand(pending, items)
  /\ Batched(items, batch, busy, call)
  /\ \A w \in Worker : Told(call[w], latestFinalizedSlot, line.slot, highLib, items)

LEMMA LibTypes ==
  ASSUME OneCall, IInv, TInv, LInv
  PROVE  /\ finalized[1] \in Nat /\ latestFinalizedSlot \in Nat /\ highLib \in Nat
         /\ line.slot \in Nat /\ line.slot \in Produced /\ highLib <= line.slot
         /\ \A i \in items : i.slot \in Nat /\ i.lib \in Nat
         /\ \A i \in items : i.out = "block" => i.slot \in Produced /\ i.lib <= i.slot
         /\ \A w \in Worker : call[w] \in Call /\ call[w].slot \in Nat /\ call[w].lib \in Nat
         /\ \A w \in Worker : call[w].out = "block" => call[w].lib <= finalized[1]
<1>1. /\ highLib \in Nat /\ line.slot \in Nat /\ latestFinalizedSlot \in Nat
      /\ \A i \in items : i.slot \in Nat /\ i.lib \in Nat
      /\ \A w \in Worker : call[w] \in Call
  BY DEF TInv, PollerTypeOK, Item, IInv, TypeOK
<1>2. finalized[1] \in Nat
  BY Basics DEF IInv, TypeOK, LedgerTypeOK
<1>3. line.slot \in Produced /\ highLib <= line.slot
  <2>1. feed \in Seq(Produced) /\ (feed # <<>> => Newest \in Produced)
    BY DEF TInv, PollerTypeOK, Newest
  <2> QED
    BY <2>1, LedgerAssumption DEF LInv, History
<1>4. \A i \in items : i.out = "block" => i.slot \in Produced /\ i.lib <= i.slot
  BY DEF LInv, Results
<1>5. \A w \in Worker : call[w].slot \in Nat /\ call[w].lib \in Nat
  BY <1>1 DEF Call
<1>6. \A w \in Worker : call[w].out = "block" => call[w].lib <= finalized[1]
  <2> SUFFICES ASSUME NEW w \in Worker, call[w].out = "block"
               PROVE  call[w].lib <= finalized[1]
    OBVIOUS
  <2>1. Finalized(call[w].lib)
    BY DEF IInv, CallInv
  <2>2. Client = {1}
    BY DEF OneCall, OneLine, Client
  <2> QED
    BY <2>1, <2>2 DEF Finalized
<1> QED
  BY <1>1, <1>2, <1>3, <1>4, <1>5, <1>6

(* Nothing the invariant speaks of changes, but the tip may advance.       *)
LEMMA LibKept ==
  ASSUME OneCall, IInv, TInv, LInv, MInv, finalized'[1] \in Nat, finalized[1] <= finalized'[1],
         UNCHANGED <<pending, items, batch, busy, printed, call, latestFinalizedSlot>>
  PROVE  MInv'
<1>1. UNCHANGED <<pending, items, batch, busy, call, latestFinalizedSlot, line, highLib>>
  BY DEF printed
<1>2. Ordered(finalized'[1], line.slot, highLib, items)
  BY LibTypes DEF MInv, Ordered
<1>3. highLib <= finalized'[1]
  BY LibTypes DEF MInv
<1> QED
  BY <1>1, <1>2, <1>3 DEF MInv

LEMMA LibExit ==
  ASSUME MInv, NEW how \in {"down", "killed"}, Exit(how), Restart
  PROVE  MInv'
<1>1. /\ items' = {} /\ pending' = <<>> /\ busy' = {} /\ batch' = NoBatch
      /\ UNCHANGED <<finalized, line, highLib>>
      /\ call' = [v \in Worker |-> NewCall("idle", 0)]
  BY DEF Exit, Restart, ledgerVars, printed
<1>2. Ordered(finalized[1], line.slot, highLib, {}) /\ OnHand(<<>>, {})
  BY DEF Ordered, OnHand
<1>3. Batched({}, NoBatch, {}, call')
  BY DEF Batched, NoBatch
<1>4. \A w \in Worker : Told(call'[w], latestFinalizedSlot', line.slot, highLib, {})
  BY <1>1 DEF Told, NewCall
<1> QED
  BY <1>1, <1>2, <1>3, <1>4 DEF MInv

(* A step of the one call leaves it knowing what it should.                *)
LEMMA LibConvert ==
  ASSUME OneCall, IInv, TInv, LInv, MInv, NEW w \in Worker, Convert(w)
  PROVE  Told(call'[w], latestFinalizedSlot', line.slot, highLib, items)
<1> DEFINE me == call[w]
           s == me.slot
           f == latestFinalizedSlot
           l == LibNum(s, f, ParentSlot[s])
<1>1. /\ me \in Call /\ s \in Nat /\ me.pc = "convert" /\ s \in Produced /\ f \in Nat
      /\ Told(me, f, line.slot, highLib, items)
  BY LibTypes DEF Convert, IInv, CallInv, MInv
<1>2. \/ call'[w] = Returned(s, "error", 0)
      \/ call'[w] = Returned(s, "block", l)
  BY DEF Convert, Return, Becomes, IInv, TypeOK
<1> HIDE DEF me, f
<1>3. ASSUME line.slot < s PROVE Above(l, s, highLib, items)
  <2>1. s # 0
    BY <1>1, <1>3, LibTypes
  <2>2. /\ ParentSlot[s] \in Nat /\ line.slot <= ParentSlot[s]
        /\ \A i \in items : i.out = "block" /\ i.slot < s => i.slot <= ParentSlot[s]
    BY <1>1, <1>3, <2>1, LibTypes, LedgerAssumption
  <2>3. CASE f > s
    <3>1. l = ParentSlot[s]
      BY <2>3 DEF LibNum
    <3> QED
      BY <2>2, <3>1, LibTypes DEF Above
  <2>4. CASE f = s
    <3>1. l = s
      BY <1>1, <2>4 DEF LibNum
    <3> QED
      BY <1>1, <1>3, <3>1, LibTypes DEF Above
  <2>5. CASE f < s
    <3>1. l = f /\ ~(s <= f)
      BY <1>1, <2>5 DEF LibNum
    <3> QED
      BY <1>1, <1>3, <3>1 DEF Told
  <2> QED
    BY <1>1, <2>3, <2>4, <2>5
<1> HIDE DEF l, s
<1>4. CASE call'[w] = Returned(s, "error", 0)
  BY <1>4 DEF Told, Returned, NewCall
<1>5. CASE call'[w] = Returned(s, "block", l)
  <2>1. call'[w].slot = s /\ call'[w].pc = "idle" /\ call'[w].lib = l
    BY <1>5 DEF Returned, NewCall
  <2> QED
    BY <1>3, <2>1 DEF Told
<1> QED
  BY <1>2, <1>4, <1>5

LEMMA LibRun ==
  ASSUME OneCall, IInv, TInv, LInv, MInv, NEW w \in Worker, Run(w)
  PROVE  Told(call'[w], latestFinalizedSlot', line.slot, highLib, items)
<1> DEFINE me == call[w]
           f == latestFinalizedSlot
           T(r, g) == Told(r, g, line.slot, highLib, items)
<1>1. me \in Call /\ T(me, f) /\ \A r : Becomes(w, r) => call'[w] = r
  BY LibTypes DEF MInv, Becomes, IInv, TypeOK
<1>2. NumClients = 1 /\ me.client = 1
  BY <1>1 DEF Call, Client, OneCall, OneLine
<1>3. ASSUME NEW out \in {"skip", "error"}, Return(w, out, 0), NEW g PROVE T(call'[w], g)
  <2>1. call'[w] = Returned(me.slot, out, 0)
    BY <1>1, <1>3 DEF Return
  <2> QED
    BY <2>1 DEF Told, Returned, NewCall
<1>4. ASSUME ClientFailed(w), NEW g PROVE T(call'[w], g)
  BY <1>2, <1>3, <1>4 DEF ClientFailed
<1>5. ASSUME NEW r, NEW g, r.slot = me.slot, r.out = me.out, r.lib = me.lib,
             r.pc # "gotFinalized", r.pc \notin {"snapshot", "getBlock", "convert"}
      PROVE  T(r, g)
  BY <1>1, <1>5 DEF Told
<1>6. ASSUME NEW pc \in {"slotLoop", "askConfirmed", "finality", "askFinalized"},
             Goto(w, pc), NEW g
      PROVE  T(call'[w], g)
  <2> DEFINE r == [me EXCEPT !.pc = pc, !.reply = 0, !.failed = FALSE]
  <2>1. call'[w] = r
    BY <1>1, <1>6 DEF Goto
  <2>2. r.slot = me.slot /\ r.out = me.out /\ r.lib = me.lib /\ r.pc = pc
    BY <1>1 DEF Call
  <2> HIDE DEF r
  <2> QED
    BY <1>5, <2>1, <2>2
<1>7. CASE CheckConfirmed(w)
  BY <1>6, <1>7 DEF CheckConfirmed
<1>8. CASE StoreConfirmed(w)
  BY <1>4, <1>6, <1>8 DEF StoreConfirmed
<1>9. CASE GetConfirmedSlot(w)
  <2>1. PICK a, b : call'[w] = [me EXCEPT !.pc = "gotConfirmed", !.reply = a, !.failed = b]
    <3>1. \/ \E a : Becomes(w, [me EXCEPT !.pc = "gotConfirmed", !.reply = a])
          \/ Becomes(w, [me EXCEPT !.pc = "gotConfirmed", !.failed = TRUE])
      BY <1>9, Zenon DEF GetConfirmedSlot, GetSlot
    <3>2. ASSUME NEW a PROVE [me EXCEPT !.pc = "gotConfirmed", !.reply = a] =
                       [me EXCEPT !.pc = "gotConfirmed", !.reply = a, !.failed = me.failed]
      BY <1>1 DEF Call
    <3>3. [me EXCEPT !.pc = "gotConfirmed", !.failed = TRUE] =
            [me EXCEPT !.pc = "gotConfirmed", !.reply = me.reply, !.failed = TRUE]
      BY <1>1 DEF Call
    <3> QED
      BY <1>1, <3>1, <3>2, <3>3, Zenon
  <2> DEFINE r == [me EXCEPT !.pc = "gotConfirmed", !.reply = a, !.failed = b]
  <2>2. r.slot = me.slot /\ r.out = me.out /\ r.lib = me.lib /\ r.pc = "gotConfirmed"
    BY <1>1 DEF Call
  <2> HIDE DEF r
  <2> QED
    BY <1>5, <2>1, <2>2 DEF r
<1>10. CASE CheckFinalized(w)
  <2>1. CASE f < me.slot
    BY <1>6, <1>10, <2>1 DEF CheckFinalized
  <2>2. CASE ~(f < me.slot)
    <3> DEFINE r == [me EXCEPT !.pc = "snapshot", !.reply = 0, !.failed = FALSE]
    <3>1. call'[w] = r /\ f' = f
      BY <1>1, <1>10, <2>2 DEF CheckFinalized, Goto
    <3>2. r.slot = me.slot /\ r.out = me.out /\ r.lib = me.lib /\ r.pc = "snapshot"
      BY <1>1 DEF Call
    <3>3. me.slot <= f
      BY <2>2, LibTypes
    <3> HIDE DEF r
    <3> QED
      BY <1>1, <3>1, <3>2, <3>3 DEF Told
  <2> QED
    BY <2>1, <2>2
<1>11. CASE GetFinalizedSlot(w)
  <2>1. \/ call'[w] = [me EXCEPT !.pc = "gotFinalized", !.reply = finalized[1]]
        \/ call'[w] = [me EXCEPT !.pc = "gotFinalized", !.failed = TRUE]
    BY <1>1, <1>2, <1>11 DEF GetFinalizedSlot, GetSlot
  <2>2. Above(finalized[1], me.slot, highLib, items)
    BY DEF MInv, Ordered, Above
  <2>3. CASE call'[w] = [me EXCEPT !.pc = "gotFinalized", !.reply = finalized[1]]
    <3> DEFINE r == [me EXCEPT !.pc = "gotFinalized", !.reply = finalized[1]]
    <3>1. /\ r.slot = me.slot /\ r.out = me.out /\ r.lib = me.lib
          /\ r.pc = "gotFinalized" /\ r.reply = finalized[1]
      BY <1>1 DEF Call
    <3> HIDE DEF r
    <3> QED
      BY <1>1, <2>2, <2>3, <3>1 DEF Told, r
  <2>4. CASE call'[w] = [me EXCEPT !.pc = "gotFinalized", !.failed = TRUE]
    <3> DEFINE r == [me EXCEPT !.pc = "gotFinalized", !.failed = TRUE]
    <3>1. /\ r.slot = me.slot /\ r.out = me.out /\ r.lib = me.lib
          /\ r.pc = "gotFinalized" /\ r.failed
      BY <1>1 DEF Call
    <3> HIDE DEF r
    <3> QED
      BY <1>1, <2>4, <3>1 DEF Told, r
  <2> QED
    BY <2>1, <2>3, <2>4
<1>12. CASE StoreFinalized(w)
  <2>1. CASE me.failed
    BY <1>4, <1>12, <2>1 DEF StoreFinalized
  <2>2. CASE ~me.failed
    <3> DEFINE r == [me EXCEPT !.pc = "snapshot", !.reply = 0, !.failed = FALSE]
    <3>1. call'[w] = r /\ f' = me.reply /\ me.pc = "gotFinalized"
      BY <1>1, <1>12, <2>2 DEF StoreFinalized, Goto
    <3>2. r.slot = me.slot /\ r.out = me.out /\ r.lib = me.lib /\ r.pc = "snapshot"
      BY <1>1 DEF Call
    <3> HIDE DEF r
    <3> QED
      BY <1>1, <2>2, <3>1, <3>2 DEF Told
  <2> QED
    BY <2>1, <2>2
<1>13. CASE CallFetch(w)
  <2> DEFINE r == [me EXCEPT !.pc = "getBlock", !.client = 1, !.lastConfirm = latestConfirmedSlot]
  <2>1. call'[w] = r /\ f' = f /\ me.pc = "snapshot"
    BY <1>1, <1>13 DEF CallFetch
  <2>2. r.slot = me.slot /\ r.out = me.out /\ r.lib = me.lib /\ r.pc = "getBlock"
    BY <1>1 DEF Call
  <2> HIDE DEF r
  <2> QED
    BY <1>1, <2>1, <2>2 DEF Told
<1>14. ASSUME NEW a, GetBlockReply(w, a) PROVE T(call'[w], f')
  <2>1. /\ me.pc = "getBlock" /\ f' = f
        /\ \/ call'[w] = NewCall("convert", me.slot)
           \/ call'[w] = [me EXCEPT !.client = 1, !.rpcErr = "none"]
           \/ Return(w, "skip", 0)
    BY <1>1, <1>2, <1>14 DEF GetBlockReply
  <2>2. CASE call'[w] = NewCall("convert", me.slot)
    <3>1. call'[w].slot = me.slot /\ call'[w].pc = "convert" /\ call'[w].out = "none"
      BY <2>2 DEF NewCall
    <3> QED
      BY <1>1, <2>1, <3>1 DEF Told
  <2>3. CASE call'[w] = [me EXCEPT !.client = 1, !.rpcErr = "none"]
    <3> DEFINE r == [me EXCEPT !.client = 1, !.rpcErr = "none"]
    <3>1. r.slot = me.slot /\ r.out = me.out /\ r.lib = me.lib /\ r.pc = me.pc
      BY <1>1 DEF Call
    <3> HIDE DEF r
    <3> QED
      BY <1>1, <2>1, <2>3, <3>1 DEF Told, r
  <2> QED
    BY <1>3, <2>1, <2>2, <2>3
<1> QED
  BY <1>7, <1>8, <1>9, <1>10, <1>11, <1>12, <1>13, <1>14, LibConvert
  DEF Run, GetBlockAnswer, GetBlockFault

LEMMA LibFetcherStep ==
  ASSUME OneCall, IInv, TInv, LInv, MInv, NEW w \in Worker, FetcherStep(w)
  PROVE  MInv'
<1>1. Run(w) /\ UNCHANGED <<pending, items, batch, busy, line, highLib>>
  BY DEF FetcherStep, pollerVars, place, printed
<1>2. finalized' = finalized
  BY <1>1 DEF Run, CheckConfirmed, GetConfirmedSlot, StoreConfirmed, CheckFinalized,
              GetFinalizedSlot, StoreFinalized, CallFetch, GetBlockAnswer, GetBlockFault,
              Convert, GetSlot, GetBlockReply, ledgerVars
<1>3. Only(w, call[w].slot)
  BY <1>1, RunOnly DEF IInv
<1>4. \A v \in Worker : call'[v].slot = call[v].slot
  BY <1>3 DEF Only
<1>5. Batched(items, batch, busy, call')
  BY <1>4 DEF MInv, Batched, TInv, PollerTypeOK
<1>6. \A v \in Worker : Told(call'[v], latestFinalizedSlot', line.slot, highLib, items)
  BY <1>1, LibRun DEF OneCall
<1> QED
  BY <1>1, <1>2, <1>5, <1>6 DEF MInv

(* A new call knows nothing yet.                                           *)
LEMMA LibAsk ==
  ASSUME OneCall, IInv, TInv, MInv, NEW w \in Worker, NEW s, Fetch(w, s),
         UNCHANGED <<items, printed>>
  PROVE  /\ UNCHANGED <<finalized, items, line, highLib>>
         /\ \A v \in Worker : Told(call'[v], latestFinalizedSlot', line.slot, highLib, items)
         /\ call'[w].slot = s
<1>1. UNCHANGED <<finalized, items, line, highLib>>
  BY DEF Fetch, ledgerVars, printed
<1>2. \/ call'[w] = Returned(s, "skip", 0)
      \/ call'[w] = NewCall("slotLoop", s)
  BY DEF Fetch, Becomes, IInv, TypeOK
<1>3. Told(call'[w], latestFinalizedSlot', line.slot, highLib, items) /\ call'[w].slot = s
  <2>1. /\ call'[w].slot = s /\ call'[w].pc \in {"idle", "slotLoop"}
        /\ call'[w].out \in {"skip", "none"}
    <3>1. CASE call'[w] = Returned(s, "skip", 0)
      BY <3>1 DEF Returned, NewCall
    <3>2. CASE call'[w] = NewCall("slotLoop", s)
      BY <3>2 DEF NewCall
    <3> QED
      BY <1>2, <3>1, <3>2
  <2> QED
    BY <2>1 DEF Told
<1> QED
  BY <1>1, <1>3 DEF OneCall

LEMMA LibGoroutine ==
  ASSUME OneCall, IInv, TInv, LInv, MInv, NEW w \in Worker,
         Push(w) \/ AskAlone(w) \/ Retry(w)
  PROVE  MInv'
<1>1. \A v \in busy : v \in Worker
  BY DEF TInv, PollerTypeOK
<1>2. CASE Push(w)
  <2> DEFINE s == BatchSlot
  <2>1. /\ batch.open /\ Fetch(w, s) /\ busy' = busy \cup {w}
        /\ UNCHANGED <<pending, items, printed>>
        /\ batch.base \in Nat /\ batch.pushed \in Nat /\ s = batch.base + batch.pushed
        /\ batch' = [batch EXCEPT !.pushed = @ + 1, !.open = IsBlockAvailable(BatchSlot)]
    BY <1>2, PollerAssumption DEF Push, Ask, BatchSlot, place, TInv, PollerTypeOK
  <2>2. batch'.base = batch.base /\ batch'.pushed = batch.pushed + 1
    BY <2>1 DEF TInv, PollerTypeOK
  <2>3. /\ UNCHANGED <<finalized, items, line, highLib>> /\ call'[w].slot = s
        /\ \A v \in Worker : Told(call'[v], latestFinalizedSlot', line.slot, highLib, items)
    BY <2>1, LibAsk
  <2>4. \A v \in busy' : call'[v].slot = s
    BY <1>1, <2>1, <2>3 DEF OneCall
  <2>5. \A i \in items : i.slot < s /\ i.slot \in Nat
    BY <2>1 DEF MInv, Batched, TInv, PollerTypeOK, Item
  <2>6. Batched(items, batch', busy', call')
    BY <2>1, <2>2, <2>4, <2>5 DEF Batched
  <2> QED
    BY <2>1, <2>3, <2>6 DEF MInv
<1>3. CASE AskAlone(w)
  <2>1. /\ Fetch(w, next) /\ w \notin busy /\ UNCHANGED <<pending, items, batch, busy, printed>>
    BY <1>3 DEF AskAlone, Ask
  <2>2. /\ UNCHANGED <<finalized, items, line, highLib>>
        /\ \A v \in Worker : Told(call'[v], latestFinalizedSlot', line.slot, highLib, items)
    BY <2>1, LibAsk
  <2>3. busy = {}
    BY <1>1, <2>1 DEF OneCall
  <2>4. Batched(items, batch, busy, call')
    BY <2>3 DEF MInv, Batched
  <2> QED
    BY <2>1, <2>2, <2>4 DEF MInv
<1>4. CASE Retry(w)
  <2>1. Fetch(w, call[w].slot) /\ UNCHANGED <<pending, items, batch, busy, printed>>
    BY <1>4 DEF Retry, pollerVars, place
  <2>2. /\ UNCHANGED <<finalized, items, line, highLib>> /\ call'[w].slot = call[w].slot
        /\ \A v \in Worker : Told(call'[v], latestFinalizedSlot', line.slot, highLib, items)
    BY <2>1, LibAsk
  <2>3. \A v \in busy : call'[v].slot = call[v].slot
    BY <1>1, <2>2 DEF OneCall
  <2>4. Batched(items, batch, busy, call')
    BY <2>3 DEF MInv, Batched
  <2> QED
    BY <2>1, <2>2, <2>4 DEF MInv
<1> QED
  BY <1>2, <1>3, <1>4

LEMMA LibCollect ==
  ASSUME OneCall, IInv, TInv, LInv, MInv, NEW w \in Worker, Collect(w)
  PROVE  MInv'
<1> DEFINE i == [slot |-> call[w].slot, out |-> call[w].out, lib |-> call[w].lib]
<1>1. /\ items' = items \cup {i} /\ w \in busy /\ busy' = busy \ {w}
      /\ UNCHANGED <<finalized, latestFinalizedSlot, call, pending, batch, line, highLib>>
  BY DEF Collect, vars, ledgerVars, fetcherVars, place, printed
<1>2. /\ i.slot = call[w].slot /\ i.out = call[w].out /\ i.lib = call[w].lib
      /\ i.slot \in Nat
  BY LibTypes
<1> HIDE DEF i
<1>3. \A j \in items : j.slot \in Nat /\ j.slot < i.slot
  BY <1>1, <1>2, LibTypes DEF MInv, Batched
<1>4. ASSUME NEW x, NEW s \in Nat, s <= i.slot, Above(x, s, highLib, items)
      PROVE  Above(x, s, highLib, items')
  BY <1>1, <1>2, <1>4 DEF Above
<1>5. Ordered(finalized[1], line.slot, highLib, items')
  <2> SUFFICES ASSUME NEW j \in items', j.out = "block"
               PROVE  /\ j.lib <= finalized[1]
                      /\ line.slot < j.slot => Above(j.lib, j.slot, highLib, items')
    BY DEF Ordered
  <2>1. CASE j \in items
    <3>1. j.slot \in Nat /\ j.slot <= i.slot
      BY <1>2, <1>3, <2>1
    <3> QED
      BY <1>4, <2>1, <3>1 DEF MInv, Ordered
  <2>2. CASE j = i
    <3>1. line.slot < i.slot => Above(i.lib, i.slot, highLib, items)
      BY <1>2, <2>2 DEF MInv, Told
    <3> QED
      BY <1>2, <1>4, <2>2, <3>1, LibTypes
  <2> QED
    BY <1>1, <2>1, <2>2
<1>6. OnHand(pending, items')
  BY <1>1 DEF MInv, OnHand
<1>7. Batched(items', batch, busy', call)
  <2>1. busy' = {}
    BY <1>1 DEF OneCall, TInv, PollerTypeOK
  <2>2. i.slot < batch.base + batch.pushed
    BY <1>1, <1>2 DEF MInv, Batched
  <2> QED
    BY <1>1, <2>1, <2>2 DEF MInv, Batched
<1>8. \A v \in Worker : Told(call[v], latestFinalizedSlot, line.slot, highLib, items')
  <2>1. call[w].slot \in Nat /\ call[w].slot <= i.slot
    BY <1>2
  <2>2. Told(call[w], latestFinalizedSlot, line.slot, highLib, items)
    BY DEF MInv
  <2>3. Told(call[w], latestFinalizedSlot, line.slot, highLib, items')
    BY <1>4, <2>1, <2>2 DEF Told
  <2> QED
    BY <2>3 DEF OneCall
<1> QED
  BY <1>1, <1>5, <1>6, <1>7, <1>8 DEF MInv

(* A new batch forgets the results of the last one; closing it keeps them. *)
LEMMA LibBatch ==
  ASSUME LInv, TInv, MInv, LoadNextBlocks \/ CloseBatch
  PROVE  MInv'
<1>1. CASE LoadNextBlocks
  <2>1. /\ items' = {} /\ busy' = {} /\ pending' = <<>>
        /\ UNCHANGED <<finalized, latestFinalizedSlot, call, line, highLib>>
    BY <1>1 DEF LoadNextBlocks, LInv, Place, vars, ledgerVars, fetcherVars, place, printed
  <2>2. /\ Ordered(finalized[1], line.slot, highLib, {}) /\ OnHand(<<>>, {})
        /\ Batched({}, batch', {}, call)
    BY DEF Ordered, OnHand, Batched
  <2>3. ASSUME NEW x, NEW s, Above(x, s, highLib, items) PROVE Above(x, s, highLib, {})
    BY <2>3 DEF Above
  <2>4. \A w \in Worker : Told(call[w], latestFinalizedSlot, line.slot, highLib, {})
    BY <2>3 DEF MInv, Told
  <2> QED
    BY <2>1, <2>2, <2>4 DEF MInv
<1>2. CASE CloseBatch
  <2>1. /\ batch' = [batch EXCEPT !.open = FALSE]
        /\ UNCHANGED <<finalized, latestFinalizedSlot, call, pending, busy, items, line, highLib>>
    BY <1>2 DEF CloseBatch, vars, ledgerVars, fetcherVars, place, printed
  <2>2. ~batch'.open /\ batch'.base = batch.base /\ batch'.pushed = batch.pushed
    BY <2>1 DEF TInv, PollerTypeOK
  <2>3. Batched(items, batch', busy, call)
    BY <2>2 DEF MInv, Batched
  <2> QED
    BY <2>1, <2>3 DEF MInv
<1> QED
  BY <1>1, <1>2

(* A block that waits to be printed is one of the results.                 *)
LEMMA LibTake ==
  ASSUME OneCall, TInv, LInv, MInv, NEW i \in items, TakeBlock(i)
  PROVE  MInv'
<1> DEFINE b == [slot |-> i.slot, lib |-> i.lib]
<1>1. LInv'
  BY LineTake DEF OneCall
<1>2. /\ items' = items
      /\ UNCHANGED <<finalized, latestFinalizedSlot, call, batch, busy, line, highLib>>
  BY <1>1 DEF TakeBlock, LInv, AlwaysLinks, vars, ledgerVars, fetcherVars, printed
<1>3. pending = <<>> /\ i.out = "block" /\ ProcessBlock(b) /\ phase' # "parent"
  BY <1>1 DEF TakeBlock, LInv, AlwaysLinks, Place
<1>4. pending' \in {<<>>, <<b>>}
  BY <1>3 DEF ProcessBlock, Segment
<1>5. OnHand(pending', items)
  <2>1. i = [slot |-> b.slot, out |-> "block", lib |-> b.lib]
    BY <1>3 DEF TInv, PollerTypeOK, Item
  <2>2. <<b>>[1] = b
    OBVIOUS
  <2> HIDE DEF b
  <2> QED
    BY <1>4, <2>1, <2>2 DEF OnHand
<1> QED
  BY <1>2, <1>5 DEF MInv

(* The printed block moves the LIB on, and what is known of further blocks *)
(* took it into account.                                                   *)
LEMMA LibFire ==
  ASSUME OneCall, IInv, TInv, LInv, MInv, Fire
  PROVE  /\ MInv'
         /\ line'.slot # line.slot => line'.lib >= highLib
<1>1. PICK b : b = Head(pending)
  OBVIOUS
<1>2. FeedsOn(b)
  BY <1>1, FireFeed
<1>3. /\ pending' = Tail(pending) /\ line' = b
      /\ highLib' = IF b.lib > highLib THEN b.lib ELSE highLib
      /\ UNCHANGED <<finalized, latestFinalizedSlot, call, batch, busy, items>>
  BY <1>1 DEF Fire, vars, ledgerVars, fetcherVars
<1>4. pending = <<b>> /\ pending[1] = b /\ pending' = <<>>
  BY <1>2, <1>3 DEF FeedsOn
<1>5. b.slot \in Nat /\ b.lib \in Nat
  BY <1>2 DEF FeedsOn, Block
<1>6. line.slot <= b.slot
  BY <1>2, <1>5, LibTypes DEF FeedsOn, LInv, History, Child
<1> DEFINE i == [slot |-> b.slot, out |-> "block", lib |-> b.lib]
<1>7. i.slot = b.slot /\ i.out = "block" /\ i.lib = b.lib /\ i \in items
  BY <1>4 DEF MInv, OnHand
<1> HIDE DEF i
<1>8. b.lib <= finalized[1] /\ (line.slot < b.slot => Above(b.lib, b.slot, highLib, items))
  BY <1>7 DEF MInv, Ordered
<1>9. highLib' \in Nat /\ (highLib' = highLib \/ highLib' = b.lib)
  BY <1>3, <1>5, LibTypes
<1>10. ASSUME NEW x, NEW s, b.slot < s, Above(x, s, highLib, items)
       PROVE  Above(x, s, highLib', items)
  BY <1>7, <1>9, <1>10 DEF Above
<1>11. ASSUME NEW s \in Nat, b.slot < s PROVE line.slot < s
  BY <1>5, <1>6, <1>11, LibTypes
<1>12. highLib' <= finalized[1]
  BY <1>8, <1>9 DEF MInv
<1>13. Ordered(finalized[1], b.slot, highLib', items)
  BY <1>10, <1>11, LibTypes DEF MInv, Ordered
<1>14. ASSUME NEW w \in Worker
       PROVE  Told(call[w], latestFinalizedSlot, b.slot, highLib', items)
  <2> SUFFICES ASSUME b.slot < call[w].slot
               PROVE  Told(call[w], latestFinalizedSlot, b.slot, highLib', items)
    BY DEF Told
  <2>1. line.slot < call[w].slot
    BY <1>11, LibTypes
  <2>2. Told(call[w], latestFinalizedSlot, line.slot, highLib, items)
    BY DEF MInv
  <2> QED
    BY <1>10, <2>1, <2>2 DEF Told
<1>15. MInv'
  <2>1. OnHand(<<>>, items)
    BY DEF OnHand
  <2> QED
    BY <1>3, <1>4, <1>12, <1>13, <1>14, <2>1 DEF MInv
<1>16. line'.slot # line.slot => line'.lib >= highLib
  BY <1>3, <1>5, <1>6, <1>8, LibTypes DEF Above
<1> QED
  BY <1>15, <1>16

LEMMA MInvStep ==
  ASSUME OneCall, IInv, TInv, LInv, MInv, [PollerNext]_allVars
  PROVE  MInv'
<1>1. finalized[1] \in Nat /\ finalized[1] <= finalized[1]
  BY LibTypes
<1>2. CASE Poll
  <2>1. ASSUME NEW w \in Worker, Goroutine(w) PROVE MInv'
    BY <2>1, LibGoroutine, LibCollect, LibExit DEF Goroutine, RunFails
  <2>2. CASE Start \/ StartSkipped \/ InitState \/ SkipItem \/ SaveState
    <3>1. UNCHANGED <<finalized, pending, items, batch, busy, printed, call, latestFinalizedSlot>>
      BY <2>2 DEF Start, StartSkipped, InitState, SkipItem, SaveState, vars, ledgerVars, fetcherVars
    <3> QED
      BY <1>1, <3>1, LibKept
  <2>3. ASSUME TakeParent PROVE FALSE
    BY <2>3 DEF TakeParent, LInv, AlwaysLinks
  <2> QED
    BY <1>2, <2>1, <2>2, <2>3, LibBatch, LibTake, LibFire DEF Poll, MainLoop
<1>3. CASE Kill
  BY <1>3, LibExit DEF Kill
<1>4. ASSUME NEW w \in Worker, FetcherStep(w) \/ PollerPanic(w) PROVE MInv'
  BY <1>4, LibFetcherStep, LibExit DEF PollerPanic, Panic
<1>5. ASSUME NEW c \in Client, Ledger(c), UNCHANGED pollerVars PROVE MInv'
  <2>1. finalized'[1] \in Nat /\ finalized[1] <= finalized'[1]
    <3>1. CASE finalized' = finalized
      BY <1>1, <3>1
    <3>2. CASE Finalize(c)
      <4>1. PICK s \in Produced : finalized[c] < s /\ finalized' = [finalized EXCEPT ![c] = s]
        BY <3>2 DEF Finalize
      <4>2. c = 1 /\ s \in Nat /\ finalized'[1] = s
        BY <4>1, LedgerAssumption DEF OneCall, OneLine, Client, IInv, TypeOK, LedgerTypeOK
      <4> QED
        BY <1>1, <4>1, <4>2
    <3> QED
      BY <1>5, <3>1, <3>2 DEF Ledger, Confirm
  <2> QED
    BY <1>5, <2>1, LibKept DEF Ledger, fetcherVars, pollerVars, place
<1>6. CASE UNCHANGED allVars
  BY <1>1, <1>6, LibKept DEF allVars, vars, ledgerVars, fetcherVars, pollerVars, place
<1> QED
  BY <1>2, <1>3, <1>4, <1>5, <1>6 DEF PollerNext

(***************************************************************************)
(* With one endpoint and one call at a time, a block above all those       *)
(* printed never has a lower LIB than any of them (rpc.go:86-92, 169-174), *)
(* whatever GetSlot answers, across failures and restarts, for any ledger  *)
(* and batch size.                                                         *)
(***************************************************************************)
THEOREM LibMonotone ==
  ASSUME OneCall
  PROVE  PollerSpec => LibNeverBack
<1> DEFINE A == line'.slot # line.slot => line'.lib >= highLib
<1>1. PollerInit => MInv
  <2> SUFFICES ASSUME PollerInit PROVE MInv
    OBVIOUS
  <2>1. /\ items = {} /\ pending = <<>> /\ busy = {} /\ batch = NoBatch /\ highLib = 0
        /\ call = [v \in Worker |-> NewCall("idle", 0)]
    BY DEF PollerInit, Init, NewRPC
  <2>2. finalized[1] \in Nat
    BY Basics DEF PollerInit, Init, LedgerInit
  <2>3. \A w \in Worker : Told(call[w], latestFinalizedSlot, line.slot, highLib, items)
    BY <2>1 DEF Told, NewCall
  <2> QED
    BY <2>1, <2>2, <2>3 DEF MInv, Ordered, OnHand, Batched, NoBatch
<1>2. IInv /\ TInv /\ LInv /\ MInv /\ [PollerNext]_allVars => MInv'
  BY MInvStep
<1>3. IInv /\ TInv /\ LInv /\ MInv /\ [PollerNext]_allVars => [A]_line
  <2> SUFFICES ASSUME IInv, TInv, LInv, MInv, [PollerNext]_allVars PROVE [A]_line
    OBVIOUS
  <2>1. CASE Fire
    BY <2>1, LibFire
  <2>2. CASE UNCHANGED printed
    BY <2>2 DEF printed
  <2> QED
    BY <2>1, <2>2, OnlyFire
<1> HIDE DEF A
<1>4. PollerSpec => [][A]_line
  <2>1. OneLine
    BY DEF OneCall
  <2> QED
    BY <1>1, <1>2, <1>3, <2>1, LineInvariance, PTL DEF PollerSpec
<1> QED
  BY <1>4 DEF LibNeverBack, A
=============================================================================
