------------------------------- MODULE Poller -------------------------------
(***************************************************************************)
(* cmd/firesol/rpc/fetcher.go: the command "fetch rpc", which runs         *)
(* firehose-core's block poller over one RPCFetcher, prints every block    *)
(* for the Firehose reader and keeps its place in --state-dir.             *)
(*                                                                         *)
(* The poller's own code is not part of the repository.  It is modelled    *)
(* from what the command gives it and what the fetcher's interface         *)
(* implies: it resolves the start block, asks for a batch of slots at a    *)
(* time (the first one, and the following ones that IsBlockAvailable       *)
(* promises), each in a goroutine of its own, hands the blocks on in order *)
(* while each links to the last one by its ParentId, asks for the parent   *)
(* when one does not, and stores its place after it has handed blocks on.  *)
(* Whatever ends the process, its supervisor starts the command again.     *)
(***************************************************************************)
EXTENDS RPCFetcher, Sequences

CONSTANTS
  StartBlock,   \* argument <first-streamable-block>
  BatchSize,    \* --block-fetch-batch-size
  Zeroed,       \* blocks the nodes return with an all-zero previous hash
  BlockToPatch, \* the keys of blockToPatch
  Nil           \* no slot; also the all-zero hash, which names no block

ASSUME PollerAssumption ==
  /\ StartBlock \in Nat
  /\ BatchSize \in Nat \ {0}
  /\ Zeroed \subseteq Produced \ {0} /\ BlockToPatch \subseteq Produced
  /\ Nil \notin Nat /\ Nil \notin Worker

VARIABLES
  phase,        \* what the poller is doing, or how the process ended
  next,         \* the slot it wants
  last, fired,  \* the head of its chain, and whether that was handed on
  pending,      \* blocks that are linked to each other and not yet handed on
  asker,        \* the call of Fetch it waits for itself, or Nil
  batch,        \* the batch being loaded: its first slot, how many slots have
                \* been asked for, whether more will be
  busy,         \* the calls of the batch in flight
  items,        \* the results of the batch
  cursor,       \* the place stored in --state-dir
  feed,         \* the blocks handed on so far, repetitions left out (history)
  line,         \* the block handed on last (history)
  highLib       \* the highest LIB handed on so far (history)

place == <<next, last, fired, pending, asker>>
printed == <<feed, line, highLib>>
pollerVars == <<phase, place, batch, busy, items, cursor, printed>>
allVars == <<vars, pollerVars>>

Block == [slot : Produced, lib : Nat]
Item == [slot : Nat, out : {"block", "skip"}, lib : Nat]

PollerTypeOK ==
  /\ phase \in {"down", "killed", "resolve", "poll", "parent", "fire"}
  /\ next \in Nat
  /\ last \in Produced \cup {Nil} /\ fired \in BOOLEAN
  /\ pending \in Seq(Block)
  /\ asker \in Worker \cup {Nil}
  /\ batch \in [base : Nat, pushed : 0 .. BatchSize, open : BOOLEAN]
  /\ busy \subseteq Worker /\ items \subseteq Item
  /\ cursor \in Produced \cup {Nil}
  /\ feed \in Seq(Produced) /\ line \in [slot : Nat, lib : Nat] /\ highLib \in Nat

NoBatch == [base |-> 0, pushed |-> 0, open |-> FALSE]

PollerInit ==
  /\ Init
  /\ phase = "down"
  /\ next = 0 /\ last = Nil /\ fired = FALSE /\ pending = <<>> /\ asker = Nil
  /\ batch = NoBatch /\ busy = {} /\ items = {}
  /\ cursor = Nil
  /\ feed = <<>> /\ line = [slot |-> 0, lib |-> 0] /\ highLib = 0

-----------------------------------------------------------------------------
(* The process ends with everything in its memory; the output and the      *)
(* state directory remain.                                                 *)
Exit(how) ==
  /\ phase' = how
  /\ next' = 0 /\ last' = Nil /\ fired' = FALSE /\ pending' = <<>> /\ asker' = Nil
  /\ batch' = NoBatch /\ busy' = {} /\ items' = {}
  /\ UNCHANGED <<cursor, printed>>

(* The command is run.                                                     *)
Start ==
  /\ phase \in {"down", "killed"}
  /\ phase' = "resolve" /\ next' = StartBlock
  /\ UNCHANGED <<vars, last, fired, pending, asker, batch, busy, items, cursor, printed>>

(* A goroutine of the poller calls Fetch.  Request bounds the slots.       *)
Ask(w, s) == w \notin busy /\ w # asker /\ s \in Request /\ Fetch(w, s)

(* The poller calls Fetch and waits for it.                                *)
AskAlone(w) ==
  /\ phase \in {"resolve", "parent"} /\ asker = Nil
  /\ Ask(w, next) /\ asker' = w
  /\ UNCHANGED <<phase, next, last, fired, pending, batch, busy, items, cursor, printed>>

Answered(w, out) == call[w].pc = "idle" /\ call[w].out = out

(* Run steps over skipped slots to the first block.                        *)
StartSkipped ==
  /\ phase = "resolve" /\ asker # Nil /\ Answered(asker, "skip")
  /\ next' = next + 1 /\ asker' = Nil
  /\ UNCHANGED <<vars, phase, last, fired, pending, batch, busy, items, cursor, printed>>

InitStateForgets ==
  /\ phase = "resolve" /\ asker # Nil /\ Answered(asker, "block")
  /\ phase' = "poll" /\ asker' = Nil
  /\ last' = next /\ fired' = FALSE
  /\ UNCHANGED <<vars, next, pending, batch, busy, items, cursor, printed>>

(* The stored place wins over the start block.                             *)
InitState ==
  /\ phase = "resolve" /\ asker # Nil /\ Answered(asker, "block")
  /\ phase' = "poll" /\ asker' = Nil
  /\ last' = IF cursor = Nil THEN next ELSE cursor
  /\ fired' = (cursor # Nil)
  /\ next' = last'
  /\ UNCHANGED <<vars, pending, batch, busy, items, cursor, printed>>

-----------------------------------------------------------------------------
Slots == {i.slot : i \in items}

(* The wanted slot is neither there nor being fetched: load a batch.       *)
LoadNextBlocks ==
  /\ phase = "poll" /\ next \notin Slots
  /\ busy = {} /\ ~batch.open
  /\ batch' = [base |-> next, pushed |-> 0, open |-> TRUE] /\ items' = {}
  /\ UNCHANGED <<vars, phase, place, busy, cursor, printed>>

BatchSlot == batch.base + batch.pushed

(* The first slot is asked for in any case, the next ones if available.    *)
Push(w) ==
  /\ batch.open /\ batch.pushed < BatchSize
  /\ batch.pushed = 0 \/ IsBlockAvailable(BatchSlot)
  /\ Ask(w, BatchSlot) /\ busy' = busy \cup {w}
  /\ batch' = [batch EXCEPT !.pushed = @ + 1, !.open = IsBlockAvailable(BatchSlot)]
  /\ UNCHANGED <<phase, place, items, cursor, printed>>

CloseBatch ==
  /\ batch.open /\ batch.pushed > 0
  /\ batch.pushed = BatchSize \/ ~IsBlockAvailable(BatchSlot)
  /\ batch' = [batch EXCEPT !.open = FALSE]
  /\ UNCHANGED <<vars, phase, place, busy, items, cursor, printed>>

Collect(w) ==
  /\ w \in busy /\ Answered(w, call[w].out) /\ call[w].out # "error"
  /\ items' = items \cup {[slot |-> call[w].slot, out |-> call[w].out, lib |-> call[w].lib]}
  /\ busy' = busy \ {w}
  /\ UNCHANGED <<vars, phase, place, batch, cursor, printed>>

(* A failed call is tried again a few times, then Run returns the error.   *)
Retry(w) ==
  /\ w \in busy \/ (w = asker /\ phase = "parent")
  /\ Answered(w, "error") /\ call[w].slot \in Request /\ Fetch(w, call[w].slot)
  /\ UNCHANGED pollerVars

RunFails(w) ==
  /\ w \in busy \cup {asker}
  /\ \/ Answered(w, "error")
     \/ w = asker /\ phase = "parent" /\ Answered(w, "skip")
  /\ Restart /\ Exit("down")

SkipItem ==
  /\ phase = "poll" /\ [slot |-> next, out |-> "skip", lib |-> 0] \in items
  /\ next' = next + 1
  /\ UNCHANGED <<vars, phase, last, fired, pending, asker, batch, busy, items, cursor, printed>>

-----------------------------------------------------------------------------
PatchedWithGrandparent(b) ==
  IF b \in BlockToPatch THEN ParentSlot[ParentSlot[b]] ELSE ParentSlot[b]
NoPatch(b) == IF b \in Zeroed THEN Nil ELSE ParentSlot[b]

(* ParentId of the block Fetch returns.                                    *)
fixPreviousBlockHash(b) ==
  IF b \in Zeroed \ BlockToPatch THEN Nil ELSE ParentSlot[b]

(* The run of linked blocks that ends in the newest one on hand.           *)
Segment(b) ==
  IF pending = <<>> THEN <<b>>
  ELSE IF fixPreviousBlockHash(Head(pending).slot) = b.slot THEN <<b>> \o pending
  ELSE pending

Connected(b) == b.slot = last \/ fixPreviousBlockHash(b.slot) = last

(* A block arrives: hand its segment on, or ask for the segment's parent.  *)
ProcessBlock(b) ==
  LET seg == Segment(b) IN
  /\ UNCHANGED <<last, fired>>
  /\ \/ /\ Connected(Head(seg))
        /\ phase' = "fire" /\ UNCHANGED next
        /\ pending' = IF fired /\ Head(seg).slot = last THEN Tail(seg) ELSE seg
     \/ /\ ~Connected(Head(seg))
        /\ phase' = "parent" /\ next' = ParentSlot[Head(seg).slot]
        /\ pending' = seg

TakeBlock(i) ==
  /\ phase = "poll" /\ i.slot = next /\ i.out = "block"
  /\ ProcessBlock([slot |-> i.slot, lib |-> i.lib])
  /\ items' = IF phase' = "parent" THEN {} ELSE items
  /\ UNCHANGED <<vars, asker, batch, busy, cursor, printed>>

TakeParent ==
  /\ phase = "parent" /\ asker # Nil /\ Answered(asker, "block")
  /\ ProcessBlock([slot |-> call[asker].slot, lib |-> call[asker].lib])
  /\ asker' = Nil
  /\ UNCHANGED <<vars, batch, busy, items, cursor, printed>>

Printed(s) == \E i \in 1 .. Len(feed) : feed[i] = s

(* One block is handed on.                                                 *)
Fire ==
  LET b == Head(pending) IN
  /\ phase = "fire" /\ pending # <<>>
  /\ pending' = Tail(pending) /\ last' = b.slot /\ fired' = TRUE
  /\ feed' = IF Printed(b.slot) THEN feed ELSE Append(feed, b.slot)
  /\ line' = b
  /\ highLib' = IF b.lib > highLib THEN b.lib ELSE highLib
  /\ UNCHANGED <<vars, phase, next, asker, batch, busy, items, cursor>>

(* All are: store the place and go on.                                     *)
SaveState ==
  /\ phase = "fire" /\ pending = <<>>
  /\ cursor' = last /\ next' = last + 1 /\ phase' = "poll"
  /\ UNCHANGED <<vars, last, fired, pending, asker, batch, busy, items, printed>>

-----------------------------------------------------------------------------
(* A conversion panics, or somebody ends the process.                      *)
PollerPanic(w) == Panic(w) /\ Exit("down")

Kill == phase \notin {"down", "killed"} /\ Restart /\ Exit("killed")

FetcherStep(w) == Run(w) /\ UNCHANGED pollerVars

Goroutine(w) == Push(w) \/ Collect(w) \/ Retry(w) \/ RunFails(w) \/ AskAlone(w)

(* The goroutine of Run, and the supervisor that starts the command.       *)
MainLoop ==
  \/ Start \/ StartSkipped \/ InitState
  \/ LoadNextBlocks \/ CloseBatch \/ SkipItem \/ TakeParent \/ Fire \/ SaveState
  \/ \E i \in items : TakeBlock(i)

Poll == MainLoop \/ \E w \in Worker : Goroutine(w)

PollerNext ==
  \/ Poll \/ Kill
  \/ \E w \in Worker : FetcherStep(w) \/ PollerPanic(w)
  \/ \E c \in Client : Ledger(c) /\ UNCHANGED pollerVars

PollerSpec == PollerInit /\ [][PollerNext]_allVars

(***************************************************************************)
(* Fairness.  Run and each of its calls are goroutines of their own, whose *)
(* steps are not postponed forever whatever the others do, and a           *)
(* supervisor starts the command again when it has ended.  Endpoints keep  *)
(* confirming blocks, and one that is asked for a block again and again    *)
(* does not fail every time (otherwise "we retry forever" is exactly what  *)
(* the code does).  Nothing is assumed of GetSlot, whose failure ends the  *)
(* call.                                                                   *)
(***************************************************************************)
PollerFairness ==
  /\ WF_allVars(MainLoop)
  /\ \A w \in Worker :
       /\ WF_allVars(Goroutine(w))
       /\ WF_allVars(FetcherStep(w) \/ PollerPanic(w))
       /\ \A c \in Client :
            SF_allVars(call[w].client = c /\ GetBlockAnswer(w) /\ UNCHANGED pollerVars)
  /\ \A c \in Client : WF_allVars(Confirm(c) /\ UNCHANGED <<fetcherVars, pollerVars>>)

PollerFairSpec == PollerSpec /\ PollerFairness

-----------------------------------------------------------------------------
(***************************************************************************)
(* Across concurrent calls, retries, crashes and restarts, what the        *)
(* command prints is, repetitions left out, a linked feed of the ledger    *)
(* from the start block on (fetcher.go:66-73, rpc.go:62-123).              *)
(***************************************************************************)
PolledFeed == INSTANCE LinkedFeed WITH Start <- StartBlock, Stop <- 0

PollerImplementsFeed == PolledFeed!Spec

(***************************************************************************)
(* With one endpoint, and every zeroed previous hash in blockToPatch       *)
(* (rpc.go:228-268), each block Fetch gives the poller links to the one    *)
(* handed on before it: no answer of a call that raced others              *)
(* (rpc.go:140-149) ever leaves a hole the poller would have to go back    *)
(* and fill.                                                               *)
(***************************************************************************)
AlwaysLinks == phase # "parent"

(***************************************************************************)
(* No block is handed on that lies below a LIB handed on before it, with   *)
(* any block and by any process: the LIB number of rpc.go:169-174 never    *)
(* runs ahead of the feed, whatever order the calls of a batch end in.     *)
(***************************************************************************)
NoBlockBelowLib == highLib <= line.slot

(***************************************************************************)
(* With one endpoint and one call at a time a further block never has a    *)
(* lower LIB than any block before it (rpc.go:86-92, 169-174), also when   *)
(* GetSlot fails and resets the cached tip, and across restarts.  With     *)
(* batches or several endpoints it can, and so can the repetition of a     *)
(* block after a restart.                                                  *)
(***************************************************************************)
LibNeverBack == [][line'.slot # line.slot => line'.lib >= highLib]_line

(***************************************************************************)
(* A block is printed a second time (fetcher.go:69, the stored state) only *)
(* if it was the last one printed when the process ended.                  *)
(***************************************************************************)
RepeatsOnlyLast ==
  [][\A b \in Produced : line'.slot = b /\ Printed(b) => b = feed[Len(feed)]]_line

(* The blocks the feed needs up to b, and those a batch with b may hold,   *)
(* can be converted.                                                       *)
Convertible(b) ==
  \A s \in Produced : StartBlock <= s /\ s < b + BatchSize => s \notin Undecodable \cup Unsupported

(***************************************************************************)
(* Once kills and failures of GetSlot have ended, every block is printed   *)
(* that no batch can hold together with one that cannot be converted       *)
(* (rpc.go:62-167, 561, fetcher.go:73-76), although the process keeps      *)
(* failing on that one for ever: what is below goes on from the stored     *)
(* place.  The last BatchSize - 1 slots before a block that panics are not *)
(* promised: its panic ends their calls too, after every restart.          *)
(***************************************************************************)
PollerCatchesUp ==
  <>[](phase # "killed" /\ \A w \in Worker : ~call[w].failed) =>
    \A b \in Produced : StartBlock <= b /\ Convertible(b) => <>Printed(b)
=============================================================================
