---------------------------- MODULE PollerProofs ----------------------------
(***************************************************************************)
(* Proofs about Poller.  The command does to its fetcher only what         *)
(* RPCFetcher allows, so everything proved of the fetcher holds of the     *)
(* fetcher inside the running command, across its crashes and restarts.    *)
(***************************************************************************)
EXTENDS Poller, RPCFetcherProofs, SequenceTheorems

(***************************************************************************)
(* The invariant behind type correctness, for any number of endpoints.  A  *)
(* call the poller waits for has results once it is idle again, a block it *)
(* reports holds a block, genesis is never passed over, and a running      *)
(* poller has a head.                                                      *)
(***************************************************************************)
Awaited(w) == w \in busy \/ w = asker

TInv ==
  /\ PollerTypeOK
  /\ \A w \in Worker : Awaited(w) /\ call[w].pc = "idle" => call[w].out # "none"
  /\ \A i \in items : i.out = "block" => i.slot \in Produced
  /\ \A i \in items : i.out = "skip" => i.slot # 0 \/ i.slot \in UglyHack
  /\ phase \in {"poll", "parent", "fire"} => last \in Produced
  /\ asker # Nil => phase \in {"resolve", "parent"}
  /\ asker # Nil /\ phase = "resolve" => call[asker].slot = next

-----------------------------------------------------------------------------
(* A call of Fetch by the poller is one the fetcher's specification has.   *)
LEMMA AskIsFetch ==
  ASSUME NEW w \in Worker, NEW s, Ask(w, s)
  PROVE  Next
BY DEF Ask, Next

(* What one of the poller's goroutines does to the fetcher.                *)
LEMMA GoroutineSteps ==
  ASSUME NEW w \in Worker, Goroutine(w)
  PROVE  [Next]_vars
<1>1. CASE Push(w)
  BY <1>1, AskIsFetch DEF Push
<1>2. CASE AskAlone(w)
  BY <1>2, AskIsFetch DEF AskAlone
<1>3. CASE Collect(w)
  BY <1>3 DEF Collect
<1>4. CASE Retry(w)
  BY <1>4 DEF Retry, Next
<1>5. CASE RunFails(w)
  BY <1>5 DEF RunFails, Next
<1> QED
  BY <1>1, <1>2, <1>3, <1>4, <1>5 DEF Goroutine

(* The poller's own steps leave the fetcher alone.                         *)
LEMMA PollSteps ==
  ASSUME Poll
  PROVE  [Next]_vars
<1>1. CASE \E w \in Worker : Goroutine(w)
  BY <1>1, GoroutineSteps
<1>2. CASE \E i \in items : TakeBlock(i)
  BY <1>2 DEF TakeBlock
<1>3. CASE Start \/ StartSkipped \/ InitState \/ LoadNextBlocks \/ CloseBatch
  BY <1>3 DEF Start, StartSkipped, InitState, LoadNextBlocks, CloseBatch
<1>4. CASE SkipItem \/ TakeParent \/ Fire \/ SaveState
  BY <1>4 DEF SkipItem, TakeParent, Fire, SaveState
<1> QED
  BY <1>1, <1>2, <1>3, <1>4 DEF Poll, MainLoop

(***************************************************************************)
(* Every behaviour of the command (fetcher.go:36-79), with its batches of  *)
(* concurrent calls, retries, crashes and restarts, is one of the fetcher  *)
(* it shares among its calls (rpc.go:37-167).                              *)
(***************************************************************************)
THEOREM CommandRunsFetcher == PollerSpec => Spec
<1>1. PollerInit => Init
  BY DEF PollerInit
<1>2. [PollerNext]_allVars => [Next]_vars
  <2> SUFFICES ASSUME [PollerNext]_allVars PROVE [Next]_vars
    OBVIOUS
  <2>1. CASE Poll
    BY <2>1, PollSteps
  <2>2. CASE Kill
    BY <2>2 DEF Kill, Next
  <2>3. ASSUME NEW w \in Worker, FetcherStep(w) \/ PollerPanic(w) PROVE Next
    BY <2>3 DEF FetcherStep, PollerPanic, Next, Step
  <2>4. ASSUME NEW c \in Client, Ledger(c) PROVE Next
    BY <2>4 DEF Next
  <2>5. CASE UNCHANGED allVars
    BY <2>5 DEF allVars
  <2> QED
    BY <2>1, <2>2, <2>3, <2>4, <2>5 DEF PollerNext
<1> QED
  BY <1>1, <1>2, PTL DEF PollerSpec, Spec

(* Every LIB the command is given with a block is finalized on some        *)
(* endpoint and is the block or an ancestor (rpc.go:116, 169-174).         *)
THEOREM CommandLib == PollerSpec => [](LibIsFinal /\ LibIsAncestor)
BY CommandRunsFetcher, LibFinal, LibAncestor, PTL

(* With one endpoint no call of the command's batches reports a slot that  *)
(* holds a block as skipped (rpc.go:137-153), apart from the hard-coded    *)
(* range.                                                                  *)
THEOREM CommandLosesNothing ==
  ASSUME NumClients = 1
  PROVE  PollerSpec => []NoBlockLost
BY CommandRunsFetcher, OneEndpointLosesNothing, PTL

-----------------------------------------------------------------------------
(* A step of call w: the other calls stand still, w is about slot s and    *)
(* has results if it is over.                                              *)
Only(w, s) ==
  /\ \A v \in Worker \ {w} : call'[v] = call[v]
  /\ call'[w].slot = s
  /\ call'[w].pc = "idle" => call'[w].out # "none"

LEMMA BecomesOnly ==
  ASSUME TypeOK, NEW w \in Worker, NEW r, NEW s, Becomes(w, r),
         r.slot = s, r.pc = "idle" => r.out # "none"
  PROVE  Only(w, s)
BY DEF TypeOK, Becomes, Only

LEMMA RunOnly ==
  ASSUME TypeOK, NEW w \in Worker, Run(w)
  PROVE  Only(w, call[w].slot)
<1> DEFINE me == call[w]
<1>1. me \in Call
  BY DEF TypeOK
<1>2. ASSUME NEW out \in {"block", "skip", "error"}, NEW lib, Return(w, out, lib)
      PROVE  Only(w, me.slot)
  BY <1>2, BecomesOnly DEF Return, Returned, NewCall
<1>3. ASSUME NEW pc, Goto(w, pc), pc # "idle"
      PROVE  Only(w, me.slot)
  <2>1. Becomes(w, [me EXCEPT !.pc = pc, !.reply = 0, !.failed = FALSE])
    BY <1>3 DEF Goto
  <2> QED
    BY <1>1, <1>3, <2>1, BecomesOnly DEF Call
<1>4. ASSUME ClientFailed(w) PROVE Only(w, me.slot)
  <2>1. CASE me.client < NumClients
    <3>1. Becomes(w, [me EXCEPT !.pc = "slotLoop", !.client = @ + 1,
                                !.reply = 0, !.failed = FALSE])
      BY <1>4, <2>1 DEF ClientFailed
    <3> QED
      BY <1>1, <3>1, BecomesOnly DEF Call
  <2>2. CASE ~(me.client < NumClients)
    BY <1>2, <1>4, <2>2 DEF ClientFailed
  <2> QED
    BY <2>1, <2>2
<1>5. CASE CheckConfirmed(w) \/ CheckFinalized(w)
  BY <1>3, <1>5 DEF CheckConfirmed, CheckFinalized
<1>6. CASE GetConfirmedSlot(w) \/ GetFinalizedSlot(w)
  <2>1. PICK to \in {"gotConfirmed", "gotFinalized"} :
          \/ \E a : Becomes(w, [me EXCEPT !.pc = to, !.reply = a])
          \/ Becomes(w, [me EXCEPT !.pc = to, !.failed = TRUE])
    BY <1>6, Zenon DEF GetConfirmedSlot, GetFinalizedSlot, GetSlot
  <2> QED
    BY <1>1, <2>1, BecomesOnly DEF Call
<1>7. CASE StoreConfirmed(w) \/ StoreFinalized(w)
  BY <1>3, <1>4, <1>7 DEF StoreConfirmed, StoreFinalized
<1>8. CASE CallFetch(w)
  <2>1. Becomes(w, [me EXCEPT !.pc = "getBlock", !.client = 1,
                              !.lastConfirm = latestConfirmedSlot])
    BY <1>8 DEF CallFetch
  <2> QED
    BY <1>1, <2>1, BecomesOnly DEF Call
<1>9. ASSUME NEW a, GetBlockReply(w, a) PROVE Only(w, me.slot)
  <2>1. PICK r : /\ Becomes(w, r)
                 /\ \/ r = NewCall("convert", me.slot)
                    \/ \E n, err : r = [me EXCEPT !.client = n, !.rpcErr = err]
                    \/ r = Returned(me.slot, "skip", 0)
    BY <1>9, Zenon DEF GetBlockReply, Return
  <2>2. me.pc = "getBlock"
    BY <1>9 DEF GetBlockReply
  <2>3. r.slot = me.slot /\ (r.pc = "idle" => r.out # "none")
    <3>1. CASE r = NewCall("convert", me.slot)
      BY <3>1 DEF NewCall
    <3>2. CASE r = Returned(me.slot, "skip", 0)
      BY <3>2 DEF NewCall, Returned
    <3>3. ASSUME NEW n, NEW err, r = [me EXCEPT !.client = n, !.rpcErr = err]
          PROVE  r.slot = me.slot /\ r.pc # "idle"
      BY <1>1, <2>2, <3>3 DEF Call
    <3> QED
      BY <2>1, <3>1, <3>2, <3>3
  <2> QED
    BY <2>1, <2>3, BecomesOnly
<1>10. CASE GetBlockAnswer(w) \/ GetBlockFault(w)
  BY <1>9, <1>10 DEF GetBlockAnswer, GetBlockFault
<1>11. CASE Convert(w)
  BY <1>2, <1>11 DEF Convert
<1> QED
  BY <1>5, <1>6, <1>7, <1>8, <1>10, <1>11 DEF Run

LEMMA FetchOnly ==
  ASSUME TypeOK, NEW w \in Worker, NEW s, Fetch(w, s)
  PROVE  Only(w, s) /\ call[w].pc = "idle"
<1>1. Becomes(w, Returned(s, "skip", 0)) \/ Becomes(w, NewCall("slotLoop", s))
  BY DEF Fetch
<1> QED
  BY <1>1, BecomesOnly DEF Fetch, Returned, NewCall

(* What a call that has ended says of its slot.                            *)
LEMMA Outcome ==
  ASSUME IInv, NEW w \in Worker
  PROVE  /\ call[w].slot \in Nat /\ call[w].lib \in Nat
         /\ call[w].out \in {"none", "block", "skip", "error"}
         /\ call[w].out = "block" =>
              call[w].slot \in Produced \ UglyHack /\ call[w].lib <= call[w].slot
         /\ call[w].out = "skip" => call[w].slot # 0 \/ call[w].slot \in UglyHack
         /\ NumClients = 1 /\ call[w].out = "skip" => call[w].slot \notin Produced \ UglyHack
<1>1. call[w] \in Call /\ CallInv(call[w])
  BY DEF IInv, TypeOK
<1> QED
  BY <1>1 DEF Call, CallInv

-----------------------------------------------------------------------------
(* Type correctness, action by action.                                     *)
LEMMA ExitTyped ==
  ASSUME TInv, NEW how \in {"down", "killed"}, Exit(how)
  PROVE  TInv'
<1>1. NoBatch \in [base : Nat, pushed : 0 .. BatchSize, open : BOOLEAN]
  BY PollerAssumption DEF NoBatch
<1>2. <<>> \in Seq(Block)
  OBVIOUS
<1>3. PollerTypeOK'
  BY <1>1, <1>2 DEF TInv, PollerTypeOK, Exit, printed
<1> QED
  BY <1>3, PollerAssumption DEF TInv, Exit, Awaited

LEMMA FetcherStepTyped ==
  ASSUME IInv, TInv, NEW w \in Worker, FetcherStep(w)
  PROVE  TInv'
<1>1. Only(w, call[w].slot)
  BY RunOnly DEF IInv, FetcherStep
<1>2. UNCHANGED <<phase, next, last, fired, pending, asker, batch, busy, items,
                  cursor, feed, line, highLib>>
  BY DEF FetcherStep, pollerVars, place, printed
<1>3. asker # Nil => asker \in Worker
  BY DEF TInv, PollerTypeOK
<1>4. PollerTypeOK'
  BY <1>2 DEF TInv, PollerTypeOK
<1>5. (asker # Nil /\ phase = "resolve" => call[asker].slot = next)'
  BY <1>1, <1>2, <1>3 DEF TInv, Only
<1>6. (\A v \in Worker : Awaited(v) /\ call[v].pc = "idle" => call[v].out # "none")'
  BY <1>1, <1>2 DEF TInv, Only, Awaited
<1> QED
  BY <1>2, <1>4, <1>5, <1>6 DEF TInv

(* A call the poller makes itself, in a batch or again.                    *)
LEMMA AskTyped ==
  ASSUME IInv, TInv, NEW w \in Worker, AskAlone(w) \/ Push(w) \/ Retry(w)
  PROVE  TInv'
<1>1. asker # Nil => asker \in Worker
  BY DEF TInv, PollerTypeOK
<1>2. CASE AskAlone(w)
  <2>1. Only(w, next)
    BY <1>2, FetchOnly DEF IInv, AskAlone, Ask
  <2>2. /\ asker' = w /\ phase \in {"resolve", "parent"}
        /\ UNCHANGED <<phase, next, last, fired, pending, batch, busy, items, cursor, printed>>
    BY <1>2 DEF AskAlone
  <2>3. PollerTypeOK'
    BY <2>2 DEF TInv, PollerTypeOK, printed
  <2> QED
    BY <2>1, <2>2, <2>3 DEF TInv, Only, Awaited
<1>3. CASE Push(w)
  <2>1. Only(w, BatchSlot) /\ w # asker
    BY <1>3, FetchOnly DEF IInv, Push, Ask
  <2>2. /\ busy' = busy \cup {w} /\ batch.pushed < BatchSize
        /\ UNCHANGED <<phase, next, last, fired, pending, asker, items, cursor, printed>>
    BY <1>3 DEF Push, place
  <2>3. PICK open \in BOOLEAN : batch' = [batch EXCEPT !.pushed = @ + 1, !.open = open]
    <3>1. IsBlockAvailable(BatchSlot) \in BOOLEAN
      BY DEF IsBlockAvailable
    <3> QED
      BY <1>3, <3>1, Zenon DEF Push
  <2>4. batch' \in [base : Nat, pushed : 0 .. BatchSize, open : BOOLEAN]
    <3>1. batch \in [base : Nat, pushed : 0 .. BatchSize, open : BOOLEAN]
      BY DEF TInv, PollerTypeOK
    <3>2. batch.pushed + 1 \in 0 .. BatchSize
      BY <2>2, <3>1, PollerAssumption
    <3> QED
      BY <2>3, <3>1, <3>2
  <2>5. PollerTypeOK'
    BY <2>2, <2>4 DEF TInv, PollerTypeOK, printed
  <2> QED
    BY <1>1, <2>1, <2>2, <2>5 DEF TInv, Only, Awaited
<1>4. CASE Retry(w)
  <2>1. Only(w, call[w].slot)
    BY <1>4, FetchOnly DEF IInv, Retry
  <2>2. UNCHANGED <<phase, next, last, fired, pending, asker, batch, busy, items, cursor, printed>>
    BY <1>4 DEF Retry, pollerVars, place
  <2>3. PollerTypeOK'
    BY <2>2 DEF TInv, PollerTypeOK, printed
  <2> QED
    BY <1>1, <2>1, <2>2, <2>3 DEF TInv, Only, Awaited
<1> QED
  BY <1>2, <1>3, <1>4

LEMMA SameCalls ==
  ASSUME UNCHANGED vars
  PROVE  call' = call
BY DEF vars, fetcherVars

LEMMA PlaceTyped ==
  ASSUME IInv, TInv,
         Start \/ StartSkipped \/ InitState \/ LoadNextBlocks \/ CloseBatch \/ SkipItem
  PROVE  TInv'
<1> USE DEF TInv, PollerTypeOK, printed, place, Awaited
<1>1. CASE Start
  BY <1>1, SameCalls, PollerAssumption DEF Start
<1>2. CASE StartSkipped
  BY <1>2, SameCalls, PollerAssumption DEF StartSkipped
<1>3. CASE InitState
  <2>1. next \in Produced
    BY <1>3, Outcome DEF InitState, Answered
  <2>2. last' \in Produced /\ last' \in Nat /\ next' = last'
    BY <1>3, <2>1, LedgerAssumption DEF InitState
  <2> QED
    BY <1>3, <2>2, SameCalls, PollerAssumption DEF InitState
<1>4. CASE LoadNextBlocks
  BY <1>4, SameCalls, PollerAssumption DEF LoadNextBlocks
<1>5. CASE CloseBatch
  BY <1>5, SameCalls DEF CloseBatch
<1>6. CASE SkipItem
  BY <1>6, SameCalls DEF SkipItem
<1> QED
  BY <1>1, <1>2, <1>3, <1>4, <1>5, <1>6

LEMMA CollectTyped ==
  ASSUME IInv, TInv, NEW w \in Worker, Collect(w)
  PROVE  TInv'
<1> DEFINE i == [slot |-> call[w].slot, out |-> call[w].out, lib |-> call[w].lib]
<1>1. /\ items' = items \cup {i} /\ busy' = busy \ {w} /\ call' = call
      /\ w \in busy /\ call[w].pc = "idle" /\ call[w].out # "error"
      /\ UNCHANGED <<phase, next, last, fired, pending, asker, batch, cursor, printed>>
  BY SameCalls DEF Collect, Answered, place
<1>2. call[w].out \in {"block", "skip"}
  BY <1>1, Outcome DEF TInv, Awaited
<1>3. /\ i \in Item /\ (i.out = "block" => i.slot \in Produced)
      /\ i.out = "skip" => i.slot # 0 \/ i.slot \in UglyHack
  BY <1>2, Outcome DEF Item
<1>4. PollerTypeOK'
  BY <1>1, <1>3 DEF TInv, PollerTypeOK, printed
<1> QED
  BY <1>1, <1>3, <1>4 DEF TInv, Awaited

LEMMA SegmentTyped ==
  ASSUME NEW b \in Block, pending \in Seq(Block)
  PROVE  Segment(b) \in Seq(Block) /\ Segment(b) # <<>>
<1>1. CASE pending = <<>>
  BY <1>1 DEF Segment
<1>2. CASE pending # <<>>
  <2>1. <<b>> \o pending \in Seq(Block) /\ <<b>> \o pending # <<>>
    OBVIOUS
  <2> QED
    BY <1>2, <2>1 DEF Segment
<1> QED
  BY <1>1, <1>2

LEMMA ProcessTyped ==
  ASSUME TInv, NEW b \in Block, ProcessBlock(b)
  PROVE  /\ phase' \in {"fire", "parent"} /\ next' \in Nat
         /\ pending' \in Seq(Block) /\ UNCHANGED <<last, fired>>
<1> DEFINE seg == Segment(b)
<1>1. seg \in Seq(Block) /\ seg # <<>> /\ next \in Nat
  BY SegmentTyped DEF TInv, PollerTypeOK
<1> HIDE DEF seg
<1>2. Tail(seg) \in Seq(Block) /\ Head(seg) \in Block
  BY <1>1, HeadTailProperties
<1>3. ParentSlot[Head(seg).slot] \in Nat
  BY <1>2, LedgerAssumption DEF Block
<1>4. \/ phase' = "fire" /\ next' = next /\ (pending' = Tail(seg) \/ pending' = seg)
      \/ phase' = "parent" /\ next' = ParentSlot[Head(seg).slot] /\ pending' = seg
  BY DEF ProcessBlock, seg
<1> QED
  BY <1>1, <1>2, <1>3, <1>4 DEF ProcessBlock

LEMMA TakeTyped ==
  ASSUME IInv, TInv, TakeParent \/ \E i \in items : TakeBlock(i)
  PROVE  TInv'
<1> USE DEF TInv, PollerTypeOK, printed, Awaited
<1>1. PICK b \in Block : ProcessBlock(b)
  <2>1. CASE TakeParent
    <3>1. [slot |-> call[asker].slot, lib |-> call[asker].lib] \in Block
      BY <2>1, Outcome DEF TakeParent, Answered, Block
    <3> QED
      BY <2>1, <3>1 DEF TakeParent
  <2>2. ASSUME NEW i \in items, TakeBlock(i)
        PROVE  \E b \in Block : ProcessBlock(b)
    <3>1. [slot |-> i.slot, lib |-> i.lib] \in Block
      BY <2>2 DEF TakeBlock, Item, Block
    <3> QED
      BY <2>2, <3>1 DEF TakeBlock
  <2> QED
    BY <2>1, <2>2
<1>2. /\ phase' \in {"fire", "parent"} /\ next' \in Nat
      /\ pending' \in Seq(Block) /\ UNCHANGED <<last, fired>>
  BY <1>1, ProcessTyped
<1>3. CASE TakeParent
  <2>1. /\ phase = "parent" /\ asker' = Nil /\ call' = call
        /\ UNCHANGED <<batch, busy, items, cursor, printed>>
    BY <1>3, SameCalls DEF TakeParent
  <2>2. PollerTypeOK'
    BY <1>2, <2>1
  <2> QED
    BY <1>2, <2>1, <2>2, PollerAssumption
<1>4. ASSUME NEW i \in items, TakeBlock(i) PROVE TInv'
  BY <1>2, <1>4, SameCalls DEF TakeBlock
<1> QED
  BY <1>3, <1>4

LEMMA FireTyped ==
  ASSUME TInv, Fire \/ SaveState
  PROVE  TInv'
<1>1. CASE Fire
  <2> DEFINE b == Head(pending)
  <2>1. b \in Block /\ Tail(pending) \in Seq(Block)
    BY <1>1 DEF TInv, PollerTypeOK, Fire
  <2>2. b.slot \in Produced /\ b.slot \in Nat /\ b.lib \in Nat /\ b \in [slot : Nat, lib : Nat]
    BY <2>1, LedgerAssumption DEF Block
  <2>3. /\ phase = "fire" /\ pending' = Tail(pending) /\ last' = b.slot /\ fired' = TRUE
        /\ feed' = feed \/ feed' = Append(feed, b.slot)
        /\ line' = b /\ (highLib' = b.lib \/ highLib' = highLib)
        /\ UNCHANGED <<vars, phase, next, asker, batch, busy, items, cursor>>
    BY <1>1 DEF Fire
  <2> HIDE DEF b
  <2>4. feed' \in Seq(Produced)
    <3>1. feed \in Seq(Produced)
      BY DEF TInv, PollerTypeOK
    <3>2. Append(feed, b.slot) \in Seq(Produced)
      BY <2>2, <3>1
    <3> QED
      BY <2>3, <3>1, <3>2
  <2>5. PollerTypeOK'
    BY <2>1, <2>2, <2>3, <2>4 DEF TInv, PollerTypeOK
  <2> QED
    BY <2>2, <2>3, <2>5, SameCalls DEF TInv, Awaited
<1>2. CASE SaveState
  <2>1. last \in Produced /\ last + 1 \in Nat
    BY <1>2, LedgerAssumption DEF TInv, SaveState
  <2>2. PollerTypeOK'
    BY <1>2, <2>1 DEF TInv, PollerTypeOK, SaveState, printed
  <2> QED
    BY <1>2, <2>1, <2>2, SameCalls DEF TInv, SaveState, Awaited
<1> QED
  BY <1>1, <1>2

(* The steps that leave every variable TInv speaks of alone.               *)
LEMMA StillTyped ==
  ASSUME TInv, UNCHANGED <<call, pollerVars>>
  PROVE  TInv'
<1>1. UNCHANGED <<phase, next, last, fired, pending, asker, batch, busy, items,
                  cursor, feed, line, highLib>>
  BY DEF pollerVars, place, printed
<1>2. PollerTypeOK'
  BY <1>1 DEF TInv, PollerTypeOK
<1> QED
  BY <1>1, <1>2 DEF TInv, Awaited

LEMMA TInvStep ==
  ASSUME IInv, TInv, [PollerNext]_allVars
  PROVE  TInv'
<1>1. CASE Poll
  <2>1. ASSUME NEW w \in Worker, Goroutine(w) PROVE TInv'
    <3>1. CASE RunFails(w)
      BY <3>1, ExitTyped DEF RunFails
    <3> QED
      BY <2>1, <3>1, AskTyped, CollectTyped DEF Goroutine
  <2> QED
    BY <1>1, <2>1, PlaceTyped, TakeTyped, FireTyped DEF Poll, MainLoop
<1>2. CASE Kill
  BY <1>2, ExitTyped DEF Kill
<1>3. ASSUME NEW w \in Worker, FetcherStep(w) \/ PollerPanic(w) PROVE TInv'
  BY <1>3, FetcherStepTyped, ExitTyped DEF PollerPanic
<1>4. ASSUME NEW c \in Client, Ledger(c) /\ UNCHANGED pollerVars PROVE TInv'
  BY <1>4, StillTyped DEF Ledger, fetcherVars
<1>5. CASE UNCHANGED allVars
  BY <1>5, StillTyped, SameCalls DEF allVars
<1> QED
  BY <1>1, <1>2, <1>3, <1>4, <1>5 DEF PollerNext

LEMMA TypeInvariance == PollerSpec => [](IInv /\ TInv)
<1>1. PollerInit => TInv
  <2> SUFFICES ASSUME PollerInit PROVE TInv
    OBVIOUS
  <2>1. NoBatch \in [base : Nat, pushed : 0 .. BatchSize, open : BOOLEAN]
    BY PollerAssumption DEF NoBatch
  <2>2. <<>> \in Seq(Block) /\ <<>> \in Seq(Produced)
    OBVIOUS
  <2>3. [slot |-> 0, lib |-> 0] \in [slot : Nat, lib : Nat]
    OBVIOUS
  <2>4. PollerTypeOK
    BY <2>1, <2>2, <2>3 DEF PollerInit, PollerTypeOK
  <2> QED
    BY <2>4, PollerAssumption DEF PollerInit, TInv, Awaited
<1>2. IInv /\ TInv /\ [PollerNext]_allVars => TInv'
  BY TInvStep
<1>3. PollerSpec => []IInv
  BY CommandRunsFetcher, Invariance, PTL
<1> QED
  BY <1>1, <1>2, <1>3, PTL DEF PollerSpec

(* With any number of endpoints, whatever its calls answer and wherever it *)
(* is killed, the command (fetcher.go:36-79) keeps the types of its state: *)
(* a block it links or prints is one the ledger holds, and a batch never   *)
(* exceeds --block-fetch-batch-size.                                       *)
THEOREM PollerTypeCorrect == PollerSpec => []PollerTypeOK
<1>1. TInv => PollerTypeOK
  BY DEF TInv
<1> QED
  BY <1>1, TypeInvariance, PTL
=============================================================================
