------------------------------ MODULE Upgrader ------------------------------
(***************************************************************************)
(* cmd/firesol/upgrader.go: the command upgrade-merged-blocks, which reads *)
(* the legacy merged blocks of a source store in order, tweaks each block  *)
(* and writes the merged bundles of a destination store.                   *)
(*                                                                         *)
(* Several jobs, each given a range of its own, may share the destination, *)
(* whose store is opened for overwriting.  A job may be killed or fail at  *)
(* any time and is run again from its start.  The stream and the writer    *)
(* are firehose-core's: the stream delivers the blocks from the start one  *)
(* on, and ProcessBlock of the writer tweaks a block, closes the bundle at *)
(* hand when the block lies beyond it or is its last slot, and ends the    *)
(* stream with io.EOF at the stop block.                                   *)
(***************************************************************************)
EXTENDS Ledger, SolanaBlock

CONSTANTS
  Job,          \* the invocations of the command
  Args,         \* the arguments of each after the two stores; a text
                \* ParseUint does not take for a number is negative
  BundleSize,   \* slots of a merged bundle
  Rewards,      \* the rewards of each block, in the order the source has them
  Corrupt       \* blocks whose payload is not a Solana block

LowBoundary(s) == s - (s % BundleSize)

Parsed(j) == Len(Args[j]) = 2 /\ Args[j][1] >= 0 /\ Args[j][2] >= 0

StartOf(j) == Args[j][1]
StopOf(j) == Args[j][2]

(* Every bundle holds a block, and so does what a job reads of its first.  *)
ASSUME UpgraderAssumption ==
  /\ BundleSize \in Nat \ {0}
  /\ Args \in [Job -> Seq(Int)]
  /\ Rewards \in [Produced -> Seq([pubkey : STRING, lamports : Int])]
  /\ Corrupt \subseteq Produced
  /\ \A b \in Produced : LowBoundary(b) <= LowBoundary(ParentSlot[b]) + BundleSize
  /\ \A j \in Job : Parsed(j) =>
       \E b \in Produced : StartOf(j) <= b /\ LowBoundary(b) = LowBoundary(StartOf(j))

VARIABLES
  status,       \* how each job stands
  writer,       \* its MergedBlocksWriter and its place in the stream
  dest          \* the bundles of the destination store, Nil where there is none

vars == <<status, writer, dest>>

(* A block of the source: a legacy header has no parent number.            *)
SourceBlock(s) ==
  [number |-> s, id |-> s, parentId |-> ParentSlot[s], parentNum |-> 0, timestamp |-> Nil,
   payload |-> [slot |-> s, blockhash |-> s, previousBlockhash |-> ParentSlot[s],
                parentSlot |-> ParentSlot[s], blockTime |-> Nil, rewards |-> Rewards[s]]]

tweakBlockKeepsParent(b) ==
  {[b EXCEPT !.payload.rewards = s] : s \in SortFunc(b.payload.rewards)}

(* The blocks tweakBlock may make of b, whose payload can be unmarshaled.  *)
tweakBlock(b) ==
  {[b EXCEPT !.parentNum = b.payload.parentSlot, !.payload.rewards = s] :
     s \in SortFunc(b.payload.rewards)}

Tweaked == UNION {tweakBlock(SourceBlock(s)) : s \in Produced \ Corrupt}

Bundle == {LowBoundary(s) : s \in Produced}

(* Nil is neither a block nor a bundle.                                    *)
ASSUME NilAssumption == Nil \notin Tweaked /\ Nil \notin Seq(Tweaked)

TypeOK ==
  /\ status \in [Job -> {"new", "running", "complete", "killed", "failed", "refused"}]
  /\ writer \in [Job -> [low : Nat, from : Nat,
                         blocks : Seq(Tweaked), block : Tweaked \cup {Nil}]]
  /\ \A j \in Job : writer[j].low % BundleSize = 0
  /\ dest \in [Bundle -> Seq(Tweaked) \cup {Nil}]

(* low is LowBlockNum, from the place of the stream, blocks the bundle at  *)
(* hand and block the one ProcessBlock was given and still has to place.   *)
NewWriter(low, from) == [low |-> low, from |-> from, blocks |-> <<>>, block |-> Nil]

Init ==
  /\ status = [j \in Job |-> "new"]
  /\ writer = [j \in Job |-> NewWriter(0, 0)]
  /\ dest = [f \in Bundle |-> Nil]

-----------------------------------------------------------------------------
Becomes(j, st, w) ==
  /\ status' = [status EXCEPT ![j] = st]
  /\ writer' = [writer EXCEPT ![j] = w]

EndsWell(j, st) == Becomes(j, IF st = "failed" THEN "complete" ELSE st, NewWriter(0, 0))

(* The process of the job ends.                                            *)
Ends(j, st) == Becomes(j, st, NewWriter(0, 0))

StartBefore(j) ==
  Becomes(j, "running", NewWriter(LowBoundary(StartOf(j)), StartOf(j) - 1))

StartPastFirst(j) ==
  Becomes(j, "running", NewWriter(LowBoundary(StartOf(j)), StartOf(j) + 1))

StartStream(j) ==
  Becomes(j, "running", NewWriter(LowBoundary(StartOf(j)), StartOf(j)))

RunAsDocumented(j) ==
  /\ status[j] # "running"
  /\ IF Len(Args[j]) # 1 THEN Ends(j, "refused") ELSE Ends(j, "failed")
  /\ UNCHANGED dest

(* The command is run, for the first time or again.                        *)
Run(j) ==
  /\ status[j] # "running"
  /\ \/ Len(Args[j]) # 2 /\ Ends(j, "refused")
     \/ Len(Args[j]) = 2 /\ ~Parsed(j) /\ Ends(j, "failed")
     \/ Parsed(j) /\ StartStream(j)
  /\ UNCHANGED dest

(* The slot of the next block of the stream.                               *)
IsNext(j, s) ==
  /\ s \in Produced /\ writer[j].from <= s
  /\ \A t \in Produced : writer[j].from <= t => s <= t

(* The last slot of the bundle at hand is in it.                           *)
Filled(w) == w.blocks # <<>> /\ w.blocks[Len(w.blocks)].number = w.low + BundleSize - 1

(* The next block arrives and is tweaked.                                  *)
TakeBlock(j) ==
  LET w == writer[j] IN
  /\ status[j] = "running" /\ w.block = Nil /\ ~Filled(w)
  /\ \E s \in Produced :
       /\ IsNext(j, s)
       /\ \/ s \in Corrupt /\ Ends(j, "failed")
          \/ /\ s \notin Corrupt
             /\ \E b \in tweakBlock(SourceBlock(s)) :
                  Becomes(j, "running", [w EXCEPT !.block = b, !.from = s + 1])
  /\ UNCHANGED dest

Beyond(w) == w.block # Nil /\ w.block.number >= w.low + BundleSize

(* The bundle at hand is complete: its file is written, or that fails.     *)
WriteBundle(j) ==
  LET w == writer[j] IN
  /\ status[j] = "running" /\ (Beyond(w) \/ (w.block = Nil /\ Filled(w)))
  /\ \/ /\ dest' = [dest EXCEPT ![w.low] = w.blocks]
        /\ Becomes(j, "running", [w EXCEPT !.low = @ + BundleSize, !.blocks = <<>>])
     \/ Ends(j, "failed") /\ UNCHANGED dest

AtStop(j, s) == StopOf(j) > 0 /\ s >= StopOf(j)

(* The block goes into the bundle at hand, or ends the stream: io.EOF is   *)
(* the job's success.                                                      *)
Accept(j) ==
  LET w == writer[j] IN
  /\ status[j] = "running" /\ w.block # Nil /\ ~Beyond(w)
  /\ \/ AtStop(j, w.block.number) /\ Ends(j, "complete")
     \/ /\ ~AtStop(j, w.block.number)
        /\ Becomes(j, "running", [w EXCEPT !.blocks = Append(@, w.block), !.block = Nil])
  /\ UNCHANGED dest

Kill(j) == status[j] = "running" /\ Ends(j, "killed") /\ UNCHANGED dest

Step(j) == TakeBlock(j) \/ WriteBundle(j) \/ Accept(j)

Next == \E j \in Job : Run(j) \/ Step(j) \/ Kill(j)

Spec == Init /\ [][Next]_vars

(***************************************************************************)
(* Fairness.  A running job goes on, and its operator runs it until it is  *)
(* complete.                                                               *)
(***************************************************************************)
Fairness ==
  \A j \in Job : WF_vars(Step(j)) /\ WF_vars(status[j] # "complete" /\ Run(j))

FairSpec == Spec /\ Fairness

-----------------------------------------------------------------------------
(***************************************************************************)
(* When every job starts at the first slot of a bundle, each file of the   *)
(* destination holds all blocks the source has for its bundle, in order    *)
(* and once, whichever jobs wrote it, were killed and overwrote it         *)
(* (upgrader.go:42, 57-65).  A job that starts inside a bundle replaces it *)
(* by the part it has read.                                                *)
(***************************************************************************)
BundlesWhole ==
  \A f \in Bundle : dest[f] # Nil =>
    /\ {dest[f][i].number : i \in DOMAIN dest[f]} = {s \in Produced : LowBoundary(s) = f}
    /\ \A i, k \in DOMAIN dest[f] : i < k => dest[f][i].number < dest[f][k].number

(***************************************************************************)
(* Every block of the destination is like one the RPC fetcher makes: its   *)
(* header agrees with its payload, the parent number too that a legacy     *)
(* header lacks, and its rewards are those of the source in ascending      *)
(* order (upgrader.go:76-96).                                              *)
(***************************************************************************)
BlocksUpgraded ==
  \A f \in Bundle : dest[f] # Nil =>
    \A i \in DOMAIN dest[f] :
      LET b == dest[f][i] IN
      /\ HeaderOfPayload(b)
      /\ Ascending(b.payload.rewards) /\ SameRewards(b.payload.rewards, Rewards[b.number])

(***************************************************************************)
(* A job that says "Complete!" (upgrader.go:67-71) has every block of its  *)
(* range in the destination, up to the bundle the stop block is in.        *)
(***************************************************************************)
CompleteIsDone ==
  \A j \in Job : status[j] = "complete" =>
    \A s \in Produced : StartOf(j) <= s /\ s < LowBoundary(StopOf(j)) =>
      /\ dest[LowBoundary(s)] # Nil
      /\ \E i \in DOMAIN dest[LowBoundary(s)] : dest[LowBoundary(s)][i].number = s

(***************************************************************************)
(* A job whose stop block the source reaches completes, once it is neither *)
(* killed nor fails any more (upgrader.go:65-72).  Without such a block it *)
(* waits for ever, its last bundle possibly unwritten.                     *)
(***************************************************************************)
Completes ==
  \A j \in {k \in Job : Parsed(k) /\ Args[k][2] > 0 /\ \E b \in Produced : b >= Args[k][2]} :
    <>[](status[j] \notin {"killed", "failed"}) => <>(status[j] = "complete")
=============================================================================
