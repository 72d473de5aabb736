--------------------------- MODULE UpgraderProofs ---------------------------
(***************************************************************************)
(* Proofs about Upgrader, for any ledger, any bundle size, any number of   *)
(* jobs that share the destination and any history of kills and failures.  *)
(***************************************************************************)
EXTENDS Upgrader, SolanaBlockProofs

(* No job starts inside a bundle, and so none replaces one by a part.      *)
Aligned == \A j \in Job : Parsed(j) => StartOf(j) % BundleSize = 0

(* The list holds every block of [lo, hi), once and in order.              *)
Numbers(blocks) == {blocks[i].number : i \in DOMAIN blocks}
Between(lo, hi) == {s \in Produced : lo <= s /\ s < hi}
InOrder(blocks) ==
  \A i, k \in DOMAIN blocks : i < k => blocks[i].number < blocks[k].number

(* The first slot a writer has not put into its bundle.                    *)
Reached(w) == IF w.block = Nil THEN w.from ELSE w.block.number

(***************************************************************************)
(* A running writer has in its bundle exactly the blocks between the       *)
(* bundle's first slot and the place it has reached, it has left no bundle *)
(* out, and the bundles before it are in the destination, whoever has      *)
(* written them last.                                                      *)
(***************************************************************************)
WriterInv(w) ==
  /\ w.block # Nil => w.from = w.block.number + 1
  /\ w.low <= Reached(w)
  /\ \A s \in Produced : s < Reached(w) => s < w.low + BundleSize
  /\ Numbers(w.blocks) = Between(w.low, Reached(w)) /\ InOrder(w.blocks)

Behind(d, j, low) ==
  \A s \in Produced : StartOf(j) <= s /\ s < low => d[LowBoundary(s)] # Nil

UInv ==
  /\ TypeOK /\ BundlesWhole
  /\ \A j \in Job : status[j] = "running" =>
       Parsed(j) /\ WriterInv(writer[j]) /\ Behind(dest, j, writer[j].low)
  /\ \A j \in Job : status[j] = "complete" => Parsed(j) /\ Behind(dest, j, LowBoundary(StopOf(j)))

-----------------------------------------------------------------------------
LEMMA SlotsNat == \A s \in Produced : s \in Nat
BY LedgerAssumption

LEMMA SizeIs == BundleSize \in Nat \ {0}
BY UpgraderAssumption

(* The bundles divide the slots.                                           *)
LEMMA Boundary ==
  ASSUME NEW s \in Nat
  PROVE  /\ LowBoundary(s) \in Nat /\ LowBoundary(s) % BundleSize = 0
         /\ LowBoundary(s) <= s /\ s < LowBoundary(s) + BundleSize
BY SizeIs DEF LowBoundary

LEMMA BoundaryIs ==
  ASSUME NEW s \in Nat, NEW f \in Nat, f % BundleSize = 0, f <= s, s < f + BundleSize
  PROVE  LowBoundary(s) = f
BY SizeIs DEF LowBoundary

LEMMA BoundaryBelow ==
  ASSUME NEW s \in Nat, NEW f \in Nat, f % BundleSize = 0, s < f + BundleSize
  PROVE  LowBoundary(s) <= f
<1>1. CASE s < f
  BY <1>1, Boundary
<1>2. CASE f <= s
  BY <1>2, BoundaryIs
<1> QED
  BY <1>1, <1>2

LEMMA NextBoundary ==
  ASSUME NEW f \in Nat, f % BundleSize = 0
  PROVE  f + BundleSize \in Nat /\ (f + BundleSize) % BundleSize = 0
<1> DEFINE q == f \div BundleSize
           r == (f + BundleSize) % BundleSize
           p == (f + BundleSize) \div BundleSize
<1>1. q \in Nat /\ f = BundleSize * q
  BY SizeIs
<1>2. p \in Nat /\ r \in Nat /\ r < BundleSize /\ f + BundleSize = BundleSize * p + r
  BY SizeIs
<1> HIDE DEF q, p, r
<1>3. BundleSize * (q + 1) = BundleSize * p + r
  BY <1>1, <1>2, SizeIs
<1>4. r = BundleSize * (q + 1 - p)
  BY <1>1, <1>2, <1>3, SizeIs
<1>5. r = 0
  <2>1. CASE q + 1 - p >= 1
    BY <1>1, <1>2, <1>4, <2>1, SizeIs
  <2>2. CASE q + 1 - p = 0
    BY <1>1, <1>2, <1>4, <2>2, SizeIs
  <2>3. CASE q + 1 - p <= -1
    BY <1>1, <1>2, <1>4, <2>3, SizeIs
  <2> QED
    BY <1>1, <1>2, <2>1, <2>2, <2>3
<1> QED
  BY <1>5, SizeIs DEF r

LEMMA OfBundle ==
  ASSUME NEW f \in Nat, f % BundleSize = 0
  PROVE  {s \in Produced : LowBoundary(s) = f} = Between(f, f + BundleSize)
<1>1. ASSUME NEW s \in Produced
      PROVE  LowBoundary(s) = f <=> f <= s /\ s < f + BundleSize
  BY LedgerAssumption, Boundary, BoundaryIs
<1> QED
  BY <1>1 DEF Between

(* The arguments of a job whose stream is started.                         *)
LEMMA Bounds ==
  ASSUME NEW j \in Job, Parsed(j)
  PROVE  StartOf(j) \in Nat /\ StopOf(j) \in Nat
<1>1. Args[j] \in Seq(Int) /\ Len(Args[j]) = 2
  BY UpgraderAssumption DEF Parsed
<1>2. Args[j][1] \in Int /\ Args[j][2] \in Int
  BY <1>1
<1> QED
  BY <1>2 DEF Parsed, StartOf, StopOf

-----------------------------------------------------------------------------
(* What tweakBlock makes of the source's blocks.                           *)
Upgraded(s, rewards) ==
  [number |-> s, id |-> s, parentId |-> ParentSlot[s], parentNum |-> ParentSlot[s],
   timestamp |-> Nil,
   payload |-> [slot |-> s, blockhash |-> s, previousBlockhash |-> ParentSlot[s],
                parentSlot |-> ParentSlot[s], blockTime |-> Nil, rewards |-> rewards]]

LEMMA TweakIs ==
  ASSUME NEW s \in Produced, NEW b \in tweakBlock(SourceBlock(s))
  PROVE  \E rewards \in SortFunc(Rewards[s]) : b = Upgraded(s, rewards)
<1>1. SourceBlock(s).payload.rewards = Rewards[s]
      /\ SourceBlock(s).payload.parentSlot = ParentSlot[s]
  BY DEF SourceBlock
<1>2. PICK r \in SortFunc(Rewards[s]) :
        b = [SourceBlock(s) EXCEPT !.parentNum = ParentSlot[s], !.payload.rewards = r]
  BY <1>1 DEF tweakBlock
<1>3. b = Upgraded(s, r)
  BY <1>2 DEF SourceBlock, Upgraded
<1> QED
  BY <1>3

LEMMA TweakedIs ==
  ASSUME NEW b \in Tweaked
  PROVE  \E s \in Produced \ Corrupt : \E rewards \in SortFunc(Rewards[s]) :
           b = Upgraded(s, rewards)
<1>1. PICK s \in Produced \ Corrupt : b \in tweakBlock(SourceBlock(s))
  BY DEF Tweaked
<1> QED
  BY <1>1, TweakIs

LEMMA TweakedNumber ==
  ASSUME NEW b \in Tweaked
  PROVE  b.number \in Produced /\ b.number \in Nat /\ b # Nil
<1>1. PICK s \in Produced : \E rewards \in SortFunc(Rewards[s]) : b = Upgraded(s, rewards)
  BY TweakedIs
<1>2. b.number = s
  BY <1>1 DEF Upgraded
<1> QED
  BY <1>2, LedgerAssumption, NilAssumption

-----------------------------------------------------------------------------
Status == {"new", "running", "complete", "killed", "failed", "refused"}
Writer == [low : Nat, from : Nat, blocks : Seq(Tweaked), block : Tweaked \cup {Nil}]

LEMMA BecomesTyped ==
  ASSUME TypeOK, NEW j \in Job, NEW st \in Status, NEW w \in Writer,
         w.low % BundleSize = 0, Becomes(j, st, w),
         dest' \in [Bundle -> Seq(Tweaked) \cup {Nil}]
  PROVE  TypeOK'
<1>1. /\ status' = [status EXCEPT ![j] = st] /\ status \in [Job -> Status]
      /\ writer' = [writer EXCEPT ![j] = w] /\ writer \in [Job -> Writer]
      /\ \A k \in Job : writer[k].low % BundleSize = 0
  BY DEF Becomes, TypeOK, Status, Writer
<1>2. status' \in [Job -> Status] /\ writer' \in [Job -> Writer]
  BY <1>1
<1>3. \A k \in Job : writer'[k].low % BundleSize = 0
  BY <1>1
<1> QED
  BY <1>2, <1>3 DEF TypeOK, Status, Writer

LEMMA NewWriterTyped ==
  ASSUME NEW low \in Nat, NEW from \in Nat
  PROVE  NewWriter(low, from) \in Writer /\ NewWriter(low, from).low = low
BY DEF NewWriter, Writer

LEMMA EndsTyped ==
  ASSUME TypeOK, NEW j \in Job, NEW st \in Status, Ends(j, st), UNCHANGED dest
  PROVE  TypeOK'
<1>1. NewWriter(0, 0) \in Writer /\ NewWriter(0, 0).low % BundleSize = 0
  BY NewWriterTyped, SizeIs
<1>2. Becomes(j, st, NewWriter(0, 0))
  BY DEF Ends
<1>3. dest' \in [Bundle -> Seq(Tweaked) \cup {Nil}]
  BY DEF TypeOK
<1> QED
  BY <1>1, <1>2, <1>3, BecomesTyped

(* How each step of a job changes its writer.                              *)
LEMMA TypeStep ==
  ASSUME TypeOK, NEW j \in Job, Run(j) \/ Step(j) \/ Kill(j)
  PROVE  TypeOK'
<1> DEFINE w == writer[j]
<1>1. w \in Writer /\ w.low % BundleSize = 0 /\ dest \in [Bundle -> Seq(Tweaked) \cup {Nil}]
  BY DEF TypeOK, Writer
<1> HIDE DEF w
<1>2. "running" \in Status /\ "complete" \in Status /\ "killed" \in Status
      /\ "failed" \in Status /\ "refused" \in Status
  BY DEF Status
<1>3. CASE Run(j)
  <2>1. CASE Ends(j, "refused") \/ Ends(j, "failed")
    BY <1>2, <1>3, <2>1, EndsTyped DEF Run
  <2>2. CASE Parsed(j) /\ StartStream(j)
    <3> DEFINE n == NewWriter(LowBoundary(StartOf(j)), StartOf(j))
    <3>1. n \in Writer /\ n.low % BundleSize = 0
      BY <2>2, Bounds, Boundary, NewWriterTyped
    <3>2. Becomes(j, "running", n)
      BY <2>2 DEF StartStream
    <3> QED
      BY <1>1, <1>2, <1>3, <3>1, <3>2, BecomesTyped DEF Run
  <2> QED
    BY <1>3, <2>1, <2>2 DEF Run
<1>4. CASE TakeBlock(j)
  <2>1. CASE Ends(j, "failed")
    BY <1>2, <1>4, <2>1, EndsTyped DEF TakeBlock
  <2>2. ASSUME NEW s \in Produced \ Corrupt, NEW b \in tweakBlock(SourceBlock(s)),
               Becomes(j, "running", [w EXCEPT !.block = b, !.from = s + 1])
        PROVE  TypeOK'
    <3>1. b \in Tweaked /\ s + 1 \in Nat
      BY LedgerAssumption DEF Tweaked
    <3>2. [w EXCEPT !.block = b, !.from = s + 1] \in Writer
          /\ [w EXCEPT !.block = b, !.from = s + 1].low = w.low
      BY <1>1, <3>1 DEF Writer
    <3> QED
      BY <1>1, <1>2, <1>4, <2>2, <3>2, BecomesTyped DEF TakeBlock
  <2> QED
    BY <1>4, <2>1, <2>2 DEF TakeBlock, w
<1>5. CASE WriteBundle(j)
  <2>1. CASE Ends(j, "failed") /\ UNCHANGED dest
    BY <1>2, <2>1, EndsTyped
  <2>2. CASE /\ dest' = [dest EXCEPT ![w.low] = w.blocks]
             /\ Becomes(j, "running", [w EXCEPT !.low = w.low + BundleSize, !.blocks = <<>>])
    <3> DEFINE n == [w EXCEPT !.low = w.low + BundleSize, !.blocks = <<>>]
    <3>1. w.low \in Nat /\ w.blocks \in Seq(Tweaked)
      BY <1>1 DEF Writer
    <3>2. n \in Writer /\ n.low = w.low + BundleSize /\ n.low % BundleSize = 0
      <4>1. w.low + BundleSize \in Nat /\ (w.low + BundleSize) % BundleSize = 0
        BY <1>1, <3>1, NextBoundary
      <4>2. <<>> \in Seq(Tweaked)
        OBVIOUS
      <4>3. n \in Writer /\ n.low = w.low + BundleSize
        BY <1>1, <4>1, <4>2 DEF Writer
      <4> QED
        BY <4>1, <4>3
    <3>3. dest' \in [Bundle -> Seq(Tweaked) \cup {Nil}]
      BY <1>1, <2>2, <3>1
    <3> HIDE DEF n
    <3>4. Becomes(j, "running", n)
      BY <2>2 DEF n
    <3> QED
      BY <1>2, <3>2, <3>3, <3>4, BecomesTyped
  <2> QED
    BY <1>5, <2>1, <2>2 DEF WriteBundle, w
<1>6. CASE Accept(j)
  <2>1. CASE Ends(j, "complete")
    BY <1>2, <1>6, <2>1, EndsTyped DEF Accept
  <2>2. CASE Becomes(j, "running", [w EXCEPT !.blocks = Append(w.blocks, w.block), !.block = Nil])
    <3> DEFINE n == [w EXCEPT !.blocks = Append(w.blocks, w.block), !.block = Nil]
    <3>1. w.block \in Tweaked /\ w.blocks \in Seq(Tweaked)
      BY <1>1, <1>6 DEF Accept, Writer, w
    <3>2. Append(w.blocks, w.block) \in Seq(Tweaked)
      BY <3>1
    <3>3. n \in Writer /\ n.low = w.low
      BY <1>1, <3>2 DEF Writer
    <3> HIDE DEF n
    <3>4. Becomes(j, "running", n) /\ UNCHANGED dest
      BY <1>6, <2>2 DEF n, Accept
    <3> QED
      BY <1>1, <1>2, <3>3, <3>4, BecomesTyped
  <2> QED
    BY <1>6, <2>1, <2>2 DEF Accept, w
<1>7. CASE Kill(j)
  BY <1>2, <1>7, EndsTyped DEF Kill
<1> QED
  BY <1>3, <1>4, <1>5, <1>6, <1>7 DEF Step

(* The jobs keep the types of their state, and their bundles begin at      *)
(* boundaries (upgrader.go:42-65), whatever is killed and run again.       *)
THEOREM TypeCorrect == Spec => []TypeOK
<1>1. Init => TypeOK
  <2> SUFFICES ASSUME Init PROVE TypeOK
    OBVIOUS
  <2>1. NewWriter(0, 0) \in Writer /\ NewWriter(0, 0).low % BundleSize = 0
    BY NewWriterTyped, SizeIs
  <2>2. writer \in [Job -> Writer] /\ \A j \in Job : writer[j].low % BundleSize = 0
    BY <2>1 DEF Init
  <2> QED
    BY <2>2 DEF Init, TypeOK, Writer
<1>2. TypeOK /\ [Next]_vars => TypeOK'
  <2>1. ASSUME TypeOK, UNCHANGED vars PROVE TypeOK'
    BY <2>1 DEF vars, TypeOK
  <2> QED
    BY <2>1, TypeStep DEF Next
<1> QED
  BY <1>1, <1>2, PTL DEF Spec

-----------------------------------------------------------------------------
LEMMA SortedRewards ==
  ASSUME NEW b \in Produced, NEW s \in SortFunc(Rewards[b])
  PROVE  Ascending(s) /\ SameRewards(s, Rewards[b])
<1> DEFINE R == [pubkey : STRING, lamports : Int]
<1>1. Rewards[b] \in Seq(R)
  BY UpgraderAssumption
<1>2. \A r \in R : r.lamports \in Int
  OBVIOUS
<1> HIDE DEF R
<1>3. Ascending(s) /\ SameElements(s, Rewards[b])
  BY <1>1, <1>2, Sorted
<1> QED
  BY <1>3 DEF SameElements, SameRewards

(* Every block tweakBlock can make is one the fetcher could have made.     *)
LEMMA TweakedUpgraded ==
  ASSUME NEW b \in Tweaked
  PROVE  /\ HeaderOfPayload(b)
         /\ Ascending(b.payload.rewards) /\ SameRewards(b.payload.rewards, Rewards[b.number])
<1>1. PICK s \in Produced : \E r \in SortFunc(Rewards[s]) : b = Upgraded(s, r)
  BY TweakedIs
<1>2. PICK r \in SortFunc(Rewards[s]) : b = Upgraded(s, r)
  BY <1>1
<1>3. HeaderOfPayload(b)
  BY <1>2
  DEF Upgraded, HeaderOfPayload, GetFirehoseBlockNumber, GetFirehoseBlockID,
      GetFirehoseBlockParentID, GetFirehoseBlockParentNumber, GetFirehoseBlockTime, AsTime
<1>4. b.payload.rewards = r /\ b.number = s
  BY <1>2 DEF Upgraded
<1> QED
  BY <1>2, <1>3, <1>4, SortedRewards

(***************************************************************************)
(* Every block of the destination, whatever job wrote it last, has a       *)
(* header that agrees with its payload, the parent number included, and    *)
(* the rewards of the source in ascending order (upgrader.go:76-96).       *)
(***************************************************************************)
THEOREM DestinationUpgraded == Spec => []BlocksUpgraded
<1>1. TypeOK => BlocksUpgraded
  <2> SUFFICES ASSUME TypeOK, NEW f \in Bundle, dest[f] # Nil, NEW i \in DOMAIN dest[f]
               PROVE  dest[f][i] \in Tweaked
    BY TweakedUpgraded DEF BlocksUpgraded
  <2>1. dest[f] \in Seq(Tweaked)
    BY DEF TypeOK
  <2> QED
    BY <2>1
<1> QED
  BY <1>1, TypeCorrect, PTL

-----------------------------------------------------------------------------
(* A step of job j that ends with status st and writer w.                  *)
LEMMA JobStep ==
  ASSUME UInv, NEW j \in Job, NEW st \in Status, NEW w, Becomes(j, st, w),
         TypeOK', BundlesWhole',
         \A f \in Bundle : dest[f] # Nil => dest'[f] # Nil,
         st = "running" => Parsed(j) /\ WriterInv(w) /\ Behind(dest', j, w.low),
         st = "complete" => Parsed(j) /\ Behind(dest', j, LowBoundary(StopOf(j)))
  PROVE  UInv'
<1>1. ASSUME NEW k \in Job
      PROVE  /\ status'[k] = IF k = j THEN st ELSE status[k]
             /\ writer'[k] = IF k = j THEN w ELSE writer[k]
  BY DEF UInv, TypeOK, Becomes
<1>2. ASSUME NEW k \in Job, NEW low, Behind(dest, k, low) PROVE Behind(dest', k, low)
  BY <1>2 DEF Behind, Bundle
<1>3. ASSUME NEW k \in Job, status'[k] = "running"
      PROVE  Parsed(k) /\ WriterInv(writer'[k]) /\ Behind(dest', k, writer'[k].low)
  <2>1. CASE k = j
    BY <1>1, <1>3, <2>1 DEF Behind
  <2>2. CASE k # j
    BY <1>1, <1>2, <1>3, <2>2 DEF UInv
  <2> QED
    BY <2>1, <2>2
<1>4. ASSUME NEW k \in Job, status'[k] = "complete"
      PROVE  Parsed(k) /\ Behind(dest', k, LowBoundary(StopOf(k)))
  BY <1>1, <1>2, <1>4 DEF UInv
<1> QED
  BY <1>3, <1>4 DEF UInv

LEMMA EndStep ==
  ASSUME UInv, TypeOK', NEW j \in Job, NEW st \in {"killed", "failed", "refused", "complete"},
         Ends(j, st), UNCHANGED dest,
         st = "complete" => Parsed(j) /\ Behind(dest, j, LowBoundary(StopOf(j)))
  PROVE  UInv'
<1>1. BundlesWhole'
  BY DEF UInv, BundlesWhole
<1>2. st \in Status /\ st # "running"
  BY DEF Status
<1>3. st = "complete" => Parsed(j) /\ Behind(dest', j, LowBoundary(StopOf(j)))
  BY DEF Behind
<1> QED
  BY <1>1, <1>2, <1>3, JobStep DEF Ends

(* An empty list holds nothing.                                            *)
LEMMA NothingHeld ==
  ASSUME NEW lo, NEW hi, Between(lo, hi) = {}
  PROVE  Numbers(<<>>) = Between(lo, hi) /\ InOrder(<<>>)
<1>1. DOMAIN <<>> = {}
  OBVIOUS
<1> QED
  BY <1>1 DEF Numbers, InOrder

(* A block in its place goes to the end of the list.                       *)
LEMMA OneMore ==
  ASSUME NEW blocks \in Seq(Tweaked), NEW b \in Tweaked, NEW lo \in Nat, lo <= b.number,
         Numbers(blocks) = Between(lo, b.number), InOrder(blocks)
  PROVE  LET more == Append(blocks, b) IN
         Numbers(more) = Between(lo, b.number + 1) /\ InOrder(more)
<1> DEFINE more == Append(blocks, b)
           n == Len(blocks)
<1>1. /\ n \in Nat /\ DOMAIN blocks = 1 .. n /\ DOMAIN more = 1 .. n + 1
      /\ \A i \in 1 .. n : more[i] = blocks[i]
      /\ more[n + 1] = b
  OBVIOUS
<1>2. b.number \in Produced /\ b.number \in Nat
  BY TweakedNumber
<1> HIDE DEF more, n
<1>3. \A i \in 1 .. n : blocks[i].number \in Produced /\ blocks[i].number < b.number
  BY <1>1 DEF Numbers, Between
<1>4. Numbers(more) = Numbers(blocks) \cup {b.number}
  BY <1>1 DEF Numbers
<1>5. Between(lo, b.number + 1) = Between(lo, b.number) \cup {b.number}
  <2>1. \A m, s \in Nat : s < m + 1 <=> (s < m \/ s = m)
    OBVIOUS
  <2> QED
    BY <1>2, <2>1, SlotsNat DEF Between
<1>6. InOrder(more)
  BY <1>1, <1>3 DEF InOrder
<1> QED
  BY <1>4, <1>5, <1>6 DEF more

(* The stream begins.                                                      *)
LEMMA RunStep ==
  ASSUME Aligned, UInv, TypeOK', NEW j \in Job, Run(j)
  PROVE  UInv'
<1>1. CASE Ends(j, "refused") \/ Ends(j, "failed")
  BY <1>1, EndStep DEF Run
<1>2. CASE Parsed(j) /\ StartStream(j)
  <2> DEFINE n == NewWriter(LowBoundary(StartOf(j)), StartOf(j))
  <2>1. StartOf(j) \in Nat /\ LowBoundary(StartOf(j)) = StartOf(j)
    BY <1>2, Bounds, SizeIs DEF Aligned, LowBoundary
  <2>2. n.low = StartOf(j) /\ n.from = StartOf(j) /\ n.blocks = <<>> /\ n.block = Nil
    BY <2>1 DEF NewWriter
  <2> HIDE DEF n
  <2>3. Numbers(<<>>) = Between(StartOf(j), StartOf(j)) /\ InOrder(<<>>)
    <3>1. Between(StartOf(j), StartOf(j)) = {}
      <4>1. \A s \in Produced : ~(StartOf(j) <= s /\ s < StartOf(j))
        BY <2>1, SlotsNat
      <4> QED
        BY <4>1 DEF Between
    <3> QED
      BY <3>1, NothingHeld
  <2>4. WriterInv(n)
    BY <2>1, <2>2, <2>3, SizeIs, LedgerAssumption DEF WriterInv, Reached
  <2>5. Behind(dest', j, n.low)
    BY <2>1, <2>2, LedgerAssumption DEF Behind
  <2>6. Becomes(j, "running", n) /\ UNCHANGED dest
    BY <1>2 DEF StartStream, n, Run
  <2>7. BundlesWhole' /\ "running" \in Status
    BY <2>6 DEF UInv, BundlesWhole, Status
  <2> QED
    BY <1>2, <2>4, <2>5, <2>6, <2>7, JobStep
<1> QED
  BY <1>1, <1>2 DEF Run

(* A block arrives: nothing lies between it and what was read before.      *)
LEMMA TakeStep ==
  ASSUME UInv, TypeOK', NEW j \in Job, TakeBlock(j)
  PROVE  UInv'
<1> DEFINE w == writer[j]
<1>1. /\ status[j] = "running" /\ w.block = Nil /\ UNCHANGED dest
      /\ Parsed(j) /\ WriterInv(w) /\ Behind(dest, j, w.low) /\ w \in Writer
  BY DEF TakeBlock, UInv, TypeOK, Writer
<1>2. PICK s \in Produced :
        /\ IsNext(j, s)
        /\ \/ Ends(j, "failed")
           \/ s \notin Corrupt /\ \E b \in tweakBlock(SourceBlock(s)) :
                Becomes(j, "running", [w EXCEPT !.block = b, !.from = s + 1])
  BY DEF TakeBlock
<1>3. CASE Ends(j, "failed")
  BY <1>1, <1>3, EndStep
<1>4. ASSUME s \notin Corrupt, NEW b \in tweakBlock(SourceBlock(s)),
             Becomes(j, "running", [w EXCEPT !.block = b, !.from = s + 1])
      PROVE  UInv'
  <2> DEFINE n == [w EXCEPT !.block = b, !.from = s + 1]
  <2>1. /\ s \in Nat /\ w.from <= s
        /\ \A t \in Produced : t \in Nat /\ (w.from <= t => s <= t)
    BY <1>2, LedgerAssumption DEF IsNext
  <2>2. b.number = s
    BY TweakIs DEF Upgraded
  <2>3. b # Nil
    BY <1>4, NilAssumption DEF Tweaked
  <2>4. n.low = w.low /\ n.from = s + 1 /\ n.blocks = w.blocks /\ n.block = b
    BY <1>1 DEF Writer
  <2>5. w.low \in Nat /\ w.from \in Nat
    BY <1>1 DEF Writer
  <2> HIDE DEF n, w
  <2>6. Reached(n) = s /\ Reached(w) = w.from
    BY <1>1, <2>2, <2>3, <2>4 DEF Reached
  <2>7. Between(w.low, s) = Between(w.low, w.from)
    <3>1. \A t \in Produced : t < s <=> t < w.from
      BY <2>1, <2>5
    <3> QED
      BY <3>1 DEF Between
  <2>8. \A t \in Produced : t < s => t < w.low + BundleSize
    BY <1>1, <2>1, <2>5, <2>6 DEF WriterInv
  <2>9. WriterInv(n)
    BY <1>1, <2>1, <2>2, <2>3, <2>4, <2>5, <2>6, <2>7, <2>8 DEF WriterInv
  <2>10. BundlesWhole' /\ "running" \in Status /\ Behind(dest', j, n.low)
    BY <1>1, <2>4 DEF UInv, BundlesWhole, Status, Behind
  <2>11. Becomes(j, "running", n)
    BY <1>4 DEF n
  <2> QED
    BY <1>1, <2>9, <2>10, <2>11, JobStep
<1> QED
  BY <1>2, <1>3, <1>4

(* The bundle at hand is whole when its file is written.                   *)
LEMMA WriteStep ==
  ASSUME UInv, TypeOK', NEW j \in Job, WriteBundle(j)
  PROVE  UInv'
<1> DEFINE w == writer[j]
           n == [w EXCEPT !.low = w.low + BundleSize, !.blocks = <<>>]
<1>1. /\ status[j] = "running" /\ (Beyond(w) \/ (w.block = Nil /\ Filled(w)))
      /\ Parsed(j) /\ WriterInv(w) /\ Behind(dest, j, w.low) /\ w \in Writer
      /\ w.low % BundleSize = 0
  BY DEF WriteBundle, UInv, TypeOK, Writer
<1>2. \/ dest' = [dest EXCEPT ![w.low] = w.blocks] /\ Becomes(j, "running", n)
      \/ Ends(j, "failed") /\ UNCHANGED dest
  BY DEF WriteBundle
<1>3. CASE Ends(j, "failed") /\ UNCHANGED dest
  BY <1>3, EndStep
<1>4. CASE dest' = [dest EXCEPT ![w.low] = w.blocks] /\ Becomes(j, "running", n)
  <2>1. /\ w.low \in Nat /\ w.from \in Nat /\ w.blocks \in Seq(Tweaked)
        /\ w.block \in Tweaked \cup {Nil}
        /\ n.low = w.low + BundleSize /\ n.from = w.from /\ n.blocks = <<>> /\ n.block = w.block
    BY <1>1 DEF Writer
  <2>2. dest \in [Bundle -> Seq(Tweaked) \cup {Nil}]
    BY DEF UInv, TypeOK
  <2> HIDE DEF n, w
  <2>3. Reached(n) = Reached(w) /\ Reached(w) \in Nat
    BY <2>1, TweakedNumber DEF Reached
  <2>4. w.low + BundleSize <= Reached(w)
    <3>1. CASE Beyond(w)
      BY <2>1, <3>1 DEF Beyond, Reached
    <3>2. CASE w.block = Nil /\ Filled(w)
      <4> DEFINE m == w.blocks[Len(w.blocks)].number
      <4>1. m \in Numbers(w.blocks) /\ m = w.low + BundleSize - 1
        BY <2>1, <3>2 DEF Filled, Numbers
      <4>2. m < Reached(w)
        BY <1>1, <4>1 DEF WriterInv, Between
      <4> QED
        BY <2>1, <2>3, <4>1, <4>2, SizeIs
    <3> QED
      BY <1>1, <3>1, <3>2
  <2>5. \A s \in Produced : s \in Nat /\ (s < Reached(w) => s < w.low + BundleSize)
    BY <1>1, LedgerAssumption DEF WriterInv
  <2>6. Numbers(w.blocks) = {s \in Produced : LowBoundary(s) = w.low} /\ InOrder(w.blocks)
    <3>1. \A s \in Produced : s < Reached(w) <=> s < w.low + BundleSize
      BY <2>1, <2>3, <2>4, <2>5, SizeIs
    <3>2. Between(w.low, Reached(w)) = Between(w.low, w.low + BundleSize)
      BY <3>1 DEF Between
    <3> QED
      BY <1>1, <2>1, <3>2, OfBundle DEF WriterInv
  <2>7. \A f \in Bundle : dest'[f] = IF f = w.low THEN w.blocks ELSE dest[f]
    BY <1>4, <2>2
  <2>8. w.blocks # Nil
    BY <2>1, NilAssumption
  <2>9. BundlesWhole'
    BY <2>6, <2>7 DEF UInv, BundlesWhole, Numbers, InOrder
  <2>10. Between(n.low, Reached(n)) = {}
    BY <2>1, <2>3, <2>5, SizeIs DEF Between
  <2>11. WriterInv(n)
    <3>1. Numbers(n.blocks) = Between(n.low, Reached(n)) /\ InOrder(n.blocks)
      BY <2>1, <2>10, NothingHeld
    <3>2. \A s \in Produced : s < Reached(n) => s < n.low + BundleSize
      BY <2>1, <2>3, <2>5, SizeIs
    <3>3. n.low <= Reached(n)
      BY <2>1, <2>3, <2>4
    <3>4. n.block # Nil => n.from = n.block.number + 1
      BY <1>1, <2>1 DEF WriterInv
    <3> QED
      BY <3>1, <3>2, <3>3, <3>4 DEF WriterInv
  <2>12. Behind(dest', j, n.low)
    <3> SUFFICES ASSUME NEW s \in Produced, StartOf(j) <= s, s < n.low
                 PROVE  dest'[LowBoundary(s)] # Nil
      BY DEF Behind
    <3>1. LowBoundary(s) \in Bundle
      BY DEF Bundle
    <3>2. CASE s < w.low
      BY <1>1, <2>7, <2>8, <3>1, <3>2 DEF Behind
    <3>3. CASE w.low <= s
      <4>1. LowBoundary(s) = w.low
        BY <1>1, <2>1, <2>5, <3>3, BoundaryIs
      <4> QED
        BY <2>7, <2>8, <3>1, <4>1
    <3> QED
      BY <2>1, <2>5, <3>2, <3>3
  <2>13. "running" \in Status /\ \A f \in Bundle : dest[f] # Nil => dest'[f] # Nil
    BY <2>7, <2>8 DEF Status
  <2> QED
    BY <1>1, <1>4, <2>9, <2>11, <2>12, <2>13, JobStep
<1> QED
  BY <1>2, <1>3, <1>4

(* The block is put where it belongs, or it is the stop block.             *)
LEMMA AcceptStep ==
  ASSUME UInv, TypeOK', NEW j \in Job, Accept(j)
  PROVE  UInv'
<1> DEFINE w == writer[j]
           n == [w EXCEPT !.blocks = Append(w.blocks, w.block), !.block = Nil]
<1>1. /\ status[j] = "running" /\ w.block # Nil /\ ~Beyond(w) /\ UNCHANGED dest
      /\ Parsed(j) /\ WriterInv(w) /\ Behind(dest, j, w.low) /\ w \in Writer
      /\ w.low % BundleSize = 0
  BY DEF Accept, UInv, TypeOK, Writer
<1>2. \/ AtStop(j, w.block.number) /\ Ends(j, "complete")
      \/ Becomes(j, "running", n)
  BY DEF Accept
<1>3. /\ w.low \in Nat /\ w.from \in Nat /\ w.blocks \in Seq(Tweaked) /\ w.block \in Tweaked
      /\ n.low = w.low /\ n.from = w.from /\ n.block = Nil
      /\ n.blocks = Append(w.blocks, w.block)
  BY <1>1 DEF Writer
<1> HIDE DEF n, w
<1>4. /\ w.block.number \in Nat /\ w.block.number < w.low + BundleSize
      /\ Reached(w) = w.block.number /\ w.from = w.block.number + 1
      /\ w.low <= w.block.number
  BY <1>1, <1>3, TweakedNumber, SizeIs DEF Beyond, Reached, WriterInv
<1>5. CASE AtStop(j, w.block.number) /\ Ends(j, "complete")
  <2>1. StopOf(j) \in Nat /\ StopOf(j) < w.low + BundleSize
    BY <1>1, <1>3, <1>4, <1>5, Bounds, SizeIs DEF AtStop
  <2>2. LowBoundary(StopOf(j)) \in Nat /\ LowBoundary(StopOf(j)) <= w.low
    BY <1>1, <1>3, <2>1, Boundary, BoundaryBelow
  <2>3. Behind(dest, j, LowBoundary(StopOf(j)))
    BY <1>1, <1>3, <2>2, LedgerAssumption DEF Behind
  <2> QED
    BY <1>1, <1>5, <2>3, EndStep
<1>6. CASE Becomes(j, "running", n)
  <2>1. Numbers(n.blocks) = Between(n.low, n.from) /\ InOrder(n.blocks)
    BY <1>1, <1>3, <1>4, OneMore DEF WriterInv
  <2>2. Reached(n) = n.from
    BY <1>3 DEF Reached
  <2>3. \A s \in Produced : s < n.from => s < n.low + BundleSize
    BY <1>3, <1>4, LedgerAssumption, SizeIs
  <2>4. WriterInv(n)
    BY <1>3, <1>4, <2>1, <2>2, <2>3 DEF WriterInv
  <2>5. BundlesWhole' /\ "running" \in Status /\ Behind(dest', j, n.low)
    BY <1>1, <1>3 DEF UInv, BundlesWhole, Status, Behind
  <2> QED
    BY <1>1, <1>6, <2>4, <2>5, JobStep
<1> QED
  BY <1>2, <1>5, <1>6

LEMMA JobsInvariance ==
  ASSUME Aligned
  PROVE  Spec => []UInv
<1>1. Init => BundlesWhole
         /\ \A j \in Job : status[j] # "running" /\ status[j] # "complete"
  BY DEF Init, BundlesWhole
<1>2. UInv /\ TypeOK' /\ [Next]_vars => UInv'
  <2> SUFFICES ASSUME UInv, TypeOK', [Next]_vars PROVE UInv'
    OBVIOUS
  <2>1. ASSUME NEW j \in Job, Run(j) \/ Step(j) \/ Kill(j) PROVE UInv'
    <3>1. CASE Kill(j)
      BY <3>1, EndStep DEF Kill
    <3> QED
      BY <2>1, <3>1, RunStep, TakeStep, WriteStep, AcceptStep DEF Step
  <2>2. CASE UNCHANGED vars
    BY <2>2 DEF vars, UInv, BundlesWhole
  <2> QED
    BY <2>1, <2>2 DEF Next
<1>3. TypeOK /\ Init => UInv
  BY <1>1 DEF UInv
<1> QED
  BY <1>2, <1>3, TypeCorrect, PTL DEF Spec

(***************************************************************************)
(* If no job starts inside a bundle, every file of the destination holds   *)
(* all the blocks of its bundle, once and in order, at any time, whichever *)
(* jobs share the bundle, fail, are killed and overwrite it                *)
(* (upgrader.go:42, 57-65).                                                *)
(***************************************************************************)
THEOREM DestinationWhole ==
  ASSUME Aligned
  PROVE  Spec => []BundlesWhole
<1>1. UInv => BundlesWhole
  BY DEF UInv
<1> QED
  BY <1>1, JobsInvariance, PTL

(***************************************************************************)
(* A job that reports "Complete!" (upgrader.go:67-71) has all its blocks   *)
(* in the destination up to the bundle of its stop block, and keeps them   *)
(* there while other jobs go on writing.                                   *)
(***************************************************************************)
THEOREM CompleteDone ==
  ASSUME Aligned
  PROVE  Spec => []CompleteIsDone
<1>1. UInv => CompleteIsDone
  <2> SUFFICES ASSUME UInv, NEW j \in Job, status[j] = "complete", NEW s \in Produced,
                      StartOf(j) <= s, s < LowBoundary(StopOf(j))
               PROVE  LET d == dest[LowBoundary(s)]
                      IN  d # Nil /\ \E i \in DOMAIN d : d[i].number = s
    BY DEF CompleteIsDone
  <2> DEFINE f == LowBoundary(s)
  <2>1. f \in Bundle /\ dest[f] # Nil
    BY DEF UInv, Behind, Bundle
  <2>2. {dest[f][i].number : i \in DOMAIN dest[f]} = {t \in Produced : LowBoundary(t) = f}
    BY <2>1 DEF UInv, BundlesWhole
  <2> QED
    BY <2>1, <2>2
<1> QED
  BY <1>1, JobsInvariance, PTL
=============================================================================
