------------------------ MODULE BigtableReaderProofs ------------------------
(***************************************************************************)
(* Proofs about BigtableReader, for any ledger, any order of the rows, any *)
(* bounds and any number of reconnections.                                 *)
(***************************************************************************)
EXTENDS BigtableReader, TLAPS

(***************************************************************************)
(* The inductive invariant.  Unless it has failed for good, the reader's   *)
(* memory is the feed: lastSeenBlock is its last block.                    *)
(***************************************************************************)
Newest == out[Len(out)]

Memory ==
  /\ fatalError => pc \in {"after", "returned"}
  /\ ~fatalError => IF out = <<>> THEN lastSeenBlock = Nil ELSE lastSeenBlock = Newest

(* A stream is only open while the stop block has not been passed.         *)
NotPast ==
  pc \in {"connect", "stream"} /\ out # <<>> => Stop = 0 \/ Newest <= Stop

(* The stream never looks below the start block.                           *)
AboveStart ==
  /\ startBlockNum >= Start
  /\ pc = "stream" => cursor >= startBlockNum
  /\ lastSeenBlock # Nil => lastSeenBlock >= Start

(* The stream has left no row of its snapshot behind.                      *)
Scanned ==
  /\ ~fatalError /\ (pc = "stream" \/ (pc # "connect" /\ ended \in {"eof", "stop"}))
       => \A r \in snapshot : startBlockNum <= r /\ r < cursor => Processed(r)
  /\ pc # "connect" /\ pc # "stream" /\ ended = "eof" => \A r \in snapshot : r < cursor
  /\ pc # "connect" /\ pc # "stream" /\ ended = "stop" => cursor > Stop
  /\ pc = "after" /\ ~fatalError => ended \in {"eof", "stop", "unlinkable"}
  /\ ret = "nil" => pc = "returned" /\ ~fatalError /\ ended \in {"eof", "stop", "unlinkable"}

IInv == TypeOK /\ Memory /\ NotPast /\ AboveStart /\ Scanned /\ NoGap /\ InBounds

-----------------------------------------------------------------------------
(* What a row must be to be handed to processBlock: the child of the last  *)
(* block of the feed, or, when there is none, any block from Start on.     *)
LEMMA NextBlock ==
  ASSUME IInv, NEW b \in Produced, Delivered(b), Verdict(b) = "process"
  PROVE  /\ ~fatalError /\ b >= Start
         /\ out # <<>> => /\ ParentSlot[b] = Newest /\ b # Newest
                          /\ Stop = 0 \/ Newest <= Stop
<1>1. ~fatalError
  BY DEF IInv, Memory, Delivered
<1>2. b >= Start
  <2>1. b \in Nat /\ Start \in Nat /\ startBlockNum \in Nat /\ cursor \in Nat
    BY LedgerAssumption, ReaderAssumption DEF IInv, TypeOK
  <2>2. b >= cursor /\ cursor >= startBlockNum /\ startBlockNum >= Start
    BY DEF Delivered, NextRow, IInv, AboveStart
  <2> QED
    BY <2>1, <2>2
<1>3. ASSUME out # <<>>
      PROVE  ParentSlot[b] = Newest /\ b # Newest /\ (Stop = 0 \/ Newest <= Stop)
  <2>1. lastSeenBlock = Newest
    BY <1>1, <1>3 DEF IInv, Memory
  <2>2. Newest \in Produced /\ Newest # Nil
    <3>1. out \in Seq(Produced)
      BY DEF IInv, TypeOK
    <3>2. Newest \in Produced
      BY <1>3, <3>1 DEF Newest
    <3> QED
      BY <3>2, LedgerAssumption, ReaderAssumption
  <2>3. b # Newest /\ PreviousBlockhash(b) = Newest
    BY <2>1, <2>2 DEF Verdict
  <2>4. ParentSlot[b] = Newest
    BY <2>2, <2>3 DEF PreviousBlockhash
  <2>5. Stop = 0 \/ Newest <= Stop
    BY <1>3 DEF IInv, NotPast, Delivered
  <2> QED
    BY <2>3, <2>4, <2>5
<1> QED
  BY <1>1, <1>2, <1>3

(* Appending the child of the last block leaves no gap: nothing was        *)
(* produced between a block and its parent.                                *)
LEMMA AppendNoGap ==
  ASSUME out \in Seq(Produced), NoGap, NEW b \in Produced, out' = Append(out, b),
         out # <<>> => ParentSlot[b] = Newest /\ b # Newest
  PROVE  NoGap'
<1> USE DEF Newest
<1> DEFINE n == Len(out)
<1>1. /\ n \in Nat /\ Len(out') = n + 1 /\ out'[n + 1] = b
      /\ \A i \in 1 .. n : out'[i] = out[i] /\ out[i] \in Produced
      /\ out = <<>> <=> n = 0
      /\ out' # <<>>
  OBVIOUS
<1>2. \A c \in Produced : c \in Nat
  BY LedgerAssumption
<1>3. out # <<>> => out[n] < b /\ \A c \in Produced : c < b => c <= out[n]
  <2> SUFFICES ASSUME out # <<>>
               PROVE  out[n] < b /\ \A c \in Produced : c < b => c <= out[n]
    OBVIOUS
  <2>1. b # 0
    BY LedgerAssumption
  <2> QED
    BY <2>1, LedgerAssumption
<1>4. \A i \in 1 .. n : out'[i] = ParentSlot[out'[i + 1]] /\ out'[i] < out'[i + 1]
  <2> SUFFICES ASSUME NEW i \in 1 .. n
               PROVE  out'[i] = ParentSlot[out'[i + 1]] /\ out'[i] < out'[i + 1]
    OBVIOUS
  <2>1. CASE i = n
    BY <1>1, <1>3, <2>1
  <2>2. CASE i < n
    <3>1. i \in 1 .. n - 1 /\ i + 1 \in 1 .. n
      BY <1>1, <2>2
    <3>2. out[i] = ParentSlot[out[i + 1]] /\ out[i] < out[i + 1]
      BY <3>1 DEF NoGap, Feed!Gapless
    <3> QED
      BY <1>1, <3>1, <3>2
  <2> QED
    BY <1>1, <2>1, <2>2
<1>5. ASSUME NEW c \in Produced, out'[1] <= c, c <= out'[n + 1]
      PROVE  \E i \in 1 .. n + 1 : out'[i] = c
  <2>1. CASE c = b
    BY <1>1, <2>1
  <2>2. CASE c # b /\ n = 0
    BY <1>1, <1>2, <1>5, <2>2
  <2>3. CASE c # b /\ n # 0
    <3>1. out[1] <= c /\ c < b /\ 1 \in 1 .. n
      BY <1>1, <1>2, <1>5, <2>3
    <3>2. c <= out[n]
      BY <1>1, <1>3, <2>3, <3>1
    <3>3. PICK i \in 1 .. n : out[i] = c
      BY <1>1, <2>3, <3>1, <3>2 DEF NoGap, Feed!Gapless, Feed!Newest
    <3> QED
      BY <1>1, <3>3
  <2> QED
    BY <2>1, <2>2, <2>3
<1>6. n + 1 - 1 = n
  BY <1>1
<1> HIDE DEF n
<1> QED
  BY <1>1, <1>4, <1>5, <1>6 DEF NoGap, Feed!Gapless, Feed!Newest

(* Only the last block of the feed can be past the stop block.             *)
LEMMA AppendInBounds ==
  ASSUME out \in Seq(Produced), InBounds, NEW b \in Produced, out' = Append(out, b),
         b >= Start, out # <<>> => Stop = 0 \/ Newest <= Stop
  PROVE  InBounds'
<1> DEFINE n == Len(out)
<1>1. /\ n \in Nat /\ Len(out') = n + 1 /\ out'[n + 1] = b
      /\ \A i \in 1 .. n : out'[i] = out[i] /\ out[i] \in Produced
      /\ out = <<>> <=> n = 0
  OBVIOUS
<1>2. ASSUME NEW i \in 1 .. n + 1, i # n + 1
      PROVE  out'[i] >= Start /\ (Stop = 0 \/ ~(out'[i] > Stop))
  <2>1. i \in 1 .. n /\ out # <<>>
    BY <1>1, <1>2
  <2>2. out[i] >= Start /\ (Stop # 0 /\ out[i] > Stop => i = n)
    BY <2>1 DEF InBounds, Feed!InBounds
  <2>3. out[i] \in Nat /\ Stop \in Nat
    BY <1>1, <2>1, LedgerAssumption, ReaderAssumption
  <2> QED
    BY <1>1, <2>1, <2>2, <2>3 DEF Newest
<1> HIDE DEF n
<1>3. ASSUME NEW i \in 1 .. n + 1
      PROVE  out'[i] >= Start /\ (Stop # 0 /\ out'[i] > Stop => i = n + 1)
  BY <1>1, <1>2
<1> QED
  BY <1>1, <1>3 DEF InBounds, Feed!InBounds

(* A block stays processed, and the newest one is.                         *)
LEMMA AppendProcessed ==
  ASSUME out \in Seq(Produced), NEW b \in Produced, out' = Append(out, b)
  PROVE  Processed(b)' /\ \A r : Processed(r) => Processed(r)'
<1>1. /\ Len(out) \in Nat /\ Len(out') = Len(out) + 1 /\ out'[Len(out) + 1] = b
      /\ \A i \in 1 .. Len(out) : out'[i] = out[i]
  OBVIOUS
<1> QED
  BY <1>1 DEF Processed

(* The part of the invariant about the feed survives steps that leave it.  *)
LEMMA SameFeed == ASSUME NoGap, InBounds, out' = out PROVE NoGap' /\ InBounds'
BY DEF NoGap, InBounds, Feed!Gapless, Feed!InBounds, Feed!Newest

-----------------------------------------------------------------------------
(* The steps that hand no block to processBlock.                           *)
LEMMA InsertOK == ASSUME IInv, NEW b \in Produced, Insert(b) PROVE IInv'
<1>1. UNCHANGED <<pc, startBlockNum, seenStartBlock, lastSeenBlock, attempts, fatalError,
                  snapshot, cursor, out, ended, ret>>
  BY DEF Insert, readVars
<1>2. TypeOK'
  BY <1>1 DEF IInv, TypeOK, Insert
<1>3. (Memory /\ NotPast /\ AboveStart /\ Scanned)'
  BY <1>1 DEF IInv, Memory, NotPast, AboveStart, Scanned, Newest, Processed
<1> QED
  BY <1>1, <1>2, <1>3, SameFeed DEF IInv

LEMMA ConnectOK == ASSUME IInv, Connect PROVE IInv'
<1>1. /\ UNCHANGED <<table, seenStartBlock, lastSeenBlock, attempts, fatalError, out, ended, ret>>
      /\ pc = "connect" /\ pc' = "stream" /\ snapshot' = table
      /\ startBlockNum' = IF lastSeenBlock # Nil THEN lastSeenBlock ELSE startBlockNum
      /\ cursor' = startBlockNum'
  BY DEF Connect
<1>2. startBlockNum' \in Nat /\ startBlockNum' >= Start
  BY <1>1, LedgerAssumption DEF IInv, TypeOK, AboveStart
<1>3. TypeOK'
  BY <1>1, <1>2 DEF IInv, TypeOK
<1>4. (Memory /\ NotPast)'
  BY <1>1 DEF IInv, Memory, NotPast, Newest
<1>5. AboveStart'
  BY <1>1, <1>2 DEF IInv, AboveStart
<1>6. Scanned'
  <2>1. ASSUME NEW r \in table, startBlockNum' <= r, r < cursor' PROVE FALSE
    <3>1. r \in Nat
      BY LedgerAssumption DEF IInv, TypeOK
    <3> QED
      BY <1>1, <1>2, <2>1, <3>1
  <2> QED
    BY <1>1, <2>1 DEF IInv, Scanned
<1> QED
  BY <1>1, <1>3, <1>4, <1>5, <1>6, SameFeed DEF IInv

LEMMA EndOfRowsOK == ASSUME IInv, EndOfRows PROVE IInv'
<1>1. /\ UNCHANGED <<table, startBlockNum, seenStartBlock, lastSeenBlock, attempts, fatalError,
                     snapshot, cursor, out, ret>>
      /\ pc = "stream" /\ pc' = "after" /\ ended' = "eof"
      /\ \A r \in snapshot : r < cursor
  BY DEF EndOfRows, EndStream, readVars
<1>2. TypeOK'
  BY <1>1 DEF IInv, TypeOK
<1>3. (Memory /\ NotPast /\ AboveStart)'
  BY <1>1 DEF IInv, Memory, NotPast, AboveStart, Newest
<1>4. Scanned'
  BY <1>1 DEF IInv, Scanned, Processed
<1> QED
  BY <1>1, <1>2, <1>3, <1>4, SameFeed DEF IInv

LEMMA StreamFailsOK == ASSUME IInv, StreamFails PROVE IInv'
<1>1. /\ UNCHANGED <<table, startBlockNum, seenStartBlock, lastSeenBlock, fatalError,
                     snapshot, cursor, out>>
      /\ pc = "stream" /\ ended' = "error" /\ attempts' = attempts + 1
      /\ \/ pc' = "returned" /\ ret' = "error"
         \/ pc' = "connect" /\ ret' = ret
  BY DEF StreamFails
<1>2. TypeOK'
  BY <1>1 DEF IInv, TypeOK
<1>3. (Memory /\ NotPast /\ AboveStart)'
  BY <1>1 DEF IInv, Memory, NotPast, AboveStart, Newest
<1>4. Scanned'
  BY <1>1 DEF IInv, Scanned, Processed
<1> QED
  BY <1>1, <1>2, <1>3, <1>4, SameFeed DEF IInv

LEMMA AfterStreamOK == ASSUME IInv, AfterStream PROVE IInv'
<1>1. /\ UNCHANGED <<table, startBlockNum, seenStartBlock, lastSeenBlock, attempts, fatalError,
                     snapshot, cursor, out, ended>>
      /\ pc = "after"
      /\ \/ fatalError /\ pc' = "returned" /\ ret' = "fatal"
         \/ ~fatalError /\ Stop # 0 /\ pc' = "returned" /\ ret' = "nil"
         \/ ~fatalError /\ Stop = 0 /\ pc' = "connect" /\ ret' = ret
  BY DEF AfterStream, readVars
<1>2. TypeOK'
  BY <1>1 DEF IInv, TypeOK
<1>3. (Memory /\ NotPast /\ AboveStart)'
  BY <1>1 DEF IInv, Memory, NotPast, AboveStart, Newest
<1>4. Scanned'
  BY <1>1 DEF IInv, Scanned, Processed
<1> QED
  BY <1>1, <1>2, <1>3, <1>4, SameFeed DEF IInv

(* Rows that are not processed.  A row passed over with the stream still   *)
(* open is the last block seen, which is in the feed.                      *)
LEMMA PassOverOK ==
  ASSUME IInv, NEW b \in Produced, RowFails(b) \/ SkipRow(b) \/ Unlinkable(b)
  PROVE  IInv'
<1>1. /\ UNCHANGED <<table, startBlockNum, attempts, snapshot, ret, lastSeenBlock, out>>
      /\ pc = "stream" /\ cursor' = b + 1
      /\ NextRow(b)
      /\ seenStartBlock' \in BOOLEAN
      /\ \/ Verdict(b) = "row" /\ fatalError' = TRUE /\ pc' = "after" /\ ended' = "row"
         \/ Verdict(b) = "skip" /\ fatalError' = fatalError /\ pc' = pc /\ ended' = ended
         \/ fatalError' = fatalError /\ pc' = "after" /\ ended' = "unlinkable"
  BY DEF RowFails, SkipRow, Unlinkable, Delivered, EndStream, Continue
<1>2. b \in Nat /\ cursor \in Nat /\ startBlockNum \in Nat /\ snapshot \subseteq Nat
      /\ b >= cursor /\ cursor >= startBlockNum
  BY <1>1, LedgerAssumption DEF IInv, TypeOK, NextRow, AboveStart
<1>3. TypeOK'
  <2>1. cursor' \in Nat
    BY <1>1, <1>2
  <2>2. fatalError' \in BOOLEAN
    BY <1>1, Zenon DEF IInv, TypeOK
  <2>3. pc' \in {"stream", "after"}
        /\ ended' \in {"none", "eof", "row", "unlinkable", "process", "stop", "error"}
    BY <1>1 DEF IInv, TypeOK
  <2> QED
    BY <1>1, <2>1, <2>2, <2>3 DEF IInv, TypeOK
<1>4. (Memory /\ NotPast /\ AboveStart)'
  BY <1>1, <1>2 DEF IInv, Memory, NotPast, AboveStart, Newest
<1>5. Scanned'
  <2>1. CASE pc' = "after"
    BY <1>1, <2>1 DEF IInv, Scanned
  <2>2. CASE pc' = pc /\ Verdict(b) = "skip" /\ fatalError' = fatalError /\ ended' = ended
    <3>1. ~fatalError
      BY <1>1 DEF IInv, Memory
    <3>2. Processed(b)
      <4>1. lastSeenBlock # Nil /\ lastSeenBlock = b
        BY <1>2, <2>2 DEF Verdict
      <4>2. out \in Seq(Produced) /\ out # <<>> /\ b = out[Len(out)]
        BY <3>1, <4>1 DEF IInv, TypeOK, Memory, Newest
      <4>3. Len(out) \in 1 .. Len(out)
        BY <4>2
      <4> QED
        BY <4>2, <4>3 DEF Processed
    <3>3. ASSUME NEW r \in snapshot, startBlockNum <= r, r < b + 1 PROVE Processed(r)
      <4>1. CASE r < cursor
        BY <1>1, <3>1, <3>3, <4>1 DEF IInv, Scanned
      <4>2. CASE r >= cursor
        <5>1. r = b
          BY <1>1, <1>2, <3>3, <4>2 DEF NextRow
        <5> QED
          BY <3>2, <5>1
      <4> QED
        BY <1>2, <4>1, <4>2
    <3>4. \A r : Processed(r) => Processed(r)'
      BY <1>1 DEF Processed
    <3> QED
      BY <1>1, <2>2, <3>3, <3>4 DEF IInv, Scanned
  <2> QED
    BY <1>1, <2>1, <2>2
<1> QED
  BY <1>1, <1>3, <1>4, <1>5, SameFeed DEF IInv

-----------------------------------------------------------------------------
(* A block is handed to processBlock, which accepts it.                    *)
LEMMA ProcessOK ==
  ASSUME IInv, NEW b \in Produced, ProcessBlock(b)
  PROVE  IInv'
<1>1. Delivered(b) /\ Verdict(b) = "process"
  BY DEF ProcessBlock
<1>2. /\ UNCHANGED <<table, startBlockNum, attempts, snapshot, ret, fatalError>>
      /\ pc = "stream" /\ cursor' = b + 1 /\ NextRow(b)
      /\ seenStartBlock' \in BOOLEAN
      /\ lastSeenBlock' = b /\ out' = Append(out, b)
      /\ \/ Stop # 0 /\ b > Stop /\ pc' = "after" /\ ended' = "stop"
         \/ ~(Stop # 0 /\ b > Stop) /\ pc' = pc /\ ended' = ended
  BY DEF ProcessBlock, Delivered, PastStop, EndStream, Continue
<1>3. /\ ~fatalError /\ b >= Start
      /\ out # <<>> => /\ ParentSlot[b] = Newest /\ b # Newest
                       /\ Stop = 0 \/ Newest <= Stop
  BY <1>1, NextBlock
<1>4. /\ b \in Nat /\ Stop \in Nat /\ cursor \in Nat /\ startBlockNum \in Nat
      /\ snapshot \subseteq Nat /\ b >= cursor /\ cursor >= startBlockNum
  BY <1>2, LedgerAssumption, ReaderAssumption DEF IInv, TypeOK, NextRow, AboveStart
<1>5. out \in Seq(Produced) /\ NoGap /\ InBounds
  BY DEF IInv, TypeOK
<1>6. NoGap' /\ InBounds'
  BY <1>2, <1>3, <1>5, AppendNoGap, AppendInBounds
<1>7. out' \in Seq(Produced) /\ out' # <<>> /\ Newest' = b
  BY <1>2, <1>5 DEF Newest
<1>8. TypeOK'
  <2>1. cursor' \in Nat
    BY <1>2, <1>4
  <2>2. /\ pc' \in {"stream", "after"}
        /\ ended' \in {"none", "eof", "row", "unlinkable", "process", "stop", "error"}
    BY <1>2 DEF IInv, TypeOK
  <2> QED
    BY <1>2, <1>7, <2>1, <2>2 DEF IInv, TypeOK
<1>9. (Memory /\ NotPast)'
  BY <1>2, <1>3, <1>4, <1>7 DEF Memory, NotPast
<1>10. AboveStart'
  BY <1>2, <1>3, <1>4 DEF IInv, AboveStart
<1>11. Scanned'
  <2>1. Processed(b)' /\ \A r : Processed(r) => Processed(r)'
    BY <1>2, <1>5, AppendProcessed
  <2>2. ASSUME NEW r \in snapshot, startBlockNum <= r, r < b + 1 PROVE Processed(r)'
    <3>1. CASE r < cursor
      BY <1>2, <1>3, <2>1, <2>2, <3>1 DEF IInv, Scanned
    <3>2. CASE r >= cursor
      <4>1. r = b
        BY <1>2, <1>4, <2>2, <3>2 DEF NextRow
      <4> QED
        BY <2>1, <4>1
    <3> QED
      BY <1>4, <3>1, <3>2
  <2>3. ended' = "stop" /\ pc' = "after" => cursor' > Stop
    BY <1>2, <1>4 DEF IInv, Scanned
  <2>4. ret' # "nil"
    BY <1>2 DEF IInv, Scanned
  <2> QED
    BY <1>2, <2>2, <2>3, <2>4 DEF Scanned
<1> QED
  BY <1>6, <1>8, <1>9, <1>10, <1>11 DEF IInv

(* processBlock fails: Read remembers the block and is about to return.    *)
LEMMA ProcessFailsOK ==
  ASSUME IInv, NEW b \in Produced, ProcessBlockFails(b)
  PROVE  IInv'
<1>1. /\ UNCHANGED <<table, startBlockNum, attempts, snapshot, ret, out>>
      /\ pc = "stream" /\ cursor' = b + 1
      /\ seenStartBlock' \in BOOLEAN
      /\ lastSeenBlock' = b /\ fatalError' = TRUE
      /\ pc' = "after" /\ ended' = "process"
  BY DEF ProcessBlockFails, Delivered, EndStream
<1>2. b >= Start /\ b \in Nat
  BY NextBlock, LedgerAssumption DEF ProcessBlockFails
<1>3. TypeOK'
  <2>1. cursor' \in Nat
    BY <1>1, <1>2
  <2> QED
    BY <1>1, <2>1 DEF IInv, TypeOK
<1>4. (Memory /\ NotPast /\ AboveStart)'
  BY <1>1, <1>2 DEF IInv, Memory, NotPast, AboveStart
<1>5. Scanned'
  BY <1>1 DEF IInv, Scanned
<1> QED
  BY <1>1, <1>3, <1>4, <1>5, SameFeed DEF IInv

(***************************************************************************)
(* The invariant holds when Read begins and survives every row, every      *)
(* broken stream and every reconnection.                                   *)
(***************************************************************************)
THEOREM Invariance == Spec => []IInv
<1>1. Init => IInv
  <2> SUFFICES ASSUME Init PROVE IInv
    OBVIOUS
  <2>1. TypeOK
    <3>1. out \in Seq(Produced) /\ lastSeenBlock \in Produced \cup {Nil}
      BY DEF Init
    <3>2. startBlockNum \in Nat /\ cursor \in Nat /\ attempts \in Nat
      BY ReaderAssumption DEF Init
    <3>3. table \subseteq Produced /\ snapshot \subseteq table
      BY DEF Init
    <3> QED
      BY <3>1, <3>2, <3>3 DEF Init, TypeOK
  <2>2. Memory /\ NotPast /\ Scanned
    BY DEF Init, Memory, NotPast, Scanned
  <2>3. AboveStart
    BY ReaderAssumption DEF Init, AboveStart
  <2>4. NoGap /\ InBounds
    BY DEF Init, NoGap, InBounds, Feed!Gapless, Feed!InBounds
  <2> QED
    BY <2>1, <2>2, <2>3, <2>4 DEF IInv
<1>2. IInv /\ [Next]_vars => IInv'
  <2> SUFFICES ASSUME IInv, [Next]_vars PROVE IInv'
    OBVIOUS
  <2>1. CASE Connect
    BY <2>1, ConnectOK
  <2>2. CASE EndOfRows
    BY <2>2, EndOfRowsOK
  <2>3. CASE StreamFails
    BY <2>3, StreamFailsOK
  <2>4. CASE AfterStream
    BY <2>4, AfterStreamOK
  <2>5. ASSUME NEW b \in Produced, Row(b) PROVE IInv'
    BY <2>5, PassOverOK, ProcessOK, ProcessFailsOK DEF Row
  <2>6. ASSUME NEW b \in Produced, Insert(b) PROVE IInv'
    BY <2>6, InsertOK
  <2>7. CASE UNCHANGED vars
    <3>1. UNCHANGED <<table, pc, startBlockNum, seenStartBlock, lastSeenBlock, attempts,
                      fatalError, snapshot, cursor, out, ended, ret>>
      BY <2>7 DEF vars, readVars
    <3>2. TypeOK'
      BY <3>1 DEF IInv, TypeOK
    <3>3. (Memory /\ NotPast /\ AboveStart /\ Scanned)'
      BY <3>1 DEF IInv, Memory, NotPast, AboveStart, Scanned, Newest, Processed
    <3> QED
      BY <3>1, <3>2, <3>3, SameFeed DEF IInv
  <2> QED
    BY <2>1, <2>2, <2>3, <2>4, <2>5, <2>6, <2>7 DEF Next, Read
<1> QED
  BY <1>1, <1>2, PTL DEF Spec

-----------------------------------------------------------------------------
(* Read's locals stay of their types (bigtable.go:50-59): in particular a  *)
(* reconnection never resumes at a missing block.                          *)
THEOREM TypeCorrect == Spec => []TypeOK
<1>1. IInv => TypeOK
  BY DEF IInv
<1> QED
  BY <1>1, Invariance, PTL

(* processBlock sees every block between the first and the last it is      *)
(* given, once and in order, across reconnections (bigtable.go:61-147).    *)
THEOREM Gapless == Spec => []NoGap
<1>1. IInv => NoGap
  BY DEF IInv
<1> QED
  BY <1>1, Invariance, PTL

(* No block below the start block, at most one past the stop block         *)
(* (bigtable.go:80-88, 115-117).                                           *)
THEOREM Bounded == Spec => []InBounds
<1>1. IInv => InBounds
  BY DEF IInv
<1> QED
  BY <1>1, Invariance, PTL

(* A nil result means that the rows the last stream was opened on were all *)
(* processed up to the stop block, except after an unlinkable row          *)
(* (bigtable.go:97-106, 142-144).                                          *)
THEOREM NilComplete == Spec => []NilIsComplete
<1>1. IInv => NilIsComplete
  <2> SUFFICES ASSUME IInv, ret = "nil", ended # "unlinkable",
                      NEW b \in snapshot, b >= startBlockNum, b <= Stop
               PROVE  Processed(b)
    BY DEF NilIsComplete
  <2>1. /\ pc = "returned" /\ ~fatalError
        /\ \/ ended = "eof" /\ \A r \in snapshot : r < cursor
           \/ ended = "stop" /\ cursor > Stop
    BY DEF IInv, Scanned
  <2>2. b \in Nat /\ cursor \in Nat /\ Stop \in Nat /\ startBlockNum \in Nat
    BY LedgerAssumption, ReaderAssumption DEF IInv, TypeOK
  <2>3. b < cursor /\ startBlockNum <= b
    BY <2>1, <2>2
  <2> QED
    BY <2>1, <2>3 DEF IInv, Scanned
<1> QED
  BY <1>1, Invariance, PTL

(***************************************************************************)
(* The reader implements LinkedFeed (bigtable.go:44-148): the only step    *)
(* that changes what the consumer has received appends the next block.     *)
(***************************************************************************)
THEOREM Refinement == Spec => ImplementsFeed
<1>1. Init => Feed!Init
  BY DEF Init, Feed!Init
<1>2. IInv /\ [Next]_vars => [Feed!Next]_out
  <2> SUFFICES ASSUME IInv, [Next]_vars PROVE Feed!Next \/ out' = out
    OBVIOUS
  <2>1. ASSUME NEW b \in Produced, ProcessBlock(b) PROVE Feed!Next
    <3>1. out' = Append(out, b) /\ Delivered(b) /\ Verdict(b) = "process"
      BY <2>1 DEF ProcessBlock
    <3>2. Feed!Receive(b)
      BY <3>1, NextBlock DEF Feed!Receive, Feed!Newest, Newest
    <3> QED
      BY <3>2 DEF Feed!Next
  <2>2. ASSUME NEW b \in Produced, Insert(b) PROVE out' = out
    BY <2>2 DEF Insert
  <2>3. ASSUME NEW b \in Produced,
               RowFails(b) \/ SkipRow(b) \/ Unlinkable(b) \/ ProcessBlockFails(b)
        PROVE  out' = out
    BY <2>3 DEF RowFails, SkipRow, Unlinkable, ProcessBlockFails
  <2>4. CASE Connect \/ EndOfRows \/ StreamFails \/ AfterStream \/ UNCHANGED vars
    BY <2>4 DEF Connect, EndOfRows, StreamFails, AfterStream, vars
  <2> QED
    BY <2>1, <2>2, <2>3, <2>4 DEF Next, Read, Row
<1> QED
  BY <1>1, <1>2, Invariance, PTL DEF Spec, ImplementsFeed, Feed!Spec
=============================================================================
