----------------------- MODULE BlockConversionProofs -----------------------
(***************************************************************************)
(* Proofs about BlockConversion, for any number of nodes and any answers   *)
(* of the client's types, with transactions, instructions, balances and    *)
(* rewards in any number.                                                  *)
(***************************************************************************)
EXTENDS BlockConversion, SolanaBlockProofs

(***************************************************************************)
(* Every result is one the conversion of the node's last answer may give.  *)
(***************************************************************************)
Converted(n) == answer[n] \in Answer /\ result[n] \in blockFromBlockResult(answer[n])

CInv ==
  /\ answer \in [Node -> Answer \cup {Nil}] /\ DOMAIN result = Node
  /\ result = [n \in Node |-> result[n]]
  /\ \A n \in Node : (answer[n] = Nil /\ result[n] = Nil) \/ Converted(n)

LEMMA ConvertedAlways == Spec => []CInv
<1>1. Init => CInv
  BY DEF Init, CInv
<1>2. CInv /\ [Next]_vars => CInv'
  <2> SUFFICES ASSUME CInv, [Next]_vars PROVE CInv'
    OBVIOUS
  <2>1. CASE UNCHANGED vars
    BY <2>1 DEF vars, CInv, Converted
  <2>2. ASSUME NEW n \in Node, NEW r \in Answer, Convert(n, r) PROVE CInv'
    <3>1. PICK o \in blockFromBlockResult(r) : result' = [result EXCEPT ![n] = o]
      BY <2>2 DEF Convert
    <3>2. answer' = [answer EXCEPT ![n] = r]
      BY <2>2 DEF Convert
    <3>3. answer' \in [Node -> Answer \cup {Nil}] /\ DOMAIN result' = Node
          /\ result' = [m \in Node |-> result'[m]]
      BY <3>1, <3>2 DEF CInv
    <3>4. answer'[n] = r /\ result'[n] = o
      BY <3>1, <3>2 DEF CInv
    <3>5. \A m \in Node \ {n} : answer'[m] = answer[m] /\ result'[m] = result[m]
      BY <3>1, <3>2 DEF CInv
    <3>6. ASSUME NEW m \in Node
          PROVE  (answer'[m] = Nil /\ result'[m] = Nil)
                   \/ (answer'[m] \in Answer /\ result'[m] \in blockFromBlockResult(answer'[m]))
      <4>1. CASE m = n
        BY <3>1, <3>4, <4>1
      <4>2. CASE m # n
        BY <3>5, <4>2 DEF CInv, Converted
      <4> QED
        BY <4>1, <4>2
    <3> QED
      BY <3>3, <3>6 DEF CInv, Converted
  <2> QED
    BY <2>1, <2>2 DEF Next
<1> QED
  BY <1>1, <1>2, PTL DEF Spec

-----------------------------------------------------------------------------
(* How the conversion of an answer ends.                                   *)
BlockOf(r, ts, rs) ==
  [number |-> r.slot, id |-> r.blockhash, parentId |-> fixPreviousBlockHash(r),
   parentNum |-> r.parentSlot, timestamp |-> r.blockTime, payload |-> SolBlock(r, ts, rs)]

LEMMA Outcome ==
  ASSUME NEW r, NEW o \in blockFromBlockResult(r)
  PROVE  \/ TransactionsFailure(r.transactions) # "none"
            /\ o = Ended(TransactionsFailure(r.transactions))
         \/ /\ TransactionsFailure(r.transactions) = "none"
            /\ ~RewardTypeKnown(r.rewards) /\ o = Ended("panic")
         \/ /\ TransactionsFailure(r.transactions) = "none" /\ RewardTypeKnown(r.rewards)
            /\ \E ts \in toPbTransactions(r.transactions), rs \in toPBReward(r.rewards) :
                 o = [kind |-> "block", block |-> BlockOf(r, ts, rs)]
BY DEF blockFromBlockResult, BlockOf

(* The header of a fetched block agrees with its payload, as type.go reads *)
(* it, the LIB number apart (type.go:37), whatever the answer              *)
(* (rpc.go:194-222).                                                       *)
THEOREM HeadersAgree == Spec => []HeaderAgrees
<1>1. CInv => HeaderAgrees
  <2> SUFFICES ASSUME CInv, NEW n \in Node, IsBlock(n) PROVE HeaderOfPayload(result[n].block)
    BY DEF HeaderAgrees
  <2>1. Converted(n)
    BY DEF CInv, IsBlock
  <2> DEFINE r == answer[n]
  <2>2. PICK ts, rs : result[n] = [kind |-> "block", block |-> BlockOf(r, ts, rs)]
    <3>1. TransactionsFailure(r.transactions) \in {"none", "error", "panic"}
      BY DEF TransactionsFailure, Failure
    <3> QED
      BY <2>1, <3>1, Outcome DEF Converted, IsBlock, Ended
  <2>3. result[n].block = BlockOf(r, ts, rs)
    BY <2>2
  <2> QED
    BY <2>3
    DEF BlockOf, SolBlock, HeaderOfPayload, GetFirehoseBlockNumber, GetFirehoseBlockID,
        GetFirehoseBlockParentID, GetFirehoseBlockParentNumber, GetFirehoseBlockTime, AsTime
<1> QED
  BY <1>1, ConvertedAlways, PTL

-----------------------------------------------------------------------------
(* The first transaction that cannot be converted decides how it ends.     *)
LEMMA FirstFailure ==
  ASSUME NEW n \in Nat, NEW ts, ts \in Seq(TransactionWithMeta), n = Len(ts)
  PROVE  \/ /\ TransactionsFailure(ts) = "none"
            /\ \A i \in 1 .. n : Failure(ts[i]) = "none"
         \/ \E i \in 1 .. n :
              /\ Failure(ts[i]) # "none" /\ TransactionsFailure(ts) = Failure(ts[i])
              /\ \A k \in 1 .. i - 1 : Failure(ts[k]) = "none"
<1> DEFINE I == {i \in 1 .. n : Failure(ts[i]) # "none"}
           first == IF I # {} THEN Min(I) ELSE 0
<1>1. TransactionsFailure(ts) = IF first = 0 THEN "none" ELSE Failure(ts[first])
  BY DEF TransactionsFailure, SelectInSeq
<1>2. CASE I = {}
  BY <1>1, <1>2
<1>3. CASE I # {}
  <2>1. I \subseteq Nat /\ \A i \in I : i \in 1 .. n
    OBVIOUS
  <2> HIDE DEF I
  <2>2. \E x \in I : \A y \in I : x <= y
    BY <1>3, <2>1, Least
  <2>3. Min(I) \in I /\ \A y \in I : Min(I) <= y
    BY <2>2 DEF Min
  <2>4. first = Min(I) /\ first # 0 /\ first \in 1 .. n
    <3>1. Min(I) \in 1 .. n
      BY <2>1, <2>3
    <3> QED
      BY <1>3, <3>1
  <2> HIDE DEF first
  <2>5. \A k \in 1 .. first - 1 : k \notin I /\ k \in 1 .. n
    BY <2>1, <2>3, <2>4
  <2>6. Failure(ts[first]) # "none"
    BY <2>3, <2>4 DEF I
  <2>7. \A k \in 1 .. first - 1 : Failure(ts[k]) = "none"
    BY <2>5 DEF I
  <2> QED
    BY <1>1, <2>4, <2>6, <2>7
<1> QED
  BY <1>2, <1>3

(* A block is returned only of an answer all of whose parts were           *)
(* converted, and malformed return data behind sound transactions is an    *)
(* error, never the end of the process (rpc.go:270-333, 561).              *)
THEOREM NoPartialBlocks == Spec => []NoPartialBlock
<1>1. CInv => NoPartialBlock
  <2> SUFFICES ASSUME CInv PROVE NoPartialBlock
    OBVIOUS
  <2> SUFFICES ASSUME NEW n \in Node, answer[n] # Nil
               PROVE  LET ts == answer[n].transactions IN
                      /\ IsBlock(n) =>
                           /\ \A i \in DOMAIN ts : ~BadReturnData(ts[i]) /\ ~Unsupported(ts[i])
                           /\ RewardTypeKnown(answer[n].rewards)
                      /\ \A i \in DOMAIN ts :
                           BadReturnData(ts[i]) /\ (\A k \in 1 .. i - 1 : ~Unsupported(ts[k]))
                             => result[n].kind = "error"
    BY DEF NoPartialBlock
  <2> DEFINE ts == answer[n].transactions
             m == Len(ts)
  <2>1. Converted(n)
    BY DEF CInv
  <2>2. ts \in Seq(TransactionWithMeta)
    BY <2>1, AnswerAssumption DEF Converted, GetBlockResult
  <2>3. m \in Nat /\ DOMAIN ts = 1 .. m
    BY <2>2
  <2>4. \A t : Failure(t) = IF BadReturnData(t) THEN "error"
                          ELSE IF Unsupported(t) THEN "panic" ELSE "none"
    BY DEF Failure, MetaPanics, BadReturnData, Unsupported
  <2> HIDE DEF m
  <2>5. \/ /\ TransactionsFailure(ts) = "none" /\ \A i \in 1 .. m : Failure(ts[i]) = "none"
        \/ \E i \in 1 .. m :
             /\ Failure(ts[i]) # "none" /\ TransactionsFailure(ts) = Failure(ts[i])
             /\ \A k \in 1 .. i - 1 : Failure(ts[k]) = "none"
    BY <2>2, <2>3, FirstFailure DEF m
  <2>6. ASSUME IsBlock(n)
        PROVE  /\ \A i \in 1 .. m : ~BadReturnData(ts[i]) /\ ~Unsupported(ts[i])
               /\ RewardTypeKnown(answer[n].rewards)
    <3>1. TransactionsFailure(ts) = "none" /\ RewardTypeKnown(answer[n].rewards)
      <4>1. TransactionsFailure(ts) \in {"none", "error", "panic"}
        BY DEF TransactionsFailure, Failure
      <4> QED
        BY <2>1, <2>6, <4>1, Outcome DEF Converted, IsBlock, Ended
    <3> QED
      BY <2>4, <2>5, <3>1
  <2>7. ASSUME NEW i \in 1 .. m, BadReturnData(ts[i]), \A k \in 1 .. i - 1 : ~Unsupported(ts[k])
        PROVE  result[n].kind = "error"
    <3>1. Failure(ts[i]) = "error"
      BY <2>4, <2>7
    <3>2. PICK f \in 1 .. m :
            /\ Failure(ts[f]) # "none" /\ TransactionsFailure(ts) = Failure(ts[f])
            /\ \A k \in 1 .. f - 1 : Failure(ts[k]) = "none"
      BY <2>5, <3>1
    <3>3. f <= i
      BY <2>3, <3>1, <3>2
    <3>4. Failure(ts[f]) = "error"
      BY <2>3, <2>4, <2>7, <3>1, <3>2, <3>3
    <3> QED
      BY <2>1, <3>2, <3>4, Outcome DEF Converted, Ended
  <2> QED
    BY <2>3, <2>6, <2>7
<1> QED
  BY <1>1, ConvertedAlways, PTL

-----------------------------------------------------------------------------
(* Rewards: the lists before they are sorted, and the tuples they are      *)
(* counted by.                                                             *)
PbReward(r) == [pubkey |-> r.pubkey, lamports |-> r.lamports, rewardType |-> r.rewardType]
Unordered(rewards) == [i \in DOMAIN rewards |-> PbReward(rewards[i])]
Tuple(r) == <<r.pubkey, r.lamports, r.rewardType>>
Kept(rewards) == [i \in DOMAIN rewards |-> Tuple(rewards[i])]

LEMMA RewardsAre ==
  ASSUME NEW rewards
  PROVE  /\ toPBReward(rewards) = SortFunc(Unordered(rewards))
         /\ RewardBag(rewards) = [r \in Range(Kept(rewards)) |-> Occurrences(r, Kept(rewards))]
BY DEF toPBReward, MapSeq, Unordered, PbReward, RewardBag, Kept, Tuple

LEMMA UnorderedTyped ==
  ASSUME NEW rewards \in Seq(Reward)
  PROVE  /\ Unordered(rewards) \in Seq([pubkey : STRING, lamports : Int, rewardType : STRING])
         /\ DOMAIN Unordered(rewards) = DOMAIN rewards /\ DOMAIN Kept(rewards) = DOMAIN rewards
         /\ IsFiniteSet(DOMAIN rewards)
<1>1. Len(rewards) \in Nat /\ DOMAIN rewards = 1 .. Len(rewards)
  OBVIOUS
<1>2. \A i \in DOMAIN rewards :
        PbReward(rewards[i]) \in [pubkey : STRING, lamports : Int, rewardType : STRING]
  <2>1. \A i \in DOMAIN rewards : rewards[i] \in Reward
    OBVIOUS
  <2> QED
    BY <2>1 DEF Reward, PbReward
<1> QED
  BY <1>1, <1>2, FS_Interval DEF Unordered, Kept

(* Counting the tuples is counting the converted rewards.                  *)
LEMMA CountedAlike ==
  ASSUME NEW a, NEW p, NEW l, NEW t
  PROVE  Occurrences([pubkey |-> p, lamports |-> l, rewardType |-> t], Unordered(a))
           = Occurrences(<<p, l, t>>, Kept(a))
<1>1. \A i \in DOMAIN a :
        Unordered(a)[i] = [pubkey |-> p, lamports |-> l, rewardType |-> t]
          <=> Kept(a)[i] = <<p, l, t>>
  BY DEF Unordered, Kept, PbReward, Tuple
<1>2. DOMAIN Unordered(a) = DOMAIN a /\ DOMAIN Kept(a) = DOMAIN a
  BY DEF Unordered, Kept
<1>3. {i \in DOMAIN a : Unordered(a)[i] = [pubkey |-> p, lamports |-> l, rewardType |-> t]}
        = {i \in DOMAIN a : Kept(a)[i] = <<p, l, t>>}
  BY <1>1
<1> QED
  BY <1>2, <1>3 DEF Occurrences

LEMMA SameBag ==
  ASSUME NEW a \in Seq(Reward), NEW b \in Seq(Reward)
  PROVE  RewardBag(a) = RewardBag(b) <=> SameElements(Unordered(a), Unordered(b))
<1> DEFINE R == [pubkey : STRING, lamports : Int, rewardType : STRING]
           Pb(x) == [pubkey |-> x[1], lamports |-> x[2], rewardType |-> x[3]]
<1>1. /\ DOMAIN Unordered(a) = DOMAIN a /\ DOMAIN Kept(a) = DOMAIN a /\ IsFiniteSet(DOMAIN a)
      /\ DOMAIN Unordered(b) = DOMAIN b /\ DOMAIN Kept(b) = DOMAIN b /\ IsFiniteSet(DOMAIN b)
  BY UnorderedTyped
<1>2. ASSUME NEW c, NEW x, c \in {a, b}
      PROVE  x \in Range(Kept(c)) => x = <<x[1], x[2], x[3]>>
  BY DEF Range, Kept, Tuple
<1>3. ASSUME NEW c \in {a, b}, NEW x
      PROVE  x \in Range(Kept(c)) <=> Occurrences(x, Kept(c)) # 0
  <2>1. IsFiniteSet(DOMAIN Kept(c)) /\ DOMAIN Kept(c) = DOMAIN c
    BY <1>1
  <2>2. Occurrences(x, Kept(c)) = 0 <=> \A i \in DOMAIN Kept(c) : Kept(c)[i] # x
    BY <2>1, Occurs
  <2> QED
    BY <2>2 DEF Range
<1>4. ASSUME RewardBag(a) = RewardBag(b), NEW r
      PROVE  Occurrences(r, Unordered(a)) = Occurrences(r, Unordered(b))
  <2>1. Range(Kept(a)) = Range(Kept(b))
        /\ \A x \in Range(Kept(a)) : Occurrences(x, Kept(a)) = Occurrences(x, Kept(b))
    BY <1>4, RewardsAre
  <2>2. \A x : Occurrences(x, Kept(a)) = Occurrences(x, Kept(b))
    BY <1>3, <2>1
  <2>3. CASE \E p, l, t : r = [pubkey |-> p, lamports |-> l, rewardType |-> t]
    <3>1. PICK p, l, t : r = [pubkey |-> p, lamports |-> l, rewardType |-> t]
      BY <2>3
    <3>2. \A c \in {a, b} : Occurrences(r, Unordered(c)) = Occurrences(<<p, l, t>>, Kept(c))
      BY <3>1, CountedAlike
    <3> QED
      BY <2>2, <3>2
  <2>4. CASE ~\E p, l, t : r = [pubkey |-> p, lamports |-> l, rewardType |-> t]
    <3>1. (\A i \in DOMAIN a : Unordered(a)[i] # r) /\ (\A i \in DOMAIN b : Unordered(b)[i] # r)
      BY <2>4 DEF Unordered, PbReward
    <3> QED
      BY <1>1, <3>1, Occurs
  <2> QED
    BY <2>3, <2>4
<1>5. ASSUME SameElements(Unordered(a), Unordered(b))
      PROVE  RewardBag(a) = RewardBag(b)
  <2>1. \A p, l, t : Occurrences(<<p, l, t>>, Kept(a)) = Occurrences(<<p, l, t>>, Kept(b))
    BY <1>5, CountedAlike DEF SameElements
  <2>2. ASSUME NEW x
        PROVE  x \in Range(Kept(a)) <=> x \in Range(Kept(b))
    BY <1>2, <1>3, <2>1
  <2>3. Range(Kept(a)) = Range(Kept(b))
    BY <2>2
  <2>4. \A x \in Range(Kept(a)) : Occurrences(x, Kept(a)) = Occurrences(x, Kept(b))
    BY <1>2, <2>1
  <2> QED
    BY <2>3, <2>4, RewardsAre
<1> QED
  BY <1>4, <1>5 DEF SameElements

(* Rewards that count the same are all of known types, or neither are.     *)
LEMMA KnownAlike ==
  ASSUME NEW a \in Seq(Reward), NEW b \in Seq(Reward), RewardBag(a) = RewardBag(b),
         RewardTypeKnown(b)
  PROVE  RewardTypeKnown(a)
<1> SUFFICES ASSUME NEW i \in DOMAIN a
             PROVE  a[i].rewardType \in {"fee", "rent", "voting", "staking"}
  BY DEF RewardTypeKnown
<1>1. Range(Kept(a)) = Range(Kept(b))
  BY RewardsAre
<1>2. PICK k \in DOMAIN b : Kept(b)[k] = Kept(a)[i]
  <2>1. Kept(a)[i] \in Range(Kept(a))
    BY DEF Kept, Range
  <2> QED
    BY <1>1, <2>1 DEF Kept, Range
<1>3. b[k].rewardType = a[i].rewardType
  BY <1>2 DEF Kept, Tuple
<1> QED
  BY <1>3 DEF RewardTypeKnown

(* Rewards that count the same are sorted to one list, without ties.       *)
LEMMA SortedAlike ==
  ASSUME NEW a \in Seq(Reward), NEW b \in Seq(Reward), RewardBag(a) = RewardBag(b), NoTies(a),
         NEW s \in toPBReward(a), NEW t \in toPBReward(b)
  PROVE  s = t
<1> DEFINE R == [pubkey : STRING, lamports : Int, rewardType : STRING]
<1>1. Unordered(a) \in Seq(R) /\ Unordered(b) \in Seq(R)
  BY UnorderedTyped
<1>2. NoTies(Unordered(a))
  BY DEF NoTies, Unordered, PbReward
<1>3. SameElements(Unordered(a), Unordered(b))
  BY SameBag
<1>4. s \in SortFunc(Unordered(a)) /\ t \in SortFunc(Unordered(b))
  BY RewardsAre
<1>5. \A r \in R : r.lamports \in Int
  OBVIOUS
<1> HIDE DEF R
<1> QED
  BY <1>1, <1>2, <1>3, <1>4, <1>5, SortedUnique

(* One sorted list comes of rewards that count the same only.              *)
LEMMA SortedOf ==
  ASSUME NEW a \in Seq(Reward), NEW b \in Seq(Reward), NEW s,
         s \in toPBReward(a), s \in toPBReward(b)
  PROVE  RewardBag(a) = RewardBag(b)
<1> DEFINE R == [pubkey : STRING, lamports : Int, rewardType : STRING]
<1>1. Unordered(a) \in Seq(R) /\ Unordered(b) \in Seq(R)
  BY UnorderedTyped
<1>2. s \in SortFunc(Unordered(a)) /\ s \in SortFunc(Unordered(b))
  BY RewardsAre
<1>3. \A r \in R : r.lamports \in Int
  OBVIOUS
<1> HIDE DEF R
<1>4. SameElements(s, Unordered(a)) /\ SameElements(s, Unordered(b))
  BY <1>1, <1>2, <1>3, Sorted
<1>5. SameElements(Unordered(a), Unordered(b))
  BY <1>4 DEF SameElements
<1> QED
  BY <1>5, SameBag

-----------------------------------------------------------------------------
(* Balances: what is stored of one tells apart what it means, no less and  *)
(* no more.                                                                *)
LEMMA BalanceAlike ==
  ASSUME NEW b \in TokenBalance, NEW c \in TokenBalance
  PROVE  MeaningOfBalance(b) = MeaningOfBalance(c)
           <=> toPbTokenBalance(b) = toPbTokenBalance(c)
<1> DEFINE Owner(x) == OrDefault(x.owner, "")
           Amount(x) == IF x.uiTokenAmount = Nil THEN Nil
                        ELSE <<OrDefault(x.uiTokenAmount.uiAmount, 0), x.uiTokenAmount.rest>>
           Ui(x) == toPbUiTokenAmount(x.uiTokenAmount)
           Program(x) == IF x.programId = SystemProgram THEN "" ELSE x.programId
<1>1. \A x : MeaningOfBalance(x) = [owner |-> Owner(x), programId |-> x.programId,
                                    rest |-> x.rest, amount |-> Amount(x)]
  BY DEF MeaningOfBalance
<1>2. \A x : toPbTokenBalance(x) = [owner |-> Owner(x), programId |-> Program(x),
                                    uiTokenAmount |-> Ui(x), rest |-> x.rest]
  BY DEF toPbTokenBalance, OrDefault
<1>3. Program(b) = Program(c) <=> b.programId = c.programId
  BY DEF TokenBalance
<1>4. Amount(b) = Amount(c) <=> Ui(b) = Ui(c)
  <2>1. ASSUME NEW x \in TokenBalance, x.uiTokenAmount # Nil
        PROVE  /\ Amount(x) # Nil /\ Ui(x) # Nil
               /\ Amount(x) = <<OrDefault(x.uiTokenAmount.uiAmount, 0), x.uiTokenAmount.rest>>
               /\ Ui(x) = [uiAmount |-> OrDefault(x.uiTokenAmount.uiAmount, 0),
                           rest |-> x.uiTokenAmount.rest]
    <3> DEFINE u == x.uiTokenAmount
    <3>1. u \in UiTokenAmount
      BY <2>1 DEF TokenBalance
    <3>2. OrDefault(u.uiAmount, 0) \in Int /\ u.rest \in Opaque
      BY <3>1 DEF UiTokenAmount, OrDefault
    <3>3. Amount(x) = <<OrDefault(u.uiAmount, 0), u.rest>>
      BY <2>1
    <3>4. Ui(x) = [uiAmount |-> OrDefault(u.uiAmount, 0), rest |-> u.rest]
      BY <2>1 DEF toPbUiTokenAmount, OrDefault
    <3>5. Amount(x) \in Int \X Opaque /\ Ui(x) \in UiTokenAmount
      BY <3>2, <3>3, <3>4 DEF UiTokenAmount
    <3> QED
      BY <3>3, <3>4, <3>5, AbsentAssumption
  <2>2. ASSUME NEW x \in TokenBalance, x.uiTokenAmount = Nil
        PROVE  Amount(x) = Nil /\ Ui(x) = Nil
    BY <2>2 DEF toPbUiTokenAmount
  <2> HIDE DEF Amount, Ui
  <2>3. CASE b.uiTokenAmount = Nil \/ c.uiTokenAmount = Nil
    BY <2>1, <2>2, <2>3
  <2>4. CASE b.uiTokenAmount # Nil /\ c.uiTokenAmount # Nil
    BY <2>1, <2>4
  <2> QED
    BY <2>3, <2>4
<1> HIDE DEF Owner, Amount, Program, Ui
<1> QED
  BY <1>1, <1>2, <1>3, <1>4

LEMMA BalancesAlike ==
  ASSUME NEW b \in Seq(TokenBalance), NEW c \in Seq(TokenBalance)
  PROVE  MapSeq(MeaningOfBalance, b) = MapSeq(MeaningOfBalance, c)
           <=> MapSeq(toPbTokenBalance, b) = MapSeq(toPbTokenBalance, c)
<1>1. \A i \in DOMAIN b : b[i] \in TokenBalance
  OBVIOUS
<1>2. \A i \in DOMAIN c : c[i] \in TokenBalance
  OBVIOUS
<1> QED
  BY <1>1, <1>2, BalanceAlike DEF MapSeq

-----------------------------------------------------------------------------
(* Statuses: an absent one is converted like an empty one.                 *)
PbMeta(m, rewards) ==
  [err |-> toPbTransactionError(m.err),
   innerInstructions |-> MapSeq(toPbInnerInstruction, m.innerInstructions),
   preTokenBalances |-> MapSeq(toPbTokenBalance, m.preTokenBalances),
   postTokenBalances |-> MapSeq(toPbTokenBalance, m.postTokenBalances),
   rewards |-> rewards, returnData |-> toPbReturnData(m.returnData), rest |-> m.rest]

LEMMA StatusTyped ==
  ASSUME NEW t \in TransactionWithMeta
  PROVE  Status(t) \in TransactionMeta
<1>1. <<>> \in Seq(CompiledInstruction) /\ <<>> \in Seq(TokenBalance) /\ <<>> \in Seq(Reward)
  OBVIOUS
<1>2. EmptyMeta \in TransactionMeta
  BY <1>1 DEF EmptyMeta, TransactionMeta
<1> QED
  BY <1>2 DEF TransactionWithMeta, Status, OrDefault

LEMMA EmptyConverted == EmptyMeta = PbMeta(EmptyMeta, <<>>) /\ <<>> \in toPBReward(<<>>)
<1>2. /\ MapSeq(toPbInnerInstruction, <<>>) = <<>> /\ MapSeq(toPbTokenBalance, <<>>) = <<>>
      /\ Unordered(<<>>) = <<>>
  BY DEF MapSeq, Unordered
<1>3. EmptyMeta = PbMeta(EmptyMeta, <<>>)
  <2>1. /\ EmptyMeta.err = Nil /\ EmptyMeta.innerInstructions = <<>> /\ EmptyMeta.rest = Nil
        /\ EmptyMeta.preTokenBalances = <<>> /\ EmptyMeta.postTokenBalances = <<>>
        /\ EmptyMeta.returnData = Nil
    BY DEF EmptyMeta
  <2>2. PbMeta(EmptyMeta, <<>>)
          = [err |-> Nil, innerInstructions |-> <<>>, preTokenBalances |-> <<>>,
             postTokenBalances |-> <<>>, rewards |-> <<>>, returnData |-> Nil, rest |-> Nil]
    BY <1>2, <2>1 DEF PbMeta, toPbTransactionError, toPbReturnData
  <2> QED
    BY <2>2 DEF EmptyMeta
<1>4. <<>> \in SortFunc(<<>>)
  <2> DEFINE none == <<>>
  <2>1. DOMAIN none = {} /\ Len(none) = 0
    OBVIOUS
  <2>2. none \in Bijection({}, {})
    BY DEF Bijection, Injection, Surjection, IsInjective
  <2>3. none = [i \in {} |-> none[none[i]]]
    BY <2>1
  <2> QED
    BY <2>1, <2>2, <2>3 DEF SortFunc
<1> QED
  BY <1>2, <1>3, <1>4, RewardsAre

LEMMA StatusConverted ==
  ASSUME NEW t \in TransactionWithMeta, NEW c \in toPbTransactionMeta(t.meta)
  PROVE  \E rs \in toPBReward(Status(t).rewards) : c = PbMeta(Status(t), rs)
<1>1. CASE t.meta = Nil
  <2>1. c = EmptyMeta /\ Status(t) = EmptyMeta /\ EmptyMeta.rewards = <<>>
    BY <1>1 DEF toPbTransactionMeta, Status, OrDefault, EmptyMeta
  <2> QED
    BY <2>1, EmptyConverted
<1>2. CASE t.meta # Nil
  BY <1>2 DEF toPbTransactionMeta, Status, OrDefault, PbMeta
<1> QED
  BY <1>1, <1>2

(* Why the conversion of a status panics.                                  *)
Panics(m) ==
  \/ ~InstructionsFit(m.innerInstructions)
  \/ m.err # Nil /\ m.err \notin ErrorName
  \/ ~RewardTypeKnown(m.rewards)

LEMMA StatusFails ==
  ASSUME NEW t
  PROVE  Failure(t) =
           IF ~DecodesReturnData(Status(t).returnData) THEN "error"
           ELSE IF \/ Panics(Status(t)) \/ t.transaction = Nil
                   \/ ~InstructionsFit(t.transaction.instructions)
           THEN "panic" ELSE "none"
<1>1. DecodesReturnData(EmptyMeta.returnData) /\ ~Panics(EmptyMeta)
  <2>1. /\ EmptyMeta.innerInstructions = <<>> /\ EmptyMeta.err = Nil
        /\ EmptyMeta.rewards = <<>> /\ EmptyMeta.returnData = Nil
    BY DEF EmptyMeta
  <2>2. InstructionsFit(<<>>) /\ RewardTypeKnown(<<>>)
    BY DEF InstructionsFit, RewardTypeKnown
  <2> QED
    BY <2>1, <2>2 DEF DecodesReturnData, Panics
<1>2. CASE t.meta = Nil
  BY <1>1, <1>2 DEF Failure, Status, OrDefault, MetaPanics
<1>3. CASE t.meta # Nil
  BY <1>3 DEF Failure, Status, OrDefault, MetaPanics, Panics
<1> QED
  BY <1>2, <1>3

-----------------------------------------------------------------------------
(* Transactions.                                                           *)
PbTransaction(t) == [instructions |-> MapSeq(toPbInstruction, t.instructions), rest |-> t.rest]

ConvertedTransaction(t) ==
  {[transaction |-> PbTransaction(t.transaction), meta |-> m] : m \in toPbTransactionMeta(t.meta)}

LEMMA TransactionsAre ==
  ASSUME NEW ts, NEW s \in toPbTransactions(ts)
  PROVE  /\ s = [i \in DOMAIN ts |-> s[i]] /\ DOMAIN s = DOMAIN ts
         /\ \A i \in DOMAIN ts : s[i] \in ConvertedTransaction(ts[i])
BY DEF toPbTransactions, ConvertedTransaction, PbTransaction

LEMMA TransactionIs ==
  ASSUME NEW t \in TransactionWithMeta, NEW c \in ConvertedTransaction(t)
  PROVE  \E rs \in toPBReward(Status(t).rewards) :
           c = [transaction |-> PbTransaction(t.transaction), meta |-> PbMeta(Status(t), rs)]
<1>1. PICK m \in toPbTransactionMeta(t.meta) :
        c = [transaction |-> PbTransaction(t.transaction), meta |-> m]
  BY DEF ConvertedTransaction
<1>2. PICK rs \in toPBReward(Status(t).rewards) : m = PbMeta(Status(t), rs)
  BY StatusConverted
<1> QED
  BY <1>1, <1>2

(* What statuses of one meaning have in common.                            *)
LEMMA StatusMeans ==
  ASSUME NEW m \in TransactionMeta, NEW n \in TransactionMeta
  PROVE  MeaningOfStatus(m) = MeaningOfStatus(n)
           <=> /\ m.err = n.err /\ m.innerInstructions = n.innerInstructions
               /\ RewardBag(m.rewards) = RewardBag(n.rewards)
               /\ MapSeq(toPbTokenBalance, m.preTokenBalances)
                    = MapSeq(toPbTokenBalance, n.preTokenBalances)
               /\ MapSeq(toPbTokenBalance, m.postTokenBalances)
                    = MapSeq(toPbTokenBalance, n.postTokenBalances)
               /\ m.returnData = n.returnData /\ m.rest = n.rest
<1>1. /\ m.preTokenBalances \in Seq(TokenBalance) /\ m.postTokenBalances \in Seq(TokenBalance)
      /\ n.preTokenBalances \in Seq(TokenBalance) /\ n.postTokenBalances \in Seq(TokenBalance)
  BY DEF TransactionMeta
<1>2. /\ MapSeq(MeaningOfBalance, m.preTokenBalances) = MapSeq(MeaningOfBalance, n.preTokenBalances)
           <=> MapSeq(toPbTokenBalance, m.preTokenBalances)
                 = MapSeq(toPbTokenBalance, n.preTokenBalances)
      /\ MapSeq(MeaningOfBalance, m.postTokenBalances)
             = MapSeq(MeaningOfBalance, n.postTokenBalances)
           <=> MapSeq(toPbTokenBalance, m.postTokenBalances)
                 = MapSeq(toPbTokenBalance, n.postTokenBalances)
  BY <1>1, BalancesAlike
<1> QED
  BY <1>2 DEF MeaningOfStatus

(* Transactions that mean the same are converted alike.                    *)
LEMMA TransactionAlike ==
  ASSUME NEW t \in TransactionWithMeta, NEW u \in TransactionWithMeta,
         MeaningOfTransaction(t) = MeaningOfTransaction(u)
  PROVE  /\ Failure(t) = Failure(u)
         /\ NoTies(Status(t).rewards) =>
              \A c \in ConvertedTransaction(t), d \in ConvertedTransaction(u) : c = d
<1> DEFINE m == Status(t)
           n == Status(u)
<1>1. m \in TransactionMeta /\ n \in TransactionMeta
  BY StatusTyped
<1>2. m.rewards \in Seq(Reward) /\ n.rewards \in Seq(Reward)
  BY <1>1 DEF TransactionMeta
<1>3. t.transaction = u.transaction /\ MeaningOfStatus(m) = MeaningOfStatus(n)
  BY DEF MeaningOfTransaction
<1> HIDE DEF m, n
<1>4. /\ m.err = n.err /\ m.innerInstructions = n.innerInstructions
      /\ RewardBag(m.rewards) = RewardBag(n.rewards)
      /\ MapSeq(toPbTokenBalance, m.preTokenBalances) = MapSeq(toPbTokenBalance, n.preTokenBalances)
      /\ MapSeq(toPbTokenBalance, m.postTokenBalances)
           = MapSeq(toPbTokenBalance, n.postTokenBalances)
      /\ m.returnData = n.returnData /\ m.rest = n.rest
  BY <1>1, <1>3, StatusMeans
<1>5. RewardTypeKnown(m.rewards) <=> RewardTypeKnown(n.rewards)
  BY <1>2, <1>4, KnownAlike
<1>6. Panics(m) <=> Panics(n)
  BY <1>4, <1>5 DEF Panics
<1>7. Failure(t) = Failure(u)
  BY <1>3, <1>4, <1>6, StatusFails DEF m, n
<1>8. ASSUME NoTies(m.rewards), NEW c \in ConvertedTransaction(t), NEW d \in ConvertedTransaction(u)
      PROVE  c = d
  <2>1. PICK rs \in toPBReward(m.rewards) :
          c = [transaction |-> PbTransaction(t.transaction), meta |-> PbMeta(m, rs)]
    BY TransactionIs DEF m
  <2>2. PICK qs \in toPBReward(n.rewards) :
          d = [transaction |-> PbTransaction(u.transaction), meta |-> PbMeta(n, qs)]
    BY TransactionIs DEF n
  <2>3. rs = qs
    BY <1>2, <1>4, <1>8, SortedAlike
  <2>4. PbMeta(m, rs) = PbMeta(n, qs)
    BY <1>4, <2>3 DEF PbMeta
  <2> QED
    BY <1>3, <2>1, <2>2, <2>4
<1> QED
  BY <1>7, <1>8 DEF m

LEMMA TransactionsAlike ==
  ASSUME NEW ts \in Seq(TransactionWithMeta), NEW us \in Seq(TransactionWithMeta),
         MapSeq(MeaningOfTransaction, ts) = MapSeq(MeaningOfTransaction, us)
  PROVE  /\ DOMAIN ts = DOMAIN us /\ TransactionsFailure(ts) = TransactionsFailure(us)
         /\ \A i \in DOMAIN ts : MeaningOfTransaction(ts[i]) = MeaningOfTransaction(us[i])
<1> DEFINE n == Len(ts)
<1>1. n \in Nat /\ DOMAIN ts = 1 .. n
  OBVIOUS
<1>2. DOMAIN us = DOMAIN ts
      /\ \A i \in DOMAIN ts : MeaningOfTransaction(ts[i]) = MeaningOfTransaction(us[i])
  BY DEF MapSeq
<1>3. n = Len(us)
  BY <1>1, <1>2
<1>4. \A i \in 1 .. n : Failure(ts[i]) = Failure(us[i])
  <2>1. \A i \in 1 .. n : ts[i] \in TransactionWithMeta /\ us[i] \in TransactionWithMeta
    BY <1>1, <1>2
  <2> QED
    BY <1>1, <1>2, <2>1, TransactionAlike
<1> HIDE DEF n
<1> DEFINE None(s) == /\ TransactionsFailure(s) = "none"
                      /\ \A i \in 1 .. n : Failure(s[i]) = "none"
           First(s, i) == /\ Failure(s[i]) # "none" /\ TransactionsFailure(s) = Failure(s[i])
                          /\ \A k \in 1 .. i - 1 : Failure(s[k]) = "none"
<1>5. None(ts) \/ \E i \in 1 .. n : First(ts, i)
  BY <1>1, FirstFailure DEF n
<1>6. None(us) \/ \E i \in 1 .. n : First(us, i)
  BY <1>1, <1>3, FirstFailure DEF n
<1>7. CASE None(ts) \/ None(us)
  BY <1>2, <1>4, <1>5, <1>6, <1>7
<1>8. CASE \E i, k \in 1 .. n : First(ts, i) /\ First(us, k)
  <2>1. PICK i \in 1 .. n, k \in 1 .. n : First(ts, i) /\ First(us, k)
    BY <1>8
  <2>2. i = k
    <3>1. CASE i < k
      BY <1>1, <1>4, <2>1, <3>1
    <3>2. CASE k < i
      BY <1>1, <1>4, <2>1, <3>2
    <3> QED
      BY <1>1, <3>1, <3>2
  <2> QED
    BY <1>2, <1>4, <2>1, <2>2
<1> QED
  BY <1>2, <1>5, <1>6, <1>7, <1>8

-----------------------------------------------------------------------------
(* Nodes give one previous hash for a block, except for the blocks of the  *)
(* table blockToPatch.                                                     *)
HashesPatched ==
  \A a, b \in Answer : a.blockhash = b.blockhash =>
    a.previousBlockhash = b.previousBlockhash \/ a.blockhash \in DOMAIN BlockToPatch

LEMMA AnswerTyped ==
  ASSUME NEW r \in Answer
  PROVE  r.transactions \in Seq(TransactionWithMeta) /\ r.rewards \in Seq(Reward)
BY AnswerAssumption DEF GetBlockResult

LEMMA AnswersAlike ==
  ASSUME HashesPatched, NEW q \in Answer, NEW r \in Answer, NoRewardTies(q),
         Meaning(q) = Meaning(r),
         NEW o \in blockFromBlockResult(q), NEW p \in blockFromBlockResult(r)
  PROVE  o = p
<1> DEFINE ts == q.transactions
           us == r.transactions
<1>1. /\ q.slot = r.slot /\ q.blockhash = r.blockhash /\ q.parentSlot = r.parentSlot
      /\ q.blockTime = r.blockTime /\ q.blockHeight = r.blockHeight
      /\ RewardBag(q.rewards) = RewardBag(r.rewards)
      /\ MapSeq(MeaningOfTransaction, ts) = MapSeq(MeaningOfTransaction, us)
  BY DEF Meaning
<1>2. fixPreviousBlockHash(q) = fixPreviousBlockHash(r)
  BY <1>1 DEF HashesPatched, fixPreviousBlockHash
<1>3. /\ ts \in Seq(TransactionWithMeta) /\ us \in Seq(TransactionWithMeta)
      /\ q.rewards \in Seq(Reward) /\ r.rewards \in Seq(Reward)
  BY AnswerTyped
<1>4. NoTies(q.rewards) /\ \A i \in DOMAIN ts : NoTies(Status(ts[i]).rewards)
  BY DEF NoRewardTies
<1> HIDE DEF ts, us
<1>5. /\ DOMAIN ts = DOMAIN us /\ TransactionsFailure(ts) = TransactionsFailure(us)
      /\ \A i \in DOMAIN ts : MeaningOfTransaction(ts[i]) = MeaningOfTransaction(us[i])
  BY <1>1, <1>3, TransactionsAlike
<1>6. RewardTypeKnown(q.rewards) <=> RewardTypeKnown(r.rewards)
  BY <1>1, <1>3, KnownAlike
<1>7. CASE TransactionsFailure(ts) # "none"
  BY <1>5, <1>7, Outcome DEF ts, us
<1>8. CASE TransactionsFailure(ts) = "none" /\ ~RewardTypeKnown(q.rewards)
  BY <1>5, <1>6, <1>8, Outcome DEF ts, us
<1>9. CASE TransactionsFailure(ts) = "none" /\ RewardTypeKnown(q.rewards)
  <2>1. PICK s \in toPbTransactions(ts), a \in toPBReward(q.rewards) :
          o = [kind |-> "block", block |-> BlockOf(q, s, a)]
    BY <1>9, Outcome DEF ts
  <2>2. PICK v \in toPbTransactions(us), b \in toPBReward(r.rewards) :
          p = [kind |-> "block", block |-> BlockOf(r, v, b)]
    BY <1>5, <1>6, <1>9, Outcome DEF us
  <2>3. a = b
    BY <1>1, <1>3, <1>4, SortedAlike
  <2>4. s = v
    <3>1. /\ s = [i \in DOMAIN ts |-> s[i]] /\ v = [i \in DOMAIN us |-> v[i]]
          /\ \A i \in DOMAIN ts : s[i] \in ConvertedTransaction(ts[i])
          /\ \A i \in DOMAIN us : v[i] \in ConvertedTransaction(us[i])
      BY TransactionsAre
    <3>2. \A i \in DOMAIN ts : ts[i] \in TransactionWithMeta /\ us[i] \in TransactionWithMeta
      BY <1>3, <1>5
    <3>3. \A i \in DOMAIN ts : s[i] = v[i]
      BY <1>4, <1>5, <3>1, <3>2, TransactionAlike
    <3> QED
      BY <1>5, <3>1, <3>3
  <2>5. BlockOf(q, s, a) = BlockOf(r, v, b)
    BY <1>1, <1>2, <2>3, <2>4 DEF BlockOf, SolBlock
  <2> QED
    BY <2>1, <2>2, <2>5
<1> QED
  BY <1>7, <1>8, <1>9

(***************************************************************************)
(* Answers that mean the same become the same block or fail the same way,  *)
(* in whatever order the nodes list the rewards and whether or not they    *)
(* zero the previous hash (rpc.go:228-268, 533-548).                       *)
(***************************************************************************)
THEOREM NodesAlwaysAgree ==
  ASSUME HashesPatched
  PROVE  Spec => []NodesAgree
<1>1. CInv => NodesAgree
  <2> SUFFICES ASSUME CInv, NEW m \in Node, NEW n \in Node,
                      answer[m] # Nil, answer[n] # Nil, NoRewardTies(answer[m]),
                      Meaning(answer[m]) = Meaning(answer[n])
               PROVE  result[m] = result[n]
    BY DEF NodesAgree
  <2>1. Converted(m) /\ Converted(n)
    BY DEF CInv
  <2> QED
    BY <2>1, AnswersAlike DEF Converted
<1> QED
  BY <1>1, ConvertedAlways, PTL

-----------------------------------------------------------------------------
LEMMA ListsEqual ==
  ASSUME NEW S, NEW a \in Seq(S), NEW b \in Seq(S), DOMAIN a = DOMAIN b,
         \A i \in DOMAIN a : a[i] = b[i]
  PROVE  a = b
<1>1. Len(a) = Len(b)
  OBVIOUS
<1> QED
  BY <1>1

LEMMA InstructionsEqual ==
  ASSUME NEW A, NEW H, NEW R, NEW x \in [accounts : A, stackHeight : H, rest : R],
         NEW y \in [accounts : A, stackHeight : H, rest : R],
         x.accounts = y.accounts, x.stackHeight = y.stackHeight, x.rest = y.rest
  PROVE  x = y
OBVIOUS

LEMMA SameByte ==
  ASSUME NEW x \in Nat, NEW y \in Nat, x <= 255, y <= 255, x % 256 = y % 256
  PROVE  x = y
OBVIOUS

(* Indexes that fit are told apart by their bytes.                         *)
LEMMA BytesKept ==
  ASSUME NEW a \in Seq(Nat), NEW b \in Seq(Nat), IndexesFit(a), IndexesFit(b),
         toBytes(a) = toBytes(b)
  PROVE  a = b
<1>1. toBytes(a) = [i \in DOMAIN a |-> a[i] % 256] /\ toBytes(b) = [i \in DOMAIN b |-> b[i] % 256]
  BY DEF toBytes, MapSeq
<1>2. DOMAIN a = DOMAIN b /\ \A i \in DOMAIN a : a[i] % 256 = b[i] % 256
  <2> DEFINE f == toBytes(a)
  <2>1. DOMAIN f = DOMAIN a /\ \A i \in DOMAIN a : f[i] = a[i] % 256
    BY <1>1
  <2>2. DOMAIN f = DOMAIN b /\ \A i \in DOMAIN b : f[i] = b[i] % 256
    BY <1>1
  <2> HIDE DEF f
  <2> QED
    BY <2>1, <2>2
<1>3. /\ \A i \in DOMAIN a : a[i] \in Nat /\ a[i] <= 255
      /\ \A i \in DOMAIN b : b[i] \in Nat /\ b[i] <= 255
  <2>1. (\A i \in DOMAIN a : a[i] \in Nat) /\ (\A i \in DOMAIN b : b[i] \in Nat)
    OBVIOUS
  <2> QED
    BY <2>1 DEF IndexesFit
<1>4. \A i \in DOMAIN a : a[i] = b[i]
  BY <1>2, <1>3, SameByte, Zenon
<1> QED
  BY <1>2, <1>4, ListsEqual

LEMMA InnerInstructionsKept ==
  ASSUME NEW a \in Seq(CompiledInstruction), NEW b \in Seq(CompiledInstruction),
         InstructionsFit(a), InstructionsFit(b),
         MapSeq(toPbInnerInstruction, a) = MapSeq(toPbInnerInstruction, b)
  PROVE  a = b
<1>1. DOMAIN a = DOMAIN b
      /\ \A i \in DOMAIN a : toPbInnerInstruction(a[i]) = toPbInnerInstruction(b[i])
  BY DEF MapSeq
<1>2. ASSUME NEW i \in DOMAIN a PROVE a[i] = b[i]
  <2> DEFINE x == a[i]
             y == b[i]
  <2>1. x \in CompiledInstruction /\ y \in CompiledInstruction
    BY <1>1
  <2>2. IndexesFit(x.accounts) /\ IndexesFit(y.accounts)
    BY <1>1 DEF InstructionsFit
  <2>3. toPbInnerInstruction(x) = toPbInnerInstruction(y)
    BY <1>1
  <2> HIDE DEF x, y
  <2>4. /\ toBytes(x.accounts) = toBytes(y.accounts) /\ x.rest = y.rest
        /\ toStackHeight(x.stackHeight) = toStackHeight(y.stackHeight)
    BY <2>3 DEF toPbInnerInstruction
  <2>5. x.accounts \in Seq(Nat) /\ y.accounts \in Seq(Nat)
        /\ x.stackHeight \in Nat /\ y.stackHeight \in Nat
    BY <2>1 DEF CompiledInstruction
  <2>6. x.accounts = y.accounts
    BY <2>2, <2>4, <2>5, BytesKept
  <2>7. x.stackHeight = y.stackHeight
    BY <2>4, <2>5, AbsentAssumption DEF toStackHeight
  <2>8. x = y
    BY <2>1, <2>4, <2>6, <2>7, InstructionsEqual DEF CompiledInstruction
  <2> QED
    BY <2>8 DEF x, y
<1> QED
  BY <1>1, <1>2, ListsEqual

LEMMA TransactionKept ==
  ASSUME NEW t \in Transaction, NEW u \in Transaction,
         InstructionsFit(t.instructions), InstructionsFit(u.instructions),
         PbTransaction(t) = PbTransaction(u)
  PROVE  t = u
<1> DEFINE Plain == [accounts : Seq(Nat), stackHeight : {0}, rest : Opaque]
           a == t.instructions
           b == u.instructions
<1>1. a \in Seq(Plain) /\ b \in Seq(Plain)
  BY DEF Transaction
<1>2. MapSeq(toPbInstruction, a) = MapSeq(toPbInstruction, b) /\ t.rest = u.rest
  BY DEF PbTransaction
<1>4. /\ \A i \in DOMAIN a : IndexesFit(a[i].accounts)
      /\ \A i \in DOMAIN b : IndexesFit(b[i].accounts)
  BY DEF InstructionsFit
<1> HIDE DEF a, b, Plain
<1>5. DOMAIN a = DOMAIN b /\ \A i \in DOMAIN a : toPbInstruction(a[i]) = toPbInstruction(b[i])
  BY <1>2 DEF MapSeq
<1>6. ASSUME NEW i \in DOMAIN a PROVE a[i] = b[i]
  <2> DEFINE x == a[i]
             y == b[i]
  <2>1. x \in Plain /\ y \in Plain
    BY <1>1, <1>5
  <2>2. IndexesFit(x.accounts) /\ IndexesFit(y.accounts)
    BY <1>4, <1>5
  <2>3. toPbInstruction(x) = toPbInstruction(y)
    BY <1>5
  <2> HIDE DEF x, y
  <2>4. toBytes(x.accounts) = toBytes(y.accounts) /\ x.rest = y.rest
    BY <2>3 DEF toPbInstruction
  <2>5. x.accounts \in Seq(Nat) /\ y.accounts \in Seq(Nat)
        /\ x.stackHeight = 0 /\ y.stackHeight = 0
    BY <2>1 DEF Plain
  <2>6. x.accounts = y.accounts
    BY <2>2, <2>4, <2>5, BytesKept
  <2>7. x = y
    BY <2>1, <2>4, <2>5, <2>6, InstructionsEqual DEF Plain
  <2> QED
    BY <2>7 DEF x, y
<1>7. a = b
  BY <1>1, <1>5, <1>6, ListsEqual
<1> QED
  BY <1>2, <1>7 DEF Transaction, a, b

(* The status of a transaction can be told from what is stored of it.      *)
LEMMA StatusKept ==
  ASSUME NEW m \in TransactionMeta, NEW n \in TransactionMeta, ~Panics(m), ~Panics(n),
         NEW rs \in toPBReward(m.rewards), NEW qs \in toPBReward(n.rewards),
         PbMeta(m, rs) = PbMeta(n, qs)
  PROVE  MeaningOfStatus(m) = MeaningOfStatus(n)
<1>1. /\ toPbTransactionError(m.err) = toPbTransactionError(n.err)
      /\ MapSeq(toPbInnerInstruction, m.innerInstructions)
           = MapSeq(toPbInnerInstruction, n.innerInstructions)
      /\ MapSeq(toPbTokenBalance, m.preTokenBalances) = MapSeq(toPbTokenBalance, n.preTokenBalances)
      /\ MapSeq(toPbTokenBalance, m.postTokenBalances)
           = MapSeq(toPbTokenBalance, n.postTokenBalances)
      /\ rs = qs /\ toPbReturnData(m.returnData) = toPbReturnData(n.returnData) /\ m.rest = n.rest
  BY DEF PbMeta
<1>2. /\ m.rewards \in Seq(Reward) /\ n.rewards \in Seq(Reward)
      /\ m.innerInstructions \in Seq(CompiledInstruction)
      /\ n.innerInstructions \in Seq(CompiledInstruction)
      /\ m.err \in STRING \cup {Nil} /\ n.err \in STRING \cup {Nil}
      /\ m.returnData \in [data : STRING, programId : STRING] \cup {Nil}
      /\ n.returnData \in [data : STRING, programId : STRING] \cup {Nil}
  BY DEF TransactionMeta
<1>3. m.innerInstructions = n.innerInstructions
  BY <1>1, <1>2, InnerInstructionsKept DEF Panics
<1>4. RewardBag(m.rewards) = RewardBag(n.rewards)
  BY <1>1, <1>2, SortedOf
<1>5. m.err = n.err
  <2>1. \A e \in STRING : <<e>> # Nil
    <3>1. \A e \in STRING : <<e>> \in Seq(STRING)
      OBVIOUS
    <3> QED
      BY <3>1, AbsentAssumption
  <2> QED
    BY <1>1, <1>2, <2>1 DEF toPbTransactionError, Bytes
<1>6. m.returnData = n.returnData
  <2> DEFINE D == [data : STRING, programId : STRING]
             Pb(d) == [data |-> <<d.data>>, programId |-> <<d.programId>>]
  <2>1. ASSUME NEW d \in D PROVE Pb(d) # Nil
    <3>1. Pb(d) \in [data : Seq(STRING), programId : Seq(STRING)]
      OBVIOUS
    <3> QED
      BY <3>1, AbsentAssumption
  <2>2. ASSUME NEW d \in D, NEW e \in D, Pb(d) = Pb(e) PROVE d = e
    <3>1. <<d.data>> = <<e.data>> /\ <<d.programId>> = <<e.programId>>
      BY <2>2
    <3>2. d.data = e.data /\ d.programId = e.programId
      BY <3>1
    <3> QED
      BY <3>2
  <2>3. \A d : toPbReturnData(d) = IF d = Nil THEN Nil ELSE Pb(d)
    BY DEF toPbReturnData, Bytes
  <2> HIDE DEF D, Pb
  <2>4. m.returnData \in D \cup {Nil} /\ n.returnData \in D \cup {Nil}
    BY <1>2 DEF D
  <2> QED
    BY <1>1, <2>1, <2>2, <2>3, <2>4
<1> QED
  BY <1>1, <1>3, <1>4, <1>5, <1>6, StatusMeans

LEMMA MeaningKept ==
  ASSUME NEW t \in TransactionWithMeta, NEW u \in TransactionWithMeta,
         Failure(t) = "none", Failure(u) = "none",
         NEW c, c \in ConvertedTransaction(t), c \in ConvertedTransaction(u)
  PROVE  MeaningOfTransaction(t) = MeaningOfTransaction(u)
<1> DEFINE m == Status(t)
           n == Status(u)
<1>1. m \in TransactionMeta /\ n \in TransactionMeta
  BY StatusTyped
<1>2. /\ ~Panics(m) /\ t.transaction # Nil /\ InstructionsFit(t.transaction.instructions)
      /\ ~Panics(n) /\ u.transaction # Nil /\ InstructionsFit(u.transaction.instructions)
  BY StatusFails
<1>3. PICK rs \in toPBReward(m.rewards) :
        c = [transaction |-> PbTransaction(t.transaction), meta |-> PbMeta(m, rs)]
  BY TransactionIs
<1>4. PICK qs \in toPBReward(n.rewards) :
        c = [transaction |-> PbTransaction(u.transaction), meta |-> PbMeta(n, qs)]
  BY TransactionIs
<1> HIDE DEF m, n
<1>5. /\ PbTransaction(t.transaction) = PbTransaction(u.transaction)
      /\ PbMeta(m, rs) = PbMeta(n, qs)
  BY <1>3, <1>4
<1>6. t.transaction \in Transaction /\ u.transaction \in Transaction
  BY <1>2 DEF TransactionWithMeta
<1>7. t.transaction = u.transaction
  BY <1>2, <1>5, <1>6, TransactionKept
<1>8. MeaningOfStatus(m) = MeaningOfStatus(n)
  BY <1>1, <1>2, <1>5, StatusKept
<1> QED
  BY <1>7, <1>8 DEF MeaningOfTransaction, m, n

LEMMA AnswerKept ==
  ASSUME NEW q \in Answer, NEW r \in Answer,
         TransactionsFailure(q.transactions) = "none", TransactionsFailure(r.transactions) = "none",
         NEW s \in toPbTransactions(q.transactions), NEW a \in toPBReward(q.rewards),
         NEW v \in toPbTransactions(r.transactions), NEW b \in toPBReward(r.rewards),
         SolBlock(q, s, a) = SolBlock(r, v, b)
  PROVE  Meaning(q) = Meaning(r)
<1> DEFINE ts == q.transactions
           us == r.transactions
<1>1. /\ q.slot = r.slot /\ q.blockhash = r.blockhash /\ q.parentSlot = r.parentSlot
      /\ q.blockTime = r.blockTime /\ q.blockHeight = r.blockHeight /\ s = v /\ a = b
  BY DEF SolBlock
<1>2. /\ ts \in Seq(TransactionWithMeta) /\ us \in Seq(TransactionWithMeta)
      /\ q.rewards \in Seq(Reward) /\ r.rewards \in Seq(Reward)
  BY AnswerTyped
<1>3. RewardBag(q.rewards) = RewardBag(r.rewards)
  BY <1>1, <1>2, SortedOf
<1>4. /\ DOMAIN s = DOMAIN ts /\ DOMAIN v = DOMAIN us
      /\ \A i \in DOMAIN ts : s[i] \in ConvertedTransaction(ts[i])
      /\ \A i \in DOMAIN us : v[i] \in ConvertedTransaction(us[i])
  BY TransactionsAre
<1>5. TransactionsFailure(ts) = "none" /\ TransactionsFailure(us) = "none"
  OBVIOUS
<1> HIDE DEF ts, us
<1>6. ASSUME NEW z \in Seq(TransactionWithMeta), TransactionsFailure(z) = "none"
      PROVE  \A i \in DOMAIN z : Failure(z[i]) = "none" /\ z[i] \in TransactionWithMeta
  <2>1. Len(z) \in Nat /\ DOMAIN z = 1 .. Len(z)
    OBVIOUS
  <2>2. \A i \in 1 .. Len(z) : Failure(z[i]) = "none"
    BY <1>6, <2>1, FirstFailure
  <2> QED
    BY <2>1, <2>2
<1>7. ASSUME NEW i \in DOMAIN ts PROVE MeaningOfTransaction(ts[i]) = MeaningOfTransaction(us[i])
  <2>1. /\ ts[i] \in TransactionWithMeta /\ us[i] \in TransactionWithMeta
        /\ Failure(ts[i]) = "none" /\ Failure(us[i]) = "none"
        /\ s[i] \in ConvertedTransaction(ts[i]) /\ s[i] \in ConvertedTransaction(us[i])
    BY <1>1, <1>2, <1>4, <1>5, <1>6
  <2> QED
    BY <2>1, MeaningKept
<1>8. MapSeq(MeaningOfTransaction, ts) = MapSeq(MeaningOfTransaction, us)
  BY <1>1, <1>4, <1>7 DEF MapSeq
<1> QED
  BY <1>1, <1>3, <1>8 DEF Meaning, ts, us

(***************************************************************************)
(* The conversion loses nothing that is meant to reach the payload:        *)
(* answers that give one payload mean the same (rpc.go:270-563).           *)
(***************************************************************************)
THEOREM NothingIsLost == Spec => []NothingLost
<1>1. CInv => NothingLost
  <2> SUFFICES ASSUME CInv, NEW m \in Node, NEW n \in Node, IsBlock(m), IsBlock(n),
                      result[m].block.payload = result[n].block.payload
               PROVE  Meaning(answer[m]) = Meaning(answer[n])
    BY DEF NothingLost
  <2>1. Converted(m) /\ Converted(n)
    BY DEF CInv, IsBlock
  <2>2. ASSUME NEW k \in Node, Converted(k), IsBlock(k)
        PROVE  /\ TransactionsFailure(answer[k].transactions) = "none"
               /\ \E ts \in toPbTransactions(answer[k].transactions),
                     rs \in toPBReward(answer[k].rewards) :
                    result[k].block.payload = SolBlock(answer[k], ts, rs)
    <3>1. TransactionsFailure(answer[k].transactions) \in {"none", "error", "panic"}
      BY DEF TransactionsFailure, Failure
    <3>2. TransactionsFailure(answer[k].transactions) = "none"
      BY <2>2, <3>1, Outcome DEF Converted, IsBlock, Ended
    <3>3. PICK ts \in toPbTransactions(answer[k].transactions),
               rs \in toPBReward(answer[k].rewards) :
            result[k] = [kind |-> "block", block |-> BlockOf(answer[k], ts, rs)]
      BY <2>2, <3>2, Outcome DEF Converted, IsBlock, Ended
    <3>4. result[k].block.payload = SolBlock(answer[k], ts, rs)
      BY <3>3 DEF BlockOf
    <3> QED
      BY <3>2, <3>4
  <2>3. PICK s \in toPbTransactions(answer[m].transactions), a \in toPBReward(answer[m].rewards) :
          result[m].block.payload = SolBlock(answer[m], s, a)
    BY <2>1, <2>2
  <2>4. PICK v \in toPbTransactions(answer[n].transactions), b \in toPBReward(answer[n].rewards) :
          result[n].block.payload = SolBlock(answer[n], v, b)
    BY <2>1, <2>2
  <2>5. /\ answer[m] \in Answer /\ answer[n] \in Answer
        /\ TransactionsFailure(answer[m].transactions) = "none"
        /\ TransactionsFailure(answer[n].transactions) = "none"
    BY <2>1, <2>2 DEF Converted
  <2>6. SolBlock(answer[m], s, a) = SolBlock(answer[n], v, b)
    BY <2>3, <2>4
  <2> QED
    BY <2>5, <2>6, AnswerKept
<1> QED
  BY <1>1, ConvertedAlways, PTL
=============================================================================
