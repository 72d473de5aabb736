-------------------------- MODULE BlockConversion --------------------------
(***************************************************************************)
(* block/fetcher/rpc.go: blockFromBlockResult and what it calls, which     *)
(* turn a node's answer to getBlock into the block Fetch returns.          *)
(*                                                                         *)
(* Two nodes, or one node asked twice, answer for blocks of one ledger and *)
(* both answers are converted, so that the results can be compared.  Lists *)
(* and numbers that are copied as they are (signatures, keys, lookups,     *)
(* balances, logs...) are one opaque value, the field "rest"; the bytes of *)
(* a transaction error are the subject of TransactionError, the LIB number *)
(* that of RPCFetcher.                                                     *)
(***************************************************************************)
EXTENDS SolanaBlock, SequencesExt

CONSTANTS
  Node,             \* whose answers are converted
  Answer,           \* the answers to getBlock
  BlockToPatch,     \* blockToPatch: the right previous hash of some blocks
  ErrorName,        \* the transaction errors MustNewTransactionError knows
  SystemProgram,    \* the public key 11111111111111111111111111111111
  Malformed,        \* a text that is not base64, or not a base58 key
  Opaque            \* the values of the fields "rest"

(***************************************************************************)
(* The client's types for an answer to getBlock.  A transaction is decoded *)
(* from its wire format, which has no stack height: its instructions have  *)
(* none, the inner ones of its status may.  A key is never the empty text. *)
(***************************************************************************)
Reward ==
  [pubkey : STRING, lamports : Int, rewardType : STRING, commission : Nat \cup {Nil}]

CompiledInstruction == [accounts : Seq(Nat), stackHeight : Nat, rest : Opaque]

UiTokenAmount == [uiAmount : Int \cup {Nil}, rest : Opaque]

TokenBalance ==
  [owner : STRING \cup {Nil}, programId : STRING \ {""},
   uiTokenAmount : UiTokenAmount \cup {Nil}, rest : Opaque]

TransactionMeta ==
  [err : STRING \cup {Nil}, innerInstructions : Seq(CompiledInstruction),
   preTokenBalances : Seq(TokenBalance), postTokenBalances : Seq(TokenBalance),
   rewards : Seq(Reward), returnData : [data : STRING, programId : STRING] \cup {Nil},
   rest : Opaque \cup {Nil}]

Transaction ==
  [instructions : Seq([accounts : Seq(Nat), stackHeight : {0}, rest : Opaque]), rest : Opaque]

TransactionWithMeta == [meta : TransactionMeta \cup {Nil}, transaction : Transaction \cup {Nil}]

GetBlockResult ==
  [slot : Nat, blockhash : STRING, previousBlockhash : STRING, parentSlot : Nat,
   blockTime : Int \cup {Nil}, blockHeight : Nat \cup {Nil},
   transactions : Seq(TransactionWithMeta), rewards : Seq(Reward)]

ASSUME AnswerAssumption == Answer \subseteq GetBlockResult

(* Nil is the absence of a value, in what is read and in what is written.  *)
ASSUME AbsentAssumption ==
  /\ Nil \notin Nat /\ Nil \notin (Int \X Opaque) /\ Nil \notin UiTokenAmount
  /\ Nil \notin Seq(STRING) /\ Nil \notin [data : Seq(STRING), programId : Seq(STRING)]

VARIABLES
  answer,       \* what each node has answered, Nil at first
  result        \* what became of it

vars == <<answer, result>>

Init == answer = [n \in Node |-> Nil] /\ result = [n \in Node |-> Nil]

fixPreviousBlockHash(r) ==
  IF r.blockhash \in DOMAIN BlockToPatch THEN BlockToPatch[r.blockhash] ELSE r.previousBlockhash

MapSeq(Op(_), s) == [i \in DOMAIN s |-> Op(s[i])]

-----------------------------------------------------------------------------
(* Rewards: one of an unknown type panics; the commission is not stored.   *)
(* The key stands for the post balance too, which is copied like it.       *)
RewardTypeKnown(rewards) ==
  \A i \in DOMAIN rewards : rewards[i].rewardType \in {"fee", "rent", "voting", "staking"}

toPBReward(rewards) ==
  SortFunc(MapSeq(LAMBDA r : [pubkey |-> r.pubkey, lamports |-> r.lamports,
                              rewardType |-> r.rewardType], rewards))

-----------------------------------------------------------------------------
(* Instructions: account indexes are stored as bytes.                      *)
IndexesLoose(accounts) == \A i \in DOMAIN accounts : accounts[i] <= 256

IndexesFit(accounts) == \A i \in DOMAIN accounts : accounts[i] <= 255

toBytes(accounts) == MapSeq(LAMBDA a : a % 256, accounts)

toStackHeight(h) == IF h = 0 THEN Nil ELSE h

toPbInnerInstruction(i) ==
  [accounts |-> toBytes(i.accounts), stackHeight |-> toStackHeight(i.stackHeight), rest |-> i.rest]

toPbInstruction(i) == [accounts |-> toBytes(i.accounts), rest |-> i.rest]

InstructionsFit(instructions) ==
  \A i \in DOMAIN instructions : IndexesFit(instructions[i].accounts)

-----------------------------------------------------------------------------
toPbUiTokenAmount(a) ==
  IF a = Nil THEN Nil
  ELSE [uiAmount |-> IF a.uiAmount = Nil THEN 0 ELSE a.uiAmount, rest |-> a.rest]

toPbTokenBalance(b) ==
  [owner |-> IF b.owner = Nil THEN "" ELSE b.owner,
   programId |-> IF b.programId = SystemProgram THEN "" ELSE b.programId,
   uiTokenAmount |-> toPbUiTokenAmount(b.uiTokenAmount),
   rest |-> b.rest]

(* The bytes a base64 or base58 text, or the name of an error, stands for. *)
Bytes(text) == <<text>>

DecodesReturnData(d) == d # Nil => d.data # Malformed /\ d.programId # Malformed

toPbReturnData(d) ==
  IF d = Nil THEN Nil ELSE [data |-> Bytes(d.data), programId |-> Bytes(d.programId)]

toPbTransactionError(e) == IF e = Nil THEN Nil ELSE Bytes(e)

(* The status a transaction without one is given: every field empty.       *)
EmptyMeta ==
  [err |-> Nil, innerInstructions |-> <<>>, preTokenBalances |-> <<>>, postTokenBalances |-> <<>>,
   rewards |-> <<>>, returnData |-> Nil, rest |-> Nil]

toPbTransactionMeta(m) ==
  IF m = Nil THEN {EmptyMeta}
  ELSE {[err |-> toPbTransactionError(m.err),
         innerInstructions |-> MapSeq(toPbInnerInstruction, m.innerInstructions),
         preTokenBalances |-> MapSeq(toPbTokenBalance, m.preTokenBalances),
         postTokenBalances |-> MapSeq(toPbTokenBalance, m.postTokenBalances),
         rewards |-> rs,
         returnData |-> toPbReturnData(m.returnData),
         rest |-> m.rest] : rs \in toPBReward(m.rewards)}

MetaPanics(m) ==
  /\ m # Nil
  /\ \/ ~InstructionsFit(m.innerInstructions)
     \/ m.err # Nil /\ m.err \notin ErrorName
     \/ ~RewardTypeKnown(m.rewards)

FailureIgnoringReturnData(t) ==
  IF MetaPanics(t.meta) \/ t.transaction = Nil \/ ~InstructionsFit(t.transaction.instructions)
  THEN "panic" ELSE "none"

(* How the conversion of one transaction ends.  The return data comes      *)
(* first and is the only part whose failure is an error; a transaction     *)
(* that cannot be decoded (Nil) panics, after its status was converted.    *)
Failure(t) ==
  IF t.meta # Nil /\ ~DecodesReturnData(t.meta.returnData) THEN "error"
  ELSE IF MetaPanics(t.meta) \/ t.transaction = Nil \/ ~InstructionsFit(t.transaction.instructions)
  THEN "panic" ELSE "none"

(* The transactions are converted in order, up to the first that fails.    *)
TransactionsFailure(ts) ==
  LET first == SelectInSeq(ts, LAMBDA t : Failure(t) # "none")
  IN  IF first = 0 THEN "none" ELSE Failure(ts[first])

toPbTransactions(ts) ==
  LET Converted(t) ==
        {[transaction |-> [instructions |-> MapSeq(toPbInstruction, t.transaction.instructions),
                           rest |-> t.transaction.rest],
          meta |-> m] : m \in toPbTransactionMeta(t.meta)}
  IN  {s \in [DOMAIN ts -> UNION {Converted(ts[i]) : i \in DOMAIN ts}] :
         \A i \in DOMAIN ts : s[i] \in Converted(ts[i])}

-----------------------------------------------------------------------------
PatchesHeaderOnly(r, transactions, rewards) ==
  [slot |-> r.slot, blockhash |-> r.blockhash, previousBlockhash |-> r.previousBlockhash,
   parentSlot |-> r.parentSlot, transactions |-> transactions, rewards |-> rewards,
   blockTime |-> r.blockTime, blockHeight |-> r.blockHeight]

(* The payload.                                                            *)
SolBlock(r, transactions, rewards) ==
  [slot |-> r.slot, blockhash |-> r.blockhash, previousBlockhash |-> fixPreviousBlockHash(r),
   parentSlot |-> r.parentSlot, transactions |-> transactions, rewards |-> rewards,
   blockTime |-> r.blockTime, blockHeight |-> r.blockHeight]

Ended(kind) == [kind |-> kind, block |-> Nil]

(* What may become of the answer r, whose slot is the requested one.       *)
blockFromBlockResult(r) ==
  LET failure == TransactionsFailure(r.transactions) IN
  IF failure # "none" THEN {Ended(failure)}
  ELSE IF ~RewardTypeKnown(r.rewards) THEN {Ended("panic")}
  ELSE {[kind |-> "block",
         block |-> [number |-> r.slot, id |-> r.blockhash, parentId |-> fixPreviousBlockHash(r),
                    parentNum |-> r.parentSlot, timestamp |-> r.blockTime,
                    payload |-> SolBlock(r, ts, rs)]] :
          ts \in toPbTransactions(r.transactions), rs \in toPBReward(r.rewards)}

(* A node's answer is converted.                                           *)
Convert(n, r) ==
  /\ answer' = [answer EXCEPT ![n] = r]
  /\ \E o \in blockFromBlockResult(r) : result' = [result EXCEPT ![n] = o]

Next == \E n \in Node, r \in Answer : Convert(n, r)

Spec == Init /\ [][Next]_vars

-----------------------------------------------------------------------------
(***************************************************************************)
(* What of an answer is meant to reach the payload.  Left out are the      *)
(* order of rewards and their commission, the previous hash (a block has   *)
(* one, whatever a node says), and the differences between an absent and   *)
(* an empty status, an absent and a zero UI amount, and an absent and an   *)
(* empty owner.                                                            *)
(***************************************************************************)
RewardBag(rewards) ==
  LET kept == MapSeq(LAMBDA r : <<r.pubkey, r.lamports, r.rewardType>>, rewards)
  IN  [r \in Range(kept) |-> Occurrences(r, kept)]

OrDefault(x, default) == IF x = Nil THEN default ELSE x

MeaningOfBalance(b) ==
  [owner |-> OrDefault(b.owner, ""), programId |-> b.programId, rest |-> b.rest,
   amount |-> IF b.uiTokenAmount = Nil THEN Nil
              ELSE <<OrDefault(b.uiTokenAmount.uiAmount, 0), b.uiTokenAmount.rest>>]

MeaningOfStatus(m) ==
  [err |-> m.err, innerInstructions |-> m.innerInstructions, rewards |-> RewardBag(m.rewards),
   preTokenBalances |-> MapSeq(MeaningOfBalance, m.preTokenBalances),
   postTokenBalances |-> MapSeq(MeaningOfBalance, m.postTokenBalances),
   returnData |-> m.returnData, rest |-> m.rest]

Status(t) == OrDefault(t.meta, EmptyMeta)

MeaningOfTransaction(t) ==
  [transaction |-> t.transaction, status |-> MeaningOfStatus(Status(t))]

Meaning(r) ==
  [slot |-> r.slot, blockhash |-> r.blockhash, parentSlot |-> r.parentSlot,
   blockTime |-> r.blockTime, blockHeight |-> r.blockHeight, rewards |-> RewardBag(r.rewards),
   transactions |-> MapSeq(MeaningOfTransaction, r.transactions)]

NoRewardTies(r) ==
  /\ NoTies(r.rewards)
  /\ \A i \in DOMAIN r.transactions : NoTies(Status(r.transactions[i]).rewards)

IsBlock(n) == result[n] # Nil /\ result[n].kind = "block"

(***************************************************************************)
(* The conversion loses nothing else: answers that give the same payload   *)
(* mean the same (rpc.go:270-563), whatever indexes, absent parts and      *)
(* orders they have.                                                       *)
(***************************************************************************)
NothingLost ==
  \A m, n \in Node : IsBlock(m) /\ IsBlock(n) /\ result[m].block.payload = result[n].block.payload
    => Meaning(answer[m]) = Meaning(answer[n])

(***************************************************************************)
(* It makes up no differences either: answers that mean the same, though   *)
(* one node lists the rewards in another order or zeroes the previous      *)
(* hash, become the same block or fail the same way (rpc.go:228-268,       *)
(* 533-548).  Rewards of equal lamports may still come in either order.    *)
(***************************************************************************)
NodesAgree ==
  \A m, n \in Node :
    answer[m] # Nil /\ answer[n] # Nil /\ NoRewardTies(answer[m])
      /\ Meaning(answer[m]) = Meaning(answer[n]) => result[m] = result[n]

(***************************************************************************)
(* The header agrees with the payload it carries, as type.go reads it      *)
(* (rpc.go:194-222), also where the previous hash is patched or the time   *)
(* is absent.  The LIB number is left out: GetFirehoseBlockLIBNum          *)
(* (type.go:37) is the parent slot, the header's is the fetcher's.         *)
(***************************************************************************)
HeaderAgrees == \A n \in Node : IsBlock(n) => HeaderOfPayload(result[n].block)

(* A transaction no block can be made of.                                  *)
Unsupported(t) ==
  \/ t.meta # Nil /\ MetaPanics(t.meta)
  \/ t.transaction = Nil
  \/ t.transaction # Nil /\ ~InstructionsFit(t.transaction.instructions)

(* Its return data is not what the client promises.                        *)
BadReturnData(t) == t.meta # Nil /\ ~DecodesReturnData(t.meta.returnData)

(***************************************************************************)
(* No block is returned that a part could not be converted of, and a block *)
(* whose transactions are all sound up to one with malformed return data   *)
(* is an error and not the end of the process (rpc.go:270-333, 561).       *)
(***************************************************************************)
NoPartialBlock ==
  \A n \in Node : answer[n] # Nil =>
    LET ts == answer[n].transactions IN
    /\ IsBlock(n) => /\ \A i \in DOMAIN ts : ~BadReturnData(ts[i]) /\ ~Unsupported(ts[i])
                     /\ RewardTypeKnown(answer[n].rewards)
    /\ \A i \in DOMAIN ts :
         BadReturnData(ts[i]) /\ (\A k \in 1 .. i - 1 : ~Unsupported(ts[k]))
           => result[n].kind = "error"
=============================================================================
