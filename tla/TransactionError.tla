-------------------------- MODULE TransactionError --------------------------
(***************************************************************************)
(* block/fetcher/error.go and toPbTransactionError of rpc.go: the error of *)
(* a failed transaction arrives as JSON and is stored as the bytes of      *)
(* Solana's own binary encoding of the same error.                         *)
(*                                                                         *)
(* A function that may panic returns the set of its results: {} is a       *)
(* panic, which ends the process.                                          *)
(***************************************************************************)
EXTENDS Naturals, Sequences

(* The constants of each enumeration, in the order of their codes.         *)
TrxErrName == <<
  "AccountInUse", "AccountLoadedTwice", "AccountNotFound", "ProgramAccountNotFound",
  "InsufficientFundsForFee", "InvalidAccountForFee", "AlreadyProcessed",
  "BlockhashNotFound", "InstructionError", "CallChainTooDeep", "MissingSignatureForFee",
  "InvalidAccountIndex", "SignatureFailure", "InvalidProgramForExecution",
  "SanitizeFailure", "ClusterMaintenance", "AccountBorrowOutstanding",
  "WouldExceedMaxBlockCostLimit", "UnsupportedVersion", "InvalidWritableAccount",
  "WouldExceedMaxAccountCostLimit", "WouldExceedAccountDataBlockLimit",
  "TooManyAccountLocks", "AddressLookupTableNotFound", "InvalidAddressLookupTableOwner",
  "InvalidAddressLookupTableData", "InvalidAddressLookupTableIndex",
  "InvalidRentPayingAccount", "WouldExceedMaxVoteCostLimit",
  "WouldExceedAccountDataTotalLimit", "DuplicateInstruction", "InsufficientFundsForRent",
  "MaxLoadedAccountsDataSizeExceeded", "InvalidLoadedAccountsDataSizeLimit",
  "ResanitizationNeeded", "ProgramExecutionTemporarilyRestricted",
  "UnbalancedTransaction" >>

InstructionErrorName == <<
  "GenericError", "InvalidArgument", "InvalidInstructionData", "InvalidAccountData",
  "AccountDataTooSmall", "InsufficientFunds", "IncorrectProgramId",
  "MissingRequiredSignature", "AccountAlreadyInitialized", "UninitializedAccount",
  "UnbalancedInstruction", "ModifiedProgramId", "ExternalAccountLamportSpend",
  "ExternalAccountDataModified", "ReadonlyLamportChange", "ReadonlyDataModified",
  "DuplicateAccountIndex", "ExecutableModified", "RentEpochModified",
  "NotEnoughAccountKeys", "AccountDataSizeChanged", "AccountNotExecutable",
  "AccountBorrowFailed", "AccountBorrowOutstanding", "DuplicateAccountOutOfSync",
  "Custom", "InvalidError", "ExecutableDataModified", "ExecutableLamportChange",
  "ExecutableAccountNotRentExempt", "UnsupportedProgramId", "CallDepth",
  "MissingAccount", "ReentrancyNotAllowed", "MaxSeedLengthExceeded", "InvalidSeeds",
  "InvalidRealloc", "ComputationalBudgetExceeded", "PrivilegeEscalation",
  "ProgramEnvironmentSetupFailure", "ProgramFailedToComplete", "ProgramFailedToCompile",
  "Immutable", "IncorrectAuthority", "BorshIoError", "AccountNotRentExempt",
  "InvalidAccountOwner", "ArithmeticOverflow", "UnsupportedSysvar", "IllegalOwner",
  "MaxAccountsDataAllocationsExceeded", "MaxAccountsExceeded",
  "MaxInstructionTraceLengthExceeded", "BuiltinProgramsMustConsumeComputeUnits" >>

(* Lookup in trxErrorMap and instructionErrorMap: no code, or one.         *)
CodesOf(names, n) == {i - 1 : i \in {j \in 1 .. Len(names) : names[j] = n}}

trxErrorMap(n) == CodesOf(TrxErrName, n)
instructionErrorMap(n) == CodesOf(InstructionErrorName, n)

-----------------------------------------------------------------------------
(***************************************************************************)
(* Values encoding/json decodes into an interface{}.  A JSON number is     *)
(* always a float64.  A string that is a message keeps its bytes.          *)
(***************************************************************************)
Str(n) == [type |-> "string", name |-> n]
Text(b) == [type |-> "text", bytes |-> b]
Num(n) == [type |-> "float64", num |-> n]
Obj(k, v) == [type |-> "map", key |-> k, val |-> v]
Arr(s) == [type |-> "slice", elems |-> s]

(* uint8 and uint32 of a float64 that holds a whole number.                *)
UInt8(n) == n % 256

CONSTANTS
  Index,      \* instruction and account indices
  CustomCode, \* codes of InstructionError::Custom
  Message     \* messages of BorshIoError, as byte sequences

(* A number of four bytes, as Solana's codes and lengths are.              *)
FourBytes(n) == n \in Nat /\ n \div 16777216 <= 255

ASSUME InputsAssumption ==
  /\ Index \subseteq 0 .. 255 /\ \A c \in CustomCode : FourBytes(c)
  /\ Message \subseteq Seq(0 .. 255) /\ \A m \in Message : FourBytes(Len(m))

(* What a node sends: a unit variant is its name, the others are objects.  *)
AccountIndexed == {"InsufficientFundsForRent", "ProgramExecutionTemporarilyRestricted"}
DetailedTrx == {"InstructionError", "DuplicateInstruction"} \cup AccountIndexed
DetailedInstruction == {"Custom", "BorshIoError"}

Names(s) == {s[i] : i \in 1 .. Len(s)}

InstructionJson ==
  {Str(n) : n \in Names(InstructionErrorName) \ DetailedInstruction}
  \cup {Obj("Custom", Num(c)) : c \in CustomCode}
  \cup {Obj("BorshIoError", Text(m)) : m \in Message}

DuplicateJson == {Obj("DuplicateInstruction", Num(i)) : i \in Index}

KnownJson ==
  {Str(n) : n \in Names(TrxErrName) \ DetailedTrx}
  \cup {Obj("InstructionError", Arr(<<Num(i), x>>)) : i \in Index, x \in InstructionJson}
  \cup {Obj(n, Obj("account_index", Num(i))) :
          n \in AccountIndexed, i \in Index}

(* A node newer than the tables.                                           *)
UnknownJson == {Str("NewerError"), Obj("NewerError", Num(0)),
                Obj("InstructionError", Arr(<<Num(0), Str("NewerError")>>))}

-----------------------------------------------------------------------------
(* The constructors, one per kind of detail.                               *)
Byte(b) == [kind |-> "byte", byte |-> b]

MustNewDuplicateInstructionError(v) == IF v.type = "uint8" THEN {Byte(v.num)} ELSE {}

AccountIndexAsByte(v) ==
  IF v.type = "map" /\ v.key = "account_index" /\ v.val.type = "uint8"
  THEN {Byte(v.val.num)} ELSE {}

(* InsufficientFundsForRent and ProgramExecutionTemporarilyRestricted.     *)
MustNewAccountIndexError(v) ==
  IF v.type = "map" /\ v.key = "account_index" /\ v.val.type = "float64"
  THEN {Byte(UInt8(v.val.num))} ELSE {}

MustNewInstructionCustomError(v) ==
  IF v.type = "float64" THEN {[kind |-> "custom", code |-> v.num]} ELSE {}

MustNewBorshIoError(v) ==
  IF v.type = "text" THEN {[kind |-> "borsh", msg |-> v.bytes]} ELSE {}

InstructionDetail(code, v) ==
  CASE code = 25 -> MustNewInstructionCustomError(v)
    [] code = 44 -> MustNewBorshIoError(v)
    [] OTHER -> {}

None == [kind |-> "none"]

MustNewInstructionError(v) ==
  IF v.type # "slice" \/ Len(v.elems) # 2 THEN {}
  ELSE LET x == v.elems[2]
           Made(c, d) == [kind |-> "instruction", index |-> UInt8(v.elems[1].num),
                          code |-> c, detail |-> d]
       IN  CASE x.type = "string" -> {Made(c, None) : c \in instructionErrorMap(x.name)}
             [] x.type = "map" ->
                  UNION {{Made(c, d) : d \in InstructionDetail(c, x.val)}
                         : c \in instructionErrorMap(x.key)}
             [] OTHER -> {}

TrxDetail(code, v) ==
  CASE code = 8 -> MustNewInstructionError(v)
    [] code = 30 -> MustNewDuplicateInstructionError(v)
    [] code \in {31, 35} -> MustNewAccountIndexError(v)
    [] OTHER -> {}

MustNewTransactionError(e) ==
  CASE e.type = "string" -> {[code |-> c, detail |-> None] : c \in trxErrorMap(e.name)}
    [] e.type = "map" ->
         UNION {{[code |-> c, detail |-> d] : d \in TrxDetail(c, e.val)}
                : c \in trxErrorMap(e.key)}
    [] OTHER -> {}

-----------------------------------------------------------------------------
(* WriteUint32 in little-endian order; numbers here stay below 2^31.       *)
WriteUint32(n) ==
  <<n % 256, (n \div 256) % 256, (n \div 65536) % 256, (n \div 16777216) % 256>>

(* WriteString: an int64 length, whose upper half is 0, and the bytes.     *)
WriteString(b) == WriteUint32(Len(b)) \o WriteUint32(0) \o b

EncodeCustomAsByte(d) == <<d.code>>
EncodeCustom(d) == WriteUint32(d.code)
EncodeBorshIo(d) == WriteString(d.msg)
EncodeByte(d) == <<d.byte>>

EncodeDetail(d) ==
  CASE d.kind = "none" -> <<>>
    [] d.kind = "byte" -> EncodeByte(d)
    [] d.kind = "custom" -> EncodeCustom(d)
    [] d.kind = "borsh" -> EncodeBorshIo(d)

EncodeInstructionCodeFirst(i) ==
  WriteUint32(i.code) \o <<i.index>> \o EncodeDetail(i.detail)

EncodeInstruction(i) == <<i.index>> \o WriteUint32(i.code) \o EncodeDetail(i.detail)

Encode(t) ==
  WriteUint32(t.code) \o
    (IF t.detail.kind = "instruction" THEN EncodeInstruction(t.detail)
                                      ELSE EncodeDetail(t.detail))

-----------------------------------------------------------------------------
VARIABLES
  e,       \* the error of the transaction being converted
  outcome, \* "none" so far, "ok" or "panic"
  err      \* the bytes of pbsol.TransactionError.Err

vars == <<e, outcome, err>>

Init == e \in KnownJson \cup DuplicateJson \cup UnknownJson /\ outcome = "none" /\ err = <<>>

toPbTransactionError ==
  /\ outcome = "none"
  /\ LET made == MustNewTransactionError(e) IN
     \/ \E t \in made : outcome' = "ok" /\ err' = Encode(t)
     \/ made = {} /\ outcome' = "panic" /\ UNCHANGED err
  /\ UNCHANGED e

Next == toPbTransactionError

Spec == Init /\ [][Next]_vars

-----------------------------------------------------------------------------
(***************************************************************************)
(* The reference: Solana's decoder of the stored bytes, which knows the    *)
(* enumerations and nothing of error.go.                                   *)
(***************************************************************************)
Uint32At(b, i) == b[i] + 256 * (b[i + 1] + 256 * (b[i + 2] + 256 * b[i + 3]))

DecodeInstruction(b) ==
  LET name == InstructionErrorName[Uint32At(b, 2) + 1]
      rest == SubSeq(b, 6, Len(b))
  IN  Arr(<<Num(b[1]),
            CASE name = "Custom" -> Obj(name, Num(Uint32At(rest, 1)))
              [] name = "BorshIoError" ->
                   Obj(name, Text(SubSeq(rest, 9, 8 + Uint32At(rest, 1))))
              [] OTHER -> Str(name)>>)

Decode(b) ==
  LET name == TrxErrName[Uint32At(b, 1) + 1]
      rest == SubSeq(b, 5, Len(b))
  IN  CASE name = "InstructionError" -> Obj(name, DecodeInstruction(rest))
        [] name = "DuplicateInstruction" -> Obj(name, Num(rest[1]))
        [] name \in AccountIndexed -> Obj(name, Obj("account_index", Num(rest[1])))
        [] OTHER -> Str(name)

(* The stored error is a sequence of bytes.                                *)
TypeOK == outcome \in {"none", "ok", "panic"} /\ err \in Seq(0 .. 255)

(***************************************************************************)
(* Nothing is lost: a decoder of Solana's format reads from the stored     *)
(* bytes (error.go:241-254, 425-498) exactly the error the node sent.      *)
(***************************************************************************)
RoundTrip == outcome = "ok" => Decode(err) = e

(***************************************************************************)
(* Every error in the tables but DuplicateInstruction is converted; only   *)
(* names the tables do not have stop the process (error.go:101-153,        *)
(* 378-423).                                                               *)
(***************************************************************************)
KnownConverted == e \in KnownJson => outcome # "panic"

(***************************************************************************)
(* The test of Encode (rpc_test.go:36-44) expects DuplicateInstruction to  *)
(* be stored as [30 0 0 0 index].                                          *)
(***************************************************************************)
DuplicateConverted ==
  e \in DuplicateJson /\ outcome # "none" => err = WriteUint32(30) \o <<e.val.num>>
=============================================================================
