----------------------- MODULE TransactionErrorProofs -----------------------
(***************************************************************************)
(* Proofs about TransactionError: for every account and instruction index, *)
(* every custom code and every message, of any length that can be stored.  *)
(***************************************************************************)
EXTENDS TransactionError, SequenceTheorems, TLAPS

Byte256 == 0 .. 255

(* The four bytes of a number, and the number they make.                   *)
LEMMA Written ==
  ASSUME NEW n, FourBytes(n)
  PROVE  \E a, b, c, d \in Byte256 :
           WriteUint32(n) = <<a, b, c, d>> /\ n = a + 256 * (b + 256 * (c + 256 * d))
<1> DEFINE a == n % 256
           b == (n \div 256) % 256
           c == (n \div 65536) % 256
           d == (n \div 16777216) % 256
<1>1. n \in Nat /\ n \div 16777216 <= 255
  BY DEF FourBytes
<1>2. a \in Byte256 /\ b \in Byte256 /\ c \in Byte256 /\ d \in Byte256
  BY <1>1 DEF Byte256
<1>3. n = a + 256 * (b + 256 * (c + 256 * d))
  BY <1>1
<1> QED
  BY <1>2, <1>3 DEF WriteUint32

(* Where the parts of a concatenation are.                                 *)
IsJoin(b, v, w) ==
  /\ b \in Seq(Byte256) /\ Len(b) = Len(v) + Len(w)
  /\ \A i \in 1 .. Len(v) : b[i] = v[i]
  /\ \A i \in 1 .. Len(w) : b[Len(v) + i] = w[i]
  /\ SubSeq(b, Len(v) + 1, Len(b)) = w

LEMMA Joined ==
  ASSUME NEW v \in Seq(Byte256), NEW w \in Seq(Byte256)
  PROVE  IsJoin(v \o w, v, w)
<1> DEFINE b == v \o w
           s == SubSeq(b, Len(v) + 1, Len(b))
<1>1. /\ b \in Seq(Byte256) /\ Len(b) = Len(v) + Len(w) /\ Len(v) \in Nat /\ Len(w) \in Nat
      /\ \A i \in 1 .. Len(v) : b[i] = v[i]
      /\ \A i \in 1 .. Len(w) : b[Len(v) + i] = w[i]
  BY ConcatProperties
<1> HIDE DEF b
<1>2. /\ s \in Seq(Byte256) /\ Len(s) = Len(w)
      /\ \A i \in 1 .. Len(s) : s[i] = b[Len(v) + 1 + i - 1]
  BY <1>1, SubSeqProperties
<1>3. \A i \in 1 .. Len(w) : s[i] = w[i]
  BY <1>1, <1>2
<1>4. s = w
  BY <1>2, <1>3, SeqEqual
<1> QED
  BY <1>1, <1>4 DEF IsJoin, b

(* The number and what comes after it are read back.                       *)
LEMMA ReadBack ==
  ASSUME NEW n, FourBytes(n)
  PROVE  /\ WriteUint32(n) \in Seq(Byte256) /\ Len(WriteUint32(n)) = 4
         /\ Uint32At(WriteUint32(n), 1) = n
<1>1. PICK p, q, r, t \in Byte256 :
        WriteUint32(n) = <<p, q, r, t>> /\ n = p + 256 * (q + 256 * (r + 256 * t))
  BY Written
<1> QED
  BY <1>1 DEF Uint32At

LEMMA NumberThen ==
  ASSUME NEW n, FourBytes(n), NEW s \in Seq(Byte256)
  PROVE  LET b == WriteUint32(n) \o s IN
         /\ b \in Seq(Byte256) /\ Uint32At(b, 1) = n /\ SubSeq(b, 5, Len(b)) = s
<1> DEFINE w == WriteUint32(n)
           b == w \o s
<1>1. w \in Seq(Byte256) /\ Len(w) = 4 /\ Uint32At(w, 1) = n
  BY ReadBack
<1> HIDE DEF w
<1>2. IsJoin(b, w, s)
  BY <1>1, Joined
<1> HIDE DEF b
<1>3. b \in Seq(Byte256) /\ SubSeq(b, 5, Len(b)) = s
  BY <1>1, <1>2 DEF IsJoin
<1>4. b[1] = w[1] /\ b[2] = w[2] /\ b[3] = w[3] /\ b[4] = w[4]
  BY <1>1, <1>2 DEF IsJoin
<1>5. Uint32At(b, 1) = Uint32At(w, 1)
  BY <1>4 DEF Uint32At
<1> QED
  BY <1>1, <1>3, <1>5 DEF b, w

LEMMA IndexThen ==
  ASSUME NEW i \in Byte256, NEW n, FourBytes(n), NEW s \in Seq(Byte256)
  PROVE  LET b == <<i>> \o WriteUint32(n) \o s IN
         /\ b \in Seq(Byte256) /\ b[1] = i /\ Uint32At(b, 2) = n /\ SubSeq(b, 6, Len(b)) = s
<1> DEFINE w == WriteUint32(n)
           x == <<i>>
           v == x \o w
           b == v \o s
<1>1. w \in Seq(Byte256) /\ Len(w) = 4 /\ Uint32At(w, 1) = n
  BY ReadBack
<1>2. x \in Seq(Byte256) /\ Len(x) = 1 /\ x[1] = i
  OBVIOUS
<1> HIDE DEF w, x
<1>3. IsJoin(v, x, w)
  BY <1>1, <1>2, Joined
<1> HIDE DEF v
<1>4. /\ v \in Seq(Byte256) /\ Len(v) = 5
      /\ v[1] = i /\ v[2] = w[1] /\ v[3] = w[2] /\ v[4] = w[3] /\ v[5] = w[4]
  BY <1>1, <1>2, <1>3 DEF IsJoin
<1>5. IsJoin(b, v, s)
  BY <1>4, Joined
<1> HIDE DEF b
<1>6. b \in Seq(Byte256) /\ SubSeq(b, 6, Len(b)) = s
  BY <1>4, <1>5 DEF IsJoin
<1>7. b[1] = v[1] /\ b[2] = v[2] /\ b[3] = v[3] /\ b[4] = v[4] /\ b[5] = v[5]
  BY <1>4, <1>5 DEF IsJoin
<1>8. Uint32At(b, 2) = Uint32At(w, 1)
  BY <1>4, <1>7 DEF Uint32At
<1> QED
  BY <1>1, <1>4, <1>6, <1>7, <1>8 DEF b, v, w, x

LEMMA StringBack ==
  ASSUME NEW m \in Seq(Byte256), FourBytes(Len(m))
  PROVE  LET b == WriteString(m) IN
         b \in Seq(Byte256) /\ Uint32At(b, 1) = Len(m) /\ SubSeq(b, 9, 8 + Len(m)) = m
<1> DEFINE w == WriteUint32(Len(m))
           z == WriteUint32(0)
           v == w \o z
           b == v \o m
<1>1. w \in Seq(Byte256) /\ Len(w) = 4 /\ Uint32At(w, 1) = Len(m)
  BY ReadBack
<1>2. z \in Seq(Byte256) /\ Len(z) = 4
  <2>1. FourBytes(0)
    BY DEF FourBytes
  <2> QED
    BY <2>1, ReadBack
<1> HIDE DEF w, z
<1>3. IsJoin(v, w, z)
  BY <1>1, <1>2, Joined
<1> HIDE DEF v
<1>4. /\ v \in Seq(Byte256) /\ Len(v) = 8
      /\ v[1] = w[1] /\ v[2] = w[2] /\ v[3] = w[3] /\ v[4] = w[4]
  BY <1>1, <1>2, <1>3 DEF IsJoin
<1>5. IsJoin(b, v, m)
  BY <1>4, Joined
<1> HIDE DEF b
<1>6. b \in Seq(Byte256) /\ SubSeq(b, 9, 8 + Len(m)) = m
  BY <1>4, <1>5 DEF IsJoin
<1>7. b[1] = v[1] /\ b[2] = v[2] /\ b[3] = v[3] /\ b[4] = v[4]
  BY <1>4, <1>5 DEF IsJoin
<1>8. Uint32At(b, 1) = Uint32At(w, 1)
  BY <1>4, <1>7 DEF Uint32At
<1> QED
  BY <1>1, <1>6, <1>8 DEF WriteString, b, v, w, z

-----------------------------------------------------------------------------
(* A code found in a table is that of the name.                            *)
LEMMA CodeOf ==
  ASSUME NEW n
  PROVE  /\ \A c \in trxErrorMap(n) : FourBytes(c) /\ TrxErrName[c + 1] = n
         /\ \A c \in instructionErrorMap(n) : FourBytes(c) /\ InstructionErrorName[c + 1] = n
<1>1. Len(TrxErrName) = 37 /\ Len(InstructionErrorName) = 54
  BY DEF TrxErrName, InstructionErrorName
<1>2. \A c \in 0 .. 54 : FourBytes(c)
  BY DEF FourBytes
<1> QED
  BY <1>1, <1>2 DEF trxErrorMap, instructionErrorMap, CodesOf

(* The kinds of instruction error a node may send, one newer than the      *)
(* tables included.                                                        *)
Plain(x) == \E n : x = Str(n) /\ n \notin DetailedInstruction
Custom(x) == \E c : FourBytes(c) /\ x = Obj("Custom", Num(c))
Borsh(x) == \E m \in Seq(Byte256) : FourBytes(Len(m)) /\ x = Obj("BorshIoError", Text(m))

Made(i, c, d) == [kind |-> "instruction", index |-> i, code |-> c, detail |-> d]

(* The detail an instruction error gets, read back from its bytes.         *)
DetailBack(name, b, x) ==
  x = CASE name = "Custom" -> Obj(name, Num(Uint32At(b, 1)))
        [] name = "BorshIoError" -> Obj(name, Text(SubSeq(b, 9, 8 + Uint32At(b, 1))))
        [] OTHER -> Str(name)

LEMMA DetailIs ==
  ASSUME NEW i \in Byte256, NEW x, Plain(x) \/ Custom(x) \/ Borsh(x),
         NEW t \in MustNewInstructionError(Arr(<<Num(i), x>>))
  PROVE  \E n, d : \E c \in instructionErrorMap(n) :
           /\ t = Made(i, c, d) /\ EncodeDetail(d) \in Seq(Byte256)
           /\ DetailBack(n, EncodeDetail(d), x)
<1> DEFINE v == Arr(<<Num(i), x>>)
<1>1. /\ v.type = "slice" /\ Len(v.elems) = 2 /\ v.elems[2] = x /\ v.elems[1].num = i
  BY DEF Arr, Num
<1>2. UInt8(i) = i
  BY DEF UInt8, Byte256
<1> HIDE DEF v
<1>3. t \in CASE x.type = "string" -> {Made(i, c, None) : c \in instructionErrorMap(x.name)}
              [] x.type = "map" ->
                   UNION {{Made(i, c, d) : d \in InstructionDetail(c, x.val)}
                          : c \in instructionErrorMap(x.key)}
              [] OTHER -> {}
  <2>1. t \in MustNewInstructionError(v)
    BY DEF v
  <2> QED
    BY <1>1, <1>2, <2>1 DEF MustNewInstructionError, Made
<1>4. CASE Plain(x)
  <2>1. PICK n : x = Str(n) /\ n \notin DetailedInstruction
    BY <1>4 DEF Plain
  <2>2. x.type = "string" /\ x.name = n
    BY <2>1 DEF Str
  <2>3. PICK c \in instructionErrorMap(n) : t = Made(i, c, None)
    BY <1>3, <2>2
  <2>4. EncodeDetail(None) = <<>>
    BY DEF EncodeDetail, None
  <2>5. DetailBack(n, <<>>, x) /\ <<>> \in Seq(Byte256)
    BY <2>1 DEF DetailBack, DetailedInstruction
  <2> QED
    BY <2>3, <2>4, <2>5
<1>5. CASE Custom(x)
  <2>1. PICK k : FourBytes(k) /\ x = Obj("Custom", Num(k))
    BY <1>5 DEF Custom
  <2>2. x.type = "map" /\ x.key = "Custom" /\ x.val = Num(k)
    BY <2>1 DEF Obj
  <2>3. PICK c \in instructionErrorMap("Custom") : \E d \in InstructionDetail(c, Num(k)) : t = Made(i, c, d)
    BY <1>3, <2>2
  <2>4. PICK d \in InstructionDetail(c, Num(k)) : t = Made(i, c, d)
    BY <2>3
  <2>5. d = [kind |-> "custom", code |-> k]
    BY <2>4 DEF InstructionDetail, MustNewInstructionCustomError, MustNewBorshIoError, Num
  <2>6. EncodeDetail(d) = WriteUint32(k)
    BY <2>5 DEF EncodeDetail, EncodeCustom
  <2>7. WriteUint32(k) \in Seq(Byte256) /\ Uint32At(WriteUint32(k), 1) = k
    BY <2>1, ReadBack
  <2>8. DetailBack("Custom", WriteUint32(k), x)
    BY <2>1, <2>7 DEF DetailBack
  <2> QED
    BY <2>4, <2>6, <2>7, <2>8
<1>6. CASE Borsh(x)
  <2>1. PICK m \in Seq(Byte256) : FourBytes(Len(m)) /\ x = Obj("BorshIoError", Text(m))
    BY <1>6 DEF Borsh
  <2>2. x.type = "map" /\ x.key = "BorshIoError" /\ x.val = Text(m)
    BY <2>1 DEF Obj
  <2>3. PICK c \in instructionErrorMap("BorshIoError") :
          \E d \in InstructionDetail(c, Text(m)) : t = Made(i, c, d)
    BY <1>3, <2>2
  <2>4. PICK d \in InstructionDetail(c, Text(m)) : t = Made(i, c, d)
    BY <2>3
  <2>5. d = [kind |-> "borsh", msg |-> m]
    BY <2>4 DEF InstructionDetail, MustNewInstructionCustomError, MustNewBorshIoError, Text
  <2>6. EncodeDetail(d) = WriteString(m)
    BY <2>5 DEF EncodeDetail, EncodeBorshIo
  <2>7. /\ WriteString(m) \in Seq(Byte256) /\ Uint32At(WriteString(m), 1) = Len(m)
        /\ SubSeq(WriteString(m), 9, 8 + Len(m)) = m
    BY <2>1, StringBack
  <2>8. DetailBack("BorshIoError", WriteString(m), x)
    BY <2>1, <2>7 DEF DetailBack
  <2> QED
    BY <2>4, <2>6, <2>7, <2>8
<1> QED
  BY <1>4, <1>5, <1>6

LEMMA InstructionBack ==
  ASSUME NEW i \in Byte256, NEW x, Plain(x) \/ Custom(x) \/ Borsh(x),
         NEW t \in MustNewInstructionError(Arr(<<Num(i), x>>))
  PROVE  /\ t.kind = "instruction" /\ EncodeInstruction(t) \in Seq(Byte256)
         /\ DecodeInstruction(EncodeInstruction(t)) = Arr(<<Num(i), x>>)
<1>1. PICK n, d : \E c \in instructionErrorMap(n) :
           /\ t = Made(i, c, d) /\ EncodeDetail(d) \in Seq(Byte256)
           /\ DetailBack(n, EncodeDetail(d), x)
  BY DetailIs
<1>2. PICK c \in instructionErrorMap(n) :
           /\ t = Made(i, c, d) /\ EncodeDetail(d) \in Seq(Byte256)
           /\ DetailBack(n, EncodeDetail(d), x)
  BY <1>1
<1> DEFINE s == EncodeDetail(d)
           b == EncodeInstruction(t)
<1>3. FourBytes(c) /\ InstructionErrorName[c + 1] = n
  BY CodeOf
<1>4. b = <<i>> \o WriteUint32(c) \o s
  BY <1>2 DEF EncodeInstruction, Made
<1> HIDE DEF s, b
<1>5. b \in Seq(Byte256) /\ b[1] = i /\ Uint32At(b, 2) = c /\ SubSeq(b, 6, Len(b)) = s
  BY <1>2, <1>3, <1>4, IndexThen DEF s
<1>6. DetailBack(n, s, x)
  BY <1>2 DEF s
<1>7. DecodeInstruction(b) = Arr(<<Num(i), x>>)
  BY <1>3, <1>5, <1>6 DEF DecodeInstruction, DetailBack
<1>8. t.kind = "instruction"
  BY <1>2 DEF Made
<1> QED
  BY <1>5, <1>7, <1>8 DEF b

-----------------------------------------------------------------------------
(* The kinds of error a node may send.                                     *)
Unit(x) == \E n : x = Str(n) /\ n \notin DetailedTrx
Instruction(x) ==
  \E i \in Byte256 : \E y :
    (Plain(y) \/ Custom(y) \/ Borsh(y)) /\ x = Obj("InstructionError", Arr(<<Num(i), y>>))
Account(x) ==
  \E n \in AccountIndexed, i \in Byte256 : x = Obj(n, Obj("account_index", Num(i)))
Number(x) == \E n, i : x = Obj(n, Num(i))

LEMMA InstructionKinds ==
  ASSUME NEW x \in InstructionJson
  PROVE  Plain(x) \/ Custom(x) \/ Borsh(x)
<1>1. CASE x \in {Str(n) : n \in Names(InstructionErrorName) \ DetailedInstruction}
  BY <1>1 DEF Plain
<1>2. CASE x \in {Obj("Custom", Num(c)) : c \in CustomCode}
  BY <1>2, InputsAssumption DEF Custom
<1>3. CASE x \in {Obj("BorshIoError", Text(m)) : m \in Message}
  BY <1>3, InputsAssumption DEF Borsh, Byte256
<1> QED
  BY <1>1, <1>2, <1>3 DEF InstructionJson

(* The known errors, one by one.                                           *)
IsUnit(x) == \E n \in Names(TrxErrName) : x = Str(n) /\ n \notin DetailedTrx
IsInstruction(x) ==
  \E i \in Index, y \in InstructionJson : x = Obj("InstructionError", Arr(<<Num(i), y>>))
IsAccount(x) ==
  \E n \in AccountIndexed, i \in Index : x = Obj(n, Obj("account_index", Num(i)))

LEMMA KnownKinds ==
  ASSUME NEW x \in KnownJson
  PROVE  IsUnit(x) \/ IsInstruction(x) \/ IsAccount(x)
<1>1. CASE x \in {Str(n) : n \in Names(TrxErrName) \ DetailedTrx}
  BY <1>1 DEF IsUnit
<1>2. CASE x \in {Obj("InstructionError", Arr(<<Num(i), y>>)) : i \in Index, y \in InstructionJson}
  BY <1>2 DEF IsInstruction
<1>3. CASE x \in {Obj(n, Obj("account_index", Num(i))) : n \in AccountIndexed, i \in Index}
  BY <1>3 DEF IsAccount
<1> QED
  BY <1>1, <1>2, <1>3 DEF KnownJson

LEMMA Kinds ==
  ASSUME NEW x \in KnownJson \cup DuplicateJson \cup UnknownJson
  PROVE  Unit(x) \/ Instruction(x) \/ Account(x) \/ Number(x)
<1>1. Index \subseteq Byte256 /\ 0 \in Byte256
  BY InputsAssumption DEF Byte256
<1>2. CASE IsUnit(x)
  BY <1>2 DEF IsUnit, Unit
<1>3. CASE IsInstruction(x)
  <2>1. PICK i \in Index, y \in InstructionJson : x = Obj("InstructionError", Arr(<<Num(i), y>>))
    BY <1>3 DEF IsInstruction
  <2>2. i \in Byte256 /\ (Plain(y) \/ Custom(y) \/ Borsh(y))
    BY <1>1, InstructionKinds
  <2> QED
    BY <2>1, <2>2 DEF Instruction
<1>4. CASE IsAccount(x)
  BY <1>1, <1>4 DEF IsAccount, Account
<1>5. CASE x \in DuplicateJson
  BY <1>5 DEF DuplicateJson, Number
<1>6. CASE x \in UnknownJson
  <2>1. Plain(Str("NewerError")) /\ Unit(Str("NewerError"))
    BY DEF Plain, Unit, DetailedInstruction, DetailedTrx, AccountIndexed
  <2>2. Instruction(Obj("InstructionError", Arr(<<Num(0), Str("NewerError")>>)))
    BY <1>1, <2>1 DEF Instruction
  <2> QED
    BY <1>6, <2>1, <2>2 DEF UnknownJson, Number
<1> QED
  BY <1>2, <1>3, <1>4, <1>5, <1>6, KnownKinds

(* What the decoder makes of a name and of the bytes after its code.       *)
ReadAs(n, s) ==
  CASE n = "InstructionError" -> Obj(n, DecodeInstruction(s))
    [] n = "DuplicateInstruction" -> Obj(n, Num(s[1]))
    [] n \in AccountIndexed -> Obj(n, Obj("account_index", Num(s[1])))
    [] OTHER -> Str(n)

(* An error that is converted is read back from its bytes.                 *)
LEMMA ErrorBack ==
  ASSUME NEW x, Unit(x) \/ Instruction(x) \/ Account(x) \/ Number(x),
         NEW t \in MustNewTransactionError(x)
  PROVE  Encode(t) \in Seq(Byte256) /\ Decode(Encode(t)) = x
<1>1. ASSUME NEW n, NEW c \in trxErrorMap(n), NEW d, t = [code |-> c, detail |-> d],
             NEW s \in Seq(Byte256), Encode(t) = WriteUint32(c) \o s
      PROVE  Encode(t) \in Seq(Byte256) /\ Decode(Encode(t)) = ReadAs(n, s)
  <2> DEFINE b == Encode(t)
  <2>1. FourBytes(c) /\ TrxErrName[c + 1] = n
    BY CodeOf
  <2>2. b = WriteUint32(c) \o s
    BY <1>1
  <2> HIDE DEF b
  <2>3. b \in Seq(Byte256) /\ Uint32At(b, 1) = c /\ SubSeq(b, 5, Len(b)) = s
    BY <2>1, <2>2, NumberThen
  <2>4. Decode(b) = ReadAs(n, s)
    BY <2>1, <2>3 DEF Decode, ReadAs
  <2> QED
    BY <2>3, <2>4 DEF b
<1>2. CASE Unit(x)
  <2>1. PICK n : x = Str(n) /\ n \notin DetailedTrx
    BY <1>2 DEF Unit
  <2>2. PICK c \in trxErrorMap(n) : t = [code |-> c, detail |-> None]
    BY <2>1 DEF MustNewTransactionError, Str
  <2>3. <<>> \in Seq(Byte256)
    OBVIOUS
  <2>4. EncodeDetail(None) = <<>> /\ None.kind = "none"
    BY DEF EncodeDetail, None
  <2>5. t.code = c /\ t.detail = None
    BY <2>2
  <2>6. Encode(t) = WriteUint32(c) \o <<>>
    BY <2>4, <2>5 DEF Encode
  <2>7. n # "InstructionError" /\ n # "DuplicateInstruction" /\ n \notin AccountIndexed
    BY <2>1 DEF DetailedTrx
  <2> QED
    BY <1>1, <2>1, <2>2, <2>3, <2>7, <2>6 DEF ReadAs
<1>3. ASSUME NEW n, NEW v, x = Obj(n, v)
      PROVE  \E c \in trxErrorMap(n) : \E d \in TrxDetail(c, v) : t = [code |-> c, detail |-> d]
  <2>1. x.type = "map" /\ x.key = n /\ x.val = v
    BY <1>3 DEF Obj
  <2> QED
    BY <2>1 DEF MustNewTransactionError
<1>4. CASE Instruction(x)
  <2>1. PICK i \in Byte256 : \E y :
          (Plain(y) \/ Custom(y) \/ Borsh(y)) /\ x = Obj("InstructionError", Arr(<<Num(i), y>>))
    BY <1>4 DEF Instruction
  <2>2. PICK y :
          (Plain(y) \/ Custom(y) \/ Borsh(y)) /\ x = Obj("InstructionError", Arr(<<Num(i), y>>))
    BY <2>1
  <2> DEFINE v == Arr(<<Num(i), y>>)
  <2>3. PICK c \in trxErrorMap("InstructionError") :
          \E d \in TrxDetail(c, v) : t = [code |-> c, detail |-> d]
    BY <1>3, <2>2
  <2>4. PICK d \in TrxDetail(c, v) : t = [code |-> c, detail |-> d]
    BY <2>3
  <2>5. v.type = "slice"
    BY DEF Arr
  <2> HIDE DEF v
  <2>6. d \in MustNewInstructionError(v)
    BY <2>4, <2>5
    DEF TrxDetail, MustNewDuplicateInstructionError, MustNewAccountIndexError
  <2>7. /\ d.kind = "instruction" /\ EncodeInstruction(d) \in Seq(Byte256)
        /\ DecodeInstruction(EncodeInstruction(d)) = v
    BY <2>2, <2>6, InstructionBack DEF v
  <2>8. Encode(t) = WriteUint32(c) \o EncodeInstruction(d)
    BY <2>4, <2>7 DEF Encode
  <2> DEFINE b == EncodeInstruction(d)
  <2> HIDE DEF b
  <2>9. /\ Encode(t) \in Seq(Byte256)
        /\ Decode(Encode(t)) = ReadAs("InstructionError", b)
    <3>1. b \in Seq(Byte256) /\ Encode(t) = WriteUint32(c) \o b
      BY <2>7, <2>8 DEF b
    <3> QED
      BY <1>1, <2>4, <3>1
  <2>10. ReadAs("InstructionError", b) = Obj("InstructionError", DecodeInstruction(b))
    BY DEF ReadAs, AccountIndexed
  <2>11. DecodeInstruction(b) = v
    BY <2>7 DEF b
  <2>12. x = Obj("InstructionError", v)
    BY <2>2 DEF v
  <2> QED
    BY <2>9, <2>10, <2>11, <2>12
<1>5. CASE Account(x)
  <2>1. PICK n \in AccountIndexed, i \in Byte256 : x = Obj(n, Obj("account_index", Num(i)))
    BY <1>5 DEF Account
  <2> DEFINE v == Obj("account_index", Num(i))
  <2>2. PICK c \in trxErrorMap(n) : \E d \in TrxDetail(c, v) : t = [code |-> c, detail |-> d]
    BY <1>3, <2>1
  <2>3. PICK d \in TrxDetail(c, v) : t = [code |-> c, detail |-> d]
    BY <2>2
  <2>4. v.type = "map" /\ v.val.num = i
    BY DEF Obj, Num
  <2> HIDE DEF v
  <2>5. UInt8(i) = i
    BY DEF UInt8, Byte256
  <2>6. d = Byte(i)
    BY <2>3, <2>4, <2>5
    DEF TrxDetail, MustNewInstructionError, MustNewDuplicateInstructionError,
        MustNewAccountIndexError
  <2>7. Encode(t) = WriteUint32(c) \o <<i>> /\ <<i>> \in Seq(Byte256) /\ <<i>>[1] = i
    BY <2>3, <2>6 DEF Encode, EncodeDetail, EncodeByte, Byte
  <2>8. n # "InstructionError" /\ n # "DuplicateInstruction"
    BY <2>1 DEF AccountIndexed
  <2> QED
    BY <1>1, <2>1, <2>3, <2>7, <2>8 DEF ReadAs
<1>6. CASE Number(x)
  <2>1. PICK n, i : x = Obj(n, Num(i))
    BY <1>6 DEF Number
  <2>2. PICK c \in trxErrorMap(n) : \E d \in TrxDetail(c, Num(i)) : t = [code |-> c, detail |-> d]
    BY <1>3, <2>1
  <2>3. TrxDetail(c, Num(i)) = {}
    BY DEF TrxDetail, MustNewInstructionError, MustNewDuplicateInstructionError,
           MustNewAccountIndexError, Num
  <2> QED
    BY <2>2, <2>3
<1> QED
  BY <1>2, <1>4, <1>5, <1>6
-----------------------------------------------------------------------------
(* A name of a table has a code.                                           *)
LEMMA HasCode ==
  /\ \A n \in Names(TrxErrName) : trxErrorMap(n) # {}
  /\ \A n \in Names(InstructionErrorName) : instructionErrorMap(n) # {}
  BY DEF Names, trxErrorMap, instructionErrorMap, CodesOf

(* The codes of the errors that carry something.                           *)
LEMMA DetailedCodes ==
  /\ 8 \in trxErrorMap("InstructionError")
  /\ 31 \in trxErrorMap("InsufficientFundsForRent")
  /\ 35 \in trxErrorMap("ProgramExecutionTemporarilyRestricted")
  /\ 25 \in instructionErrorMap("Custom")
  /\ 44 \in instructionErrorMap("BorshIoError")
<1>1. ASSUME NEW names, NEW j \in 1 .. Len(names)
      PROVE  j - 1 \in CodesOf(names, names[j])
  BY DEF CodesOf
<1>2. Len(TrxErrName) = 37 /\ Len(InstructionErrorName) = 54
  BY DEF TrxErrName, InstructionErrorName
<1>3. /\ TrxErrName[9] = "InstructionError"
      /\ TrxErrName[32] = "InsufficientFundsForRent"
      /\ TrxErrName[36] = "ProgramExecutionTemporarilyRestricted"
      /\ InstructionErrorName[26] = "Custom"
      /\ InstructionErrorName[45] = "BorshIoError"
  BY DEF TrxErrName, InstructionErrorName
<1> DEFINE T == TrxErrName
           I == InstructionErrorName
<1> HIDE DEF T, I
<1>4. /\ 9 - 1 \in CodesOf(T, T[9]) /\ 32 - 1 \in CodesOf(T, T[32])
      /\ 36 - 1 \in CodesOf(T, T[36]) /\ 26 - 1 \in CodesOf(I, I[26])
      /\ 45 - 1 \in CodesOf(I, I[45])
  <2>1. /\ 9 \in 1 .. Len(T) /\ 32 \in 1 .. Len(T) /\ 36 \in 1 .. Len(T)
        /\ 26 \in 1 .. Len(I) /\ 45 \in 1 .. Len(I)
    BY <1>2 DEF T, I
  <2> QED
    BY <1>1, <2>1
<1> QED
  BY <1>3, <1>4 DEF trxErrorMap, instructionErrorMap, T, I

(* An instruction error of the tables is made.                             *)
LEMMA InstructionMade ==
  ASSUME NEW i, NEW x \in InstructionJson
  PROVE  MustNewInstructionError(Arr(<<Num(i), x>>)) # {}
<1> DEFINE v == Arr(<<Num(i), x>>)
<1>1. v.type = "slice" /\ Len(v.elems) = 2 /\ v.elems[2] = x /\ v.elems[1].num = i
  BY DEF Arr, Num
<1> HIDE DEF v
<1>2. MustNewInstructionError(v) =
        CASE x.type = "string" -> {Made(UInt8(i), c, None) : c \in instructionErrorMap(x.name)}
          [] x.type = "map" ->
               UNION {{Made(UInt8(i), c, d) : d \in InstructionDetail(c, x.val)}
                      : c \in instructionErrorMap(x.key)}
          [] OTHER -> {}
  BY <1>1 DEF MustNewInstructionError, Made
<1>3. CASE x \in {Str(n) : n \in Names(InstructionErrorName) \ DetailedInstruction}
  <2>1. PICK n \in Names(InstructionErrorName) : x = Str(n)
    BY <1>3
  <2>2. x.type = "string" /\ x.name = n
    BY <2>1 DEF Str
  <2>3. PICK c : c \in instructionErrorMap(n)
    BY HasCode
  <2> QED
    BY <1>2, <2>2, <2>3 DEF v
<1>4. ASSUME NEW k, NEW w, NEW c \in instructionErrorMap(k), x = Obj(k, w),
             InstructionDetail(c, w) # {}
      PROVE  MustNewInstructionError(v) # {}
  <2>1. x.type = "map" /\ x.key = k /\ x.val = w
    BY <1>4 DEF Obj
  <2>2. PICK d : d \in InstructionDetail(c, w)
    BY <1>4
  <2> QED
    BY <1>2, <2>1, <2>2
<1>5. CASE x \in {Obj("Custom", Num(c)) : c \in CustomCode}
  <2>1. PICK k : x = Obj("Custom", Num(k))
    BY <1>5
  <2>2. InstructionDetail(25, Num(k)) # {}
    <3>1. MustNewInstructionCustomError(Num(k)) = {[kind |-> "custom", code |-> k]}
      BY DEF MustNewInstructionCustomError, Num
    <3>2. InstructionDetail(25, Num(k)) = MustNewInstructionCustomError(Num(k))
      BY DEF InstructionDetail
    <3> QED
      BY <3>1, <3>2
  <2> QED
    BY <1>4, <2>1, <2>2, DetailedCodes DEF v
<1>6. CASE x \in {Obj("BorshIoError", Text(m)) : m \in Message}
  <2>1. PICK m : x = Obj("BorshIoError", Text(m))
    BY <1>6
  <2>2. InstructionDetail(44, Text(m)) # {}
    <3>1. MustNewBorshIoError(Text(m)) = {[kind |-> "borsh", msg |-> m]}
      BY DEF MustNewBorshIoError, Text
    <3>2. InstructionDetail(44, Text(m)) = MustNewBorshIoError(Text(m))
      BY DEF InstructionDetail
    <3> QED
      BY <3>1, <3>2
  <2> QED
    BY <1>4, <2>1, <2>2, DetailedCodes DEF v
<1> QED
  BY <1>3, <1>5, <1>6 DEF InstructionJson

LEMMA KnownMade ==
  ASSUME NEW x \in KnownJson
  PROVE  MustNewTransactionError(x) # {}
<1>1. CASE IsUnit(x)
  <2>1. PICK n \in Names(TrxErrName) : x = Str(n)
    BY <1>1 DEF IsUnit
  <2>2. x.type = "string" /\ x.name = n
    BY <2>1 DEF Str
  <2>3. PICK c : c \in trxErrorMap(n)
    BY HasCode
  <2> QED
    BY <2>2, <2>3 DEF MustNewTransactionError
<1>2. ASSUME NEW k, NEW w, NEW c \in trxErrorMap(k), x = Obj(k, w), TrxDetail(c, w) # {}
      PROVE  MustNewTransactionError(x) # {}
  <2>1. x.type = "map" /\ x.key = k /\ x.val = w
    BY <1>2 DEF Obj
  <2>2. PICK d : d \in TrxDetail(c, w)
    BY <1>2
  <2>3. MustNewTransactionError(x) =
          UNION {{[code |-> a, detail |-> b] : b \in TrxDetail(a, w)} : a \in trxErrorMap(k)}
    BY <2>1 DEF MustNewTransactionError
  <2>4. [code |-> c, detail |-> d] \in MustNewTransactionError(x)
    BY <2>2, <2>3
  <2> QED
    BY <2>4
<1>3. CASE IsInstruction(x)
  <2>1. PICK i \in Index, y \in InstructionJson : x = Obj("InstructionError", Arr(<<Num(i), y>>))
    BY <1>3 DEF IsInstruction
  <2> DEFINE v == Arr(<<Num(i), y>>)
  <2>2. MustNewInstructionError(v) # {}
    BY InstructionMade
  <2> HIDE DEF v
  <2>3. TrxDetail(8, v) # {}
    BY <2>2 DEF TrxDetail
  <2>4. x = Obj("InstructionError", v)
    BY <2>1 DEF v
  <2> QED
    BY <1>2, <2>3, <2>4, DetailedCodes
<1>4. CASE IsAccount(x)
  <2>1. PICK n \in AccountIndexed, i \in Index : x = Obj(n, Obj("account_index", Num(i)))
    BY <1>4 DEF IsAccount
  <2> DEFINE v == Obj("account_index", Num(i))
  <2>2. v.type = "map" /\ v.key = "account_index" /\ v.val.type = "float64"
    BY DEF Obj, Num
  <2> HIDE DEF v
  <2>3. MustNewAccountIndexError(v) # {}
    BY <2>2 DEF MustNewAccountIndexError
  <2>4. TrxDetail(31, v) # {} /\ TrxDetail(35, v) # {}
    BY <2>3 DEF TrxDetail
  <2>5. PICK c \in {31, 35} : c \in trxErrorMap(n)
    BY DetailedCodes DEF AccountIndexed
  <2>6. x = Obj(n, v)
    BY <2>1 DEF v
  <2> QED
    BY <1>2, <2>4, <2>5, <2>6
<1> QED
  BY <1>1, <1>3, <1>4, KnownKinds

-----------------------------------------------------------------------------
(***************************************************************************)
(* The inductive invariant: the bytes are those of an error that was made  *)
(* from e, and a panic is an error nothing is made from.  The properties   *)
(* speak of err and outcome alone, and err forgets where it came from.     *)
(***************************************************************************)
EInv ==
  /\ e \in KnownJson \cup DuplicateJson \cup UnknownJson
  /\ \/ outcome = "none" /\ err = <<>>
     \/ outcome = "panic" /\ err = <<>> /\ MustNewTransactionError(e) = {}
     \/ outcome = "ok" /\ \E t \in MustNewTransactionError(e) : err = Encode(t)

LEMMA Inductive == Spec => []EInv
<1>1. Init => EInv
  BY DEF Init, EInv
<1>2. EInv /\ [Next]_vars => EInv'
  <2> SUFFICES ASSUME EInv, [Next]_vars PROVE EInv'
    OBVIOUS
  <2>1. CASE toPbTransactionError
    BY <2>1 DEF EInv, toPbTransactionError
  <2>2. CASE UNCHANGED vars
    BY <2>2 DEF EInv, vars
  <2> QED
    BY <2>1, <2>2 DEF Next
<1> QED
  BY <1>1, <1>2, PTL DEF Spec

(* What is stored is a sequence of bytes that Solana's decoder reads back  *)
(* as the error that was sent.                                             *)
LEMMA Stored ==
  ASSUME EInv
  PROVE  TypeOK /\ RoundTrip
<1>1. CASE outcome # "ok"
  <2>1. <<>> \in Seq(0 .. 255)
    OBVIOUS
  <2> QED
    BY <1>1, <2>1 DEF EInv, TypeOK, RoundTrip
<1>2. CASE outcome = "ok"
  <2>1. PICK t \in MustNewTransactionError(e) : err = Encode(t)
    BY <1>2 DEF EInv
  <2>2. Unit(e) \/ Instruction(e) \/ Account(e) \/ Number(e)
    BY Kinds DEF EInv
  <2>3. Encode(t) \in Seq(Byte256) /\ Decode(Encode(t)) = e
    BY <2>1, <2>2, ErrorBack
  <2> QED
    BY <1>2, <2>1, <2>3 DEF TypeOK, RoundTrip, Byte256
<1> QED
  BY <1>1, <1>2

(***************************************************************************)
(* The stored error is a sequence of bytes, whatever the node sent: no     *)
(* index, code or length spills over its bytes (error.go:425-498).         *)
(***************************************************************************)
THEOREM TypeCorrect == Spec => []TypeOK
  BY Inductive, Stored, PTL

(***************************************************************************)
(* A decoder of Solana's format reads from the stored bytes exactly the    *)
(* error the node sent, for every error of both tables, every index and    *)
(* custom code, and every message of BorshIoError (error.go:241-254,       *)
(* 425-498).                                                               *)
(***************************************************************************)
THEOREM ErrorsRoundTrip == Spec => []RoundTrip
  BY Inductive, Stored, PTL

(***************************************************************************)
(* No error of the tables but DuplicateInstruction stops the process       *)
(* (error.go:101-153, 378-423).                                            *)
(***************************************************************************)
THEOREM KnownErrorsConverted == Spec => []KnownConverted
<1>1. EInv => KnownConverted
  BY KnownMade DEF EInv, KnownConverted
<1> QED
  BY <1>1, Inductive, PTL
=============================================================================
