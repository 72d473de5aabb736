------------------------- MODULE MCBlockConversion -------------------------
(***************************************************************************)
(* An instance of BlockConversion for TLC: answers that differ from a      *)
(* plain one in one or two places.                                         *)
(***************************************************************************)
EXTENDS BlockConversion

R(pubkey, lamports, type) ==
  [pubkey |-> pubkey, lamports |-> lamports, rewardType |-> type, commission |-> Nil]

Instr(accounts, height) == [accounts |-> accounts, stackHeight |-> height, rest |-> "i"]

Bal(owner, program, amount) ==
  [owner |-> owner, programId |-> program, uiTokenAmount |-> amount, rest |-> "b"]

Trx(meta, transaction) == [meta |-> meta, transaction |-> transaction]

Sound == [instructions |-> <<Instr(<<0>>, 0)>>, rest |-> "t"]

Plain ==
  [slot |-> 7, blockhash |-> "h7", previousBlockhash |-> "h5", parentSlot |-> 5,
   blockTime |-> 9, blockHeight |-> 6, transactions |-> <<>>, rewards |-> <<>>]

(* Slot 8 is the block whose previous hash nodes return as zeroes.         *)
MCBlockToPatch == [h \in {"h8"} |-> "h7"]

Headers ==
  {[Plain EXCEPT !.blockTime = t, !.blockHeight = h] : t \in {Nil, 0, 9}, h \in {Nil, 0, 6}}
  \cup {[Plain EXCEPT !.slot = 8, !.blockhash = "h8", !.parentSlot = 7, !.previousBlockhash = p] :
          p \in {"h7", "zero"}}

RewardLists ==
  {<<>>, <<R("a", 2, "fee"), R("b", 1, "rent"), R("c", -1, "rent")>>,
   <<R("c", -1, "rent"), R("a", 2, "fee"), R("b", 1, "rent")>>,
   <<R("a", 1, "voting"), R("b", 1, "staking")>>, <<R("b", 1, "staking"), R("a", 1, "voting")>>,
   <<R("a", 1, "voting"), R("b", 1, "")>>,
   <<[R("a", 1, "voting") EXCEPT !.commission = 10]>>, <<R("a", 1, "voting")>>}

Metas ==
  {Nil, EmptyMeta}
  \cup {[EmptyMeta EXCEPT !.err = e] : e \in {"InsufficientFunds", "Unheard"}}
  \cup {[EmptyMeta EXCEPT !.innerInstructions = <<Instr(<<a>>, h)>>] :
          a \in {0, 255, 256}, h \in {0, 1}}
  \cup {[EmptyMeta EXCEPT !.preTokenBalances = <<Bal(o, p, u)>>] :
          o \in {Nil, "a"}, p \in {SystemProgram, "token"},
          u \in {Nil, [uiAmount |-> Nil, rest |-> "u"], [uiAmount |-> 0, rest |-> "u"]}}
  \cup {[EmptyMeta EXCEPT !.postTokenBalances = <<Bal("a", "token", Nil)>>]}
  \cup {[EmptyMeta EXCEPT !.returnData = [data |-> d, programId |-> p]] :
          d \in {"d", Malformed}, p \in {"token", Malformed}}
  \cup {[EmptyMeta EXCEPT !.rewards = rs] : rs \in RewardLists}

Transactions ==
  {Trx(m, Sound) : m \in Metas}
  \cup {Trx(EmptyMeta, Nil)}
  \cup {Trx(EmptyMeta, [Sound EXCEPT !.instructions = <<Instr(<<a>>, 0)>>]) :
          a \in {255, 256}}

(* Two transactions, so that the order of their failures shows.            *)
Pairs ==
  LET odd == {Trx([EmptyMeta EXCEPT !.returnData = [data |-> Malformed, programId |-> "token"]], Nil),
              Trx([EmptyMeta EXCEPT !.err = "Unheard"], Sound), Trx(Nil, Nil), Trx(Nil, Sound)}
  IN  {<<t, u>> : t, u \in odd}

MCAnswer ==
  Headers
  \cup {[Plain EXCEPT !.rewards = rs] : rs \in RewardLists}
  \cup {[Plain EXCEPT !.transactions = <<t>>] : t \in Transactions}
  \cup {[Plain EXCEPT !.transactions = ts] : ts \in Pairs}

MCSymmetry == Permutations(Node)
=============================================================================
