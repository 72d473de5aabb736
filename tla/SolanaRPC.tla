----------------------------- MODULE SolanaRPC -----------------------------
(***************************************************************************)
(* The Solana RPC endpoints as the fetcher sees them through               *)
(* solana-go's rpc.Client.  The code of the endpoints is not part of the   *)
(* repository: this module states what block/fetcher/rpc.go relies on.     *)
(*                                                                         *)
(* Every endpoint knows a prefix of the ledger's history; endpoints        *)
(* advance independently, so one may lag another.                          *)
(***************************************************************************)
EXTENDS Ledger

CONSTANT NumClients   \* number of --endpoints; they are tried in this order

ASSUME ClientsAssumption == NumClients \in Nat \ {0}

VARIABLES
  confirmed,    \* per endpoint, its tip at commitment "confirmed"
  finalized     \* per endpoint, its tip at commitment "finalized"

ledgerVars == <<confirmed, finalized>>

Client == 1 .. NumClients

LedgerTypeOK ==
  /\ confirmed \in [Client -> Produced]
  /\ finalized \in [Client -> Produced]

LedgerInit ==
  /\ confirmed = [c \in Client |-> 0]
  /\ finalized = [c \in Client |-> 0]

(* An endpoint learns of newer confirmed, then finalized, blocks.          *)
Confirm(c) ==
  /\ \E s \in Produced : s > confirmed[c] /\ confirmed' = [confirmed EXCEPT ![c] = s]
  /\ UNCHANGED finalized

Finalize(c) ==
  /\ \E s \in Produced :
       /\ finalized[c] < s /\ s <= confirmed[c]
       /\ finalized' = [finalized EXCEPT ![c] = s]
  /\ UNCHANGED confirmed

(***************************************************************************)
(* What getBlock answers.  A slot beyond the endpoint's tip is "not        *)
(* available" (-32004); a slot the endpoint knows to be skipped is         *)
(* answered by -32007 or -32009, and by -32004 on some endpoints.          *)
(* Independently of all that the call can break ("transport", which        *)
(* includes an answer without a block) or be refused with another JSON-RPC *)
(* error ("otherRPC", such as -32005, node behind).                        *)
(***************************************************************************)
RPCError == {"-32004", "-32007", "-32009", "otherRPC"}

GetBlockAnswers(c, s) ==
  IF s > confirmed[c] THEN {"-32004"}
  ELSE IF s \in Produced THEN {"block"}
  ELSE {"-32004", "-32007", "-32009"}

GetBlockFaults == {"transport", "otherRPC"}
=============================================================================
