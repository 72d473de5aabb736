---------------------------- MODULE SolanaBlock ----------------------------
(***************************************************************************)
(* A stored block: the Firehose header (pbbstream.Block) around the Solana *)
(* block it carries as its payload.  pb/sf/solana/type/v1/type.go says     *)
(* what the header's fields are in terms of the payload, and both the RPC  *)
(* conversion and the upgrader put the block rewards in order.             *)
(***************************************************************************)
EXTENDS Integers, Sequences, FiniteSets, Functions

CONSTANT Nil    \* an optional field that is absent

GetFirehoseBlockID(x) == x.blockhash
GetFirehoseBlockNumber(x) == x.slot
GetFirehoseBlockParentNumber(x) == x.parentSlot
GetFirehoseBlockParentID(x) == x.previousBlockhash

(* A block without a time is dated to the Unix epoch.                      *)
GetFirehoseBlockTime(x) == IF x.blockTime = Nil THEN 0 ELSE x.blockTime

(* The time a reader of the header sees: an absent timestamp is the epoch. *)
AsTime(timestamp) == IF timestamp = Nil THEN 0 ELSE timestamp

-----------------------------------------------------------------------------
Unsorted(rewards) == {rewards}

(* The results slices.SortFunc may leave, comparing lamports.  It is not   *)
(* stable on lists of more than twelve elements, which the short lists of  *)
(* an instance stand for: equal lamports come in any order.                *)
SortFunc(rewards) ==
  {s \in {[i \in DOMAIN rewards |-> rewards[p[i]]] :
            p \in Bijection(DOMAIN rewards, DOMAIN rewards)} :
     \A i \in 1 .. Len(s) - 1 : s[i].lamports <= s[i + 1].lamports}

-----------------------------------------------------------------------------
(* The header b says of its payload what type.go says of it.               *)
HeaderOfPayload(b) ==
  /\ b.number = GetFirehoseBlockNumber(b.payload)
  /\ b.id = GetFirehoseBlockID(b.payload)
  /\ b.parentId = GetFirehoseBlockParentID(b.payload)
  /\ b.parentNum = GetFirehoseBlockParentNumber(b.payload)
  /\ AsTime(b.timestamp) = GetFirehoseBlockTime(b.payload)

Occurrences(r, s) == Cardinality({i \in DOMAIN s : s[i] = r})

(* The list s holds the same rewards as the list t.                        *)
SameRewards(s, t) ==
  \A r \in Range(s) \cup Range(t) : Occurrences(r, s) = Occurrences(r, t)

Ascending(s) == \A i, j \in DOMAIN s : i < j => s[i].lamports <= s[j].lamports

(* Without ties the order of the lamports decides the list.                *)
NoTies(s) == \A i, j \in DOMAIN s : s[i].lamports = s[j].lamports => i = j
=============================================================================
