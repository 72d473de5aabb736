----------------------------- MODULE LinkedFeed -----------------------------
(***************************************************************************)
(* What a reader of the ledger promises its consumer (the processBlock of  *)
(* BigtableBlockReader.Read, whoever follows the output of the command     *)
(* "fetch rpc"): a feed of blocks that only grows, each block the child of *)
(* the one before it, from the start block on and up to the first block    *)
(* past the stop block.                                                    *)
(***************************************************************************)
EXTENDS Ledger, Sequences

CONSTANTS
  Start,        \* the first slot wanted
  Stop          \* the last slot wanted, 0 for no end

VARIABLE feed

Init == feed = <<>>

Newest == feed[Len(feed)]   \* the newest block of the feed

(* The consumer receives the next block.                                   *)
Receive(b) ==
  /\ \/ feed = <<>> /\ b >= Start
     \/ /\ feed # <<>>
        /\ ParentSlot[b] = Newest /\ b # Newest
        /\ Stop = 0 \/ Newest <= Stop
  /\ feed' = Append(feed, b)

Next == \E b \in Produced : Receive(b)

Spec == Init /\ [][Next]_feed

(***************************************************************************)
(* The feed is a gapless run of the ledger: between its first and its last *)
(* block it holds every block that was produced, once and in order         *)
(* (bigtable.go:90-106).                                                   *)
(***************************************************************************)
Gapless ==
  /\ \A i \in 1 .. Len(feed) - 1 : feed[i] = ParentSlot[feed[i + 1]] /\ feed[i] < feed[i + 1]
  /\ \A b \in Produced :
       feed # <<>> /\ feed[1] <= b /\ b <= Newest =>
         \E i \in 1 .. Len(feed) : feed[i] = b

(***************************************************************************)
(* The feed begins at or after the start block and holds at most one block *)
(* past the stop block (bigtable.go:80-88, 115-117).                       *)
(***************************************************************************)
InBounds ==
  \A i \in 1 .. Len(feed) :
    feed[i] >= Start /\ (Stop # 0 /\ feed[i] > Stop => i = Len(feed))
=============================================================================
