--------------------------- MODULE BigtableReader ---------------------------
(***************************************************************************)
(* block/fetcher/bigtable.go: BigtableBlockReader.Read, the loop that      *)
(* streams rows of the "blocks" table to processBlock and reconnects.      *)
(*                                                                         *)
(* The table is filled by somebody else, in any order, while it is read.   *)
(* A stream delivers rows in key order; a row inserted ahead of it while   *)
(* it runs may or may not be seen.                                         *)
(***************************************************************************)
EXTENDS Ledger, Sequences

CONSTANTS
  Start,           \* argument startBlockNum of Read
  Stop,            \* argument stopBlockNum of Read, 0 for no end
  MaxConnAttempt,  \* maxConnAttempt
  Zeroed,          \* blocks whose stored previous hash is all zeroes
  Tweaked,         \* blocks the "horrible tweaks" give their real previous hash
  Undecodable,     \* rows ProcessRow cannot decode
  Nil              \* no block; also the all-zero hash, which names none

ASSUME ReaderAssumption ==
  /\ Start \in Nat /\ Stop \in Nat /\ MaxConnAttempt \in Nat
  /\ Zeroed \subseteq Produced /\ Tweaked \subseteq Produced
  /\ Undecodable \subseteq Produced
  /\ Nil \notin Nat

VARIABLES
  table,           \* the rows of the table
  pc,              \* "connect", "stream", "after" or "returned"
  startBlockNum, seenStartBlock, lastSeenBlock, attempts, fatalError,
  snapshot,        \* the rows that were there when the stream was opened
  cursor,          \* the stream has delivered everything below this key
  out,             \* the blocks processBlock has accepted
  ended,           \* how the last stream came to its end (history)
  ret              \* what Read returned

readVars == <<startBlockNum, seenStartBlock, lastSeenBlock, attempts, fatalError>>
vars == <<table, pc, readVars, snapshot, cursor, out, ended, ret>>

TypeOK ==
  /\ table \subseteq Produced /\ snapshot \subseteq table
  /\ pc \in {"connect", "stream", "after", "returned"}
  /\ startBlockNum \in Nat /\ cursor \in Nat /\ attempts \in Nat
  /\ seenStartBlock \in BOOLEAN /\ fatalError \in BOOLEAN
  /\ lastSeenBlock \in Produced \cup {Nil}
  /\ out \in Seq(Produced)
  /\ ended \in {"none", "eof", "row", "unlinkable", "process", "stop", "error"}
  /\ ret \in {"none", "nil", "fatal", "error"}

Init ==
  /\ table = {} /\ snapshot = {}
  /\ pc = "connect"
  /\ startBlockNum = Start /\ cursor = 0 /\ attempts = 0
  /\ seenStartBlock = FALSE /\ fatalError = FALSE
  /\ lastSeenBlock = Nil
  /\ out = <<>>
  /\ ended = "none" /\ ret = "none"

(* Somebody writes a row.                                                  *)
Insert(b) ==
  /\ b \notin table
  /\ table' = table \cup {b}
  /\ UNCHANGED <<pc, readVars, snapshot, cursor, out, ended, ret>>

-----------------------------------------------------------------------------
ConnectNoNilCheck ==
  /\ pc = "connect"
  /\ pc' = "stream"
  /\ startBlockNum' = lastSeenBlock /\ cursor' = startBlockNum'
  /\ snapshot' = table
  /\ UNCHANGED <<table, seenStartBlock, lastSeenBlock, attempts, fatalError, out, ended, ret>>

(* The top of the loop: resume at the last block seen, open the stream.    *)
Connect ==
  /\ pc = "connect"
  /\ pc' = "stream"
  /\ startBlockNum' = IF lastSeenBlock # Nil THEN lastSeenBlock ELSE startBlockNum
  /\ cursor' = startBlockNum'
  /\ snapshot' = table
  /\ UNCHANGED <<table, seenStartBlock, lastSeenBlock, attempts, fatalError, out, ended, ret>>

(* The rows the stream may deliver next.                                   *)
NextRow(b) ==
  /\ b \in table /\ b >= cursor
  /\ \A r \in snapshot : r >= cursor => b <= r

(* PreviousBlockhash of the block ProcessRow returns.                      *)
PreviousBlockhash(b) == IF b \in Zeroed \ Tweaked THEN Nil ELSE ParentSlot[b]

VerdictNoSeen(b) ==
  IF b \in Undecodable THEN "row"
  ELSE IF lastSeenBlock # Nil /\ lastSeenBlock # PreviousBlockhash(b) THEN "unlinkable"
  ELSE "process"
VerdictNoLink(b) ==
  IF b \in Undecodable THEN "row"
  ELSE IF lastSeenBlock = b THEN "skip"
  ELSE "process"

(* What the callback makes of a row, in the order of its tests.            *)
Verdict(b) ==
  IF b \in Undecodable THEN "row"
  ELSE IF ~seenStartBlock /\ b < startBlockNum THEN "skip"
  ELSE IF lastSeenBlock # Nil /\ lastSeenBlock = b THEN "skip"
  ELSE IF lastSeenBlock # Nil /\ lastSeenBlock # PreviousBlockhash(b) THEN "unlinkable"
  ELSE "process"

(* The callback returns true: the stream goes on.                          *)
Continue == pc' = pc /\ ended' = ended

(* The callback returns false: ReadRows returns without an error.          *)
EndStream(why) == pc' = "after" /\ ended' = why

(* A row reaches the callback.                                             *)
Delivered(b) ==
  /\ pc = "stream" /\ NextRow(b)
  /\ cursor' = b + 1
  /\ seenStartBlock' = (seenStartBlock \/ (b \notin Undecodable /\ b >= startBlockNum))
  /\ UNCHANGED <<table, startBlockNum, attempts, snapshot, ret>>

RowFails(b) ==
  /\ Delivered(b) /\ Verdict(b) = "row"
  /\ fatalError' = TRUE
  /\ EndStream("row")
  /\ UNCHANGED <<lastSeenBlock, out>>

SkipRow(b) ==
  /\ Delivered(b) /\ Verdict(b) = "skip"
  /\ Continue
  /\ UNCHANGED <<lastSeenBlock, fatalError, out>>

Unlinkable(b) ==
  /\ Delivered(b) /\ Verdict(b) = "unlinkable"
  /\ EndStream("unlinkable")
  /\ UNCHANGED <<lastSeenBlock, fatalError, out>>

NeverPastStop(b) == FALSE

PastStop(b) == Stop # 0 /\ b > Stop

ProcessBlock(b) ==
  /\ Delivered(b) /\ Verdict(b) = "process"
  /\ lastSeenBlock' = b
  /\ out' = Append(out, b)
  /\ IF PastStop(b) THEN EndStream("stop") ELSE Continue
  /\ UNCHANGED fatalError

ProcessBlockErrorIgnored(b) ==
  /\ Delivered(b) /\ Verdict(b) = "process"
  /\ lastSeenBlock' = b
  /\ Continue
  /\ UNCHANGED <<fatalError, out>>

(* processBlock fails; lastSeenBlock has moved already.                    *)
ProcessBlockFails(b) ==
  /\ Delivered(b) /\ Verdict(b) = "process"
  /\ lastSeenBlock' = b
  /\ fatalError' = TRUE
  /\ EndStream("process")
  /\ UNCHANGED out

(* There are no more rows.                                                 *)
EndOfRows ==
  /\ pc = "stream"
  /\ \A r \in snapshot : r < cursor
  /\ EndStream("eof")
  /\ UNCHANGED <<table, readVars, snapshot, cursor, out, ret>>

StreamErrorIgnored ==
  /\ pc = "stream"
  /\ EndStream("error")
  /\ UNCHANGED <<table, readVars, snapshot, cursor, out, ret>>

(* ReadRows fails: reconnect, until too many streams have failed.          *)
StreamFails ==
  /\ pc = "stream"
  /\ ended' = "error"
  /\ attempts' = attempts + 1
  /\ IF attempts' >= MaxConnAttempt
     THEN pc' = "returned" /\ ret' = "error"
     ELSE pc' = "connect" /\ UNCHANGED ret
  /\ UNCHANGED <<table, startBlockNum, seenStartBlock, lastSeenBlock, fatalError,
                 snapshot, cursor, out>>

(* ReadRows returned without an error.                                     *)
AfterStream ==
  /\ pc = "after"
  /\ \/ /\ fatalError
        /\ pc' = "returned" /\ ret' = "fatal"
     \/ /\ ~fatalError /\ Stop # 0
        /\ pc' = "returned" /\ ret' = "nil"
     \/ /\ ~fatalError /\ Stop = 0
        /\ pc' = "connect" /\ UNCHANGED ret
  /\ UNCHANGED <<table, readVars, snapshot, cursor, out, ended>>

-----------------------------------------------------------------------------
Row(b) ==
  \/ RowFails(b) \/ SkipRow(b) \/ Unlinkable(b)
  \/ ProcessBlock(b) \/ ProcessBlockFails(b)

Read ==
  \/ Connect \/ EndOfRows \/ StreamFails \/ AfterStream
  \/ \E b \in Produced : Row(b)

Next == Read \/ \E b \in Produced : Insert(b)

Spec == Init /\ [][Next]_vars

(* Read is a running goroutine.  Nothing is assumed of the table.          *)
FairSpec == Spec /\ WF_vars(Read)

-----------------------------------------------------------------------------
Processed(b) == \E i \in 1 .. Len(out) : out[i] = b

(***************************************************************************)
(* Whatever the order of the rows, the stream errors and the reconnections *)
(* (bigtable.go:61-147), processBlock sees a linked feed: the reader       *)
(* implements LinkedFeed.                                                  *)
(***************************************************************************)
Feed == INSTANCE LinkedFeed WITH feed <- out

ImplementsFeed == Feed!Spec

(***************************************************************************)
(* processBlock receives a gapless run of the ledger (bigtable.go:90-113). *)
(***************************************************************************)
NoGap == Feed!Gapless

(***************************************************************************)
(* Every block processBlock receives is at or after the start block, and   *)
(* only the last can lie past the stop block (bigtable.go:80-88, 115-117): *)
(* no reconnection goes back below the one or on beyond the other.         *)
(***************************************************************************)
InBounds == Feed!InBounds

(***************************************************************************)
(* Read returns nil (bigtable.go:142-144) only when every wanted row the   *)
(* last stream was opened on has been processed, unless an unlinkable row  *)
(* ended that stream.                                                      *)
(***************************************************************************)
NilIsComplete ==
  ret = "nil" /\ ended # "unlinkable" =>
    \A b \in snapshot : b >= startBlockNum /\ b <= Stop => Processed(b)

(***************************************************************************)
(* "we should try to reconnect" (bigtable.go:98-99): after an unlinkable   *)
(* row Read does not return as if it were done.                            *)
(***************************************************************************)
UnlinkableReconnects == ended = "unlinkable" => ret # "nil"

(* The rows of b and its ancestors, back to the first block of the feed.   *)
Written(b) ==
  /\ out # <<>> /\ out[1] <= b
  /\ \A r \in Produced : out[1] <= r /\ r <= b => r \in table

(***************************************************************************)
(* Without a stop block, a block whose row and whose ancestors' rows have  *)
(* been written, back to the first block of the feed, is processed or Read *)
(* returns an error (bigtable.go:62-69, 90-106, 122-147): a reconnection   *)
(* never leaves the reader stuck.                                          *)
(***************************************************************************)
CatchesUp ==
  \A b \in Produced :
    Written(b) ~> (pc = "returned" \/ Processed(b))
=============================================================================
