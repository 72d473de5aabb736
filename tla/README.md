# firehose-solana in TLA+

firehose-solana turns Solana's ledger into Firehose blocks. This directory holds
TLA+ models of the parts of it that can go wrong in ways a unit test hardly
reaches, the TLC configurations that check them on small instances, and TLAPS
proofs of the main results for every instance.

## 1. The system

| Part | Source | State | Operations | Correct when |
|---|---|---|---|---|
| RPC block fetcher | `block/fetcher/rpc.go` | two cached tips (`latestConfirmedSlot`, `latestFinalizedSlot`), shared by all calls without a lock | `Fetch`, `fetch`, `IsBlockAvailable` | no block is passed off as skipped, the LIB given to a block is final and one of its ancestors, every call returns |
| RPC poller command | `cmd/firesol/rpc/fetcher.go` | in firehose-core: the poller's place in the chain, the cursor on disk | `fetch rpc`: runs the poller over one fetcher | a linked feed across crashes, nothing below a LIB already given, every block printed in the end |
| Block conversion | `block/fetcher/rpc.go:169-563` | none | copies, patched previous hashes, sorted rewards, panics and errors | nothing lost, two nodes' answers for one block give one block, header and payload agree |
| Transaction error conversion | `block/fetcher/error.go`, `rpc.go:437-452` | none | JSON error to bytes | the bytes decode to the error received, no known error panics |
| Bigtable block reader | `block/fetcher/bigtable.go` | the locals of `Read`: resume point, last block, failed attempts, fatal error | `Read` and its row callback, `ProcessRow` | `processBlock` sees a gapless linked run of blocks within the bounds, and nil means done |
| Merged blocks upgrader | `cmd/firesol/upgrader.go` | in firehose-core: the bundle at hand; the destination store | `upgrade-merged-blocks`, `tweakBlock` | whole, upgraded bundles whatever jobs were killed and rerun, "Complete!" means done |
| Block type helpers | `pb/sf/solana/type/v1/type.go` | none | accessors of a payload | agree with the header |
| Command line, protobuf | `main.go`, `*.pb.go` | none | registration, generated code | |

How they interact: the poller command builds one `RPCFetcher` and hands it to
firehose-core's block poller, which asks for slots in batches of concurrent
`Fetch` calls (`--block-fetch-batch-size`, 10 by default) and calls
`IsBlockAvailable`. `Fetch` talks to the nodes through firehose-core's
`WithClients`, which tries the endpoints in order and gathers their errors, and
converts what it gets with the block conversion, which uses the error
conversion. The poller prints each block that links to the last one and stores
its place in `--state-dir`. The upgrader reads merged blocks made from such
feeds by older versions and brings them to the form the conversion gives now.
The Bigtable reader is older: no command of the repository calls `Read` any
more; it reads the same ledger from a table that Solana's warehouse nodes fill,
and hands blocks to a callback.

What is hard here: concurrent calls over unsynchronised fields; a failed
`GetSlot` that still overwrites a field; a late answer that overwrites a newer
one; endpoints that lag each other; retries without end; a process that dies
between printing and storing its place, and may die again on the same block;
jobs over one destination that overwrite each other's files; streams that break
and resume over a table whose rows arrive out of order; a loop whose one exit
serves several causes. `PROJECT.json` lists each of these as a hazard at its
line, with the properties that watch it.

## 2. Modules

* `Ledger` - the history all parts draw from: which slots hold a block, and the
  parent of each. A block and its hash are named by the slot.
* `SolanaRPC` - the endpoints (external): per endpoint a confirmed and a
  finalized tip that only advance, and the answers to `getBlock`. They are
  written from how `rpc.go` reads them: -32004 above the tip, -32007 or -32009
  (on some nodes -32004) for a skipped slot below it, and at any time a
  transport fault or another JSON-RPC error.
* `RPCFetcher` - `Fetch`, `fetch` and `IsBlockAvailable`.
* `Poller` - the command `fetch rpc`: extends `RPCFetcher` by the block poller,
  its process and its state directory.
* `LinkedFeed` - the abstract promise of both readers of the ledger: a growing
  feed in which each block is the child of the one before. `BigtableReader` and
  `Poller` are shown to implement it.
* `BigtableReader` - `Read`.
* `SolanaBlock` - a stored block, the accessors of `type.go`, the sort of
  rewards. Used by `BlockConversion` and `Upgrader`.
* `BlockConversion` - `blockFromBlockResult` and what it calls.
* `TransactionError` - the conversion of `error.go` as operators, with a
  reference decoder of Solana's binary format.
* `Upgrader` - the command `upgrade-merged-blocks`.
* `MC...` - the constants of the runs. `...Proofs` - the theorems: one module
  per component, and two for the poller (`PollerProofs` its types and that it
  runs the fetcher, `PollerFeedProofs` what it prints).

Operators that precede a definition and vary it (`NoPatch`, `LibNumNoGuard`,
`StartPastFirst`...) are mutants: `PROJECT.json` names, for every property of a
run, one that breaks it.

### RPCFetcher and the code

`latestConfirmedSlot` and `latestFinalizedSlot` are the fields of the struct.
`call[w]` is one call of `Fetch` in flight or the results of the last one. Its
`pc` names the next shared access or remote call, so that every read and write
of a field is a step of its own:

| Action | Code |
|---|---|
| `Fetch` | entry, lines 62-69, with the hard-coded range |
| `CheckConfirmed` | the loop condition, 71, and the break of line 80, which tests the same thing |
| `GetConfirmedSlot`, `GetFinalizedSlot` | the remote call of 73 and 87; a failure yields the value 0 |
| `StoreConfirmed`, `StoreFinalized` | the assignment of 73 and 87, made whether or not the call failed, and the error return after it, with which `WithClients` goes to the next endpoint or gives up |
| `CheckFinalized` | 86 |
| `CallFetch` | the read of the confirmed tip passed to `fetch`, 103 |
| `GetBlockAnswer`, `GetBlockFault` | one endpoint's reply inside `WithClients`, 130-134; after the last endpoint the decision of 136-163 |
| `Convert` | 116-122 with `blockFromBlockResult`; the LIB is computed from the field as it is then |
| `Panic`, `Restart` | a panic of the conversion, or any other end of the process; a new one starts with `NewRPC` |

The answer of `GetSlot` and its assignment are two steps because a goroutine can
be delayed between them. Sleeping, logging and the contents of blocks are left
out; a block is one that converts, one whose conversion fails or one whose
conversion panics.

### Poller and the code

The repository's part is small: the command parses the start block, makes one
fetcher for all calls, and runs the poller with a batch size and a state
directory. The poller is modelled from that use and from the interface
`Fetch` and `IsBlockAvailable` serve (external):

| Action | What it stands for |
|---|---|
| `Start`, `Kill`, `RunFails`, `PollerPanic` | the command is run, its process is ended from outside, ends with an error, or panics; memory is lost, the output and the cursor stay |
| `AskAlone`, `StartSkipped`, `InitState` | the first block at or after the start block is looked for; a stored place wins |
| `LoadNextBlocks`, `Push`, `CloseBatch` | a batch: the first slot in any case, further ones while `IsBlockAvailable` says so, at most `BatchSize` |
| `Collect`, `Retry` | a call of the batch has ended; a failed one is tried again or ends `Run` |
| `SkipItem`, `TakeBlock`, `TakeParent` | results are taken in order of slots; a block that does not link makes the poller ask for its parent |
| `Fire`, `SaveState` | a block is printed; after the last of a segment the place is stored |
| `FetcherStep` | any step of a call inside `Fetch` |

`feed`, `line` and `highLib` are history: the blocks printed without
repetitions, the last line printed, the highest LIB printed.
`fixPreviousBlockHash` gives the hash a block links by: `Zeroed` are the blocks
nodes return with an all-zero previous hash, `BlockToPatch` the keys of the
table that repairs them.

### BlockConversion and the code

Each action converts one node's answer to `getBlock`; two nodes are kept side by
side so that results can be compared. `Failure` and `TransactionsFailure` keep
the order in which the code meets a defect and whether it is an error or a
panic; each `toPb...` is the function of that name. Values that are copied
unchanged are one field, `rest`. A sort yields the set of lists
`slices.SortFunc` may leave: it compares lamports only and is not stable.
`Meaning` is the reference: what of an answer is meant to reach the payload.

### Upgrader and the code

A job is one invocation with its own arguments. `Run` checks their number
(`ExactArgs(4)`, line 26) and parses them (46-53), then opens the stream at the
start block and a writer at `LowBoundary(start)` (57-65). `TakeBlock` receives
the next block and tweaks it (76-96) before anything else is done with it;
`WriteBundle` closes the bundle at hand; `Accept` adds the block or, at the stop
block, ends the stream with `io.EOF`, which lines 67-72 take for success. `Kill`
ends a job at any step. The writer, the stream and the stores belong to
firehose-core and bstream (external).

### BigtableReader and the code

`table` grows by `Insert` in any order. A stream delivers the rows it found when
it was opened (`snapshot`), in key order, and may or may not deliver a row
written ahead of it meanwhile. `Verdict` is the sequence of tests of the
callback (72-106); one action per verdict, with `processBlock` accepting
(`ProcessBlock`) or failing (`ProcessBlockFails`). `StreamFails` is the error
path of 122-129, `AfterStream` lines 130-147. `ended` is a history variable: it
records why the last stream came to its end, which the code forgets. The test
for rows below the start block (80-88) is kept although `ReadRows` never
delivers one.

### TransactionError and the code

JSON values are records that keep the Go type `encoding/json` gives them, since
the constructors assert on it. A constructor returns a set, empty when it
panics. Both tables of names are complete. `Decode` is written from the binary
format alone. A single step converts one error.

## 3. Runs

| Run | Instance | Shows |
|---|---|---|
| `rpc_endpoints` | 2 endpoints, 2 concurrent calls, blocks at 0 1 3, one that panics, restarts at any step | `LibIsFinal`, `LibIsAncestor`, `AvailableIsConfirmed`, `NoSkipAboveTip`, `TypeOK` |
| `poller_one_endpoint` | 1 endpoint, batches of 2 concurrent calls, blocks at 0 1 3 4 5, start block 1, block 3 zeroed and patched, block 5 fails to convert, kills at any step | `NoBlockLost`, `AlwaysLinks`, `NoBlockBelowLib`, `RepeatsOnlyLast`, `PollerImplementsFeed`, `PollerTypeOK` |
| `poller_live` | 1 endpoint, one call at a time, start block in the hard-coded range, block 5 panics | `PollerCatchesUp`, `LibNeverBack` |
| `poller_batches` | 1 endpoint, batches of 2 concurrent calls, blocks at 0 1 3 4, start block 1, block 4 panics and can share its batch with block 3 | `PollerCatchesUp` |
| `poller_failover` | 2 endpoints, one call at a time, blocks at 0 1 3 | `FetchReturns`, `PollerCatchesUp`, `PollerImplementsFeed` |
| `conversion_agree` | 2 nodes, answers that differ from a plain one in a header field, a reward list, a part of a transaction or a pair of transactions | `NothingLost`, `NodesAgree`, `HeaderAgrees`, `NoPartialBlock` |
| `upgrade_jobs` | 4 jobs, two with overlapping ranges, one with a stop block that is no number, one with the arguments of the usage line; 7 blocks in bundles of 2 slots, one corrupt | `BundlesWhole`, `BlocksUpgraded`, `CompleteIsDone`, `Completes`, `TypeOK` |
| `bigtable_bounded` | 6 blocks, start 1, stop 3, up to 3 broken streams, one tweaked and one untweaked zeroed block | `ImplementsFeed`, `NoGap`, `InBounds`, `NilIsComplete`, `TypeOK` |
| `bigtable_endless` | no stop block, an undecodable row | `CatchesUp` |
| `error_roundtrip` | every name, indices 0 3 255, custom codes around the byte boundaries and 2^31-1, messages of 0, 1 and 300 bytes | `RoundTrip`, `KnownConverted`, `TypeOK` |
| `bigtable_reconnect`, `error_duplicate` | | violations, section 6 |

Why the bounds are enough. A skipped slot with blocks on both sides, a block
below and one above the finalized tip, a lagging endpoint and a slot at the tip
all occur with three blocks. The races are between a check, an answer in flight
and an assignment of another call: two calls have all of them. The poller needs
two batches, so that a call of the second starts from what the first left in the
cache, and a block behind the batch that a crash can lose: five blocks. Every
process can be killed at every step, any number of times. For the upgrader,
bundles of two slots have a full one, one that only its last slot closes, one
that only the next bundle's block closes and one only in part in a job's range.
For the reader, a missing row, a row behind the cursor, one past the stop block
and two past it need six blocks. The proofs of section 5 remove the bounds for
every safety property; only the liveness properties rest on them. The custom
codes stop at 2^31-1 because TLC's integers do; the code's field is 32 bits wide. `Request` bounds
the slots the poller asks for: a call for a slot past the last block of the
instance would wait for ever.

`CHECK_DEADLOCK FALSE` is set where the program really stops: `Read` returns,
and the conversion of an error is over after its step.

Symmetry is used on the calls of `Fetch` and on the nodes whose answers are
converted, in runs without liveness only.

## 4. Fairness

`poller_live`, `poller_batches`, `poller_failover` (`PollerFairness`): weak
fairness of the poller's main loop, of each of its calls by itself (a call that
is retried for ever must not excuse a main loop that stands still), and of the
start of a process that has ended (its supervisor); weak fairness of the
endpoints' `Confirm` (the chain goes on); and strong fairness of the proper answer to `getBlock` of each endpoint: one that is
asked for ever answers at some time. Without the last, `fetch` retries for ever
by design. Nothing is assumed of `Finalize`, of the order of the answers, or
that a panic is repaired. `PollerCatchesUp` has as its hypothesis that kills and
failures of `GetSlot` end: each failure ends a call, and enough of them the
process.

What `PollerCatchesUp` promises depends on the batch size. A block whose
conversion panics ends the process and with it the other calls of its batch, and
does so again after every restart. A block is promised if no batch that holds it
can hold a block that does not convert (`Convertible`): with one call at a time,
every block before the first such one; with batches, every block at least
`BatchSize` slots before it (the default is 10). The rest is really lost: in
`poller_batches` blocks 3 and 4 make up a batch, and a behaviour in which the
call for 4 panics before 3 is printed, in every process, is fair. TLC finds it
when the bound of `Convertible` is lowered by one.

`FetchReturns` is checked with one call at a time. With two, a call whose
`GetSlot` fails resets the tip another call is waiting for, and can do so each
time, so it needs an end of such failures that no part of the code provides.

`upgrade_jobs`: a running job goes on, and its operator runs it again until it
is complete. `Completes` has as its hypothesis that the job is not killed and
does not fail for ever.

`bigtable_endless`: weak fairness of `Read`. Nothing is assumed of the table;
`CatchesUp` speaks of blocks whose rows have been written. Broken streams need
no assumption: `attempts` ends them.

## 5. Proofs

`RPCFetcherProofs`, for any number of endpoints, calls, blocks and requests:
`TypeCorrect`, `LibFinal`, `LibAncestor`, `AvailableConfirmed`,
`HeadNotSkipped`, and for one endpoint `OneEndpointLosesNothing`. None of the
properties is inductive: they speak of results, which come from fields, which
come from answers in flight. The invariant `IInv` says of every slot number held
anywhere that it holds a block and is witnessed: some endpoint has reached it.
Endpoints never go back, so the witness survives every delay and every overwrite,
and the 0 of a failed `GetSlot`, like that of a restart, is witnessed by the
genesis block; that is why the races on the fields are harmless for these
properties. It also says that an error -32007 or -32009 on hand means the slot
lies below some tip, and, for one endpoint, that no error is on hand between two
rounds. Each action replaces one call by a record that satisfies the invariant
(`CallStep`); the ledger's steps are the monotonicity argument (`LedgerOK`).
Assumptions: `ClientsAssumption`, `LedgerAssumption`, `FetcherAssumption`.

`PollerProofs`, for any batch size, start block and number of calls:
`CommandRunsFetcher`, every behaviour of the composed command is one of its
fetcher, since each of the poller's steps enters `Fetch`, restarts the process
or leaves the fetcher alone. With it the theorems above hold inside the running
command: `CommandLib`, and for one endpoint `CommandLosesNothing`.
`PollerTypeCorrect` needs `TInv`, which ties the calls to the poller: a call it
waits for has a result once it is idle again, the call made to find the first
block is for the slot wanted, a result that is a block is one of the ledger, and
genesis is never passed over unless the hard-coded range holds it. Added
assumption: `PollerAssumption`.

`PollerFeedProofs`, three arguments under three conditions, each with its own
invariant on top of `IInv` and `TInv`:

* `OneLine` - one endpoint, every zeroed previous hash in `blockToPatch`, and no
  block of the hard-coded range above one that is served (the code reports that
  range as skipped; a block there would be a hole). `LInv` says that nothing is
  served between the head of the poller's chain and the slot it wants (`Wanted`),
  that at most one block waits to be printed and is the child of the head
  (`Place`), and that the output is at most one block ahead of the stored place
  (`History`). It gives `BlocksLink`, `NothingBelowLib`, `RestartRepeatsLast` and
  `CommandImplementsFeed`, for any start block and number of concurrent calls.
* `FromGenesis` - any number of endpoints, start block 0. Blocks can be passed
  over, several are printed before the place is stored, and a restart repeats any
  number of them. `GInv` says that the output is closed under parents (`Closed`)
  and that the segment on hand hangs together and follows the head once it is
  handed on (`Hanging`). It gives `FailoverImplementsFeed`. The condition cannot
  be dropped: section 6 tells how any other start block can be lost. Zeroed
  hashes need no condition here: a block without a hash never links, so nothing
  is printed past it.
* `OneCall` - `OneLine` and a single call at a time. `MInv` follows the finalized
  tip a call will use from the moment it is known: it reaches the call's slot or
  is no lower than every LIB printed and every LIB of a result for a lower slot
  (`Told`, `Above`); then the results on hand (`Ordered`), down to the block that
  waits to be printed (`OnHand`). It gives `LibMonotone`. A failed `GetSlot`, or
  a restart, sets the field to 0, and the call that uses it next asks again.

`BigtableReaderProofs`, for any ledger and bounds: `TypeCorrect`, `Gapless`,
`Bounded`, `NilComplete` and `Refinement`. The invariant says that
`lastSeenBlock` is the last block of the feed unless the reader has failed for
good (`Memory`; it is false between a failure of `processBlock` and the return),
that a stream is open only while the stop block has not been passed (`NotPast`),
that the cursor never lies below the start block (`AboveStart`), and that no row
of the snapshot behind the cursor was left out (`Scanned`). That no block is
missing between two linked ones rests on the ledger: nothing is produced between
a block and its parent. Assumptions: `LedgerAssumption`, `ReaderAssumption`.

`UpgraderProofs`, for any jobs, blocks and bundle size: `TypeCorrect` and
`DestinationUpgraded` without a condition; `DestinationWhole` and `CompleteDone`
if no job starts inside a bundle (`Aligned`; section 6 tells what such a job
does). `UInv` says of a running job that its unwritten bundle holds exactly the
blocks between the bundle's boundary and the point the stream has reached
(`WriterInv`), and of running and complete jobs that all bundles behind are in
the destination, whoever wrote them last (`Behind`); a file is only ever
replaced, and by a whole bundle, so one job cannot undo what another has done.
Assumptions: `LedgerAssumption`, `UpgraderAssumption`, `NilAssumption`.

`BlockConversionProofs`, for any number of nodes and answers with lists of any
length: `HeadersAgree`, `NoPartialBlocks`, `NothingIsLost`, and
`NodesAlwaysAgree` if nodes give different previous hashes only for blocks of
`blockToPatch` (`HashesPatched`). The state argument is short (`CInv`: a result
is one the conversion of that node's answer may give); the work is in lemmas
about the conversion, field by field and list by list. That two nodes' rewards
end up in one order although the sort is not stable rests on `SortedUnique` in
`SolanaBlockProofs`: two ascending rearrangements of the same rewards without
ties are equal. It is proved without induction, by looking at the first place
where they would differ. Assumptions: `AnswerAssumption`, that answers have the
types of the RPC client, and `AbsentAssumption`, that an absent value is none of
them.

`TransactionErrorProofs`, for every name of both tables, every index, every
four-byte code and every message whose length four bytes can state
(`InputsAssumption`): `TypeCorrect`, `ErrorsRoundTrip`, `KnownErrorsConverted`.
The numbers are the core: a four-byte little-endian number is read back from its
bytes, and each encoded part has a length the decoder can tell. `EInv` keeps
where the stored bytes came from, which the state of the program forgets.

`LEMMA`s state the facts the theorems rest on; each proof of a step has one case
per action.

Only model-checked, because liveness under fairness is out of the prover's
reach: `FetchReturns`, `PollerCatchesUp`, `Completes`, `CatchesUp`. Every safety
property and every action property the passing runs check is also proved, under
the condition named with it.

## 6. Disagreements found

* `bigtable_reconnect`: with a stop block, an unlinkable row makes `Read` return
  nil, where the comment at `bigtable.go:98-99` says it should reconnect.
* `error_duplicate`: `MustNewDuplicateInstructionError` asserts `uint8`, JSON
  gives `float64`: the error the test of `rpc_test.go:36-44` stores as
  `[30 0 0 0 42]` panics when it comes from a node.

Two more are plain on reading and have no run:

* `error.go:124-125` gives `[1 0 0 0]`, the bytes of `AccountLoadedTwice`, for
  `AccountInUse`, which is stored as `[0 0 0 0]`.
* The usage line of the upgrader (`upgrader.go:24`) and `CHANGELOG.md:55` show
  three arguments, the last a range; `ExactArgs(4)` (`upgrader.go:26`) refuses
  that.

Observed while modelling. The repository states nothing of these that a run could
hold the code to:

* With two endpoints `NoBlockLost` fails: the tip comes from one, the -32004
  from another that lags. The poller repairs it, because the child of the lost
  block does not link and its parent is asked for (`poller_failover`), except
  for the start block: when it is lost and the process is killed before it first
  stores its place, the feed begins with a later block and the next process
  prints the start block after it (a feed of 3 and then 1, from start block 1).
* With two endpoints, or with batches, the LIB of successive blocks can go back;
  with two endpoints a block printed again after a restart can lie below a LIB
  already given. `LibNeverBack` and `NoBlockBelowLib` say where they do not.
* A start block inside a bundle makes the upgrader replace that bundle by the
  part from the start block on; a stop block inside a bundle leaves that bundle
  unwritten. `BundlesWhole` and `CompleteIsDone` say what remains true.
* A job of the upgrader whose source has no block at or past the stop block
  never ends, and its last bundle may stay in memory. `tweakBlock` runs before
  the stop test, so a corrupt block at the stop block fails the job.
* A block that panics keeps up to `BatchSize - 1` slots before it from being
  printed (section 4).
* The models assume an endpoint. Without `--endpoints` what happens is up to
  firehose-core's `WithClients`.
* Rewards of equal lamports may be stored in either order by two nodes; a reward
  without a type panics. The commission of a reward is never stored, although the
  block format has a field for it (`type.proto:141`); `NothingLost` exempts it.
* `GetFirehoseBlockLIBNum` (`type.go:37`) is the parent slot, which is not the LIB
  number the fetcher puts in the header. `HeaderAgrees` leaves it out.

## 7. Not modelled, and the plan

Not modelled:

* flags that only set intervals, command registration (`main.go`), generated
  protobuf code, logging;
* decompression and the external decoder process of the Bigtable reader, which
  are a row that can or cannot be decoded;
* a cancelled context: `fetch` never looks at it and retries, which is what the
  model does; nothing is promised for it;
* firehose-core itself: `WithClients`, the block poller, `MergedBlocksWriter`
  and the stores appear only as far as the repository's code uses them.

Left to do on the proofs: nothing the runs check as a safety property is
unproved. Candidates for going further are what several endpoints guarantee from
a later start block (the feed without its first blocks), and how far a LIB can
go back with batches, which first need a statement that is true.
