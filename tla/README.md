# mev-inspect-py in TLA+

mev-inspect-py reads blocks of Ethereum from an archive node, finds the MEV in
them (swaps, arbitrages, sandwiches, liquidations, NFT and punk trades, miner
payments), writes it to Postgres, summarises it in US dollars, and exports
parts of it to S3.  This directory holds TLA+ models of its core, the TLC runs
that check them, and TLAPS proofs about them.  `PROJECT.json` maps every
definition to the source lines it models; this file explains the whole.

## 1. The system

### 1.1 Components

| component | source | state | operations |
|---|---|---|---|
| inspection of a block range | `mev_inspect/inspect_block.py`, `crud/*.py`, `db.py` | the rows of twelve tables and `mev_summary`, the open transaction of a session | for each block: fetch, classify; then for each table: delete the range, commit, insert, (mostly) commit; then the summary |
| listener | `listener.py`, `crud/latest_block_update.py`, `concurrency.py`, `signal_handler.py`, the `listener` script | the cursor row `latest_block_update`, the open transaction, a pending SIGTERM | poll the head, inspect the next settled block, move the cursor, send the export, ping, sleep; start, stop, restart |
| inspector | `mev_inspect/inspector.py` | a semaphore, the node's client | batches of ten blocks gathered on one session |
| work queue | `worker.py`, `mev_inspect/queue/*`, `cli.py` (enqueue commands) | the two Redis queues, per-thread session makers and inspector, an event loop per message | enqueue a range in batches, process a message (at least once), retry |
| S3 export | `mev_inspect/s3_export.py`, `text_io.py` | one object per table and block | select, delete the object, upload |
| block source | `mev_inspect/block.py`, `methods.py`, `traces.py`, `retry.py`, `provider.py` | none (four concurrent reads) | latest block number, block + receipts + traces + base fee, retry with back-off |
| classifiers | `mev_inspect/classifiers/*`, `decode.py`, `abi.py` | none | trace to classified trace |
| MEV detection | `arbitrages.py`, `sandwiches.py`, `swaps.py`, `transfers.py`, `liquidations.py`, `punks.py`, `nft_trades.py`, `miner_payments.py`, `utils.py` | none: pure functions of the classified traces of a block | one each |
| summary | `crud/summary.py` | `mev_summary` | two `INSERT ... SELECT` joins with the prices |
| prices | `prices.py`, `crud/prices.py`, `coinbase`/`coingecko` calls | the `prices` table | fetch all, fetch a range |
| token flow | `tokenflow.py` | none (used by its tests only) | cash flow of a transaction |
| CSV writer | `db.py:write_as_csv`, `text_io.py` | a buffer of what the reader has not asked for yet | iterator to COPY stream |
| schema, k8s, CLI glue | `alembic/`, `models/`, `schemas/`, `k8s/`, `cli.py`, `loop.py` | none of its own | |

### 1.2 How they interact

```
                    node (JSON-RPC)                      chain
                      ^        ^
      poll, fetch     |        |  fetch
   listener ----------+        +---------- workers <--- redis "low" <--- cli
      |  \                                   |  \
      |   \--- send(block) ---> redis "high" |   \--> S3 objects
      |                             |        |         ^
      v                             +--------+---------+ export(block)
   Postgres: 12 tables, mev_summary, latest_block_update
```

The listener and every worker thread have a database session each; they share
the tables and nothing else.  The listener hands a block to the export queue
after it has written it.  `inspect`, `inspect-many` and the low-priority queue
rewrite any range of blocks at any time, and nothing excludes two of them, or
one of them and the listener, from the same block: only the primary keys do.

### 1.3 Which behaviours are hard

* **No transaction spans a rewrite.**  An inspection of a range deletes and
  writes the tables one after the other, each in a transaction (or two) of its
  own (`inspect_block.py:172-234`).  A crash, an exception or a second
  inspection can come between any two of them.
* **Two writers do not commit.**  `write_as_csv` (`db.py:70-80`) COPYs through
  the raw connection and leaves the transaction open, so the rows of `blocks`
  and `classified_traces` become durable with the *next* table's delete.
* **The cursor is not committed either.**  `update_latest_block`
  (`crud/latest_block_update.py:14`) leaves its row in the transaction, and the
  first commit of the *next* block's inspection makes it durable.  Between the
  two the listener sends the block to the export queue, pings a health check
  that may raise, sleeps and polls; a stop or a crash there loses the cursor
  but neither the data nor the message.
* **Cancellation.**  SIGTERM cancels the task (`concurrency.py:11`); it takes
  effect only where the coroutine awaits.  `GracefulKiller` then replaces the
  handler that `coro` has installed with one that sets a flag
  (`signal_handler.py:17`), while asyncio's wake-up descriptor still runs the
  callback.  The models take the union: cancellation at an await.
* **The summary is computed by the database** from whatever the other tables
  hold at that moment, a table without any key (`crud/summary.py`).
* **Reorganisations** are handled by lagging five blocks behind the head and by
  nothing else.
* **A stop does not wait.**  `listener stop` sends a signal and removes the file
  with the process number (`listener:26-33`); the listener that `listener start`
  then starts may overlap with the old one, which is still in the writes of its
  block.  Both are uncoordinated writers of the same rows and the same cursor.
* **Nested calls.**  Detection works on call trees in which transfers carry out
  transfers, liquidations call liquidations and routers call pools; each
  algorithm has its own rule of which call of a nest counts.
* **At-least-once delivery** of queue messages, several batches of one message
  on one session, a semaphore that outlives its event loop, exports that race
  with each other.

### 1.4 What makes each part correct

* Inspection: when a run returns, each table holds exactly its rows of each
  block, whatever failed before; a rerun never trips over the rows of a failed
  run; readers never miss more than one table; collisions lose nothing.
* Listener: in chain order, without a gap, at least once; the durable cursor
  never ahead of the data or of the exports; what is stored is what is on the
  chain; a signal leaves no block half written; every settled block is
  processed in the end.  Two listeners that overlap lose none of this for the
  blocks behind the committed cursor, and never move that cursor back.
* Queue: every block of a command's range is in exactly one message; a message
  whose processing fails is retried; the session is usable after a failure.
* Export: the object left in the end is the one of the last finished run.
* Detection: a route of swaps is a shortest cycle, no swap opens or closes two
  arbitrages, none is missed; a sandwich has a front and a back run of the same
  trader around swaps of others; what goes on inside a transfer is nobody's
  swap, and no two swaps take the same transfer.  A snipe is the best bid of
  the block; of nested liquidations the outermost is reported, and no leg is
  counted twice; the price of a sale is what the seller is left with; the miner's
  payment is what she gained, with what was undone counted as well.
* Classifiers: the first specification that fits claims a call; whatever asks
  for the classifier afterwards finds the same one; every transfer has the right
  payer, whoever else knows the function; no general specification hides what
  one that lists the contract makes of a call.
* Prices: a block that is summarised again is valued at the same prices or at
  nearer ones, whatever was fetched meanwhile.
* Token flow: the net flow is what the contract gained, with what was undone
  counted as well.
* Text reader: COPY and the upload get every character once, in order.

## 2. The modules

| module | what it is |
|---|---|
| `Schema` | the tables an inspection rewrites, in order; which have no natural key (`Unkeyed`), which are COPYed without a commit (`Copied`), which the summary joins |
| `InspectBlocks` | `inspect_many_blocks` run by several processes on one Postgres database |
| `Listener` | `listener.py`; EXTENDS `InspectBlocks`, its inspections are the steps of that module |
| `Handover` | two listeners that overlap; EXTENDS `Listener` |
| `BlockStream` | the abstract specification of the listener: an in-order, at-least-once stream of blocks with a durable checkpoint |
| `Inspector` | `MEVInspector.inspect_many_blocks`: batches on one session behind a semaphore |
| `WorkQueue` | the enqueue command, the queue, the workers; EXTENDS `Inspector`, a message is a call of that module |
| `S3Export` | the export of one block while it is rewritten |
| `BlockSource` | the four reads of a block over the retry middleware |
| `TraceTree`, `Accounts` | operators: trace addresses (`traces.py`), and what movements of money do to their holders |
| `Swaps`, `Arbitrages`, `Sandwiches` | detection: the loops of `swaps.py`, `arbitrages.py` and `sandwiches.py` |
| `Punks`, `Liquidations`, `NftTrades`, `MinerPayments` | detection: the loops of the modules of the same names |
| `ClassifierSpecs` | `classifiers/specs/*`: the list of specifications, as data |
| `Classifier` | `classifiers/trace.py`: which specification claims a call, and which is found again afterwards |
| `TokenFlow` | `tokenflow.py` |
| `Prices` | `prices.py`, `crud/prices.py` and the joins of the summary that ask for a price |
| `TextIO` | the readers of `text_io.py` |
| `Detection` | classification, detection, token flow, prices and the reader of text together: one algorithm on one input |
| `InspectBlocks_proofs`, `BlockStream_proofs`, `Listener_proofs`, `Handover_proofs`, `WorkQueue_proofs`, `S3Export_proofs`, `BlockSource_proofs`, `Detection_proofs` | the theorems; those of `Inspector` are in `WorkQueue_proofs` |
| `MC_*` | instances for TLC |

### 2.1 `InspectBlocks`

`rows[t][b]` is the set of the *runs* whose rows of block `b` are committed in
table `t`: the rows that one run writes for one block into one table are one
unit, because every statement treats them as one (a delete takes the whole
range, an insert or COPY writes the whole list).  This is the abstraction that
makes the model small, and it loses nothing the properties ask about: a table
can miss a run's rows, hold them, or hold those of several runs.  `pend[p]` are
the tables session `p` has COPYed to without a commit; `summary` and
`pendSummary` the committed and the open rows of `mev_summary`; `job[p]` the
program counter.  `last` and `done` are history.

The steps are those of the code: `Begin`, `FetchBlock` (one turn of the loop
over the range), then per table `DeleteTable` and `WriteTable`, then
`SummaryDelete`, `SummaryArbitrages`, `SummaryLiquidations`.  `WriteConflict`
is an `IntegrityError`, `Fail` any other end.  A delete and the commit right
behind it are one step, as are an insert and its commit: at READ COMMITTED no
other session can see the state in between.  `KeyLocked` is Postgres making an
insert wait for an uncommitted row with the same key.

Two specifications share these steps. `ExclusiveSpec`: no two inspections of
one block at a time, everything may fail anywhere.  `RepeatSpec`: the same range
by several sessions at once, which collide through keys only.

Every block is taken to have at least one row in each table.  A table without
rows for the block takes no part in a collision, so this is the harder case.

### 2.2 `Listener` and `BlockStream`

`pc[p]` follows one turn: `poll`, `inspect` (the steps of `InspectBlocks`),
`update`, `send`, `ping`, or `poll`, `sleep`.  There are two cursors, the
committed one (`cursor`) and the one in `p`'s open transaction
(`pendCursor[p]`); `SessionCursor(p)` is what `find_latest_block_update` reads.
`InspectDelete` is where the first is overwritten by the second.  `Stop` is a
signal, `Exit` its effect at an await, `Kill` a crash or an exception that
nobody catches (an unanswered RPC or health check, a lost database), `Start`
the operator.  `Mine` and `Reorganise` are the chain; `fetched`, `stored` track
which version of a block was read and written.

`BlockStream` knows nothing of tables, sessions and signals: `Rework` the next
block (now the position becomes durable), `Complete` it, `Advance` the
position, `Announce` it, `Restart` from the checkpoint.  `ImplementsStream` in
`Listener` is the refinement: the position is the cursor of the session that is
open, the checkpoint the committed cursor, complete blocks are those whose last
run returned, announced blocks those that were sent.

### 2.3 `Handover`

The actions of `Listener` take the process as a parameter, and `Handover` runs
two of them; `StartNext` is `listener start`, whose only guard is that no
process runs that was not told to stop.  `KeyLocked` and the row lock of the
cursor (`UpdateLatestBlock` waits while another session holds an uncommitted
cursor) make the two wait for each other, and `Collide` is the `IntegrityError`
that ends the one whose insert finds its key taken.  Then yet another listener
can be started.  The session that dies has its uncommitted rows and cursor
rolled back.

### 2.4 `Inspector` and `WorkQueue`

A *call* is one `inspect_many_blocks` of the inspector: it cuts its range into
batches, gathers them on one session, and each batch takes a permit of the
semaphore.  `Inspector` has the calls' states, the permits and the waiting
batches; a failed batch makes `gather` raise (`Raise`), and between the failure
and that the other batches go on; a cancellation is logged and swallowed (`Cancel`), and after a failed
write the session refuses further work (`WriteRefused`).  The steps of a single
block are those of `InspectBlocks` and are not repeated: a batch reads, writes,
and has written all of its blocks or fails.

`WorkQueue` puts messages before the calls.  `SendMessage` is one turn of the
loop of `cli.py:138-149`, upwards or downwards; `Take` a worker picking up a
message with a new session; `Finish` the end of the actor.  `Acknowledge`,
`Retry`, `GivesUp` and `Crash` are dramatiq's and are modelled from its
documented default (at least once, twenty retries, dead letters after that).

### 2.5 `S3Export`

`rows[t]` is which rewrite of the block table `t` holds, `object[t]` what the
object of `t` was made of.  A rewrite is the listener's (clear and fill each
table, then request the export); it may be interrupted anywhere and come again.
An export takes the tables in order and is a `Select`, a `CheckSize`, a
`DeleteObject` and an `Upload` for each, with rewrites going on in between.

### 2.6 `BlockSource`

`request[r]` is one call of the retry middleware with its loop variable, for
the four parts and the miner.  `Error` is an exception the middleware retries,
`Refuse` any other.  `version` is which block the node has at this height.

### 2.7 Classification, detection, token flow, prices, text

Functions with a loop around them: the loop's steps are the actions, its inputs
are chosen in `Init` from a constant set, and the properties compare what it has
found with a definition that knows nothing of loops, early returns and bounds.
Swaps and traces are named by their places in the sorted list.  Addresses and
tokens are values that can only be compared; amounts are numbers where they are
added up or must match (`Arbitrages`, `TokenFlow`, `NftTrades`,
`MinerPayments`), and left out elsewhere.

* `Arbitrages`: `ShortestRoute[max][call]` is a call of `_get_shortest_route`,
  with its bound, its start, the ends and the swaps that may be used; `TryNext`
  is a turn of its loop, in which a route that was found lowers the bound.
* `Punks`: bids and acceptances in the order of their transactions (`InOrder`);
  a snipe per acceptance that the block's highest bid on the punk exceeds, where
  a bid is the highest so far if it `Outbids` the one before.  As in the code,
  a failed bid counts and a failed acceptance does not.
* `Liquidations`: one loop over the traces of the block; a call that liquidates
  is skipped if it is below one that was seen before, or reverted.  The kinds of
  calls are those of the three classifiers (Aave, the markets for ETH and the
  others of Compound and Cream), each with its own way to find its debt and its
  collateral among the transfers below.  `raised` is the `KeyError` of an ETH
  market that is called without ETH (`compound.py:38`).
* `NftTrades`: of the transfers within a match, without those inside others, one
  must reach the buyer and one the seller; the fees are subtracted.  The
  property leaves out the wallet of the exchange as a buyer, and a seller who
  buys from himself: fees are told by that wallet and by the seller.  Neither
  looks at a trace's error: a match that was undone, with its transfers, is a
  trade like another.
* `MinerPayments`: per receipt, the simple transfers to the miner and the price
  of gas that comes of them, which is none without gas.  The price with the
  transfers is a quotient of floats that the row cuts to an integer; here it is
  the integer quotient, so that the digits that a float rounds away are not
  modelled.  The property follows the receipts with traces by their rank.
  Nothing in `get_eth_transfers` (`transfers.py:22`) or
  `get_miner_payments` looks at a trace's error, so that a transfer that was
  `reverted` counts as paid.  The property says so: the payment is the gain by
  the transfers that stood and that by those that were undone.
* `ClassifierSpecs` is data: each specification with its contracts, its protocol
  and its classifiers, in the order of the list.  `Classifier` offers a call to
  one after the other.  Decoding is one bit (`fits`: the arguments can be
  decoded) on top of which functions an ABI has.  The ABIs of the repository
  overlap beyond the functions with a classifier; `AbisWith` has every function
  that a specification without a list shares with another, or that two
  specifications of one contract share, and a function with the name of the ABI
  stands for the rest.  So a general specification can and does take calls of
  listed contracts, `owner` and `transferOwnership` of the Wyvern exchange and of
  Bancor (0x's `IOwnableFeature`, `zero_ex.py:184`) or `balanceOf` of a token
  (ERC20), and with them their ABI's name and protocol: these are calls that
  nobody classifies, and `ListedContractsAreTheirOwn` says that this is as far
  as it goes.  Decoders are kept by ABI name
  and classifiers by name and protocol, the last of equals winning, as in the
  dictionaries of the code.
* `TokenFlow`: the two loops, which add up ETH with WETH and stablecoins for the
  contract called and its proxies.  `Accounts` says what the moves do to the
  holders, and knows nothing of the loops.  `raised` is a `ValueError`: for a
  transaction without an address to call (`tokenflow.py:189`), and for the end of
  a contract that leaves its ETH to one of those checked, whose balance is read
  as `"0x"` and a text that begins with `0x` (`tokenflow.py:145`); what was
  counted is lost.  The loops do not look at a trace's error, so that the ETH and
  the tokens of a call that was `reverted` count; the property says that the net
  is the gain by what stood and by what was undone.  The code counts a
  delegatecall of a token's `transfer` as if tokens had moved (`tokenflow.py:118`);
  the property excepts this (`Borrowed`), as it does what the code takes for income alone.
* `Prices`: the fetch is one step per token and one for the insert; a
  `Summarise`, the part of an inspection that asks for prices, can come between
  any two.  `summary` holds the prices a row was computed with.
* `TextIO`: what the characters are plays no part, so a text is the positions at
  which its chunks end, and a read returns a list of intervals.

`Detection` has an instance of each of these, and a behaviour of it is one of
them on one input: they take turns with the same variables, and its named
assumptions say what every input is: lists that end (`ListsAssumption`), traces
sorted by their addresses or in the order of the calls (`SwapsAssumption`,
`LiquidationsAssumption`, `SalesAssumption`), traces of a block each with a
place of its own and among them the transactions themselves (`BidsAssumption`,
`PaymentsAssumption`), amounts that are natural numbers (`FlowsAssumption`), ends of chunks that do not fall
(`TextAssumption`), one price for a time (`PricesAssumption`).  `MC_Detection` gives the inputs.

## 3. The runs

| run | instance | properties |
|---|---|---|
| `inspect_exclusive` | 2 inspectors, 2 blocks, all 12 tables, 3 runs, block 2's arbitrage in a sandwich | `TypeOK`, `FinishedRunsExact`, `RerunsNeverCollide`, `OneTableMissingAtATime` |
| `inspect_repeat` | 3 inspectors on one range, 6 tables | `CollisionsLoseNothing` |
| `listener` | 5 blocks, lag 2, a reorganisation of depth 2, one crash and one signal at any step, weak fairness | `CursorCovers`, `CursorIsExported`, `StoredIsSettled`, `StopLeavesNoHalfBlock`, `ImplementsStream`, `InspectsExclusively`, `EveryDueBlockIsSent` |
| `handover` | two listeners that overlap over blocks 2 and 3, any number of collisions and starts | `HandoverLosesNothing`, `CursorNeverGoesBack` |
| `listener_gap` | 6 blocks, lag 2, one crash and one signal, no reorganisation | `NoSkippedBlocks`, which TLC refutes (see 3.2) |
| `inspector_command` | 9 blocks in 5 batches, 2 permits, 2 failures, a signal | `PermitsInUse` |
| `backfill` | 2 workers, ranges upwards, downwards and empty, 2 failures, a crash, weak fairness | `RangeIsPartitioned`, `UnfinishedIsInFlight`, `BackfillCompletes` |
| `backfill_large` | one message of more batches than permits, no failure | `ConcurrencyOnlyDelays`, which TLC refutes (see 3.2) |
| `export` | 3 tables, 3 rewrites, 2 failed calls, one exporter, weak fairness | `DisagreementIsPending`, `ObjectsCatchUp` |
| `block_source` | 3 attempts, one change of the block at the node, weak fairness | `RetriesAreExact`, `BlocksAreComplete`, `EveryCallEnds` |
| `punks_repeat` | the blocks of four calls for one punk that its contract lets happen | `SnipeKeysDiffer`, which TLC refutes (see 3.2) |
| `detection` | each of the following, on all its inputs | the properties of the table below |

| in `detection` | inputs | properties |
|---|---|---|
| `Swaps` | all trees of 4 traces of 8 kinds and of 5 traces of 4 kinds, in three shapes each | `InnerTransfersDoNotMatter`, `SwapsStayApart` |
| `Arbitrages` | all lists of 4 swaps out of 14 and of 5 out of 6 | `RoutesAreShortest`, `OpensAndClosesOnce`, `LeftoversHaveNoRoute` |
| `Sandwiches` | all lists of 4 swaps out of 9, in four groupings, and of 5 out of 5, in two | `SandwichesAreExact` |
| `Punks` | 4 places in 3 transactions, each empty or one of 10 bids and acceptances | `SnipesAreExact` |
| `Liquidations` | 4 or 5 traces of 9 kinds in 3 shapes, one with two transactions | `OutermostAreReported`, `LegsStayApart` |
| `TokenFlow` | 3 traces of 31 kinds, five of them undone, for a contract and a router that the transaction calls; 2 traces for the WETH contract and for none | `NetFlowsAreGains` |
| `NftTrades` | 5 traces of 7 kinds in 3 shapes, with matches inside matches | `PriceIsProceeds` |
| `MinerPayments` | 4 traces of 7 kinds, two of them undone, in 2 orders, 3 receipts of which one has no traces and one may have used no gas | `PaymentsAddUp` |
| `Classifier` | calls of 45 functions on 22 contracts that no, one or two specifications list, those with a classifier by the payer or a spender | `ClassifierIsFoundAgain`, `TransfersHaveTheirPayer`, `ListedContractsAreTheirOwn` |
| `TextIO` | up to 4 chunks of 0 to 3 characters; reads of 1, 2, 5 or all, in any order | `ReadsAreTheText` |
| `Prices` | two tokens, six answers of the market over three days, fetches, failures and inspections in any order | `RepeatsComeNearer` |

Type correctness is proved of the components with sessions, requests or messages
(section 4), and `inspect_exclusive` checks it of the one that others build on.

### 3.1 Bounds

* Three runs (`MaxRuns`) on two blocks are a failed run, a second failed run
  over its remains, and a good one; a run's effect on a table depends on the
  rows there only through "some or none", so longer histories repeat these.
* `inspect_exclusive` uses the real list of twelve tables.  The other runs use
  `ShortTables`: both COPYed tables (two in a row is what makes the delayed
  commit interesting), both tables without a key, the two that feed the summary
  and the last table.  What is left out are keyed tables with an ordinary
  writer, of which `liquidations` and `miner_payments` remain.
* The lag is 2 instead of 5, with reorganisations as deep as the lag.
* One crash and one signal can each hit any step of any turn, in either order.
* `handover` begins with block 1 written and its cursor committed, so that two
  more blocks are a hand-over in the middle of a block and one after it.  One
  stop makes the two overlap; a collision ends a process, so that there is no
  bound on how often they do.  The runs that this can take are fewer than
  `MaxRuns`: every run that is wasted needs a collision, and that needs the
  other listener to go on.  Nothing is killed (see 5).
* In the listener's runs `MaxRuns` is larger than blocks plus restarts, so that
  the bound never stops the listener.
* `Inspector`, `WorkQueue`: five batches on two permits, so that three must
  wait; in the workers' runs two batches of a message on two permits (three in
  `backfill_large`).  Two failures and a crash can hit the first or the second
  attempt of a message, and two failures bury one (`MaxRetries = 1`).
* `S3Export`: three tables, so that an export has one behind it, one at hand
  and one to come when a rewrite hits it; three rewrites are one before, one
  during and one after an export.
* `BlockSource`: three attempts are a first, a middle and a last.
* `Arbitrages`: a route of four swaps is the shortest in which the search can
  find a longer route first; five swaps have detours of that length beside it.
  `Sandwiches`: front run, two victims and a back run, or two nested
  sandwiches, with one swap to spare.  `Swaps`: a swap, a transfer for each
  side, and a transfer inside one of them.
* `Punks`: two bids and two acceptances of a punk, or one pair and another punk.
  `Liquidations`: nested calls with a leg for each side, and a chain of three
  nested calls with a transfer below all of them.  `NftTrades`: match, token,
  payment and both fees.  `TokenFlow`: wrap, pass on, unwrap.  `TextIO`: an empty
  chunk first, last and between, a read that spans three chunks.

The state machines of section 4 are proved about for all values of these.

### 3.2 Divergences

README.md:99 says the listener "will pick up wherever you left off".  The
cursor row of a block becomes durable only when the next inspection starts
deleting.  A listener that is stopped (or crashes) after the first block it ever
wrote and before the second leaves no cursor; when it starts again it takes the
head minus the lag, and never inspects the blocks in between.  `listener_gap`
shows the behaviour: `sent` has a hole.  Once a cursor has been committed the
promise holds, which is what `BlockStream` says (`origin` is forgotten only
while there is no checkpoint) and what `ListenerImplementsStream` proves.

cli.py:75 calls the bound of the semaphore the "maximum number of concurrent
connections": what exceeds it waits.  In a worker the semaphore is created under
another event loop than the one the message runs in (`queue/middleware.py:64`,
`queue/tasks.py:25`), and with Python 3.9 a batch that has to wait raises.  A
message of more than five batches, which `enqueue-many-blocks` with a large
batch size makes, fails at each attempt and ends among the dead letters though
nothing went wrong: `backfill_large`.  The default, ten blocks, is one batch.

Snipes are keyed in `punk_snipes` by block, transaction and trace address
(`alembic/versions/070819d86587_create_punk_snipe.py:29`), and `punks.py:40`
takes the last two from the block's highest bid on the punk.  Two acceptances
within a block, both with a minimum price below that bid, give two snipes of one
key: `punks_repeat` finds such a block among those that the contract of the
CryptoPunks lets happen (a bid of 2 is accepted, then one of 3).  The insert raises,
and so does every retry: the block cannot be written.

### 3.3 Fairness

`FairSpec` is weak fairness of `Step(p)`.  The event loop runs whatever is
ready; calls to the node, the database and the broker either return or raise
(then the attempt is a `Kill`), so no location of the loop is left for ever.
`Start` is part of `Step`: the code does not restart the listener, an operator
or the cluster does, and that is an assumption of the liveness property, as is
that crashes are finitely many (`MaxKills`).  Nothing is assumed of the chain:
`Mine` has no fairness, and the property speaks only of blocks that are due.
`handover` assumes no fairness; its properties are safety.

In `WorkQueue` the command and each worker are weakly fair, crashes and failures
are finitely many, and a crashed worker is back at once, which is the
deployment's restart.  In `S3Export` the exporter, and a rewrite once it has
begun, are weakly fair: the listener resumes the block it was interrupted at,
which is what `CursorCovers` and `EveryDueBlockIsSent` say of it.  In
`BlockSource` each request is answered or fails in the end (the client has a
timeout), and the event loop resumes the call.

## 4. The proofs

Proved for any number of inspectors, listeners, workers, blocks, runs, forks,
crashes and signals, any lag below `MaxBlock`, any list of distinct tables that
contains the ones the summary joins, any sizes of batches, messages and
semaphore, any traces in any tree of calls (the named assumptions of the
modules, which TLC evaluates in the runs).  Each property is an invariant that
is not inductive as it stands; the invariant of the proof says what the code
relies on between its steps, and one lemma per action keeps it.

* `InspectBlocks_proofs`, exclusive inspections: `TypeCorrect`,
  `FinishedRunsAreExact`, `RerunsAreFree`, `OneTableMissing`.
  `FinishedRunsExact` says nothing of runs that are going on.  `IInv` adds that
  active runs have names of their own and disjoint ranges (`JobsApart`), that
  `last` names exactly the blocks a run has touched (`LastOK`), that at most the
  table written last is uncommitted (`PendOK`), that what a run has rewritten
  holds its rows alone while what it is about to write is empty (`RowsOK`), and
  what the summary holds meanwhile (`SummaryOK`).  The step of one inspector on
  another's part is a lemma of its own, and rests on the disjointness of ranges.
* Repeated inspections: `RepeatsLoseNothing`.  Nobody owns a row here: each
  session deletes what it finds.  What holds at every moment is an order of the
  tables (`LaterTablesFollow`): where one table has rows of a block, every later
  one has some too, or a session that has got beyond the one still owes the
  other.  So the loser of a collision never takes away what nobody brings back:
  keys are taken only where rows are.  `SummaryFollows` says the same of the
  summary: when all tables have rows, it has both halves, or someone is about to
  compute it again.  Summary rows are compared by `\subseteq`: a session that
  computes them while the table of sandwiches is empty counts the arbitrages of a
  sandwich too, and such a surplus stays.
* `BlockStream_proofs`: `CheckpointIsCovered`, if blocks are numbers
  (`BlocksAreNumbers`).
* `Listener_proofs`: `ListenerInspectsExclusively` (every step of the listener
  is a step of `ExclusiveSpec`), by which `IInv` and with it
  `ListenerWritesExactly` carry over; `CursorNeverAheadOfData` and
  `CursorNeverAheadOfExports` by `CoverInv`, whose heart is `PendingOK`: the
  uncommitted cursor lives from the update to the first delete of the next run,
  and by the time it can be committed its block is complete and sent;
  `ListenerImplementsStream`, the refinement, from the same invariant;
  `StoredBlocksAreSettled` (given `MaxDepth <= Lag`) and
  `SignalsLeaveNoHalfBlock` with an invariant each.
* `Handover_proofs`, any number of listeners that overlap, of which one was not
  told to stop: `HandoverTypes`, `NeitherGoesBack`,
  `NothingBehindTheCursorIsLost`.  On top of the order of the tables,
  `CursorInv` says who may still commit a cursor (`MayCommit`): the listener
  that runs on, and one that was told to stop only within the writes of a block,
  where it does not await.  The row lock lets one session hold an uncommitted
  cursor at a time, and one that may still be committed is not beyond the block
  that a new listener inspects (`Apart`), so that the new one's commit comes
  after it and is no smaller.
* `WorkQueue_proofs`: first the calls alone (`CallInv`), with which
  `CommandsUseAllPermits` holds of the command line's `Inspector`; then the queue
  around them (`QueueInv`): `QueueTypes`, `WorkersUseAllPermits`,
  `BackfillPartitions`, `NothingUnfinishedIsLost`.  A message is in one place
  (`PlacesApart`), two messages have no block in common (`RangesApart`), what is
  sent lies between the start and the loop variable (`SendingOK`, upwards and
  downwards), a worker's call is on the range of the message it holds
  (`CallIsHeld`), and what a batch that is done has written stays done
  (`BatchesOK`): from these, two workers never write the same block, nor any
  worker one of an acknowledged message.
* `S3Export_proofs`: `ExportTypeCorrect`, and `NoObjectStaysWrong` for one
  exporter: an invariant says, for each table, who will correct its object: the
  rewrite that has touched the table and must still request an export, a
  message in the queue, or the exporter before its select of that table.  What
  the exporter has selected is what it uploads, so that a rewrite in between
  leaves a message behind it.
* `BlockSource_proofs`: `SourceTypeCorrect` and `RetriesExact`, for any number
  of attempts; the invariant ties the loop variable to the number of errors.
  `BlocksComplete`: what is answered stays answered, so the parts that `gather`
  has seen are still there when the miner's answer comes.
* `Detection_proofs`, each for its algorithm on all inputs that its assumption
  describes:
  - `InnerTransfersAreIgnored` and `OnlyNestedSwapsMeet` (`SwapInv`: after each
    trace, the prior transfers and the swaps are what the traces passed so far
    define).  The lemmas are about trees: below is a prefix order in which the
    callers of a call are a line, a caller comes before what it calls, and
    removing the transfers below transfers leaves the outermost ones.
  - `OutermostAreFound` and `NothingIsSeizedTwice` (`LoanInv`: the calls that
    count so far are the outermost of those passed).  Every call that
    liquidates has an outermost one above it, the first of its callers in the
    order of the traces; and a transfer below two outermost calls would put one
    of these below the other.
  - `SandwichesAreFound` (`ScanInv`: the victims are those between the front run
    and the place of the loop, and no back run was passed that had any).
  - `TextIsRead` (`TextInv`): the buffer begins where the last piece ended and
    ends where the last chunk taken ends, so that nothing is left only when the
    chunks are exhausted and the buffer is empty.
  - `PricesComeNearer` (`PriceInv`: no two rows of the table have one key, and
    the prices in the summary are rows of it; rows are never changed or
    deleted).
  - `SearchIsExact`, a fact about `ShortestRoute` alone: what it answers for a
    bound and a call is a chain from the start to an end through swaps that may
    be used, no chain within the bound is shorter, and there is no answer only if
    there is no chain.  The proof is by the bound: a search that is exact below
    the bound makes the loop over the swaps exact (`TryIsGood`, `BestIsGood`),
    where a swap that was skipped, or searched with the lower bound, has no
    shorter route than the best; a chain that goes on from the start avoids the
    start and the ends (`RestOfRoute`), so that it is among what the recursion may
    use.
  - From it, with `LegInv` (the routes found so far, and what they used):
    `FoundRoutesAreShortest`, `NothingOpensTwice`, and `NoRouteIsLeft`, in which
    a chain that was left would have been found when the loop was at its start,
    since an end that is free at the end was free then.
  - `SnipesAreFound` (`PunkInv`: the snipes are those of the acceptances passed,
    each at its rank).  Lemmas: a finite set whose members have places of their
    own is sorted by counting what comes before each (`InOrderIsSorted`), and the
    loop over the sorted bids ends with the first of the best (`HighestIsBest`).
  - `NetFlowsAreTheGains`: as long as nothing is raised, the flows after each
    trace are the gains of the traces passed (`EtherAddsUp`, `DollarsAddUp`), in
    which a sum over a set grows by the amount of what is added
    (`AmountsWithOne`, `AmountsApart`) and is that of its parts, of what stood
    and of what was undone (`GainsApart`).
  - `PricesAreProceeds`: what remains of the transfers below a match leaves the
    seller with the payment less the fees.
  - `MinerPaymentsAddUp`: the payments are those of the receipts with traces,
    each at its rank; the first trace is the transaction itself.  The price is
    the number that division says it is (`PriceOfAll`).
  - `ClassifiersAreFoundAgain`, `TransfersHaveTheRightPayer` and
    `ListedContractsSpeakFirst` are about the list of the code, which is a
    constant of 122 specifications, and any call.  The list is taken apart block by
    block (`SpecsAreRows`), and each row is shown to classify what its ABI and its
    protocol say (`ClassifiersOf`), and to have functions that only rows with
    contracts have, or only rows without (`IsRow`).  What some row classifies,
    transfers aside, is classified by every row whose ABI has it
    (`KnownIsClassified`).  `ClassInv` says that the spec at hand has claimed what
    is decoded, that those passed have not, and that no transfer gets beyond the
    first.

Sums and folds over sets, and recursive functions, are reasoned about without
the induction theorems of the library, whose parameter is an operator:
`NatSetInduction` and `SetInduction` in `Detection_proofs` speak of a *set* of
numbers, or of subsets of a finite set, that is closed under adding one, and
follow from the existence of a least counterexample (`HasLeast`).

`LegsStayApart` spells out that two pairs have nothing in common: tlapm 1.4.5
reduces an intersection of two enumerated sets to the elements that are written
alike, which is wrong of variables.  No proof here has such an intersection,
except of names of functions, which are literals.

Of the runs that pass, every invariant and every action property is proved.
Only model-checked are the liveness properties `EveryDueBlockIsSent`,
`BackfillCompletes`, `ObjectsCatchUp` and `EveryCallEnds`: fairness is out of the
prover's reach.  `NoSkippedBlocks`, `ConcurrencyOnlyDelays` and `SnipeKeysDiffer`
are refuted by their runs.

## 5. Not modelled

* The values of the rows that an inspection writes: the properties of
  `InspectBlocks` are about which rows are there.  In the summary, decimals and
  tokens that the tokens table does not have; `Prices` has one profit token.
* A listener that is killed while it overlaps with another, which can leave a
  block behind the cursor without its rows; two first listeners, which both
  insert a cursor row; and an old listener that is still going after restart's
  thirty seconds, which is a stop like `listener stop`.
* Two exporters of one block: the one that selected first may upload last, and
  the object stays behind its table.  The deployment has one worker with one
  thread; README.md:125 recommends more replicas for parallelism, and says
  nothing of exports.
* Amounts of zero in `Arbitrages`: `utils.py:11` divides by the mean of two
  amounts.  The grouping of swaps by transaction, which keeps the groups apart.
* The parser of 0x orders (`classifiers/specs/zero_ex.py`), which reads its
  amounts out of the order itself; its fills are calls in `Classifier`, and the
  swaps of them are left out.
* ABI decoding (`decode.py`) beyond the bit that says whether it succeeds, and
  the escaping of CSV values (`db.py:83`): both are about the bytes of texts, and
  the models have no texts.
* The Redis broker, the node, S3 and Postgres itself are modelled only by what
  the code uses of them.
* `k8s/`, `alembic/`, the pydantic schemas and the SQLAlchemy models carry no
  behaviour beyond the keys, which `Schema` has.

## 6. Plan

What is left, in this order.

1. The listener together with a backfill of the blocks it is at, and `Handover`
   with kills, once it is said what an operator may rely on there.
2. The 0x orders; the escaping of CSV values as a round trip.
