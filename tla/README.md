# A TLA+ model of rosetta-deso

rosetta-deso serves the Rosetta API (Data and Construction) for the DeSo chain.
It embeds the core node (`github.com/deso-protocol/core/lib`), follows it through
event callbacks, and keeps beside the chain database an index of its own from which
it answers historical balance queries. This directory holds TLA+ modules translated
from the Go source, the TLC runs over small instances, and theorems that TLAPS proves
for every value of the constants.

    tlc -workers 2 -config IndexBlocksync.cfg MCIndexSync     # a run
    tlapm IndexSyncProofs.tla                                 # a proof

## 1. The system

| part | state | operations | hard behaviour |
|---|---|---|---|
| Rosetta index (`deso/index.go`) | badger: snapshot records whose *keys* hold type, account, height and balance; gob maps per (height, type) for synthetic blocks | Put with a write batch, Get by public key, Get by locked stake, Get of a synthetic block's maps | a Put never replaces, a lookup is one step of a reverse seek: every answer depends on all older writes |
| block event handler (`handleBlockCommitted`) | none of its own; takes `dbMutex` | five sources of balances per block: DESO, PKID mappings, profiles, validators, locked stakes | early return on a hypersynced node, a missing view, tombstones, a failed flush that is only logged |
| hypersync bootstrap (`handleSnapshotCompleted`) | counters of the loop | four phases, each counts then walks one chain index, spreads it over heights 1..first, flushes | a failed phase is logged and the next runs; readers see each flush |
| synthetic blocks (`getBlockTransactionsWithHypersync`) | none | gifts of a height to transactions | order of Go maps; chain of hashes through four loops |
| node lifecycle (`deso/node.go`, `cmd/run.go`) | fields of `Node`, `runningMutex`, wait group, two channels, exit channels, OS signals | Start, Stop, closeDb, listenToRestart, signal goroutine, main goroutine | goroutines of several generations share the fields, two can stop at once, blocking send with the mutex held |
| operation conversion (`deso/block.go` from line 120) | none | a block's UTXO operations to Rosetta operations | implicit and explicit outputs must neither overlap nor leave a gap; signs; royalties that were not paid |
| block and account queries (`services/block_service.go`, `account_service.go`) | none | read chain tip, then index | race with the handlers, the bootstrap and a restart |
| construction (`services/construction_service.go`, `types.go`) | none | preprocess, metadata, payloads, combine, parse, hash, submit | three unsynchronised reads of the chain in metadata; nonce and fee decided early must survive the flow |
| network, mempool, routing, errors, utilities, configuration, address seeding | none worth a model | reads and formatting, DNS at start | – |
| core library and badger | external | – | – |

How they interact. `Node.Start` opens the chain and index databases, creates the core
server and starts it; the core library commits blocks, or downloads a state snapshot, and
**synchronously calls** `handleBlockCommitted` / `handleSnapshotCompleted`, which write
the index. HTTP handlers call `GetBlock` and `accountBalanceSnapshot`, which read the chain
and the index with no lock shared with the writers. The server asks for a restart
by a **message** on `nodeMessageChan`, the operating system by a signal; both end in `Stop`.

What makes the parts correct:

* index and handlers: a lookup at a handled height is the chain's balance there; an
  answer never changes; a hypersynced node's synthetic blocks add up to its lookups;
  a lost write stays confined to its accounts and ends with their next write; where nothing is
  lost, only an old genesis balance can hide a balance that is gone;
* bootstrap loop: each balance is given away exactly once, at its record's height, and none but
  the last block gets more than its share and one;
* locked stake lookup: a seek stops at the newest record of that very stake and decodes it;
* lifecycle: a directory is open at most once, a running server has its databases, an
  erase finds nothing open, no Stop returns before everything is closed, a restart completes, an
  interrupt ends the process;
* operations: the operations of each transaction are exactly what it changed, per account;
* queries: a client that adds up the blocks gets the balances, and a balance is that of one
  block, never a mixture;
* construction: what is signed is what was requested, parses back to it, and is refused only
  for what happened to the chain afterwards.

## 2. The modules

    BalanceIndex ──┬── HypersyncBuckets ──┬── MCHypersyncBuckets
                   │                      └── HypersyncBucketsProofs
                   └── IndexSync ──┬── IndexSyncProofs ─────────────────┐
                            │      ├── MCIndexSync                      │
                            │      └── RosettaAPI ──┬── RosettaAPIProofs┘
                            │                       └── MCRosettaAPI
                            └── INSTANCE BalanceBook (refinement)
    Selections ──┬── BlockOperations ── BlockLedger ──┬── MCBlockLedger
                 │                                    └── BlockLedgerProofs
                 ├── Construction ──┬── MCConstruction
                 │                  └── ConstructionProofs
                 └── FoldLemmas (used by IndexSyncProofs, ConstructionProofs
                                 and BlockLedgerProofs)
    LockedStakeIndex ──┬── MCLockedStakeIndex
                       └── LockedStakeIndexProofs
    NodeLifecycle ── NodeLifecycleProofs

**BalanceIndex** – the two key spaces as values. A database is a *set* of records, since
the balance is in the key and the value is empty: two balances of one account at one height
would coexist, and the lookup takes the greatest key (`GetBalanceSnapshot` = the reverse
`Seek` to `(account, height, MaxUint64)`). An "account" is a public key, or a stake,
together with a balance type, because the prefix byte keeps the types apart.

**IndexSync** – the core component: chain, handlers and index.

| module | code |
|---|---|
| `event`, `todo` | the argument of the handler that is running; the phase of `handleSnapshotCompleted`. Both handlers are called synchronously, so the core library acts only when `Idle` |
| `first`, `starting` | `FirstSnapshotBlockHeight` read through `node.Server`, which is nil, or the erased chain's server, until `NewServer` returns |
| `Entry`, `BalancesToPut` | the five maps of the view; a deleted entry puts 0; PKID mappings put the profile found *now*, which is what catches a SwapIdentity; a profile in the view overrides them (both go into one map under the same key) |
| `IgnoreBlock`, `DropBlock`, `IndexBlock`, `LoseBlock` | the early return at `height <= firstSnapshotHeight`, the missing view, the flushed batch, the flush that fails or is cut off after a part |
| `WriteSnapshotType`, `FailSnapshotType` | one phase of the bootstrap and one that fails; the key order of the chain index is arbitrary, so `Placements` ranges over all orders |
| `CommitGenesis` … `Erase` | the core library: genesis inside NewServer, blocks, the end of a hypersync, historical blocks of an archival node, NodeErase |
| `ledger`, `history`, `answers`, `stale`, `failed` | ghosts: what the chain really held, which heights were handled, where the index is known to differ. No handler's guard reads them |

`stale` holds two kinds of accounts, and `LookupsAreExact` exempts both until their next
successful write: those whose record was lost, and, without any fault, the `Leftovers`: an account
that a genesis record gives a balance and for which the snapshot has no row, since the loop puts
no 0 for it and nothing deletes the old record. So that the second exemption hides nothing,
`OnlyGenesisOutlives` says without `stale` what remains true of a node that loses nothing: a
lookup is wrong only for an account whose balance on the chain is gone, and whose newest record
is the one the genesis block left.

Locked stakes are written by the same handlers, so their records are in `IndexSync`, but
`GetBalanceSnapshot` refuses their type; the lookup properties quantify over `Keyed`, the
other three types, and their own lookup is in **LockedStakeIndex**: keys as tuples
(staker, validator, epoch, height, balance) with byte order as lexicographic order, the
iterator bounded by `validForPrefix`, and the decoded offset as written in the code.

**BalanceBook** – the abstract promise: one page per height, equal to the committed ledger,
never changed, given up only as a whole when the chain is replaced. `IndexSync!Book`
instantiates it with the lookups as pages; `ImplementsBook` is the refinement.

**HypersyncBuckets** – the loop of one phase, key by key (`currentCounter`,
`currentBlockHeight`, `balancesMap`, the put of the remainder). `IndexSync` uses the closed
form `BucketHeight`; `PlacedByDivision` shows that it stands for the loop.

**RosettaAPI** – readers beside the writers, by extending IndexSync. A request is several
steps, as in the code: `AskBlock` checks the tip (`GetBlockAtHeight`), `FindBlock` compares with
the first snapshot's height, `ServeBlock` reads the gifts or the block; `AskBalance` finds the
block, by index or by hash, `ServeBalance` looks the balance up. Any step of the handlers
or of a restart (`CloseDatabases`, `OpenDatabases`) may fall between. The client is the one
Rosetta prescribes: it adds up what the blocks do, starting at block 0. `trust` is a
ghost that remembers that it fetched gifts too early or from a replaced chain. What a real
block's operations add up to is taken from the ledger here; BlockOperations is about that.

**BlockOperations** – `GetTransactionsForConvertBlock` and everything below it, as pure
operators with the names of the Go functions. A record stands for a transaction or UTXO operation,
with the fields the code reads. **BlockLedger** plays the core library: each action is one kind
of transaction, changes the ledger and leaves the UTXO operations the converter expects. Below
the fork outputs are spent whole with change; above it balances are lowered. A wrapper takes in
the transactions before it as inner ones. `ledgers` keeps the balances after each transaction, which
is what the operations are compared with, and the ghost `inverted` the movements of which the
inverse is served. `SwapRecords` says what a SwapIdentity may record: the locked amounts before
it, or those after it, as `deso/block.go:711-712` has it; the core library is not in the
repository, so both are modelled.

**LockedStakeIndex** also has the way from the API to that lookup: the sub-account that operations
name (`SubAccountOf`), the parser, and the fixed epoch of `AccountBalance`.

**Construction** – one transfer. `stage` is the last call that is done, and metadata is split at
its reads of the chain: `ReadView` (parameters, from the mempool's view), `AddInputsAndChange`,
and `Metadata` (the tip). The ghost `seen` is the tip that the nonce was made at. `NewBlock` and `ChangeParams` may happen at any time. Options that are 0
are not set, as in the code. A transaction has size 1, so a rate is a fee. `Accepts`
states what the network wants of the next block's transactions, and is external.

**NodeLifecycle** – each call of Start is a *generation* with a starter, a listener
(`listenToRestart`) and a signal goroutine. An action is a stretch of one goroutine
between two points where another can intervene. `mutex`, `isRunning`,
`internalExitChan`, `nodeMessageChan` are the fields; `waitsOn` and `receivesOn` are the
channels a goroutine's `select` *read*, which may be replaced afterwards; `closing` are
the goroutines of `closeDb`. A panic or fatal error ends the process.

**Selections** – what a Go loop with a condition takes from a slice, as a recursive function.

**\*Proofs** – theorems and proofs of the module they are named after; **FoldLemmas** – lemmas
about sums over sets and sequences, about selections and concatenations.
**MC\*** – the accounts, stakes and ranges of the instances.

## 3. The runs

| run | checks | shows |
|---|---|---|
| IndexBlocksync | `ImplementsBook` | without faults a block-syncing node's index implements the abstract book: swaps, tombstones, untouched accounts |
| IndexHypersyncFaults | `TypeOK`, `LookupsAreExact`, `GiftsReconcile`, `AnswersAreFinal` | with missing views, lost and partial flushes, failing phases and an erase, a lookup is wrong only where a write was lost or a genesis balance outlives the snapshot |
| HypersyncBuckets | `TypeOK`, `GiftsMatchRecords`, `PlacedByDivision`, `SharesAreBounded` | the loop gives each key away once at its record's height, equals the division, and gives no block but the last more than an even share and one |
| NodeLifecycle | `TypeOK`, `OneHandle`, `ServerHasDatabases`, `EraseFindsNothingOpen`, `StopLeavesNothingOpen`, `RunningNodeHearsInterrupts`, `PanicNeedsAnInterruptOrAStart`, `RestartCompletes`, `FirstInterruptEndsProcess` | three generations and two interrupts in every interleaving |
| LockedStakeSeek | `TypeOK`, `SeekFindsNewest` | a stake that has a record is found at its newest one |
| RosettaAPI | `APITypeOK`, `ClientReconciles`, `BalanceIsOfOnePage`, `OnlyGenesisOutlives` | a client's sums are its balances on a hypersynced node, through made-up blocks, restarts and handlers that are behind; no balance mixes two blocks; nothing but genesis balances outlives the bootstrap |
| BlockOperations | `TypeOK`, `OperationsReconcile` | the operations of each modelled kind of transaction are the change it made, and exactly its inverse for the inputs of finding 4 and for a SwapIdentity that records the amounts after it |
| Construction | `TypeOK`, `OptionsAreHonoured`, `ParseReturnsIntent`, `RejectedOnlyIfTheChainMoved` | every combination of options, with blocks and parameter changes between any two reads |
| NodeAssertion | `MessagesFindNodeRunning` – **violated** | finding 1 |
| NodeInterrupt | `InterruptEndsProcess` – **violated** | finding 2 |
| LockedStakeServed | `LockedStakeIsServed` – **violated** | finding 3 |
| OperationSigns | `InputsSubtract` – **violated** | finding 4 |

### Bounds, and why they are enough

* *IndexSync.* `MaxHeight` bounds the chain, `MaxTouched` the balances of one view,
  `Amounts` the values. IndexBlocksync has one DESO balance and two creators (a swap needs
  two), three amounts (so that a swap, a write and a tombstone differ) and heights 0..2: a write,
  an untouched height and another write. IndexHypersyncFaults has one account of each of two types, which
  is enough for one phase to fail and the other to succeed, and an erase followed by a second
  bootstrap. Accounts do not interact except through a swap and through the sharing
  of heights.
* *HypersyncBuckets.* 0..9 keys over snapshot heights 1..4: no key, fewer keys than heights,
  an exact division, every remainder.
* *NodeLifecycle.* `MaxStarts` = 3 gives two restarts, so goroutines of three generations
  meet; the last generation's server sends nothing (the bound is in `ServerSends` and
  `NewServer`). `MaxSignals` = 2: an interrupt before and one after, or both at once with a
  restart.
* *LockedStakeIndex.* Two stakers; one with two validators and two epochs: neighbours on each part
  of the key. Heights 0..2.
* *RosettaAPI.* Two DESO balances and heights 0..3: fewer, as many and more rows than synthetic
  blocks, the snapshot block, and real blocks after it. No lost writes: IndexHypersyncFaults
  has those.
* *BlockOperations.* Two keys, one a validator, each with every sub-account; two transactions, so
  that one may spend what the other made, and a wrapper may hold one or two; both sides of the
  fork; one amount, two kinds of royalty (paid, and recorded but not paid); both meanings of a
  SwapIdentity's record (OperationSigns has only the one the operations need, so that its
  trace shows finding 4 and nothing else).
* *Construction.* Two keys; a transfer, one of two inputs, one that also pays the sender, one of
  two senders; every combination of options that are unset, low, in range and too high; the
  fork at height 2 of 3; rates and offsets that are unset and set, with the default
  offset well above the set one.

`CHECK_DEADLOCK FALSE` everywhere: each behaviour ends, at a bound, at the end of a phase, or
with the process. That the lifecycle does not get stuck is what its liveness properties say.

### Mutants

An operator commented `Mutant:` is the form a plausible bug would give to the definition
after it (a dropped condition, an off-by-one, a step left out). No specification
uses it. Replacing the definition by its mutant makes TLC report the property that
`PROJECT.json` names beside it under "mutants", which shows that the run can see such a bug.

### Fairness

Only `NodeLifecycle` claims liveness. `Fairness` is weak fairness of every goroutine's
own steps (starter, listener, signal goroutine, stopper, each `closeDb`, main): the Go
scheduler runs each goroutine that can run, and `sync.Mutex` hands itself to a starving
waiter, of whom each asks once per call. There is none on `ServerSends`, `Interrupt`
or `FatalError`: neither the core server, the operating system nor badger has to do anything.
A `select` with two ready cases may take either.

## 4. What is proved

Every theorem holds for all values of the constants that the `ASSUME`s of its module allow: any
finite set of accounts of any types, any amounts with 0 among them, any `MaxHeight` and
`MaxTouched`, any sync type, view set and fault set; any `MaxStarts` and `MaxSignals`; and so
on. Where a theorem has a hypothesis of its own, it is named below with the reason.

| theorem | property | hypothesis |
|---|---|---|
| IndexSyncProofs `TypeCorrect` | `TypeOK` | – |
| `ExactLookups` | `LookupsAreExact` | – |
| `FinalAnswers` | `AnswersAreFinal` (action property) | – |
| `BookIsImplemented` | `ImplementsBook` (refinement) | `BlockSyncing` |
| `GiftsReconciled` | `GiftsReconcile` | – |
| `OnlyGenesisBalancesOutlive` | `OnlyGenesisOutlives` | `NothingFails` |
| RosettaAPIProofs `BalancesAreOfOnePage` | `BalanceIsOfOnePage` | – |
| `APITypeCorrect` | `APITypeOK` | no erase |
| `ClientsReconcile` | `ClientReconciles` | `Quiet` |
| HypersyncBucketsProofs `TypeCorrect` | `TypeOK` | – |
| `GiftsAreRecorded` | `GiftsMatchRecords` | – |
| `PlacedAsDivided` | `PlacedByDivision` | – |
| `SharesBounded` | `SharesAreBounded` | – |
| NodeLifecycleProofs `TypeCorrect` | `TypeOK` | – |
| `HandlesAreExclusive` | `OneHandle` | – |
| `ServersHaveDatabases` | `ServerHasDatabases` | – |
| `ErasesFindNothingOpen` | `EraseFindsNothingOpen` | – |
| `StopsLeaveNothingOpen` | `StopLeavesNothingOpen` (action property) | – |
| `RunningNodesHearInterrupts` | `RunningNodeHearsInterrupts` | – |
| `PanicsNeedAnInterruptOrAStart` | `PanicNeedsAnInterruptOrAStart` | – |
| LockedStakeIndexProofs `TypeCorrect` | `TypeOK` | – |
| `SeeksFindNewest` | `SeekFindsNewest` | – |
| BlockLedgerProofs `TypeCorrect` | `TypeOK` | – |
| `OperationsReconciled` | `OperationsReconcile` | – |
| ConstructionProofs `TypeCorrect` | `TypeOK` | – |
| `OptionsHonoured` | `OptionsAreHonoured` | – |
| `ParsesReturnIntent` | `ParseReturnsIntent` | – |
| `RejectionsExplained` | `RejectedOnlyIfTheChainMoved` | – |

### The index (IndexSyncProofs)

`LookupsAreExact` is not inductive: it says nothing of a block whose handler still runs. The
strengthening `IInv` is `TypeOK` and

* `TipIsAnswered` – between two calls the tip is answered, nothing above it ever is;
* `LedgerIsHistory` – the ledger is the last page of the history;
* `EventIsNext` – a running event is the tip's, follows an answered height and leads from its
  ledger to the tip's, or it is a historical one that will be ignored;
* `RecordsBelowTip` – no record is above the tip, nor at a tip whose event runs: so what is put
  at a height is alone there, and the lookup finds it;
* `SnapshotProgress` – before its phase a type has genesis records only, afterwards its lookups
  at the snapshot height are exact up to `stale`;
* `RecordsAreExact` – `LookupsAreExact` for all four types.

The argument of the block case: a lookup below the new height sees the same records
(`LookupSame`); at the new height, a written account has exactly one record, on top
(`LookupLatest`, `BalancesToPutExact`); any other account has the records, and the balance, it
had one height below (`AnswerNewEvent`). The bootstrap case is `PhaseKeepsInvariant`, which
needs that the placed heights lie in 1..first (`BucketHeightRange`, `PlacementsRange`) and that
the four types are distinct.

`FinalAnswers` follows from `RecordsBelowTip`: a block puts records above every answered height,
and a phase of the bootstrap writes while nothing below the snapshot is answered.

`BookIsImplemented` maps every step to one of `BalanceBook` or to a stutter: a committed block
commits a ledger (`CommitIsCommitLedger`), its handler publishes the page (`IndexIsPublish`), an
erase replaces the book (`EraseIsReplace`), everything else stutters. Its invariant `BookInv`
adds that nothing is lost (`stale` is empty everywhere), which needs `BlockSyncing`: the node
syncs block by block, every event has a view, and no flush fails. Each part is needed. Without a
view or after a lost flush a page is wrong. After a hypersync a genesis record without a row in
the snapshot shows through (section 5), so that the page at the snapshot is not the ledger. For
those nodes `ExactLookups` says what remains true, and without the ghost `stale`
`OnlyGenesisBalancesOutlive`, for a node whose writes do not fail. Its invariant `OInv` says that
an account that is stale then has nothing but genesis records and no balance on the chain, and that
a phase still to come has left none (`NotYetStale`). Its hypothesis `NothingFails` is needed: a lost
write makes a lookup wrong for an account that has a balance.

### Gifts and clients (FoldLemmas, IndexSyncProofs, RosettaAPIProofs)

`GiftsReconcile` sums an account's gifts over the heights. The inductive statement needs no sum:
`GiftsMatch` says that an account whose phase is over has either no record and no gift, or one
record and one gift, of its balance and at its height (`OneGift`); a type whose phase is to come
has none. `GInv` adds when there can be gifts at all: only a hypersync sets a first height, and
a new server has none before its snapshot. The sum of a function that is 0 but at one height is
then a lemma.

`BalanceIsOfOnePage` needs of the index, beside `IInv`, only that the answered heights have no
gap (`AnswersAreContiguous`): the lookup at a height not yet handled falls back to the last page
below. There is no hypothesis, so it covers a balance read across a restart or an erase.

`ClientReconciles` compares sums with lookups at one moment, while the client collects them over
many. `SumsAreDue` says what it has collected so far, at every step: the gifts up to the last
block, or that block's page of the history. A client that came too early, while gifts were being
written, has at most that. The rest of `ClientInv` ties the client to the chain: it never asks
above the tip, the request that was found synthetic is still so when it is served
(`FoundIsServed`), and the snapshot is answered once its phases are over (`SnapshotIsWhole`).
The theorem is for a node that is `Quiet`:

* with a lost flush the lookup is wrong and the block is not, so the sums differ, as they
  should;
* an erase takes the chain away below a client that keeps its place. The tip is then lower than
  the client's next block, and for the same reason `APITypeOK`, which bounds the one by the
  other, is proved for a node that is not erased.

The run `RosettaAPI` has `Faults = {}` and satisfies both hypotheses.

### The loop of a phase (HypersyncBucketsProofs)

`GiftsAreRecorded` is from the invariant `MapIsCurrent` (the keys collected are those placed at
the current height; every height below is closed and equals its bucket; every height above is
empty) and `AllWalked`. `PlacedAsDivided` needs `CountersDivide`, which relates the two counters
to the number of keys walked: `walked = (currentBlockHeight - 1) * balancesPerBlock +
currentCounter`, with the counter below `balancesPerBlock` unless the height is the last. That
the code's counting is an integer division is then `QuotientExact`, from `Quotient` and
`MultiplesGrow`; the provers have no induction over a product of two variables, so monotonicity
is proved once there. The theorem is what allows `IndexSync` to use the closed form
`BucketHeight` in place of the loop. `SharesBounded` follows from both: the keys of a block lie
between two multiples of its size, those of the last block above one (`KeysOfBlock`), and the size
is the share or one more (`BlockSizeIsShare`).

### The lifecycle (NodeLifecycleProofs)

None of the seven properties is inductive. Their common invariant says what each goroutine's
position tells of the shared fields, for any number of generations:

* `MutexIsHeld`, `RunningFlag` – `runningMutex` is held exactly between its Lock and Unlock, and
  `isRunning` is what that stretch has made of it;
* `OneGeneration` – a generation is started by the listener of the one before, after its Stop,
  so at most one is alive. This is what keeps the replaced fields apart;
* `Handles` – the handles that are open, from the positions in `Start` and `Stop`: nothing is
  open when the node is down, and what a stopper waits for is what is closing;
* `StartedServer`, `ExitChannel`, `HandlerWaits` – whose server, whose exit channel is in the
  field, and that a `select` reads its own channel or a later one, never an earlier;
* `ReceivedWhileRunning` – when a message can be received at all;
* `NoLockPanic` – badger's directory lock has not been met.

`Invariance` has one step per action. `OneHandle` then rests on mutual exclusion and `Handles`,
`EraseFindsNothingOpen` and `StopLeavesNothingOpen` on these and `OneGeneration`,
`RunningNodeHearsInterrupts` on `ExitChannel` and `HandlerWaits`.

### Locked stakes (LockedStakeIndexProofs)

`IInv` is `TypeOK`, `RecordsBelowTip` and `NewestHoldsHistory` (the newest record of a stake up
to a height holds what was locked there). The theorem is the step from the newest record to the
seek: `KeyOrder` says what the lexicographic order is for two keys of one staker: validator,
epoch, height, and last the balance; `KeyIsInjective` that a key is one record;
`SeekStopsAtNewest` combines them. The seek key ends with `math.MaxUint64`, so the assumption on
`Amounts` says that there is a greatest amount. Without it the seek would stop before a record,
and the theorem would be false.

### Operations (BlockLedgerProofs)

`OperationsReconcile` compares sums over the served operations with differences of ledgers, so
it is a theorem about the converter as much as about the ledger. What makes it hard is that the
conversion of one transaction reads the whole block: the amount of an input is looked up among
the outputs that *any* transaction of the block spends, and a later transaction adds to those.
The inductive invariant `Inv` takes that apart:

* `Shape` – transactions, UTXO operations, ledgers and inverse movements are in step, and the block's own
  operations come last, when it is closed;
* `TxnsRight` – each transaction converts right (`Right`) for **every** map of spent amounts that
  agrees with the transaction's own spends, not only for the one of this block. So a later
  transaction disturbs no earlier one, and a wrapper may take two of them in;
* `CoinsRight` – all coins of the block, spent and unspent, have an amount by their key, a new
  coin's key is beyond all of them, and an unspent genesis coin is in `GenesisOutputs`. So
  the block's map does agree with each transaction (`Agrees`), and `getInputAmount` is right
  where it does not look at the map;
* `BlockRight` – the end of an epoch converts right, and is above the fork.

Every action is then a plan of a transaction (`Planned`) or a wrapper, the end of the block, or a
stutter (`NextPlanned`). `ConnectInv` proves once that connecting *any* plan keeps `Inv`: what it
pays, gets back and credits is the value of the plain operations (`ConnectedRight`: coins are
paid whole, below the fork the first outputs are the transaction's and the others implicit,
above it all are). What is left to each kind of transaction is its special part (`SpecialRight`):
its special operations have the value of what it moves beside DESO, and of what the bidder pays
below the fork, where `AcceptNFTBid` and `DAOCoinLimitOrder` take inputs of another key out of
the metadata. Each has a lemma. Squashing keeps the value of every account (`SquashValue`): the
operations it merges are a partition by account. The wrapper is the sum of two consecutive
differences, which is why its inverse movements are those of both. Nothing is exempt: where the
inverse is served, the theorem says that it is exactly the inverse.

`TypeOK` adds that below the fork a balance is the sum of its unspent outputs (`Balanced`): a
transaction takes coins out and puts new keys in (`Exchange`), and the ledger moves by the
same amounts.

The assumptions say that royalties, rewards and the fee are natural numbers, that amounts are
positive, and that the block begins with balances within the bound (`StartAssumption`). The
values of the operations are any integers in `TypeOK`: the theorem has no bound on the number of
operations that squashing adds up.

### Construction (ConstructionProofs)

None is inductive, since each speaks of a transaction that is done. `Viewed` says what the first
read of metadata leaves (the parameters are the chain's until they change, the caller's rate is
not below them), `Prepared` what the second leaves for the options to change (the rate as the
fee, an expiration within the greatest offset if the parameters have not changed), `Finished`
what submit relies on. `Rate` and `Expires` are the two facts about the code's conditions: the
rate that is used is the caller's if there is one, and an expiration that passes the checks is
within the offset. `Prepared` and `Finished` also say that an expiration is above the tip it was
made at (`seen`), unless the caller gave that tip itself (`ExpiresAtTheTip`): only so is a nonce
that has expired at submit one that the chain has overtaken. The proof is also why the ghost `changed` is there: parameters that change
before the second read *and change back* leave a nonce that expires too late, so comparing
parameters at the end is not enough.

`ParsesReturnIntent` needs `Carried`: the transaction holds the outputs of the intent, with one
change output at most below the fork, it has one sender, and after payloads the amounts of the
inputs. The rest is about sequences: the selection from a concatenation, through the map from
operations to outputs and back. The assumption on `Intents` is that an intent is a sequence of
operations with a type, an account and an amount.

### Induction over data

The induction theorems of the library take an operator as a parameter, which no installed prover
can instantiate. FoldLemmas uses the well-foundedness of `<` on the naturals instead
(`NatLeast`, and `MinimalSet` for finite sets): a set of counterexamples has a least one, which
the step of the induction refutes. That suffices for recursive *functions*: the sums of
`Functions` and the selections of `Selections`. It does not for `SelectSeq`, whose definition the
provers do not see; Construction and BlockOperations use `Selection`, and `FlattenSeq` is
unfolded only for the sequences of one or two parts that a block has.

### Only model-checked

* `RestartCompletes` and `FirstInterruptEndsProcess`: liveness under fairness is outside what
  the provers do.
* The four violated properties, which are findings of TLC.

## 5. Findings

1. **Assertion of listenToRestart** (`deso/node.go:441`). `isRunning` is set after
   `Server.Start` and cleared before `Server.Stop`, and is read without the mutex: a
   message that the server sends in either window panics the process.
2. **Interrupt after a restart** (`deso/node.go:193`). `Start` calls `listenToRestart()`
   without `exitChannels`, so a restarted node has none to close: SIGINT stops the node but `main`
   waits for ever. `FirstInterruptEndsProcess` shows that generation 1 ends as intended.
3. **Balance of a locked stake** (`deso/block.go:1087`). The identifier that operations carry has
   three parts, the parser wants two and fails. Behind it lie three more: `AccountBalance`
   asks for epoch 0 (`account_service.go:114`), the iteration is kept within the staker's keys and not
   the stake's, so an absent stake is answered from another one (`index.go:403`), and the
   balance is decoded with the offset of the other key layout, inside the validator's PKID
   (`index.go:420`).
4. **Inputs of Unstake and UnlockStake** (`deso/block.go:1180`, `1236`). The amount of these INPUT
   operations is not negated, unlike every other input, so a client's sum of a validator's
   or a locked stake's account grows where the balance falls.

Comments of the source that the code does not keep. Each is a definition of the module named, in
the comment's words, that no run checks; added to the INVARIANTs of the configuration named, TLC
violates it.

| comment | what the code does | definition | configuration |
|---|---|---|---|
| `deso/events.go:49-50`: no records exist when the bootstrap begins | the genesis block was indexed, as `node.Server` was still nil (`events.go:467`); a genesis balance with no row in the snapshot keeps showing | IndexSync `NothingBeforeTheSnapshot` | IndexHypersyncFaults, RosettaAPI |
| `deso/events.go:71`: a ceiling, so that the last block does not amass O(height) balances | line 72 rounds down; the last block gets up to height - 1 balances beyond its share | HypersyncBuckets `LastBlockDoesNotAmass` | HypersyncBuckets |
| `deso/node.go:391-392`: closing the node now might corrupt the state | the interrupted signal goroutine of generation 1 closes the exit channel after a Stop that found nothing to do, and main ends while the next generation has its databases open | NodeLifecycle `ExitLeavesNothingOpen` | NodeLifecycle |
| `deso/block.go:711-712`: the amounts of a SwapIdentity are those after the swap | `getSwapIdentityOps` serves the change only if they are those before it, and else its inverse | BlockLedger `SwapsReconcile` | BlockOperations (it holds with `SwapRecords = {"before"}`) |
| `services/types.go:78`, `100`: of a rate and a fixed fee, the rate is used | `construction_service.go:273-280` lets the fixed fee win | Construction `FeeRateHasPriority` | Construction |
| `services/types.go:24`: the expiration must be greater than the block height | `construction_service.go:264` accepts the height itself, and no later block accepts that transaction | Construction `ExpiresAfterTheTip` | Construction |

Which meaning SwapIdentity's amounts have is decided in the core library, outside this repository.

Also read while modelling:

* `deso/events.go:36` says balances before the first snapshot are zero; the code spreads
  them over heights 1..first, which `GiftsReconcile` describes.
* `GiftsReconcile` leaves out accounts with a genesis record, which the synthetic blocks do not
  give away again;
* the hash chain of synthetic transactions follows the order of Go maps (`deso/block.go:419`),
  where line 406 wants deterministic hashes;
* an UnregisterAsValidator, which unstakes for every staker, has no branch in
  `getOperationsForTransaction`;
* a balance may be asked for by the hash of a block that is not committed; it is answered
  under that hash from the last handled block (`BalanceIsOfOnePage` says which);
* `services/types.go` says "less than" of the greatest offset and height (24-25, 30-31) and
  "greater than" of the least rate; the code takes equality in all three
  (`OptionsAreHonoured` states what the code keeps);
* an AcceptNFTBid whose operation has no previous coin entry would panic: `deso/block.go:875`
  reads it without asking, which line 934 does for a plain bid. The ledger always leaves one;
* parse drops an output to the sender below the fork, as it cannot tell it from change;
* preprocess never sets the legacy UTXO flag, so every branch on it is dead;
* `AccountCoins` subtracts heights read at two times as uint64 (`account_service.go:162`);
* a SIGINT while a restart is under way finds no goroutine in its `select` and is
  lost (`Reached`); and if the first generation is interrupted before `runCmd` reads
  `shutdownListener`, main waits on a nil channel (`mainPC = "stuck"`).

## 6. What is not modelled

* External, modelled only as used: the core library (it calls the handlers synchronously, its
  server sends messages only between `Start` and `Stop`, its views hold what a block
  touched, it does not repeat the snapshot event after a restart of the process) and badger (a
  flush is a set of puts of which a failed one keeps any part).
* Amounts are natural numbers: the chain's are far below 2^64. An amount that is no uint64 is
  skipped by the code (`events.go:535`, `block.go:583`) and has no counterpart, and the sums of
  `squashOperations` do not wrap.
* A flush is atomic to readers (`IndexBlock`). Badger's write batch may commit a large block in
  several transactions (`events.go:573`), between which a reader would see a part of it.
* The error returns of the conversion (UTXO operations that cannot be read, a block that cannot
  be hashed: `block.go:142-146`, `216-220`) end the request and change nothing. The checks that
  skip an operation whose state entries are nil, of the wrong number or no uint64
  (`getStakeOps`, `getUnstakeOps`, `getUnlockStakeOps`: `block.go:1108-1122`, `1152-1171`,
  `1218-1221`) never fail on what the ledger leaves.
* UnregisterAsValidator has no branch in the code, and none in BlockLedger: `OperationsReconcile`
  is about the kinds of transactions that are actions there.
* `AccountCoins` reads a UTXO view of the core library and formats it; `BlockTransaction` answers an empty
  transaction; `CurrentBlock` is `GetBlock` of the tip. The hashes of synthetic transactions.
* `ConstructionDerive` and `ConstructionHash` are pure conversions of bytes; so is the
  encoding between the construction calls.
* Configuration, routing, error tables, address seeding, network and mempool services: reads,
  formatting, DNS; no state of their own.

## 7. Plan

Done, in this order: BalanceIndex, IndexSync with its abstract book, HypersyncBuckets, their
first proofs, NodeLifecycle, LockedStakeIndex, RosettaAPI, BlockOperations with BlockLedger,
Construction and its proofs; then the proofs of the refinement, the gifts, the clients, the
loop's division, the lifecycle, the locked stakes, parse, and the operations of a block. Next:

1. `NetworkStatus` as a third reader in RosettaAPI: its current block beside its synced flag.
2. The refinement of `BalanceBook` for a hypersynced node: a book that begins with the snapshot's
   page, and into which the bootstrap may leave genesis balances (section 5).
3. UnregisterAsValidator in BlockLedger, once the fields of its UTXO operations are known.
