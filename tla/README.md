# TLA+ models of crypto-exchange-golang

The exchange is one Go process that serves two simulated spot venues (Binance
and Coinbase, each with its REST, WebSocket and FIX surface and its own ledger),
an options venue, and an emulator that seeds the shared order books from live
or recorded feeds. A transfer hub moves balances between the venues over a real
test chain. This directory holds TLA+ modules of its core, TLC configurations
that check them on small instances, and theorems checked by TLAPS.

Contents: [the system](#the-system), [the modules](#the-modules),
[the runs](#the-runs), [bounds](#bounds-and-why-they-are-enough),
[fairness](#fairness), [proofs](#what-is-proved),
[where code and comments disagree](#where-code-and-comments-disagree),
[met on the way](#met-on-the-way),
[what is left out](#what-is-not-modelled).

## The system

    clients --REST/WS/FIX/gRPC--> venue edges --> engine --> order book
                                     |   ^                      |
                                     v   +---- hooks -----------+
                                   ledger  registry  streams
                                     ^
    chain <--Send/Received--> transfer hub
    feeds --> reference books --> seeder, tape, toxic flow --> order book
    options edge --> options market (own books) --> sweep --> cash and positions

Goroutines: one per HTTP request, two pumps per WebSocket connection, a reader
and a writer per FIX session, a dispatcher and one worker per instrument of the
emulator, the tickers of the depth streams, the option sweep, and the watcher
of the transfer hub. They share the order books (one mutex per instrument), one
ledger and one registry per venue (one mutex each), and the streams' queues.
The book runs its hooks *while it holds the instrument's mutex*.

### Inventory

For each component: its state, its operations, what is hard about it, and what
makes it correct.

| component | state | operations | hard | correct when |
|---|---|---|---|---|
| Order book (`internal/orderbook`) | bids and asks per instrument, hooks | register, place limit / market / immediate-or-cancel, cancel, snapshot | hooks under the lock; heads removed while matching | price-time order, never crossed, hooks told exactly what happened |
| Engine, margin (`internal/engine`, `internal/margin`) | pointer to the log | place, cancel | logs before it takes the book's lock | a refused order leaves nothing behind; the log can be replayed |
| Ledger (`internal/account`) | free and locked per asset | lock, unlock, credit, debit, settle a fill | truncating products; clamps | reservations equal what open orders need; value conserved |
| Binance spot orders (`internal/api/binance`) | registry by order id and client id, sequence | place, cancel, withdraw; the trade and cancel hooks | four critical sections per request, hooks of other orders in between | client ids unique, terminal states final, registry agrees with the book |
| Binance streams | connections, buffers, listen keys, diff baselines | subscribe, publish, tick, keep alive | snapshot against diffs; full buffers | a client that follows the protocol has the book |
| Options market and edge (`internal/optmarket`, `options_order.go`) | series, settled symbols, settlements, records, exotic marks | place, cancel, sweep at expiry, price an exotic | sweep against orders in flight; minutes of pricing between two locks | a symbol settles once, no reservation stays, a mark is recent |
| Option shapes (okx, bybit, deribit, eapi) | none | render | – | – |
| Coinbase orders | registry, own ledger | create, batch cancel, withdraw | as Binance, with a user channel whose reports timers may delay | reservations equal what open orders need, the subscriber ends with the latest state |
| Coinbase streams | connections, per-connection sequence | subscribe, publish | book read before the subscription's lock; full buffers | no change missed |
| FIX sessions (`internal/api/fix/session.go`) | in and out sequence, outbound queue | logon, app message, resend, reset, logout | gaps; a full queue blocks a hook | each number used once in each direction; every handler ends |
| FIX orders, quotes | clOrdID maps, quotes | new, cancel, replace, quote, fills | fills against cancels and the end of a session | a session's reports tell its orders; a quote executes at most once |
| Native APIs (gRPC, HTTP, WebSocket) | subscribers | calls of the engine, event fan-out | subscribers that leave during the fan-out | events in order |
| Reference books (`internal/reference`) | levels per venue | apply snapshot and diff, depth, crossed | two reads that belong together | a book the venue had |
| Seeder, return to reference (`internal/emulator`) | levels it believes it placed, fills not yet folded in | converge, on trade, clear | fills during a pass; errors in the middle | placed volumes follow what rests |
| Tape, toxic flow, scenario, controls | recorded events, timeline, atomics | inject, sweep, run | their orders meet the seeder's; the shift changes in mid-stream | – |
| Feeds (`internal/feed`) | connection, sequence number | connect, read, reconnect | gaps, lost frames | the reference book comes back to the venue's |
| Transfer hub (`internal/transfer`) | cursors, in-flight transfers, cursor file | withdraw, poll, settle, save, start | debit / send / record in three steps; crash between credit and save; errors of the chain | each deposit credited once and none skipped, value conserved |
| Custody (`internal/custody`) | keystore file, chain clients | send, received, latest cursor, put | payments of one wallet at once; newest-first pages; two writers of one file | a payment answered for is made, a deposit taken once, no seed lost |
| Write-ahead log (`pkg/wal`) | buffer, file | append, flush, close | 31 entries lost in a crash | each instrument's events in order, without a gap |
| Rate limits (`internal/ratelimit`) | buckets | allow, sweep, evict | eviction refills | at most burst + rate |
| Dictionaries (`internal/concurrency/dict`) | tree / skip list roots | get, set, delete | compare and swap | linearizable |
| Decimals (`pkg/decimal`) | limbs | add, sub, mul, div, compare | truncation, overflow | – |
| Pricers, signing, symbols, config, metrics, clients | – | stateless or wiring | – | – |

`PROJECT.json` repeats the inventory under `components` with the sources and
what is modelled of each, and lists under `hazards` what a test of this code
would hardly reach, at its line, with the properties that cover it.

## The modules

| module | of | over |
|---|---|---|
| `PriceTimeBook` | what a book promises: open orders as a set, each executed by priority | |
| `OrderBook`, `OrderBookProofs` | `internal/orderbook/orderbook.go` | `PriceTimeBook` |
| `Ledger` | `internal/account/ledger.go`, pure operators | |
| `Sums`, `SumTheorems` | totals over orders, balances and payments, for the properties | |
| `BinanceEdge`, `BinanceEdgeProofs` | spot orders of `internal/api/binance` | `OrderBook`, `Ledger`, `Sums` |
| `CoinbaseEdge` | orders and user channel of `internal/api/coinbase` | `Ledger`, `Sums` |
| `OptionSettle` (proofs in `BinanceEdgeProofs`) | `internal/optmarket/settle.go` with `options_order.go` of `internal/api/binance` | `BinanceEdge` |
| `ExoticQuotes` | the cache of `internal/optmarket/market.go` before `internal/pricer/saga` | |
| `FixSession` | `internal/api/fix/session.go`, and the hooks that send to sessions | |
| `FixOrders` | `internal/api/fix/server.go`, `quote.go` | |
| `FixProofs` | what is proved of both | `FixSession`, `FixOrders` |
| `DepthFeed` | what the depth channels of both venues share: `depthdiff.go`, `broadcaster.go` | |
| `DiffDepth` | the diff-depth stream of `internal/api/binance`, with its REST snapshot | `DepthFeed` |
| `Level2` | the level2 channel of `internal/api/coinbase` | `DepthFeed` |
| `ListenKeys` | `internal/api/binance/listenkey.go` | |
| `RateLimit` | `internal/ratelimit/ratelimit.go` under the edges' middleware | |
| `EventStream` | `internal/engine`, `pkg/wal`, `internal/api/grpcserver`, and the hook in `cmd/exchange/main.go` | |
| `ReferenceBook` | `internal/reference`, pure operators | |
| `MarketFeed` | `internal/feed` and the dispatcher and workers of `cmd/exchange/emulator.go` | `ReferenceBook` |
| `Seeder` | `internal/emulator`: seeder, return to reference, tape, toxic sweeps | `ReferenceBook`, `Sums` |
| `TransferHub`, `TransferHubProofs` | `internal/transfer/hub.go` with `internal/custody/stellar_send.go` | `Sums` |
| `HotWallet` | the `Send` methods of `internal/custody` | |
| `DepositWatch` | `LatestCursor` and `Received` of `internal/custody` under the hub's poll | |
| `Keystore` | `internal/custody/keystore.go` and the programs that open it | |
| `Dictionary` | what `internal/concurrency/dict` promises: an atomic map | |
| `ConcurrentDict` | its four implementations | `Dictionary` |
| `ServiceProofs` | what is proved of components of `services`, and of the seeder | `ExoticQuotes`, `DepositWatch`, `Keystore`, `HotWallet`, `Seeder`, `ConcurrentDict` |
| `MarketProofs` | what is proved of feeds and of the Coinbase edge | `MarketFeed`, `CoinbaseEdge` |
| `StreamProofs` | what is proved of components of `streams` | `ListenKeys`, `EventStream`, `RateLimit`, `DiffDepth` |
| `MCOrderBook`, `MCBinanceEdge`, `MCTransferHub`, `MCOptionSettle`, `MCMarket`, `MCServices`, `MCStreams` | instances for TLC | |

Components that do not meet are checked side by side: in `MCOrderBook`,
`MCMarket`, `MCServices` and `MCStreams` the initial state chooses the part a
behaviour is about, and the variables of the others stand still. A state of one
part is then a state of that component alone, and the run's states are the sum,
not the product, of the parts'.

### OrderBook

One instrument: no call of the code touches two. `queue[side]` is the slice of
resting orders, best first; `phase` is the lock: `"free"`, `"match"` while
`matchLocked` loops for `taker`, and `"fire"` while hooks run. `trades` are the
fills collected in the loop. A call is several steps, so that the properties
are checked between any two iterations of the loop.

| action | code |
|---|---|
| `Register` | `RegisterInstrument` |
| `Submit` | `PlaceLimit`, `PlaceMarket`, `PlaceIOC` up to the loop |
| `MatchOne` | one iteration of `matchLocked` |
| `EnqueueLocked` / `Discard` | `enqueueLocked` (append and stable sort) / what a market or IOC order does with its remainder |
| `Fire`, `Return` | the hooks of one trade; the unlock |
| `CancelOrder` | `CancelOrder` with its hook |

`arrivals`, `orig`, `told` and `dropped` are history: the arrival number of an
order, what was submitted, and what a client that adds up hook calls knows.
`OpenOrders` forgets the queues, and `ImplementsPriceTime` says that what is
left behaves as `PriceTimeBook`: every fill is between the taker and the best
order by price and then by arrival, chosen from a *set*.

### Ledger and BinanceEdge

`Ledger` has one operator per method of the ledger, on a function from asset to
`[free, locked]`. Amounts are integers in units of 1/`Scale`; `Mul` truncates as
`decimal.Mul` does at the 18th digit.

`BinanceEdge` extends `OrderBook`: its variables, and a `pc` per request
goroutine (`Threads`), `req` its locals, `holder` the goroutine inside the book
and `hook` the next hook of the event being fired. One step is one critical
section, so requests interleave exactly where the code lets them.

| steps | code |
|---|---|
| `Record` → `Reserve` → `Announce` → `EnterBook` | `handlePlaceOrder`: `RecordUnique`, `Ledger.Lock`, the NEW report, the engine (whose margin check may refuse) |
| `Remove`, `Release` | the roll-backs when funds or the engine refuse |
| `Lookup` → `CancelInBook` / `CancelMisses` → `MarkCanceled` / `AnswerMissed` | `handleCancelOrder` |
| `BookStep`, `RegistryHook`, `ReportHook`, `LedgerBuyer`, `LedgerSeller`, `LeaveBook` | the book's loop and `AttachHooks`' callbacks in the order they are registered |
| `EmulatorPlaces`, `EmulatorCancels` | orders of the seeder and the takers: same book, no record, no balance |
| `Withdraw` | a debit of the free balance by another request |

All API clients of a venue share one account, as in the code, so two of its
orders may trade with each other.

### TransferHub

The chain is the sequence of payments made; a paging token is a position in it.
The deposit address of a venue is also its hot wallet, so an account's history
holds the payments it received *and* made. One process runs at a time: `phase`
is `"down"`, `"init"` (`initCursors`, while the APIs are already served) or
`"watch"`. A crash keeps the chain and the cursor file, nothing else: the
ledgers are in memory and start again from the configuration.

| actions | code |
|---|---|
| `Withdraw`, `Send`, `SendFails`, `Refund`, `RecordInflight` | `Hub.Withdraw`: debit, `Sender.Send`, refund on error, append |
| `Boot`, `InitCursor`, `StartWatch` | `New`, `initCursors`, the save that follows it |
| `BeginPoll`, `Receive`, `ReceiveFails`, `CreditNext`, `VenueDone`, `EndPoll` | `poll`: each venue's page, each payment credited and its transfer settled, the save |
| `Crash`, `Deposit` | the process dies; someone pays a venue |

`start`, `born` and `credits` are history. `LatestFails`, `SaveFails` and `LostReply`
switch the errors of the chain and the file on.

### OptionSettle

One listed contract. An option order takes the steps of a LIMIT order on spot
over registry, ledger and book, so it *is* `BinanceEdge`'s, with units of the
contract as the base asset; `Threads` is split into `Handlers` and `Sweepers`,
the goroutines that run a pass of the sweep. `expired` is the clock past the
settlement instant, `claimed` is `Market.settled`, `settlements` counts the
records, `sweep` and `rests` and `held` are where a pass is, the ids it listed
and the position it read, and `passed` are the handlers that have found the
contract open and not yet recorded their order.

| steps | code |
|---|---|
| `FindOpen` → `OptionPlace` → `OptionStep` ... | the check of `IsSettled` and expiry, `RecordUnique`, then `BinanceEdge` |
| `OptionCancel` | the cancel handler |
| `Begin` (`Claim` or `NotClaimed`), `Priced` / `NotPriced` → `Unclaim` | `claim`, the price, `unclaim` when there is none |
| `ListRests`, `PickRest`, `CancelRest`, `NextRest` | `cancelResting`, for the claimed symbol and, in the drain, for settled ones |
| `RecordSettlement`, `ReadPosition`, `PayCash`, `BurnUnits` | the record, then position and cash through the ledger |
| `EndPass` | the end of the drain |

The market's clock and the edge's are one clock, as in the server.

### CoinbaseEdge

The shape of `BinanceEdge` with another order of steps: a create request locks
its funds first, then records and places the order. The book is reduced to what
rests in it; which resting order a taker meets is the environment's choice, and
a book call has at most one trade.

| steps | code |
|---|---|
| `CreateOrder` → `Record` → `PlaceOrder` → `ReadRecord` → `EmitUser` | `handleCreateOrder`: lock, `registry.record`, engine, the report of the order |
| `RemoveRecord`, `GiveBack` | the engine refuses |
| `CancelOne` → `CancelInBook` / `CancelMisses` → `MarkCancelled` | one id of `handleBatchCancel` |
| `TakerHits` | an order of another edge or of the emulator |
| `RegistryHook`, `EmitHook`, `LedgerHook`, `ReturnFromBook` | `AttachHooks` under the instrument's lock |
| `TimerFires`, `TrySend` | a delayed fill report; a frame's place in the queue |

`flight` are frames that have a number and no place in the queue yet.

### FixSession and FixOrders

`FixSession`: `inSeq` and `outSeq`, the queue `out` with its capacity, and
`todo`, per goroutine, the steps its handler has left: take or leave the
instrument's lock, stamp and queue a message, end the session. A handler's trade
may report to several sessions while it holds the lock.

| actions | code |
|---|---|
| `Logon`, `ResetSequence`, `GapFound`, `Administer`, `Business` | `handle`, `onLogon`, `dispatch` |
| `ReadFails`, `End`, `PeerLeaves` | `Run`'s end; the client disconnects |
| `StampMessage`, `Enqueue` | `Send`: number under the lock, room in the queue or `done` |
| `Write`, `WriterEnds` | `writeLoop` |
| `TakeBook`, `LeaveBook`, `OutsiderTrades` | the book's lock around the hooks |

`FixOrders`: the server's `byClOrdID`, `byEngine` and order records, the table
of quotes, and what each session was told. A handler's `task` is where it is
between its critical sections.

| actions | code |
|---|---|
| `OnLogon`, `OnLogout`, `DropSession` | `OnLogon`, `OnLogout`; a `Run` that ends without it |
| `OnNewOrderSingle` → `Place` / `Refused` | `OnNewOrderSingle` with the engine |
| `OnOrderCancel` → `EngineCancel` → `ReportCancel` or `Replaced`, `RejectReplacement` | `OnOrderCancelRequest`, `OnOrderCancelReplace` |
| `Quote`, `QuoteExpires`, `ConfirmLate`, `ExecuteQuoted` | `OnQuoteRequest`, `executeQuoted` |
| `OthersTake`, `OnFill`, `BookReturns` | trades and the hook |

### DepthFeed, DiffDepth and Level2

A book is a quantity per level, 0 for none. `levels` is the engine's book, which
any order may change between two steps; `baseline` is the book last broadcast,
`snap` the one the ticker has read and not yet held against it. `out` and
`closed` are a connection's queue and its flag; a broadcast that does not fit
closes the connection. The client is part of the model: `view` is its book.

`DiffDepth`: the stream has several names that share one baseline and one id,
and a tick visits the names that have subscribers one after the other.

| actions | code |
|---|---|
| `DiffTick`, `Skip`, `VisitStream` | `pushDepthTick`, `hasMarketSubscribers`, the snapshot of `broadcastDepthDiff` |
| `TakeDiff`, `Fanout` | `depthDiffer.diff` under its lock; `publishMarketFunc` |
| `ReadID`, `ReadBook` | `handleDepth`: the id, then the book; the client then applies what it has kept |
| `OpenStream`, `DiffWrite`, `DiffLeave`, `DiffReturn` | `upgradeMarket`, the write pump, the read pump's end, `remove` |

`Level2`: the lock of the differ covers diff and broadcast (`Push`), and snapshot
frame and registration (`Enlist`); the book is read before it (`L2Tick`,
`Subscribe`). `cut` (a snapshot frame of the connection was refused) is history,
as are `last`, `since` and `split` of `DiffDepth`.

### EventStream

A command's way through the native APIs: the intent goes to the log, the book's
lock is taken, events fire under it into log and channel (`Fire`), one goroutine
hands each to every open stream (`TakeEvent`, `Pick`, `ReachStream`, `HandOver`). A stream
leaves in two steps, its channel closed before it is taken from the map
(`StreamLeaves`, `Forget`), and the goroutine may hold it already: the send to a
closed channel ends the process. When the book returns (`BookReplies`) the handler
of a stream's command sends the trades of the command, or the cancel, on that stream
(`own`, `Reply`): the updates the hook's events make too, so `wire` has them twice,
marked `reply` and `event`, and the answer goes out before what waits in the
channels, while the handler reads no updates (`Forward`). Sessions that do not
stream are answered without `wire`. `Stop` is a clean shutdown, which flushes the
log, or a crash, which does not; `Restart` opens the same file.

### ListenKeys and RateLimit

`ListenKeys`: `live` and `touched` are the manager's map; `AskKeepalive` and
`StoreKeepalive` are its two holds of the lock, `CreateKey`, `RemoveKey` and
`ConnectStream` one each, and keys expire when they are looked at.

`RateLimit`: `AllowKey` finds or makes a caller's bucket under the limiter's
lock, dropping idle ones or the least recently seen; `Allow` takes a token under
the bucket's, later, after adding what the clock (`LimitTick`) has earned it.
`allowance` is history: the bucket a caller would have if none were ever dropped.

### ReferenceBook, MarketFeed and Seeder

`MarketFeed`: a frame goes from the venue over the wire, the adapter's channel, the
dispatcher (which shifts its prices and drops it when the inbox is full) and the
worker (which waits out the latency) to the reference book. `base` is history:
which of the venue's books the reference book stems from, whether a frame was
lost since, and whether the shift changed in between. `link.diffs` tells Coinbase
(a snapshot per connection, then diffs) from Binance (every frame is a book).

`Seeder`: `placed` is what the seeder believes rests, `fills` what the trade hook
has buffered. A pass is `Check` (crossed, fold), `Plan` (depth and what must
change), then `CancelLevel` and `PlaceLevel` one engine call at a time;
`FrameArrives`, `OthersTrade` (users and the tape) and `Sweep` (toxic flow) come between any two. An engine
call is one step with its trades and hooks: both run under the book's lock.

### HotWallet, DepositWatch and Keystore

`HotWallet`: on each of four chains a call reads what it builds on
(`ReadSequence`, `SelectCoins`, `ReadNonce` and `ReadGasPrice`, `ReadBlockhash`),
broadcasts (`Submit`), and the network mines or finalizes. Signing is
deterministic, so equal payments that rest on the same reading are one
transaction: a node that already has it (`Twin`) answers with the same reference,
on Stellar and Solana also when it is in a block, on Bitcoin while it waits; an
Ethereum node refuses it. `DepositWatch`: an
address's history, the page a server returns of it, and `PollOnce`, which credits
what `Received` found and moves the cursor. What servers and networks answer is
external, read off from how the code uses it.

`Keystore`: the file is an inode, the path and the temporary name directory
entries; `Run`, `Open`, `Put`, `Truncate`, `WriteTmp`, `Sync`, `Rename`, `Die` are
the steps of a program, `WriteBack` the system writing the directory, and
`PowerLoss` what undoes the rest.

### ExoticQuotes

`Ask`, `LookUp`, `Price`, `Answer`: the clock and the index are read between two
holds of the lock around the cache, and pricing may last several ticks. A price
is the tick of the index it was computed from.

### Dictionary and ConcurrentDict

`Dictionary` is an atomic map: a call is invoked, takes effect at one instant,
returns. `ConcurrentDict` is the four implementations, one per behaviour: `Load`
and `Swap` of the snapshot maps (a failed swap loads again), towers of forward
pointers in the skip list, a lock per shard. `D` maps the state to the abstract
map: in a skip list what a search from the top finds, else what is stored. A
deleted node is garbage in Go; here its pointers go back to nil, since a later
`Set` of the key makes a new node.

## The runs

| run | asks | shows |
|---|---|---|
| `order_book` | the book on its own, and FIX sessions around its lock | both sides in strict price-time order (`QueuesOrdered`); never crossed, also between two iterations of the loop (`Uncrossed`); a client that adds up hook calls knows what rests (`HooksAccountForBook`); the queues implement `PriceTimeBook` (`ImplementsPriceTime`); sessions keep their numbers in both directions (`NumbersKept`); every handler ends while the peers read (`HandlersEnd`) |
| `binance_edge` | two handlers on one account: LIMIT and MARKET orders, shared client ids, a withdrawal, margin refusals | the ledger holds exactly what open orders need (`ReservationsHeld`); one live order per client id (`ClientIdsUnique`); LIMIT orders conserve value (`ValueConserved`) |
| `binance_edge_emulator` | the same against the emulator's orders | registry and book agree (`RegistryMatchesBook`); terminal states are final (`TerminalIsFinal`); reports come in order (`ReportsInOrder`); every request is answered (`RequestsAnswered`) |
| `transfer_hub` | two withdrawals at once, amounts the chain cuts, failed sends, deposits | no value is made or lost (`ValueConserved`) |
| `transfer_hub_crash` | crashes, failed saves, chain errors, pages of one | credited once (`CreditedOnce`), none passed over (`NoneSkipped`), all in the end, unless a page of own payments is in the way (`DepositsCredited`) |
| `option_settle` | two passes of the sweep against an order in flight, missing prices | one settlement (`SettledOnce`); in the end nothing stays locked (`ReservationsReturn`) |
| `market` | feed to reference book; reference book to engine | the reference book is one the venue had (`ReferenceIsAVenueBook`) and comes back to it (`ReferenceCatchesUp`); what the seeder believes is what rests (`PlacedFollowsBook`); the mirror settles on the reference book (`MirrorSettles`) |
| `services` | seven components, each on its own | Coinbase: `HoldsMatchOrders`, `LatestStateTold`; FIX: `ReportsTellBook`, `ReportsAscend`, `OneOrderEach`; custody: `PaymentsKept`, `TakenOnce`, `WalletsKept`; exotic marks: `MarksAreRecent`; dictionaries: `ImplementsDictionary` |
| `streams` | five components, each on its own | the log: `JournalFollowsBook`; native streams: `StreamsInOrder`; `RemovedStaysRemoved`; `LimitHolds`; level2: `NoChangeMissed`; diff depth: ids connect (`IdsContiguous`), and a client that keeps to the protocol has every change sent since its snapshot (`DeltasKept`) |
| `edge_mint`, `hub_refund`, `fix_wedge` | what a comment says | a counterexample, see [below](#where-code-and-comments-disagree) |

`ImplementsPriceTime` and `ImplementsDictionary` are refinements. Liveness:
`HandlersEnd`, `RequestsAnswered`, `DepositsCredited`, `ReservationsReturn`,
`ReferenceCatchesUp`, `MirrorSettles`.

Each pair of a passing run and a property has a mutant in `PROJECT.json`: a
definition changed the way a plausible bug would, for which the property fails.
The bodies of the mutants stand in the modules, before the definition they change.

### Bounds, and why they are enough

| bound | value | why it is enough |
|---|---|---|
| order ids (`Ids`) | 3, each used once | priority is a statement about two resting orders and a taker |
| `Prices`, `Volumes` | 1–3 (book), `{2,3}` or `{3}` (edge); 1–2 | better, equal and worse prices; partial and whole fills on either side |
| `Threads` | 2 | the shared state of two requests is one record, one reservation, one lock |
| `Scale` | 2, for 10^18 | half a unit at a price of 3/2 already loses a digit in `Mul`, which is all truncation can do |
| `Deposit`, `MostTraded` | 4 to 6, 2 | both "enough for one order" and "not enough for two" happen |
| `MaxDebits` | 1 (0 with the emulator) | one withdrawal can come between any two steps |
| `Handlers`, `Sweepers` | 1 and 2 | one order in flight against a pass that settles and a pass that drains; the server runs one pass at a time, the code allows more (`claim`) |
| `Volumes`, `Scale`, `PerUnit` of the options | 1, 1, 1 | the questions are about order, not about amounts |
| `Sessions`, `OutBuffer`, `MaxSeq`, `MaxEvents` | 2, 1 for 1024, 2, 1 | a trade reports to both sides; one message fills the queue; numbers up to 3 come before, at and ahead of the expected one; one trade of another edge or one gap among them |
| `MaxOrders`, `MaxFixOrders` | 2 | the order and its replacement, or its counterpart |
| `MaxQuotes`, `MaxQuotesAsked` | 1 | a quote confirmed twice, and under two ids |
| `Levels`, `MaxSize` | 2, 1 | a book can mix two moments, and a level can come and go |
| `MaxChanges` (depth) | 2 | a change on either side of a snapshot or a tick |
| `SendBuffer` | 1 for 256 | a queue that is full while the ticker pushes |
| `FlushEvery`, `EventCap`, `UpdateCap` | 2, 2, 1 for 32, 1024, 64 | a buffered and a flushed entry; both channels full |
| `MaxCommands`, `MaxRuns`, `Bursts` | 2, 2, `{0, 2}` | two calls race for a lock or log in two runs; an event with one behind it |
| `KeyTTL`, `LastHour` | 1, 3 | a key expires, and is expired for a while |
| `Burst`, `IdleTTL`, `MaxHold`, `MaxKeys` | 1, 1, 1, 2 with 3 callers | the third caller evicts; `LimitAssumption` keeps a bucket until it would be full again, also when its last token was taken `MaxHold` late |
| `ChannelCap`, `InboxCap` | 1, 1 | one frame in hand, one waiting, one lost |
| `MaxChanges`, `MaxGaps`, `MaxDrops`, `MaxShifts` (feed) | 3, 1, 1, 1 | a change before, in and after each fault |
| `Prices`, `MaxFrames`, `MaxFlow` (seeder) | 1–3, 2, 2 | a book, the same a tick higher, a diff that crosses it; a user who rests and a taker |
| `Sends`, `Coins`, `GasPrices` | 3, 2, 2 | two equal payments and another; outputs that pay for one or two |
| `PageLimit`, `MaxEntries` | 2, 4 | two full pages, and one and a half |
| `Programs`, `Wallets`, `MaxSeeds`, `MaxLosses` | 2, 2, 2, 1 | a program after another and over another, one loss at any step |
| `QuoteTTL`, `Timeout`, `LastClock` | 2, 3, 5 | a pricing run that outlives the entry it will replace |
| `KeyCount`, `MaxLevel`, `MaxCalls` | 3, 2, 4 | a node between two others, on one and two levels; a swap that fails |
| `Quantum` | 2, for 10^11 | 1 is below what the chain carries, 3 is cut to 2 |
| `PageSize` | 1 or 3, for 50 | relative to at most 2 payments: pages that end early, exactly, and late |
| `MaxPayments` | 2 | one payment credited, one behind it |
| `MaxCrashes` | 1 | a crash and a restart that itself starts from a saved cursor |

Symmetry: the request goroutines of `binance_edge`, the clients of `streams`, the
actors and names of `services`; of the instruments of `streams` the first command
takes the first (`FirstOf`), for they are alike. These runs check invariants and step properties
only; runs with liveness properties use none. Deadlock is not checked: clients
need not act, and the bounds end every behaviour.

### Fairness

- `OrderBook`: a goroutine that holds the lock keeps running. Nothing makes a
  client submit.
- `FixSession`: each goroutine's next step is taken if it can be again and again
  (strong: a Go mutex hands itself to a waiter that has starved for a
  millisecond, and a blocked send to a channel is served in order); a writer
  writes and a session whose peer has gone is found out (weak).
- `BinanceEdge`: weak fairness of the lock holder, strong fairness of each
  handler's next step, for the same reason.
- `OptionSettle`: as `BinanceEdge`; the ticker keeps running passes (strong
  fairness of a pass's next step, since it waits for the book's lock), and a price
  is found again and again (strong fairness of `Priced`). The contract need not
  expire and no client need act.
- `TransferHub`: the process is started, `initCursors` and the ticker loop run on
  (weak), and for each venue `Received` answers again and again (strong: it may
  fail any number of times). Nothing makes a withdrawal, a deposit or a crash
  happen.
- `MarketFeed`: the adapter dials and reads, dispatcher and worker go on, and a
  venue that sends whole books goes on sending them (weak). `Seeder`: the
  ticker's passes go on (weak). Nothing makes the venue's book or a trader move.

## What is proved

TLAPS checks, for *all* values of the constants:

| theorem | says |
|---|---|
| `BookTypes`, `BookPriority`, `BookUncrossed`, `HooksAccount` | `Spec => []TypeOK`, `[]QueuesOrdered`, `[]Uncrossed`, `[]HooksAccountForBook` of `OrderBook` |
| `BookImplements` | `Spec => ImplementsPriceTime`: `OrderBook` implements `PriceTimeBook` |
| `EdgeUsesBook`, `EdgeKeepsBook` | a step of `BinanceEdge` is one of `OrderBook` or none; so `AccountInv` holds there |
| `EdgeClientIds`, `EdgeRegistry`, `EdgeTerminal`, `EdgeReports` | `[]ClientIdsUnique`, `[]RegistryMatchesBook`, `TerminalIsFinal`, `ReportsInOrder` of `BinanceEdge` |
| `EdgeReserves` | `[]ReservationsHeld` of `BinanceEdge` |
| `EdgeValue` | `[]ValueConserved` of `BinanceEdge`, given `EmuIds = {}` |
| `OptionSettlesOnce` | `OptSpec => []SettledOnce` of `OptionSettle` |
| `SessionNumbers` | `[]NumbersKept` of `FixSession` |
| `FixReports`, `FixAscends`, `FixOneOrder` | `[]ReportsTellBook`, `ReportsAscend`, `[]OneOrderEach` of `FixOrders` |
| `HubTypes`, `HubCreditsOnce`, `HubSkipsNone`, `HubSavesBehind` | `Spec => []TypeOK`, `[]CreditedOnce`, `[]NoneSkipped`, `[]SavedNotAhead` of `TransferHub` |
| `HubConserves` | `Spec => []ValueConserved` of `TransferHub`, given `~LostReply` |
| `DepositsOnce`, `KeystoreKeeps`, `WalletPays` | `[]TakenOnce` of `DepositWatch`, `[]WalletsKept` of `Keystore`, `[]PaymentsKept` of `HotWallet` |
| `CoinbaseHolds`, `CoinbaseTells` | `[]HoldsMatchOrders`, `[]LatestStateTold` of `CoinbaseEdge` |
| `FeedKeepsBook` | `[]ReferenceIsAVenueBook` of `MarketFeed` |
| `SeederKnows` | `[]PlacedFollowsBook` of `Seeder` |
| `DictImplements` | `CDSpec => ImplementsDictionary` of `ConcurrentDict` |
| `ExoticMarks` | `[]MarksAreRecent` of `ExoticQuotes` |
| `StreamsTold`, `JournalTrue` | `[]StreamsInOrder`, `[]JournalFollowsBook` of `EventStream` |
| `IdsInARow`, `DeltasAllKept` | `[]IdsContiguous`, `[]DeltasKept` of `DiffDepth` |
| `Level2MissesNone` | `[]NoChangeMissed` of `Level2` |
| `ListenKeysRemoved`, `LimitKept` | `[]RemovedStaysRemoved` of `ListenKeys`, `[]LimitHolds` of `RateLimit` |

The assumptions are those named `...Assumption` beside the constants: bounds are
naturals, prices, sizes and bursts positive, names that stand for "none" are no
other value. Some say more. `NullAssumption`: no order looks like `NoOrder`.
`CoinbaseAssumption`: exactly the limit orders have a price, and the handlers are
finitely many. `CallAssumption`: a caller without a call is told apart from one
that has a call or an answer.
`LimitAssumption`: an idle bucket lives long enough to be full again, counted
from the last moment its owner may have drawn on it.

**Order book.** `QueuesOrdered` alone is not inductive: a new order is
last at its price only because its arrival number exceeds every resting one
(`ArrivedEarlier`); and `Uncrossed` needs the order of the queues, since the
loop stops on the *head* not crossing and the head must bound the rest. So
`BookInv == TypeOK /\ QueuesOrdered /\ Uncrossed /\ ArrivedEarlier`. Lemmas say
what removal, insertion and reducing the head do to a sequence
(`RemoveOrderSeq`, `InsertBehindSeq`, `HeadReduced`) and to its order
(`RemoveKeepsPriority`, `InsertKeepsPriority`); then one lemma per action.

`HooksAccountForBook` is about the moments when the lock is free, and what an
order is due in between is a sum over the trades not yet fired. `AccountInv`
says it without a sum: for each order there *is* a column of partial sums from
the last trade back to the first (`DueFor`), whose top is what is due
(`AccountsAdd`). It also needs that no id is in the book twice (`IdsOnce`),
so that the one resting order an id leads to is all that rests of it.

The refinement forgets the queues. `OpenOrders` of a removal, an insertion, a
smaller head is the set with one order less, more or changed (`SideSetTaken` and
its neighbours), and the head that `matchLocked` takes is the *best* of the set
by price and then arrival, because the queue is ordered. `Fire` and `Return`
leave the abstract book alone. `RefineStep` puts the actions together.

**Binance edge.** `EdgeUsesBook` first: whatever handlers, hooks and the
emulator do, what happens to the book is a step of `OrderBook`, so everything
proved of it holds under the edge. `EdgeInv` relates the four places an order
is in. On its way into the book it has a record, is unknown to the book, and is
the business of one handler (`OnItsWay`, `Apart`). The hooks of a trade run one
after another, and before and after each the registry and the stream are ahead
of the book's account by exactly that trade (`Ahead`): so `RecordFollows` and
`ReportFollows` speak of what the h-th hook has seen. A cancel holds the
instrument until the record says so (`InTheBook`).

`ReservationsHeld` needs more, because a reservation is computed from one copy
of the order (the handler's), used up by another (the record's) and filled by a
third (the book's). `SideInv` says that these agree on side, price and quantity
(`AsAsked`, `BookAsRecorded`), that a fill is at the record's price or better
(`Sound`), that at most one handler has an order in its hands (`OneHandEach`),
and that only a MARKET order has no price (`PricedByKind`). Then `NeedIs` says
of each order which of three it is: not yet in the book, and some handler holds
all of it; in the book, and the record's rest is needed; or neither. Every step
changes the need of at most one order, by what it moves in the ledger
(`HeldMoves`), the sums being counted as in the transfer hub (`PartOfSum`: what
one order needs is locked, so no clamp of the ledger engages). Base moves one to
one; in quote a fill releases a product truncated on its own, which `MulSplit`
bounds by one unit.

`EdgeValue` adds what lies between the buyer's hook and the seller's
(`Bought`, `Spent`). Its assumption is the run's: no synthetic orders, which have
no balance to trade against. It needs `ReservationsHeld`, since a fill conserves
only while the clamps do not engage.

**FIX.** `NumbersInv` of `FixSession`: numbers in the queue are consecutive from
the last one written, with at most one more stamped by the goroutine that holds
the session's mutex; only the step a handler is at can be inside `Send`.
`FixInv` of `FixOrders`: until an order has ended it is short of fills, listed,
routed while its session lasts, and rests as soon as no handler has it in hand
(`OrderGood`); what a call traded and the hook has not reported is counted
(`Pending`); a handler between the engine's cancel and its report has an order
that is in no book and in no list of fills (`TaskGood`), which is why a cancel's
report has every fill that came before it. That no two orders of one `ClOrdID`
rest follows from the list being one entry per id; a replacement takes the entry
over only when the original has left the book.

**Coinbase.** `CoinbaseInv` says who will still send an order's present state
(`OnItsWay`): a frame, a timer, the call in the book before its hook, or a handler
on its way to `EmitUserByOrderID`. A change of the record through `OnTrade` or
`OnCancel` is followed by the hook; `MarkCancelled` is followed by nothing, and
changes nothing, since the hook has cancelled the order or it was filled before
(`Calling`). For that an order that the engine refuses must be in nobody else's
hands (`Fresh`).

`HoldsMatchOrders` compares a balance with two sums, over orders and over
handlers, and says by how much they may differ: not at all in base, and in quote
by a unit of the last place for each unit filled, since a fill releases a product
truncated on its own (`LockAmountSplit`); with `Scale` 1, as in `services`, not at
all either. `HoldsInv` adds what makes each step's change of the ledger the change
of one order's need: fills and what rests never exceed an order (`FillsGood`), the
hooks are about an order no placement has in hand (`CallGood`), and an order on
its way in or out is untouched and in one placement's hands (`PlacementGood`). So
an unlock never asks for more than is locked, where `Unlock` would give less. The
sums follow one member's change (`SumChanges`) or a new member (`SumExtends`).

**Feed.** `FeedInv`: whatever is lost, a frame that is still on its way tells the
truth of the version it is about (`Tells`, `TellsShifted`). No order of the frames
is needed: a diff is counted as next only when it is about the next version.

**Seeder.** `ExecuteTrades` says of an order of anybody what matters of
price-time matching here: there is a volume that each order involved loses, and
the buffer gains it if the order is synthetic (`Trades`). `SeederInv`: of a level
the seeder believes in, the order with its id rests there with what is believed
less what is buffered, or nothing rests under the id and the buffer has all of it
(`Known`); every synthetic order that rests is known at its level; a level about
to be placed is free once the cancels are done (`PassTypes`), so nothing is ever
overwritten. Between folding and placing nothing else is needed: a placement that
trades at once is reported under an id that was never used.

**Transfer hub.** For any venues, workers, page size,
payments and crashes, with every error of the chain and the file allowed. The
three properties rest on where the cursors stand while the process starts
(`Starting`), on every position being one of the chain (`Positioned`), and on
every credited payment lying behind its venue's cursor (`CreditedIsBehind`: the
next one credited lies beyond it, so it cannot have been credited).

`SumOf` counts units: an amount of n held by x is the pairs of x with 1..n, and
the sum is the cardinality of all of them. So `SumChanges`, that a sum follows
the one amount that changes, needs facts about finite sets and no induction.
`HubConserves` then goes step by step: at most one entry of each of ledgers,
carried amounts, payments made and payments credited changes, and what one side
loses the other gains (`ValueInv`). Its assumption is the one the code makes in
`Withdraw`, that a `Send` which errs has paid nothing; `hub_refund` is what happens
without it.

**Option sweep.** From no assumption on the constants: any number of requests and
concurrent passes. `SettledOnce` counts records, and a pass records several
steps after it claimed, so the invariant says who may: a pass between its claim
and its record or give-back is the only one there, and nothing is settled yet
(`ClaimOwned`). `SettleInv == SettleTypes /\ ClaimOwned /\ SettledOnce`; only
`Begin`, `Unclaim` and `RecordSettlement` need more than that the stages stay on
their side of the claim (`MoveKeeps`).

**Custody.** `WatchInv`: every entry up to the cursor was credited once if it was
incoming and nothing excuses it, every one beyond it not at all; the lemmas are
about which entries a page of the oldest or newest can leave out. `KeyInv`: as
long as programs do not overlap, a program's picture is the file's or is ahead of
it by its own wallet, the file at the path is whole, and what a power loss can
bring back has every wallet that was synced (`KeyGood`). `WalletInv`: on Ethereum
live transactions have the nonces from 0 on, one each (`Numbered`), blocks the
first of them, and a call read its nonce after those it knows were broadcast
(`NonceRead`); on the others a broadcast transaction stays live. `SharedInv`: on
Stellar and Bitcoin two answered calls that rest on one transaction read what they
build on before either knew of it (`ReadSince`): once it is broadcast a new call reads
another sequence number or other outputs, so only overlapping calls share.

**Marks.** `QuoteInv`: a cache entry rests on an index no older than its date, and
a caller's index is read after it asked.

**Streams.** `ListenInv`: a deleted key is in nobody's hands unless a keepalive had
looked at it before. `QueueInv`: from what a stream was told, through the event
handed out and the channel, to what the book has yet to do, each instrument's
events ascend, and only answers run ahead (`Later`). `OwnInv`: what a command has
yet to answer ascends and is later than all its stream was sent, for nothing is
forwarded while a command runs, so an answer follows nothing later or equal.
`JournalInv`: what follows from what in the journal stays there
when it grows (`FollowsOn`), and while the disk works every intent being carried
out and every event is in file or buffer. `LimitInv`: a bucket in the map is never
worth more than the caller's allowance, and a caller without one has a full
allowance by now; the lemmas are about what a bucket is worth at a later tick.
`DiffInv`: the ids on their way to a connection end with the last id, whether
they are sent, queued, or about to be fanned out (`Serial`), and under one name
nobody is subscribed whom the ticker does not serve.

What a depth client will have at a level is the last word on it: the last frame or
event still to come that names the level, and the client's book if none does
(`Says`; `SaysOn`, `SaysTail` and `SaysRest` tell how it changes as frames are
queued and applied). `L2Inv` says of every served subscriber that the last word is
the baseline's, and that one without a book has a snapshot queued: an update it
gets before that is lost on it, but the snapshot names every level later.
`DeltaInv` says the same of the levels named since the request's id, over what the
client has kept, what is queued and the event in the ticker's hands (`Flow`); a new
diff's id is beyond every id read before, so no client drops it.

**Dictionaries.** For any callers, keys, values, shards and levels. What a skip
list holds is a set per level (`Tower`): from every key its pointer leads to the
next of that set (`Chain`), a level holds all that those above it hold, and above
the top level in use there is nothing. The recursive searches then have one value
each. `WalkStops`: the function that takes every node to the one before the key
satisfies the recursion of `Walk`, and the greatest node at which another solution
differed from it would contradict its own pointer; `UpdateIs` says the same over
the levels, downwards. So an insertion adds the key to the lowest sets
(`LinkKeeps`), and `Unlink`, which stops at the first level whose pointer is not
the node's, removes it from all of them (`UnlinkKeeps`). Of the snapshot maps
`DictInv` says that a clone whose snapshot is still published has what is stored.
A call takes effect in the step that ends it under the lock, that reads the
published snapshot or that swaps the pointer; all others are an invocation, a
return, or no step of `Dictionary` (`DictRefines`).

Every invariant of the passing runs, every action property and both refinements
are theorems. Only model-checked is liveness under fairness, which is out of the
prover's reach: `HandlersEnd`, `RequestsAnswered`, `ReservationsReturn`,
`DepositsCredited`, `ReferenceCatchesUp` and `MirrorSettles`.


## Where code and comments disagree

Each is a run that TLC ends with a counterexample; `PROJECT.json` quotes the lines.

- `edge_mint`: an underfunded MARKET buy against the account's own LIMIT sell
  credits the sell more than the buy pays.
- `hub_refund`: a `Send` whose reply is lost is refunded although it was paid.
- `fix_wedge`: a client whose queue is full disconnects while its own handler is
  in the trade hook. The handler then waits for room in a queue nobody drains, or
  for an end only it could announce, and holds the instrument's lock.

## Met on the way

Shown by no run of its own; where a property has an exception, this is why.

Orders and streams:
- A fill releases truncated products where the order locked one, so a remainder
  can stay locked (`ledger.go:94` says nothing does).
- A MARKET order without liquidity stays `NEW` at Binance and `OPEN` at Coinbase,
  and gets no terminal report over FIX (`server.go:237`).
- Coinbase: a handler copies its order's record, then numbers the frame, then
  queues it, so `OPEN` may follow the hook's `FILLED`, and frames may be queued out
  of the order of their numbers (`broadcaster.go:42`, `ws.go:333`).
  `LatestStateTold` asks that the latest state is sent, not that it is sent last.
- FIX: a replaced order gets no terminal report of its own. A confirmation
  refused for a duplicate `ClOrdID` uses its quote up (`quote.go:157`). A session
  that ends on a decode error is not logged out of the server, its orders keep
  resting and its entries stay. The last messages of a session may be unwritten
  (`session.go:138`).
- Diff depth: the REST snapshot is the live book, diffs are held against the
  last broadcast one. A change only the snapshot has, or only it lacks, is never
  sent (`depthdiff.go:110` against `depthdiff.go:15`). Under two names of the
  stream each diff goes to one of them. A level2 snapshot that finds the queue
  full is not sent, and the connection is registered all the same.
- gRPC: a stream that leaves closes its channel before it is out of the map; an
  event handed out in between is a send on a closed channel. A client is told of
  what its own commands did twice, by the answer (`server.go:273`, `:299`) and by the
  hook's event, and the answer overtakes earlier events of that instrument still in
  the channels; `StreamsInOrder` allows an answer ahead of events and nothing else.
- A listen key deleted during a keepalive of it lives on. A caller evicted at the
  cap of keys has a fresh burst. `LimitAssumption` is needed: with a life shorter
  than a refill, being dropped would pay. So would it, by the length of that pause,
  for a request that pauses between the limiter's lock, where its bucket is marked
  as seen, and the bucket's, where the token goes: a life that is only just a refill
  long does not do, and `MaxHold` bounds the pause. The defaults (ten minutes, and
  bursts refilled in seconds) leave room for pauses of minutes.

Options and emulator:
- Units a SELL holds locked while the sweep reads the free balance are neither
  paid nor burned.
- "Priced once per interval" (`market.go:235`) holds of one caller at a time:
  several may price at once, and the last to finish stays in the cache.
- The seeder may place an order that trades with its own: the book it checked is
  not the one it reads the depth of (`seeder.go:190` against `seeder.go:179`).
- A diff under a new shift lands on a book under the old one: "coherent"
  (`emulator.go:132`) it is only until the shift changes.

Custody:
- A withdrawal sent while a venue's cursor is being set counts as history.
- Two Ethereum payments that read one nonce are one payment, the dearer; equal
  payments are one transaction when they are under one blockhash (Solana) or overlap
  and read one sequence number or the same outputs (Stellar, `stellar_send.go:44`;
  Bitcoin, `bitcoin_send.go:239`). Both calls succeed, and `PaymentsKept` excepts
  these by name. The hub's withdrawals go through Stellar: `TransferHub` takes each
  answered `Send` for a payment, so `ValueConserved` says nothing of two equal
  withdrawals at once that shared one.
- Bitcoin's outputs are taken in the order the server lists them, where
  `bitcoin_send.go:233` says largest first. Its pages lead backwards from the
  cursor (`bitcoin_send.go:339`), so history can be credited; `TakenOnce` speaks of
  Stellar and Solana. Ethereum's log filter (`evm_send.go:189`) names an event no
  token emits.
- A page of 50 operations that are all the hot wallet's own returns nothing, so
  the cursor stays (`Blocked`).
- Two programs over one keystore lose wallets or tear the file (`overlapped`); a
  power loss right after a rename may undo it.

## What is not modelled

Of the options: pricing a contract is `Priced` or `NotPriced`, the amount a
constant; symbols settle independently, so there is one; greeks, closed-form
marks and the rendering of records are left out.
Of the depth channels: limits below the whole book, the partial-book stream,
connections that watch several names, acks. `IdsContiguous` and `DeltasKept`
speak of histories in which one name was in use at a time (`~split`),
`NoChangeMissed` of connections no snapshot of which was refused.
Of Coinbase: fees, which only views show, and one call of the book that trades with several of the
account's orders; withdrawals are `TransferHub`'s. Of FIX: the coding of
messages and their checks, market data, the quoter's prices, and the server's
lock held while a confirmation is refused. Of the native
APIs: queries and codecs; `EventStream` leaves to `OrderBook` what a command does in
the book. Of the emulator: acknowledgement delays, the arbitrage report, the
statistics that decide on a sweep. `Seeder.Clear` and `Keystore.Delete` have no
caller, `wal.Replay` none in the exchange. Of the dictionaries: `Range` and the
sharded map's `Len`, which promise no one instant.
In the modelled parts: parsing, signatures and response bodies; timestamps and
metadata; depth aggregation; the fill delay of Binance's user stream (a mode that
sends each report from a goroutine that slept, off by default);
symbol filters. Ledger amounts stay small, so the overflow of
`pkg/decimal` is not met. A MARKET order's record has no price, as in the code.
The two venues of the hub share one asset and one chain. In the passing runs
`LostReply` is off: what a lost reply does is `hub_refund`.
`ValueConserved` of the hub is about one process: what an earlier one left on the
chain counts as money from outside when it is credited. Money sent before its
destination's cursor was set stays counted as paid out: the APIs serve withdrawals
before `initCursors` has asked for the latest cursor. `LatestFails` in
`transfer_hub_crash` lets a first run start from an empty cursor, as
`initCursors` does when `LatestCursor` fails: it then credits the account's
history, once.

Components without a module are in `PROJECT.json` with their reasons: those that
are stateless (signing, symbols, option shapes), numerical (pricers, toxicity
statistics), cryptography and network I/O (keys, addresses, faucets), generated,
or example clients.
