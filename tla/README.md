# ApexTrade: specifications, model checking and proofs

ApexTrade is a one-pair (ETH/USDT) exchange in one Go process: a limit order
book with price-time matching, a ledger with escrow, an HTTP/WebSocket server
with a market-making bot, and a terminal page in the browser. This directory
holds TLA+ models of it, TLC configurations that check them on small instances,
and TLAPS proofs for every size: of the order book and the matching engine and
that the engine is price-time matching, of the server's bookkeeping, of its
money, positions and escrow, of the hub, and of what the terminal shows.

## 1. The system

| Component | Source | State | Operations | Concurrency |
|---|---|---|---|---|
| Order book | `pkg/orderbook` | `bids`, `asks` (price -> level), `bidPrices`, `askPrices` (sorted slices), `orderIndex` (ID -> order); per level a doubly-linked FIFO list, `TotalVolume`, `OrderCount` | `AddOrder`, `CancelOrder`, `BestBid`, `BestAsk`, `GetDepth` | each method under `ob.mu` |
| Matching engine | `pkg/engine` | `trades`, the order being matched and the loop's `curr`, `next`, `fillAmount` | `ProcessOrder`, `CancelOrder`, `GetRecentTrades` | `ProcessOrder` under `e.mu`; `CancelOrder` **not** under it; the loop walks lists and writes `Filled`, `TotalVolume` without `ob.mu` |
| Ledger | `pkg/ledger` | accounts: available and locked balance per currency | `RegisterUser`, `LockFunds`, `UnlockFunds`, `SettleTrade`, `GetAccount` | each method under `l.mu`; the faucet writes balances under another lock |
| Server | `cmd/server/main.go:36-345` | `userOrders`, `orderHistory` | place, cancel, faucet, account, broadcasts | a goroutine per request; `s.mu`, `l.mu`, `e.mu` one after the other, never two at once |
| Market maker | `main.go:347-416` | which order it places next | register, seed, one order per tick | its own goroutine |
| Hub | `pkg/websocket` | `clients`, the `broadcast` channel, per client a buffered `send` | `Run`, `BroadcastJSON`, `ServeWS`, `readPump`, `writePump` | one event loop, two goroutines per connection, any number of publishers |
| Start and shutdown | `main.go:47-108` | everything is in memory and gone with the process | signal handler, `Shutdown`, `ListenAndServe` | `main` returns without waiting for anybody |
| Terminal | JavaScript in `main.go:1319-1855` | socket, timer, rendered book, account, trades | connect, retry, fetch, render | answers of `fetch` and WebSocket messages in any order; the socket opens before the hub knows it |
| Candles, health | `main.go` | none | | |

How they interact: a handler locks funds (ledger), calls `ProcessOrder`
(engine, which calls the book), settles every returned trade (ledger), records
the order (server) and broadcasts (hub). A cancellation goes to the book through
the engine, then to the ledger, then to the server. The bot does what a handler
does, without escrow and without recording.

What makes it hard: cancellations run in the middle of a match; a trade is
settled long after it was made, by another goroutine, in steps that interleave
with other settlements, escrow and the faucet; early returns leave steps out;
IDs come from the clock and may collide; clients of the hub fail, stall and are
dropped while messages are under way.

What makes each part correct:

* book: lists, counts, ladders and index agree with each other after any
  sequence of calls;
* engine: price-time priority, no trade beyond a limit or an amount, an
  uncrossed book, a cancelled order trades at most once more, and only when the
  running match had it in hand, `ProcessOrder` returns;
* ledger and server: no money is made or lost, every trade is settled once, every
  unit of escrow is accounted for and lost in no way but the known ones, every
  request is answered;
* hub: no panic, no gap in what a browser receives, no publisher held up;
* terminal: whatever is overtaken, lost or restarted, it ends up with what the
  server holds, and no entry of an account is shown ahead of its funds.

## 2. The modules

| Module | Models | Remarks |
|---|---|---|
| `OrderBook` | `pkg/orderbook`: the records, ladders, linked lists and index; every method is an operator that states its next state | parameterised by the number of orders, the prices and the amounts |
| `MatchingEngine` | `pkg/engine`: one action per access of `ProcessOrder` to shared state, interleaved with `Cancel` at every step | EXTENDS `OrderBook` |
| `PriceTimeMatching` | what the engine promises: no lists, indexes or locks; withdrawals at any moment | abstract; `late` holds withdrawn orders the running match may still trade with |
| `MatchingEngineRefines` | the engine implements `PriceTimeMatching` | refinement mapping: the abstract book is `resting`, and `late` what a cancellation has unlinked while the loop holds a pointer it will still follow |
| `Ledger` | `pkg/ledger`: the methods that change balances | |
| `Exchange` | handlers, bot, faucet and cancellations over ledger and engine | EXTENDS `Ledger`, INSTANCE `PriceTimeMatching` |
| `MCExchange` | the requests and endowments of the instances | for TLC |
| `Feed` | what a subscriber of the live feed is promised | abstract |
| `Hub` | `pkg/websocket` | implements `Feed` |
| `Terminal` | the page's connection and fetches, the broadcasts at the end of every handler and tick, stop and restart of the process | takes the hub at its word (`Feed`) |
| `SumProofs` | how a sum over a finite set changes with its set and its terms | TLAPS; no model of its own |
| `OrderBookProofs`, `MatchingEngineProofs` | the book and the matching loop | TLAPS |
| `RefinementProofs` | the engine implements `PriceTimeMatching` | TLAPS; EXTENDS `MatchingEngineRefines` and `MatchingEngineProofs` |
| `ExchangeProofs` | bookkeeping and money of the server | TLAPS |
| `SettlementProofs` | accounts and escrow against the engine's trades | TLAPS; EXTENDS `ExchangeProofs` and `SumProofs`, `MCExchange` EXTENDS it |
| `HubProofs`, `TerminalProofs` | the hub, the terminal | TLAPS |

The runs of a component use its proof module, so that TLC evaluates the
inductive invariants (`EngineInv`, `LoopInv`, `VolumesTracked`, `ExchangeInv`,
`TradingInv`, `PositionsInv`, `HubInv`, `TerminalInv`) that the proofs rest on.
`TapeIsWhole` is proved only: the runs check its sums as `FillsMatchTrades`.

How state and steps correspond:

* `*Order` pointers are numbers, in the order in which orders enter
  `ProcessOrder`; 0 is nil. The age of an order is its number. An order's ID is
  a separate field, because the server's IDs may repeat (`ReuseIds`).
* `level[side][price]` is the `*LimitLevel`. The code removes a level from its
  map when it is empty and makes a new one when the price comes back; `tiers`
  are the keys of the map. `resting` is a history variable: the orders linked in
  some level.
* `matchBuyOrder` and `matchSellOrder` are mirror images and one set of actions.
  `stage` is the program counter: `best` (BestAsk, price check), `head`
  (`curr := Head`), `pick` (`next := curr.Next`, `fillAmount`), `fill` (trade,
  both `Filled`, the read of `TotalVolume`), `volume` (its write, `IsFilled`),
  `remove` (`Book.CancelOrder`), `rest` (`AddOrder`, unlock). `Cancel` may come
  between any two of them: `MatchingEngine.CancelOrder` does not take `e.mu`.
  `cancelled` and `torn` are history variables: what cancellations have handed
  back, and the levels whose `TotalVolume` one of them has put out of step.
* In `Exchange` a goroutine is `idle`, `enter` (escrow locked), `match` (inside
  `ProcessOrder`), `settle`, `done`; a filled maker leaves the book in a step of
  its own (`TakeOut`). `cancel[o]` is the DELETE handler of order `o`: the
  engine has handed it back (`read`), what it has left has been read (`unlock`),
  its escrow `refund[o]` has been unlocked or refused (`record`), it is in the
  history (`done`). `overtaken` is a history variable: the orders a DELETE got
  while the match had them in hand or had filled them. `faucet` is
  `handleFaucet`, whose two `+=` are a read and a write each, because it does
  not hold the ledger's lock. `FaucetMeanwhile` is the case that the faucet's
  write is overwritten by a ledger method that had read the balance before it.
* In `Hub` a message is the number of its place in the broadcast channel. A
  rendezvous on an unbuffered channel is one step, possible when `Run` is at its
  `select`; a turn of the loop over the clients is one step.
* In `Terminal` one piece of a topic is watched in a behaviour, because pieces
  share no order but the one named: the book; how far the listed orders are
  filled, which decides by `!IsFilled` which of them are listed; or the entries of
  `userOrders` and `orderHistory` with one field of the account beside them.
  Instead of its contents every part has a version, which saturates at
  `MaxVersion` and so stands for every later one. A goroutine in `busy` has done
  its work and is about to broadcast; its `view` is what it has read so far: the
  lists, copied under `s.mu`, then the balance, because `GetAccount` hands out the
  live account and the JSON encoder reads its fields one by one without a lock.
  Each field is watched by itself: that two of them may come from different
  moments is so in the code. `served` is the server's end of the connection
  (upgraded, registered, dropped), `link` the browser's. A fetch reads as a
  broadcast does and answers at any later moment, or fails. `Stop` takes the
  process with its goroutines, connections and half-taken answers at any moment.

Abstractions: amounts, prices and balances are integers, prices of requests
negative ones too, so the rounding of `float64` is not covered. A method that
holds the book's or the ledger's lock is one step; within `CancelOrder` the
unlocked accesses of the matching loop could in the code fall between two
statements (a data race on `Next`, `Prev`, `TotalVolume`), here they fall before
or after it, and only the lost update of `TotalVolume` at
`matching_engine.go:90` is split into its read and its write. `Exchange` takes
the engine at its word (`PriceTimeMatching`, racing cancellations included), and
the engine keeps it for orders with different IDs: in `Exchange` every order is
its own ID, so its runs and theorems say nothing about two orders that share
one; `Engine_id_collision` shows what happens then. `Terminal` leaves out the
trade tape, the chart and the forms. Definitions whose comment says `mutant` are
not part of any model: each is the form a definition would have with a plausible
bug, and replacing the definition by it makes the property named in
`PROJECT.json` fail.

## 3. The runs

Passing:

| Run | Question | Instance |
|---|---|---|
| `Engine_concurrent` | What stays true of the book and of price-time priority although cancellations race with every step of a match, and does every step bring its end closer? | 4 orders, 2 prices, amounts 1 and 2 |
| `Engine_promise` | With cancellations at every step: is the engine price-time matching in which a cancelled order trades at most once more, which depths are exact, does it return? | 3 orders, 3 prices (one of them 0, refused by `AddOrder`), amounts 1 and 2 |
| `Exchange_settlement` | Do concurrent handlers, cancellations and the bot settle every trade once, without making money? | 2 requests (a limit sell, market buys), 1 seed order, 1 pulse, cancellations at any moment |
| `Exchange_orders` | Are active orders and history right, does no goroutine work in vain, and is every request answered, with a racing faucet? | 2 requests out of a crossing pair of limit orders, a limit sell at price 0, a limit buy at price -1 and a market buy, 1 faucet call |
| `Exchange_escrow` | Is every unit of escrow accounted for at every moment, and is it lost only by the known faults? | 2 requests out of a limit sell, a market buy and a bid at price -1, 2 orders of the bot on either side, cancellations at any moment: overtaken ones, payers told wrong and funds locked into existence occur, and so do runs without any of them |
| `Hub_feed` | Do stalled, failing and leaving browsers ever make the hub panic or leave a gap? | 2 clients, one may stall, 2 publishers, buffers of 1, 3 messages |
| `Hub_stalled` | Does a browser that stops reading ever hold up a publisher? | 1 client that may stall, 2 publishers, buffers of 1, 6 messages: one being written, one in the client's buffer, one that overflows it, one in the broadcast channel, and two waiting publishers |
| `Terminal_live` | Do overtaken snapshots, lost connections, racing fetches or a restarted server ever leave a terminal with old data for good, or with entries ahead of their funds? | 1 handler and the bot, 2 versions, 1 loss (network, hub or process), 2 fetches at a time |

Properties of the runs, by what they would catch:

* `QueuesAreFIFO`, `LaddersMatchQueues`, `IndexIsExact`: a list, count, slice or
  index that disagrees with the others after some interleaving.
* `PriceTimePriority`: the loop fills an order although an older or better one
  rests; the loop's `curr` and `next` were read before cancellations that may
  have removed either.
* `TradesAreFair`, `FillsMatchTrades`, `BookIsUncrossed`, `OnlyLiveOrdersRest`:
  what a caller may conclude from the tape and the book.
* `ImplementsPriceTime`: a step of the loop that is neither a trade with the first
  in priority, nor the removal of a filled maker, nor the end of a match, although
  orders are withdrawn between any two of its reads.
* `CancelledTradesOnceMore`: a cancelled order that comes back into the loop's
  hands, or trades twice. That it may trade once is the code's
  (`Engine_cancel_race`).
* `DepthIsExact`, `VolumesTracked`: a `TotalVolume` that is wrong at a level no
  cancellation has torn. A level is `torn` when one of its orders is unlinked
  between the read and the write of `TotalVolume`, or while the loop has it in
  hand (`Tears`); the properties say that nothing else puts it out of step.
* `ProcessOrderReturns` needs unique IDs (`Engine_id_collision`).
* `MoneyConserved` and `PositionsMatchTrades`: escrow, settlement and
  cancellation interleave per balance; the sum, and every account against the
  tape, must come out right, overtaken cancellations or not.
* `EscrowAccounted`: at every moment, in the middle of requests, matches,
  settlements and cancellations, what is locked is the escrow of requests under
  way, of what orders have left less what cancellations gave back, and of trades
  less what settlement took. It holds whatever goes wrong, and a lost escrow has
  its place in it.
* `EscrowLostOnlyByFault`, `CancelUnlocksEscrow`: the three ways to lose escrow
  are named in `Faultless` (a limit order without a positive price, a cancellation of
  an order the match had in hand, a settlement that takes from the wrong balance);
  a fourth one would break these. `EscrowBacksRestingOrders`, which the first of
  them concludes, fails without `Faultless` (`Exchange_escrow_leak`).
* `MatchAdvances`: a cancellation under the running loop, or a maker that cannot
  be removed, sends the loop round again; every step must lower `StepsLeft`.
* `WorkRunsOut`: a goroutine that settles twice, sends a refused order again or
  turns in a circle; every step but an arrival must lower `WorkLeft`.
* `WorkingOrdersAreListed`, `HistoryOnceUnlessOvertaken`, `RequestsAnswered`: the
  bookkeeping after a match, racing with cancellations and with other handlers. An
  order whose cancellation the match overtakes may be in the history twice, as
  FILLED and as CANCELED; nothing else is, and this no more often.
* `NoPanic`, `ImplementsFeed`, `BroadcastReturns`, `MessagesArriveOrCut`: a
  channel closed twice or sent on after closing, a gap or a repetition in what a
  browser receives, a publisher held up by a browser that stops reading.
* `OrdersShownWithTheirFunds`: an account whose entries are newer than a balance
  beside them; nobody holds a lock over both. It is about entries made and taken
  out by handlers. The filter `!IsFilled` over them follows the engine: an order
  that somebody else fills is left out before its trade is settled, and for that
  moment the screen shows its escrow without it.
* `TerminalCatchesUp`: an older snapshot that overtakes a newer one, a message
  lost with a connection or before the registration, an answer of `fetch` that
  arrives last, a connection that is never tried again.
* `LoopInv`, `EngineInv`, `ExchangeInv`, `HubInv`, `TerminalInv` and
  `VolumesTracked`, `TradingInv`, `PositionsInv`: the inductive invariants of
  section 5, the last three over sums and the tape. `TradingInv`
  says who has placed which order and who trades with whom.

Why the bounds suffice: three orders give a maker, a second maker behind it and
a taker, four add one more level or one more taker; amounts 1 and 2 give exact,
partial and multiple fills; two prices give two levels of a ladder. Two handlers
and the bot are the three goroutines that can settle at a time; a demo user who
can fund some of its orders makes `LockFunds` fail as well as succeed. Buffers
of one message are full after one message, which with 256 takes 257.
In `Terminal_live` two versions are before and
after a change, of any part and any number of times; one loss is the last one,
before which everything may have happened; two fetches are the page's own and
that of `onopen`, so that one of an old connection races with the new one.
`MaxTrades` keeps the tape finite and is never below the number of trades an
instance can make between two orders that fill one of them. In
`Exchange_*` and `Hub_*` deadlock is not checked: requests, cancellations and
broadcasts are bounded, so the system really may stop.

Disagreements between the code and its documentation (runs that expect a
violation; the lines are in `PROJECT.json`):

* `Engine_cancel_race`: a cancellation between `curr := Head` and the fill hands
  back an order that then trades.
* `Engine_id_collision`: IDs are the clock modulo 10^7 (bot: 10^5). When two
  resting orders share one, the loop cannot remove the maker it has filled,
  finds its level again forever, and never releases `e.mu`.
* `Exchange_escrow_leak`: `isBuyerMaker` compares order IDs and is false for
  every trade of a handler, so a limit buy that trades at once pays out of its
  available funds and its escrow stays locked.
* `Exchange_unsettled_trade`: a limit sell at price 0 trades with every bid, its
  rest is refused by `AddOrder`, and the handler returns without settlement.

Seen while modelling, without a run: the update of `TotalVolume` in the loop may
be lost to a racing cancellation, or take a fill off twice
(`matching_engine.go:90`, `torn`), so that `GetDepth` shows a wrong volume until
the level is empty; a cancellation that the match overtakes unlocks an escrow
which the settlement then pays out all the same, so that `Locked` may go below
zero, and puts the order into the history twice (`main.go:260`, `:296`, `:311`);
an error of `UnlockFunds` is ignored, so that in such a state another cancelled
order may keep its escrow (`main.go:306`); a limit buy at a negative price
"locks" a negative cost, which raises `Available`, and keeps it when `AddOrder`
refuses the order (`main.go:220`, `:231`); the seed drops the trades
`ProcessOrder` returns (`main.go:378`): with a seed that meets a user's order
`PositionsMatchTrades` fails; an order filled by somebody else leaves the active
orders before its funds move (`main.go:124`, `:345`); the faucet and the ledger
may overwrite each other's update (`main.go:198`, `FaucetMeanwhile`; with
`MaxFaucets = 1` `MoneyConserved` fails); a resting order that is filled by
somebody else never reaches the history (`main.go:260`); a cancellation between
the match and the bookkeeping leaves the order listed as active (`main.go:273`);
the rows of the trade tape may be doubled, and those loaded at the start stand
in the opposite order (`main.go:1849`); what is broadcast between the answer to
the upgrade and the registration reaches nobody (`main.go:1788`, `hub.go:108`),
and a failed fetch is not repeated, so a terminal may show old data until the
next broadcast, which the bot's tick bounds.

## 4. Fairness

* `MatchingEngine!FairSpec`: weak fairness of the steps of `ProcessOrder`. The
  goroutine waits only for `ob.mu`, which others hold for one step.
* `Exchange!FairSpec`: weak fairness of every step a goroutine takes once it has
  begun; no goroutine waits for another while holding a lock. Nothing forces
  requests, ticks, cancellations or faucet calls to come.
* `Hub!FairSpec`: weak fairness of the hub's loop, of the publishers' sends, of
  the pumps, and of writes to browsers that read. A write to a stalled browser
  need never end: `WriteMessage` has no deadline.
* `Terminal!FairSpec`: the ticker ticks and handlers finish. Strong fairness for
  the two kinds of sender, because a sender that waits for the hub's channel is
  queued and none is passed over for ever. Weak fairness of `ServeWS`, of the
  browser (it reads what arrives and its timer fires), and of fetches, which end
  one way or another. Weak fairness of `Start` is an assumption about the
  operator: without a server no terminal catches up. Losses are bounded
  (`MaxLosses`): after the last one the network holds, and the browser is taken
  to keep up with the hub. Handlers need never come: the bot's broadcast at
  every tick, traded or not, is what brings a terminal up to date, as the mutant
  `TradesOnly` shows. Deadlock is checked: the ticker never stops.

## 5. What is proved

Every theorem is about `Spec` of its module, for all values of the constants
that meet the module's assumptions.

| Theorem | States | Assumes |
|---|---|---|
| `EngineCorrect` | `Spec => []EngineInv`, the inductive invariant | unique order IDs |
| `EngineTypeOK` | type correctness | " |
| `QueuesStayFIFO`, `LaddersStayExact`, `IndexStaysExact` | the book stays whole | " |
| `PriceTimeHolds` | price-time priority at every fill | " |
| `TradesStayFair`, `BookStaysUncrossed`, `OnlyLiveOrdersStay` | what callers rely on | " |
| `TapeStaysWhole` | `Spec => []TapeIsWhole`: every fill is on the tape | ", a tape as long as the orders |
| `FillsAlwaysMatchTrades` | what an order has filled is the sum of its trades | " |
| `MatchesAlwaysAdvance` | `Spec => MatchAdvances`: every step of `ProcessOrder` brings its end closer | unique order IDs |
| `LoopHoldsWhatRests` | `Spec => []LoopInv`: what the loop holds rests, or was cancelled under it | unique order IDs |
| `CancelledTradeOnceMore` | a cancelled order trades at most once more, and out of the loop's hands | " |
| `VolumesStayTracked` | `Spec => []VolumesTracked`: `TotalVolume` at every moment, at every level not torn | " |
| `DepthStaysExact` | the depth shown of such a level is what its orders have left | " |
| `EngineImplementsPriceTime` | `Spec => Promise!Spec`: the engine is price-time matching, cancellations at every step | " |
| `ExchangeCorrect` | `Spec => []ExchangeInv` | orders with IDs of their own, which is built into `Exchange` |
| `ExchangeTypeOK`, `HistoryStaysOnce`, `WorkingOrdersStayListed` | bookkeeping of the server | " |
| `MoneyStaysConserved` | no interleaving makes or loses money | ", no faucet calls |
| `TradingIsSound` | `Spec => []TradingInv`: who trades with whom, no order overfilled | orders with IDs of their own |
| `WorkAlwaysRunsOut` | `Spec => WorkRunsOut`: every step but an arrival uses up work | " |
| `NobodyIsStuck` | `Spec => [](Quiet \/ SomebodyCanGoOn)`: no deadlock | " |
| `PositionsStayInHand` | `Spec => []PositionsInv`, with `ExchangeInv` and `MoneyInv`: accounts show the settled trades, and the others are in somebody's hands | ", priced limit orders, a seed that meets nobody, no faucet calls |
| `PositionsFollowTrades` | every account holds what the tape says, once all have answered | the same |
| `EscrowStaysAccounted` | what is locked is accounted for at every moment, whatever goes wrong | orders with IDs of their own |
| `EscrowLostOnlyByFaults` | without the faults of `Faultless`, what is locked is behind resting orders once all is settled | " |
| `CancelsUnlockEscrow` | without them a cancellation returns what its order has left | " |
| `HubCorrect`, `HubTypeOK`, `HubNeverPanics` | the hub | |
| `HubImplementsFeed` | the hub implements `Feed` | |
| `TerminalCorrect`, `TerminalTypeOK`, `OrdersStayShownWithTheirFunds` | the account on the screen | |

The assumptions are needed. Unique IDs (`ReuseIds = FALSE`, and the way
`Exchange` names its orders): with two resting orders of one ID `ProcessOrder`
turns in a circle with `e.mu` held (`Engine_id_collision`), and then nothing
said of the server holds, `WorkAlwaysRunsOut` and `NobodyIsStuck` included. The
code draws IDs from the clock and does not ensure it. `MaxFaucets = 0`: the
faucet writes balances without the ledger's lock, and one of two updates may be
lost; it is the code's race and not a bound, and the escrow theorems do not need
it. `LimitsHavePrices` (positive ones): the trades of a limit sell at price 0
are never settled (`Exchange_unsettled_trade`). `SeedsMeetNobody`: the seed
drops the trades `ProcessOrder` returns (`main.go:378`), so a user's order that
it reaches is never paid; the seed's own prices, 2.5 below and above the middle,
do not meet each other, and a user's order placed before the seed is complete
may. `MaxTrades >= MaxOrders`: the tape of the model holds every trade, since
each fills one of its two orders (`TapeIsWhole`, `TradingInv`). Nothing is
assumed about when cancellations come: in every module they race with every step
of a match.

**The book and the engine**, in two layers.

1. `OrderBookProofs`. `BookInv` says that lists, ladders, levels and index
   describe the set `resting`, and that a removed order has no `Next`.
   `AddOrderInv` and `CancelOrderInv` show that the two methods keep it, from
   four facts that know nothing of the rest of the book: `SortSliceInserts` and
   `RemoveFirstRemoves` about a sorted slice, `AppendKeepsLinked` and
   `RemoveKeepsLinked` about one doubly-linked list. `sort.Slice` is
   `SortSlice`, some sorted permutation of the slice; nothing else of it is used.
2. `MatchingEngineProofs`. `PriceTimePriority` is not inductive: whether the
   maker is the oldest depends on when `curr` and `next` were read.
   `MakerIsOldest` and `NextIsOldest` say what each still promises at every
   stage, although cancellations may have removed any order since. Two facts
   carry the argument. A cancelled order's `Next` is nil
   (`RemovedOrdersAreUnlinked`), so a loop that stands on it leaves the level
   and looks for the best price again, instead of going on from a stale place.
   A fill exhausts the maker or the taker (`FillExhausts`), so the loop goes on
   to `next` only when the maker is gone. `SweepsBestTier` and `RestsUncrossed`
   give the uncrossed book; `Tape` gives fair trades. One lemma per action shows
   that it keeps `EngineInv`.

**ProcessOrder comes to its end** (`MatchesAlwaysAdvance`). `StepsLeft` counts
seven steps for every order that is not filled, three for every resting one, and
the rest of the turn the loop is in. A fill leaves one order fewer unfilled
(`FillUsesUp`), which pays for the turn that follows it; a turn without a fill
ends with the level emptied or `curr` unlinked, which only a cancellation does,
and which takes an order out of the book for good, because nothing is added
while `e.mu` is held. Resting orders have something left or are about to be
removed (`EngineInv`), so the loop never stands at a maker it has nothing to
take from: this is where unique IDs are needed (`Engine_id_collision`).
`StepsLeft` is a natural number, so a call takes at most that many steps,
whatever is cancelled meanwhile; that the goroutine takes them is its fairness,
which TLC adds in `ProcessOrderReturns`.

**The engine is price-time matching** (`RefinementProofs`), although
`CancelOrder` does not wait for the loop. `EngineInv` allows the loop to stand
on an order that has been cancelled; `LoopInv` adds which orders these are.
`Late` are those outside the book that the loop will still follow: `curr` up to
the fill and `nxt` up to the removal. All of them were cancelled, none was
filled, the loop goes from older orders to younger ones, and what was handed
back is never resting or being matched again. The abstract book is `resting`,
the abstract `late` is `Late`. `RecordTrade` is the abstract trade: its maker
rests or is late, and precedes all other candidates (`SweepsBestTier`,
`MakerIsOldest`, `CurrPrecedes`); `nxt` precedes all but `curr` (`NxtPrecedes`).
With the fill the maker leaves `Late`, and when it exhausts the taker nothing is
late any more: so a cancelled order trades once more at most
(`CancelledTradesOnceMore`). `RemoveMaker` is the abstract removal, or invisible
when a cancellation was first; `Rest` is the abstract end (`RestsUncrossed`);
`Cancel` is a withdrawal, of an order in hand only where the abstract engine
says so: first in priority, or after one other at its price (`CancelWithdraws`).
Every other access of the loop changes nothing the abstraction sees. Fairness,
the other half of `ImplementsPriceTime`, is checked by TLC.

**Sums** (`SumProofs`). `FillsMatchTrades`, `DepthIsExact` and the properties of
balances compare a counter with a sum that the code never forms.
`SumFunctionOnSet` is a fold over a finite set; what is needed of it is that a
sum does not change when no term does (`SumCongruence`), loses or gains one term
with one element (`SumRemove`, `SumAdd`), changes with one term (`SumChange`) or
with two (`SumChanges`), does not see terms that are zero (`SumWithoutZeros`),
and is no less than one of its terms (`SumBounds`). Induction over finite sets
is out of the prover's reach; a smallest set for which a lemma would fail
(`SmallestSet`) takes its place. In the engine, `TapeIsWhole` adds to
`FillsMatchTrades` that there are never more trades than filled orders: every
trade exhausts one of its two orders (`FillExhausts`) and a filled order trades
no more, so nothing falls off the tape. In the book, `VolumesTracked` says that
`TotalVolume` of every level that is not torn is what its orders have left, and
between a fill and the write of `TotalVolume` (`matching_engine.go:90`) that
much and the fill. A cancellation takes off what its order has left; it puts the
sum out of step only between these two statements, or when the loop will still
fill the order and take that off as well (`LateAreCancelled`). A level that is
emptied and made again starts with a volume of its own.

**The server** (`ExchangeProofs`). `HistoryOnceUnlessOvertaken` races: the
handler that finds its order filled and the cancellation of the same order both
write the history. `Goroutines` says that no two goroutines ever hold the same
order, and that the engine works for one of them; `Cancellations` that a
cancelled order which was not overtaken has something left for good, because it
neither rests nor is matched nor is late, so the handler cannot find it filled;
`RestingOrders` that whatever is late was overtaken; `Recorded` ties every entry
to who wrote it. `WorkingOrdersAreListed` follows from the same facts.
`MoneyInv` says that both accounts together hold what was registered;
`LockFunds`, `UnlockFunds` and `SettleTrade` only move money, whichever payer is
chosen, so the sum survives even the settlements whose maker is told wrong.

**Positions and escrow** (`SettlementProofs`). `TradingInv` follows every order
back to the request it was made from, and every trade to its two orders:
`Provenance`, `Owners`, `Deals`, `Fills`. On it rest two sums.
`AccountsFollowTrades`, the heart of `PositionsInv`, says of every moment, not
only a quiet one, that an account holds its endowment plus what the *settled*
trades have changed; `TradesInHand` that a trade not settled yet has a goroutine
at work which has it in hand, so that when all are quiet everything is settled.
`SeedTradesNothing` and `LimitsHavePrices` keep `ProcessOrder`'s callers from
dropping a trade. `EscrowAccounted` is a sum of three sums: over the requests
under way; over the user's orders, what each has left less what its cancellation
gave back (`Reserved`); over the trades, what each has freed less what its
settlement took (`Owing`). Each step moves one term: `Enter` from requests to
orders, a trade from its two orders to itself, `SettleTrade` and `UnlockFunds`
out of a term and out of what is locked. Nothing needs to go right for this.
Terms that stay when all is over are lost escrow, or escrow paid twice;
`EscrowLostOnlyByFaults` says where they come from. Under `Faultless` every
settled trade has taken what it has freed, every refund is what its order has
left (`RefundsAreRight`), and an order with something left rests, is being
matched or was cancelled (`OrdersAreKept`); so every term is zero but those of
resting orders. A cancellation's unlock succeeds because what its order has left
is one term of a sum without negative ones that is locked (`SumBounds`). The
faucet may call at any time: it never writes what is locked.

**The server comes to rest** (`WorkAlwaysRunsOut`, `NobodyIsStuck`). `WorkLeft`
adds up where every goroutine, cancellation and faucet call is, three for every
order that is not filled, one for a filled order still in the book, and one for
every trade that is not settled. An order that enters the engine costs less than
the steps its goroutine leaves behind; a trade fills an order for good, and
leaves one settlement and perhaps one removal (`TradingInv`, `MatchFacts`); a
settlement takes one trade off the list. It holds under every interleaving, with
cancelled orders in hand, priceless orders and the faucet too, of orders with
IDs of their own: between two arrivals there are at most `WorkLeft` steps.
`NobodyIsStuck` adds that until they are done some goroutine can take one: the
goroutine in the engine trades, because the orders on the other side have a
first one (`SomebodyIsFirst`: price-time priority is total and transitive), or
returns; who waits to enter waits for that one (`Owners`), and finds room in the
model's bound on orders (`OrdersCounted`); who waits for `s.mu` waits for a
faucet call. So the server has no deadlock, whichever goroutine is scheduled, as
long as no two orders share an ID. That each single goroutine gets on, under
fairness, is left to `RequestsAnswered`. ENABLED being out of reach,
`SomebodyCanGoOn` writes out the guards of the actions; it is proved and not
among the properties of a run.

**The hub** (`HubProofs`). A client's messages are in three places: delivered,
being written, buffered. `NoGap` says that these are consecutive numbers from
its registration on, and for a client in the map end at the message dispatched
last. `ClientOK` adds that `send` is open as long as the client is in the map,
and that a client registers once; this gives `NoPanic`, and with `NoGap` every
step is one of `Feed` or invisible to it.

**The terminal** (`TerminalProofs`). The entries are read before the balances,
and a handler changes the balances before the entries. `SnapshotOK` says of
every snapshot, half taken, on the wire or in an answer, that what it has read
of the entries is no newer than the server's, nor than the balance read after
it. Overtaking does not matter: whatever is rendered is sound by itself. How far
orders are filled keeps no such order with the balances, and nothing is claimed
of it but that the screen catches up.

Only model-checked: the liveness properties (`ProcessOrderReturns`,
`RequestsAnswered`, `MessagesArriveOrCut`, `BroadcastReturns`,
`TerminalCatchesUp`), and the fairness half of `ImplementsPriceTime`: fairness
and ENABLED are out of the prover's reach. `MatchesAlwaysAdvance`,
`WorkAlwaysRunsOut` and `NobodyIsStuck` are the parts of `ProcessOrderReturns`
and `RequestsAnswered` that need neither. Every invariant and every action
property of a passing run is a theorem.

## 6. Not modelled, and the plan

Done: every part of the server that keeps state, the connection and the panels
of the terminal, the proofs of section 5, and both refinements. What is left, in
this order:

1. `FloatFill`: fills on binary fractions of bounded width, for the remainder
   that rounding leaves in the book (`order.go:66`). Amounts are integers in
   every module here.
2. The trade tape of the terminal: which rows it shows in which order.
3. The orders that are completed by somebody else's handler and leave the
   user's lists (`main.go:260`), as a run of its own.

Left out for good: markup, styles, forms and chart drawing of the terminal;
`handleGetCandles` (random data), `handleHealth` (a constant), `handleGetTrades`
and `GetRecentTrades` (reads that change nothing); the port, the routes, JSON
encoding, HTTP parsing and logging.
