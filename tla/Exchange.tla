------------------------------ MODULE Exchange ------------------------------
(***************************************************************************)
(* cmd/server: the HTTP handlers and the market maker over the engine and  *)
(* the ledger.  Every POST /api/v1/orders runs in a goroutine of its own   *)
(* (h in Handlers), the bot in another, and every DELETE and faucet call   *)
(* in one more; a handler takes the ledger's, the engine's and the         *)
(* server's lock one after the other, never two at a time, so goroutines   *)
(* interleave between the steps below.                                     *)
(*                                                                         *)
(* The engine is taken at its word (PriceTimeMatching): a cancellation may *)
(* take an order away under the running match, which then may still trade  *)
(* it.  Its word holds for orders with different IDs, and userOrders is    *)
(* keyed by ID: here every order is its own ID.  Broadcasts change nothing *)
(* the handlers read and are left out.                                     *)
(***************************************************************************)
EXTENDS Ledger, Sequences, SequencesExt

CONSTANTS
  Prices, Amounts,  \* what requests are made of
  DemoRequests,     \* the bodies of POST /api/v1/orders that pass the check of amount
  SeedRequests,     \* the orders of the bot's initial liquidity seed
  PulseRequests,    \* the orders the bot's ticker places
  Credit,           \* Credit[c]: what the faucet gives
  MaxRequests, MaxSeeds, MaxPulses, MaxFaucets  \* bounds: how often each happens

Demo == "demo-user"
Bot == "bot-market-maker"
Handlers == 1 .. MaxRequests
BotLoop == 0
Threads == Handlers \cup {BotLoop}

MaxOrders == MaxRequests + MaxSeeds + MaxPulses
MaxTrades == MaxOrders     \* a trade fills one of its orders, so the tape holds them all
Orders == 1 .. MaxOrders
Requests == [side : {"BUY", "SELL"}, kind : {"LIMIT", "MARKET"},
             price : Prices \cup {0}, amount : Amounts]
Details == [user : {Demo, Bot}, side : {"BUY", "SELL"}, kind : {"LIMIT", "MARKET"},
            price : Prices \cup {0}, amount : Amounts]
Blank == [user |-> Demo, side |-> "BUY", kind |-> "LIMIT", price |-> 0, amount |-> 0]

ASSUME ExchangeAssumption ==
  /\ Users = {Demo, Bot}
  /\ Prices \subseteq Int
  /\ Amounts \subseteq Nat \ {0}
  /\ DemoRequests \subseteq Requests
  /\ SeedRequests \cup PulseRequests \subseteq {q \in Requests : q.kind = "LIMIT" /\ q.price > 0}
  /\ Credit \in [Currencies -> Nat]
  /\ {MaxRequests, MaxSeeds, MaxPulses, MaxFaucets} \subseteq Nat

VARIABLES
  ord, filled, resting, late, submitted, taker, trades,  \* the engine
  pc,          \* where every goroutine is
  req,         \* the request it works on
  mine,        \* the order it has given to the engine
  ticks,       \* how many orders the bot has placed
  userOrders,  \* the values of Server.userOrders
  history,     \* Server.orderHistory, as [order, status]
  cancel,      \* cancel[o]: where the DELETE handler of o is
  refund,      \* refund[o]: the escrow it unlocks, 0 when that is refused
  overtaken,   \* history: the orders it got when the match had them in hand or filled
  faucet,      \* handleFaucet: the balance it is at, and what it has read of it
  settled      \* the positions in trades the settlement loops are past

engineVars == <<ord, filled, resting, late, submitted, taker, trades>>
threadVars == <<pc, req, mine, ticks>>
serverVars == <<userOrders, history>>
cancelVars == <<cancel, refund, overtaken>>
vars == <<ledgerVars, engineVars, threadVars, serverVars, cancelVars, faucet, settled>>

Engine == INSTANCE PriceTimeMatching

Init ==
  /\ registered = {Demo}                           \* NewServer registers the demo user
  /\ accounts = [LedgerEmpty EXCEPT ![Demo] = Endowment(Demo)]
  /\ Engine!Init
  /\ pc = [t \in Threads |-> IF t = BotLoop THEN "start" ELSE "idle"]
  /\ req = [t \in Threads |-> Blank]
  /\ mine = [t \in Threads |-> 0]
  /\ ticks = 0
  /\ userOrders = {}
  /\ history = <<>>
  /\ cancel = [o \in Orders |-> "none"]
  /\ refund = [o \in Orders |-> 0]
  /\ overtaken = {}
  /\ faucet = [at |-> "done", read |-> FALSE, reg |-> 0, calls |-> 0]
  /\ settled = {}
-----------------------------------------------------------------------------
(* handleFaucet adds to the demo user's balances with s.mu held, but not   *)
(* the ledger's lock: the read and the write of "+=" are steps of their    *)
(* own.  s.mu is free when no faucet call is at a balance.                 *)
ServerKeptLocked ==                                     \* mutant: locked again while held
  faucet.at = "done" /\ \A t \in Threads : pc[t] # "settle"
ServerUnlocked == faucet.at = "done"

FaucetCall ==
  /\ ServerUnlocked
  /\ faucet.calls < MaxFaucets
  /\ faucet' = [at |-> "USDT", read |-> FALSE, reg |-> 0, calls |-> faucet.calls + 1]
  /\ UNCHANGED <<ledgerVars, engineVars, threadVars, serverVars, cancelVars, settled>>

FaucetRead ==
  /\ faucet.at # "done" /\ ~faucet.read
  /\ faucet' = [faucet EXCEPT !.read = TRUE, !.reg = accounts[Demo][faucet.at].available]
  /\ UNCHANGED <<ledgerVars, engineVars, threadVars, serverVars, cancelVars, settled>>

NextBalance == [faucet EXCEPT !.at = IF @ = "USDT" THEN "ETH" ELSE "done",
                              !.read = FALSE, !.reg = 0]

FaucetWrite ==
  /\ faucet.at # "done" /\ faucet.read
  /\ accounts' = [accounts EXCEPT ![Demo][faucet.at].available = faucet.reg + Credit[faucet.at]]
  /\ faucet' = NextBalance
  /\ UNCHANGED <<registered, engineVars, threadVars, serverVars, cancelVars, settled>>

(* The faucet's write may also fall between the read and the write of the  *)
(* ledger method that changes the same balance, and be overwritten by it.  *)
FaucetMeanwhile ==
  \/ UNCHANGED faucet
  \/ /\ faucet.at # "done"
     /\ accounts'[Demo][faucet.at].available # accounts[Demo][faucet.at].available
     /\ faucet' = NextBalance
-----------------------------------------------------------------------------
\* What handlePlaceOrder locks for a limit order, and handleCancelOrder unlocks.
EscrowCurrency(side) == IF side = "BUY" THEN "USDT" ELSE "ETH"
Escrow(side, price, amount) == IF side = "BUY" THEN price * amount ELSE amount

(* handlePlaceOrder, step 1: escrow for limit orders; without the funds    *)
(* the request is refused.  Only the amount of a request is checked: a     *)
(* negative price makes the cost negative, and "locks" funds into          *)
(* existence.                                                              *)
Request(h, q) ==
  LET c == EscrowCurrency(q.side)
      cost == Escrow(q.side, q.price, q.amount)
  IN  /\ pc[h] = "idle"
      /\ req' = [req EXCEPT ![h] = [user |-> Demo, side |-> q.side, kind |-> q.kind,
                                    price |-> q.price, amount |-> q.amount]]
      /\ \/ /\ q.kind = "MARKET"
            /\ pc' = [pc EXCEPT ![h] = "enter"]
            /\ UNCHANGED <<ledgerVars, faucet>>
         \/ /\ q.kind = "LIMIT" /\ CanLock(Demo, c, cost)
            /\ LockFunds(Demo, c, cost)
            /\ FaucetMeanwhile
            /\ pc' = [pc EXCEPT ![h] = "enter"]
         \/ /\ q.kind = "LIMIT" /\ ~CanLock(Demo, c, cost)
            /\ pc' = [pc EXCEPT ![h] = "done"]
            /\ UNCHANGED <<ledgerVars, faucet>>
      /\ UNCHANGED <<engineVars, mine, ticks, serverVars, cancelVars, settled>>

(* The engine takes the order, matches it, and returns.                    *)
Enter(t) ==
  /\ pc[t] = "enter"
  /\ Engine!Submit(req[t])
  /\ mine' = [mine EXCEPT ![t] = submitted + 1]
  /\ pc' = [pc EXCEPT ![t] = "match"]
  /\ UNCHANGED <<ledgerVars, req, ticks, serverVars, cancelVars, faucet, settled>>

Match ==
  /\ Engine!Trade
  /\ UNCHANGED <<ledgerVars, threadVars, serverVars, cancelVars, faucet, settled>>

\* A filled maker leaves the book in a step of its own.
TakeOut ==
  /\ Engine!Remove
  /\ UNCHANGED <<ledgerVars, threadVars, serverVars, cancelVars, faucet, settled>>

\* AddOrder refuses what is left of a limit order without a positive price,
\* and ProcessOrder returns its error.
EngineError(o) == Engine!Left(o) > 0 /\ ord[o].kind = "LIMIT" /\ ord[o].price <= 0

\* On an error handlePlaceOrder answers at once; the seed drops its trades.
AfterMatchAsSeed(t) ==                                  \* mutant: the bot drops all its trades
  IF t = BotLoop THEN "idle"
  ELSE IF EngineError(mine[t]) THEN "done" ELSE "settle"
AfterMatchRetries(t) ==                                 \* mutant: an order that was refused is sent again
  IF t = BotLoop THEN IF ticks <= MaxSeeds THEN "idle" ELSE "settle"
  ELSE IF EngineError(mine[t]) THEN "enter" ELSE "settle"
AfterMatch(t) ==
  IF t = BotLoop THEN IF ticks <= MaxSeeds THEN "idle" ELSE "settle"
  ELSE IF EngineError(mine[t]) THEN "done" ELSE "settle"

Leave(t) ==
  /\ pc[t] = "match"
  /\ Engine!Finish
  /\ pc' = [pc EXCEPT ![t] = AfterMatch(t)]
  /\ UNCHANGED <<ledgerVars, req, mine, ticks, serverVars, cancelVars, faucet, settled>>

(* Step 3: settle the trades ProcessOrder returned, one after the other.   *)
ToSettle(t) == {i \in DOMAIN trades : trades[i].taker = mine[t]} \ settled

\* The bot passes true; handlers compare the two order IDs of the trade.
IsBuyerMakerAsBot(t, trd) == TRUE                       \* mutant
IsBuyerMaker(t, trd) == t = BotLoop \/ trd.maker = trd.taker

Settle(t) ==
  /\ pc[t] = "settle"
  /\ \E i \in ToSettle(t) :
       LET trd == trades[i]
           buy == IF ord[trd.maker].side = "BUY" THEN trd.maker ELSE trd.taker
           sell == IF ord[trd.maker].side = "BUY" THEN trd.taker ELSE trd.maker
       IN  /\ \A j \in ToSettle(t) : i <= j
           /\ SettleTrade(ord[buy].user, ord[sell].user, trd.amount, trd.price, IsBuyerMaker(t, trd))
           /\ settled' = settled \cup {i}
  /\ FaucetMeanwhile
  /\ UNCHANGED <<engineVars, threadVars, serverVars, cancelVars>>

(* Step 4: into the history when the order is filled by now, else, if it   *)
(* is a limit order, among the active orders.                              *)
IsFilledInPart(o) == filled[o] > 0                      \* mutant
IsFilledByBook(o) == o \notin resting                   \* mutant
IsFilled(o) == Engine!Left(o) <= 0

StaysWhateverKind(o) == ~IsFilled(o)                    \* mutant
StaysActive(o) == ~IsFilled(o) /\ ord[o].kind = "LIMIT"

RecordOrder(h) ==
  LET o == mine[h]
  IN  /\ pc[h] = "settle" /\ h # BotLoop
      /\ ToSettle(h) = {}
      /\ ServerUnlocked
      /\ \/ /\ IsFilled(o)
            /\ history' = Append(history, [order |-> o, status |-> "FILLED"])
            /\ UNCHANGED userOrders
         \/ /\ StaysActive(o)
            /\ userOrders' = userOrders \cup {o}
            /\ UNCHANGED history
         \/ /\ ~IsFilled(o) /\ ~StaysActive(o)
            /\ UNCHANGED serverVars
      /\ pc' = [pc EXCEPT ![h] = "done"]
      /\ UNCHANGED <<ledgerVars, engineVars, req, mine, ticks, cancelVars, faucet, settled>>
-----------------------------------------------------------------------------
(* startMarketMakerBot: register, seed, then one order per tick.  The bot  *)
(* never locks funds.                                                      *)
BotStartUnknown ==                                      \* mutant: not registered
  /\ pc[BotLoop] = "start"
  /\ pc' = [pc EXCEPT ![BotLoop] = "idle"]
  /\ UNCHANGED <<ledgerVars, engineVars, req, mine, ticks, serverVars, cancelVars, faucet, settled>>
BotStart ==
  /\ pc[BotLoop] = "start"
  /\ RegisterUser(Bot)
  /\ pc' = [pc EXCEPT ![BotLoop] = "idle"]
  /\ UNCHANGED <<engineVars, req, mine, ticks, serverVars, cancelVars, faucet, settled>>

BotTick(q) ==
  /\ pc[BotLoop] = "idle"
  /\ \/ ticks < MaxSeeds /\ q \in SeedRequests
     \/ ticks >= MaxSeeds /\ ticks < MaxSeeds + MaxPulses /\ q \in PulseRequests
  /\ ticks' = ticks + 1
  /\ req' = [req EXCEPT ![BotLoop] = [user |-> Bot, side |-> q.side, kind |-> q.kind,
                                      price |-> q.price, amount |-> q.amount]]
  /\ pc' = [pc EXCEPT ![BotLoop] = "enter"]
  /\ UNCHANGED <<ledgerVars, engineVars, mine, serverVars, cancelVars, faucet, settled>>

BotWait ==
  /\ pc[BotLoop] = "settle"
  /\ ToSettle(BotLoop) = {}
  /\ pc' = [pc EXCEPT ![BotLoop] = "idle"]
  /\ UNCHANGED <<ledgerVars, engineVars, req, mine, ticks, serverVars, cancelVars, faucet, settled>>
-----------------------------------------------------------------------------
(* handleCancelOrder of a resting order: the engine hands it back, what it *)
(* has left is read and unlocked (an error of UnlockFunds is ignored), and *)
(* the server moves it to the history.                                     *)
CancelInEngine(o) ==
  /\ cancel[o] = "none"
  /\ Engine!Withdraw(o)
  /\ cancel' = [cancel EXCEPT ![o] = "read"]
  /\ overtaken' = IF o \in late' \/ Engine!Left(o) = 0 THEN overtaken \cup {o} ELSE overtaken
  /\ UNCHANGED <<ledgerVars, threadVars, serverVars, refund, faucet, settled>>

WholeEscrow(o) == Escrow(ord[o].side, ord[o].price, ord[o].amount)        \* mutant
EscrowLeft(o) == Escrow(ord[o].side, ord[o].price, Engine!Left(o))

CancelRead(o) ==
  /\ cancel[o] = "read"
  /\ refund' = [refund EXCEPT ![o] = EscrowLeft(o)]
  /\ cancel' = [cancel EXCEPT ![o] = "unlock"]
  /\ UNCHANGED <<ledgerVars, engineVars, threadVars, serverVars, overtaken, faucet, settled>>

CancelUnlock(o) ==
  LET c == EscrowCurrency(ord[o].side)
  IN  /\ cancel[o] = "unlock"
      /\ UnlockFunds(ord[o].user, c, refund[o])
      /\ refund' = IF CanUnlock(ord[o].user, c, refund[o]) THEN refund ELSE [refund EXCEPT ![o] = 0]
      /\ FaucetMeanwhile
      /\ cancel' = [cancel EXCEPT ![o] = "record"]
      /\ UNCHANGED <<engineVars, threadVars, serverVars, overtaken, settled>>

CancelRecord(o) ==
  /\ cancel[o] = "record"
  /\ ServerUnlocked
  /\ userOrders' = userOrders \ {o}
  /\ history' = Append(history, [order |-> o, status |-> "CANCELED"])
  /\ cancel' = [cancel EXCEPT ![o] = "done"]
  /\ UNCHANGED <<ledgerVars, engineVars, threadVars, refund, overtaken, faucet, settled>>
-----------------------------------------------------------------------------
Place(h) == (\E q \in DemoRequests : Request(h, q)) \/ RecordOrder(h)
Shared(t) == Enter(t) \/ Leave(t) \/ Settle(t)
Market == BotStart \/ (\E q \in SeedRequests \cup PulseRequests : BotTick(q)) \/ BotWait
Delete(o) == CancelInEngine(o) \/ CancelRead(o) \/ CancelUnlock(o) \/ CancelRecord(o)
Faucet == FaucetCall \/ FaucetRead \/ FaucetWrite

Next ==
  \/ \E h \in Handlers : Place(h)
  \/ \E t \in Threads : Shared(t)
  \/ Match \/ TakeOut
  \/ Market
  \/ \E o \in Orders : Delete(o)
  \/ Faucet

Spec == Init /\ [][Next]_vars

\* Goroutines that have begun something run on: locks are held briefly, and
\* nobody waits for another goroutine while holding one.  Requests, ticks,
\* cancellations and faucet calls need not come.
FairSpec ==
  /\ Spec
  /\ WF_vars(Match \/ TakeOut)
  /\ \A t \in Threads : WF_vars(Shared(t))
  /\ \A h \in Handlers : WF_vars(RecordOrder(h))
  /\ \A o \in Orders : WF_vars(CancelRead(o) \/ CancelUnlock(o) \/ CancelRecord(o))
  /\ WF_vars(FaucetRead \/ FaucetWrite)
-----------------------------------------------------------------------------
TypeOK ==
  /\ registered \subseteq Users
  /\ accounts \in [Users -> [Currencies -> Balance]]
  /\ ord \in [Orders -> Details \cup {Blank}]
  /\ filled \in [Orders -> Nat]
  /\ resting \subseteq 1 .. submitted
  /\ late \subseteq 1 .. submitted
  /\ submitted \in 0 .. MaxOrders
  /\ taker \in 0 .. submitted
  /\ trades \in Seq([maker : Orders, taker : Orders, price : Prices, amount : Nat])
  /\ pc \in [Threads -> {"start", "idle", "enter", "match", "settle", "done"}]
  /\ req \in [Threads -> Details \cup {Blank}]
  /\ mine \in [Threads -> 0 .. submitted]
  /\ ticks \in 0 .. MaxSeeds + MaxPulses
  /\ userOrders \subseteq {o \in 1 .. submitted : ord[o].kind = "LIMIT"}
  /\ history \in Seq([order : 1 .. submitted, status : {"FILLED", "CANCELED"}])
  /\ cancel \in [Orders -> {"none", "read", "unlock", "record", "done"}]
  /\ refund \in [Orders -> Int]
  /\ overtaken \subseteq 1 .. submitted
  /\ faucet \in [at : Currencies \cup {"done"}, read : BOOLEAN, reg : Int, calls : 0 .. MaxFaucets]
  /\ settled \subseteq DOMAIN trades

\* No goroutine is between two of its steps.
Quiet ==
  /\ \A t \in Threads : pc[t] \in {"start", "idle", "done"}
  /\ \A o \in Orders : cancel[o] \in {"none", "done"}
  /\ ServerUnlocked

(* Whatever interleaves, escrow, settlement and cancellation only move     *)
(* money: all accounts together hold what users were registered with plus  *)
(* what the faucet gave.                                                   *)
MoneyConserved ==
  ServerUnlocked =>
    \A c \in Currencies :
      Holdings(Demo, c) + Holdings(Bot, c) =
        Funds[Demo][c] + (IF Bot \in registered THEN Funds[Bot][c] ELSE 0) + faucet.calls * Credit[c]

\* How trade i changes what u holds in currency c.
Change(u, c, i) ==
  LET trd == trades[i]
      buy == IF ord[trd.maker].side = "BUY" THEN trd.maker ELSE trd.taker
      sell == IF ord[trd.maker].side = "BUY" THEN trd.taker ELSE trd.maker
      bought == (IF ord[buy].user = u THEN 1 ELSE 0) - (IF ord[sell].user = u THEN 1 ELSE 0)
  IN  IF c = "ETH" THEN bought * trd.amount ELSE -bought * trd.amount * trd.price

(* README: "On trade execution, base assets and quote assets are swapped   *)
(* atomically across both parties".  Once the goroutines have answered,    *)
(* every account holds what its user started with plus what the engine's   *)
(* tape says that user bought and sold: no trade is lost or settled twice. *)
PositionsMatchTrades ==
  Quiet =>
    \A u \in registered, c \in Currencies :
      Holdings(u, c) = Funds[u][c]
        + SumFunctionOnSet([i \in DOMAIN trades |-> Change(u, c, i)], DOMAIN trades)
        + (IF u = Demo THEN faucet.calls * Credit[c] ELSE 0)

(* Balance "tracks available and locked (in resting orders) funds"         *)
(* (ledger.go:14): what the demo user has locked is what its resting       *)
(* orders may still have to pay.                                           *)
EscrowBacksRestingOrders ==
  Quiet =>
    \A c \in Currencies :
      accounts[Demo][c].locked =
        SumFunctionOnSet([o \in Orders |-> EscrowLeft(o)],
                         {o \in resting : ord[o].user = Demo /\ EscrowCurrency(ord[o].side) = c})

\* What a trade of a's order takes out of its escrow, when the order is the demo user's
\* and its escrow is in c.
Releases(o, i, c) ==
  IF ord[o].user = Demo /\ ord[o].kind = "LIMIT" /\ EscrowCurrency(ord[o].side) = c
  THEN Escrow(ord[o].side, ord[o].price, trades[i].amount) ELSE 0
Freed(i, c) == Releases(trades[i].maker, i, c) + Releases(trades[i].taker, i, c)

\* What SettleTrade takes from what the demo user has locked: the escrow of the buyer when
\* the taker is the bot's, else of the seller, whether or not that order has any.
Drawn(i, c) ==
  LET trd == trades[i]
      buy == IF ord[trd.maker].side = "BUY" THEN trd.maker ELSE trd.taker
      sell == IF ord[trd.maker].side = "BUY" THEN trd.taker ELSE trd.maker
      payer == IF c = "USDT" THEN buy ELSE sell
      locked == IF ord[trd.taker].user = Bot THEN "USDT" ELSE "ETH"
  IN  IF c = locked /\ ord[payer].user = Demo
      THEN (IF c = "USDT" THEN trd.price * trd.amount ELSE trd.amount) ELSE 0

\* The escrow of the requests on their way to the engine, ...
EscrowRequests(c) ==
  {h \in Handlers : pc[h] = "enter" /\ req[h].kind = "LIMIT" /\ EscrowCurrency(req[h].side) = c}
EscrowOfRequests(c) ==
  SumFunctionOnSet([h \in Handlers |-> Escrow(req[h].side, req[h].price, req[h].amount)],
                   EscrowRequests(c))

\* ... of what the demo user's limit orders have left, less what their cancellations have
\* given back, ...
EscrowOrders(c) ==
  {o \in 1 .. submitted : /\ ord[o].user = Demo /\ ord[o].kind = "LIMIT"
                          /\ EscrowCurrency(ord[o].side) = c}
Reserved(o) == EscrowLeft(o) - (IF cancel[o] \in {"record", "done"} THEN refund[o] ELSE 0)
EscrowOfOrders(c) == SumFunctionOnSet([o \in Orders |-> Reserved(o)], EscrowOrders(c))

\* ... and of the trades: what they have freed, less what their settlement has taken.
Owing(i, c) == Freed(i, c) - (IF i \in settled THEN Drawn(i, c) ELSE 0)
EscrowOfTrades(c) == SumFunctionOnSet([i \in DOMAIN trades |-> Owing(i, c)], DOMAIN trades)

(* Every unit the demo user has locked is accounted for, whatever          *)
(* interleaves and whatever goes wrong: no step of a request, a match, a   *)
(* settlement, a cancellation or the faucet locks or unlocks anything that *)
(* is not in this balance.                                                 *)
EscrowAccounted ==
  \A c \in Currencies :
    accounts[Demo][c].locked = EscrowOfRequests(c) + EscrowOfOrders(c) + EscrowOfTrades(c)

\* Nothing has gone wrong: no limit order came without a positive price, no cancellation
\* got an order the match had in hand, and every settlement took from escrow what its
\* trade had freed.
Faultless ==
  /\ \A h \in Handlers : pc[h] = "enter" /\ req[h].kind = "LIMIT" => req[h].price > 0
  /\ \A o \in 1 .. submitted : ord[o].kind = "LIMIT" => ord[o].price > 0
  /\ overtaken = {}
  /\ \A i \in settled, c \in Currencies : Freed(i, c) = Drawn(i, c)

(* These are the only ways to get Locked wrong: without them, once all     *)
(* trades are settled, what the demo user has locked is what its resting   *)
(* orders may still have to pay.                                           *)
EscrowLostOnlyByFault ==
  Faultless /\ settled = DOMAIN trades => EscrowBacksRestingOrders

(* README: "Canceling an order instantly unlocks the unused escrow         *)
(* capital".  Without such a fault, the unlock of a cancelled order of the *)
(* demo user succeeds and returns what the order has left, whatever other  *)
(* orders trade, wait for their settlement or are cancelled meanwhile.     *)
CancelUnlocksEscrow ==
  [][\A o \in Orders :
       LET c == EscrowCurrency(ord[o].side)
       IN  Faultless /\ cancel[o] = "unlock" /\ cancel'[o] = "record" /\ ord[o].user = Demo =>
             accounts'[Demo][c].locked = accounts[Demo][c].locked - EscrowLeft(o)]_vars

(* An order that works for the demo user in the book is listed as active   *)
(* once its handler has answered, so that the user can cancel it.          *)
WorkingOrdersAreListed ==
  \A h \in Handlers :
    pc[h] = "done" /\ mine[h] \in resting /\ Engine!Left(mine[h]) > 0 => mine[h] \in userOrders

(* An order enters the history once, whatever its handler, its             *)
(* cancellation and the orders that fill it race to do.  The one exception *)
(* is an order whose cancellation was overtaken by the match that fills    *)
(* it: it may be there as CANCELED and as FILLED, but no more often.       *)
HistoryOnceUnlessOvertaken ==
  \A i, j \in DOMAIN history :
    i # j /\ history[i].order = history[j].order =>
      /\ history[i].status # history[j].status
      /\ history[i].order \in overtaken /\ Engine!Left(history[i].order) <= 0

\* How many steps are still to come from the goroutines there are: where each of them
\* is, an order that is not filled (it may trade, then it is taken out of the book and the
\* trade is settled), a filled order still in the book, a trade that is not settled.
ThreadToGo == [start |-> 1, idle |-> 0, enter |-> 6, match |-> 2, settle |-> 1, done |-> 0]
CancelToGo == [none |-> 0, read |-> 3, unlock |-> 2, record |-> 1, done |-> 0]
FaucetToGo ==
  (IF faucet.at = "USDT" THEN 4 ELSE IF faucet.at = "ETH" THEN 2 ELSE 0) - (IF faucet.read THEN 1 ELSE 0)
Unfilled == {o \in 1 .. submitted : Engine!Left(o) > 0}
FilledResting == {o \in resting : Engine!Left(o) = 0}
WorkLeft ==
  SumFunctionOnSet([t \in Threads |-> ThreadToGo[pc[t]]], Threads)
    + SumFunctionOnSet([o \in Orders |-> CancelToGo[cancel[o]]], Orders)
    + FaucetToGo + 3 * Cardinality(Unfilled) + Cardinality(FilledResting)
    + Cardinality(DOMAIN trades \ settled)

\* What comes from outside: a request, a tick, a cancellation, a faucet call.
Arrival ==
  \/ \E h \in Handlers, q \in DemoRequests : Request(h, q)
  \/ \E q \in SeedRequests \cup PulseRequests : BotTick(q)
  \/ \E o \in Orders : CancelInEngine(o)
  \/ FaucetCall

(* The safety half of RequestsAnswered: nobody works in vain.  Whatever    *)
(* interleaves, every step that does not come from outside uses up some of *)
(* the work there is; no goroutine retries, waits by spinning, or settles  *)
(* what was settled before.                                                *)
WorkRunsOut == [][Arrival \/ WorkLeft' < WorkLeft]_vars

(* Every request is answered, and every cancellation once it has begun:    *)
(* no goroutine is stuck behind the locks of the others.                   *)
RequestsAnswered ==
  /\ \A h \in Handlers : pc[h] = "enter" ~> pc[h] = "done"
  /\ \A o \in Orders : cancel[o] = "read" ~> cancel[o] = "done"
=============================================================================
