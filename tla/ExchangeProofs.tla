--------------------------- MODULE ExchangeProofs ---------------------------
(***************************************************************************)
(* Money and bookkeeping of the server, for any number of requests, bot    *)
(* orders and cancellations, any prices, amounts and endowments:           *)
(*   - whatever interleaves, no money is made or lost (without the faucet, *)
(*     whose unlocked updates the ledger may overwrite);                   *)
(*   - an order enters the history once, and at most once more when its    *)
(*     cancellation was overtaken by the match that fills it;              *)
(*   - what works in the book when its handler has answered is listed.     *)
(* Every order is its own ID here: orders with one ID are not covered.     *)
(*                                                                         *)
(* The last two need to know who works on which order.  Goroutines says    *)
(* that no two of them ever hold the same order; RestingOrders that a      *)
(* match lets go of every cancelled order it had in hand before it ends;   *)
(* Cancellations that an order handed to a DELETE handler has something    *)
(* left for good, unless it was overtaken.                                 *)
(***************************************************************************)
EXTENDS Exchange, TLAPS, SequenceTheorems

Accounts == [Users -> [Currencies -> Balance]]
Tape == [maker : Orders, taker : Orders, price : Prices, amount : Nat]

\* What the accounts acc hold together in currency c.
Total(acc, c) ==
  (acc[Demo][c].available + acc[Demo][c].locked) + (acc[Bot][c].available + acc[Bot][c].locked)

\* What rests has a price; between two matches it also has something left, and no
\* match holds on to an order that was cancelled under it.
RestingOrders ==
  /\ \A o \in resting \cup late :
       ord[o].kind = "LIMIT" /\ ord[o].price > 0 /\ Engine!Left(o) >= 0 /\ o # taker
  /\ \A o \in late : /\ Engine!Left(o) > 0 /\ o \in overtaken
                     /\ Engine!Left(taker) > 0 /\ Engine!Matches(taker, o)
  /\ taker = 0 => late = {} /\ \A o \in resting : Engine!Left(o) > 0

\* Every goroutine has an order of its own, and the engine works for one of them.
Goroutines ==
  /\ \A h \in Handlers : pc[h] \in {"idle", "enter"} => mine[h] = 0
  /\ \A t \in Threads : pc[t] \in {"match", "settle"} => mine[t] # 0
  /\ \A t \in Threads : pc[t] = "match" => mine[t] = taker
  /\ \A t \in Threads : mine[t] # 0 /\ mine[t] = taker => pc[t] = "match"
  /\ \A t, u \in Threads : mine[t] = mine[u] /\ mine[t] # 0 => t = u

\* A cancelled order is out of the book, and unless its cancellation was overtaken it
\* trades no more and will never be filled.
Cancellations ==
  \A o \in Orders :
    cancel[o] # "none" =>
      /\ o \in 1 .. submitted /\ o \notin resting /\ o # taker
      /\ o \notin overtaken => Engine!Left(o) > 0

\* Who has put an order into the history.
Recorded ==
  \A i \in DOMAIN history :
    LET o == history[i].order
    IN  /\ history[i].status = "FILLED" =>
             Engine!Left(o) <= 0 /\ \E h \in Handlers : mine[h] = o /\ pc[h] = "done"
        /\ history[i].status = "CANCELED" => cancel[o] = "done"

(* The inductive invariant of the bookkeeping.                             *)
ExchangeInv ==
  /\ TypeOK
  /\ RestingOrders
  /\ Goroutines
  /\ Cancellations
  /\ Recorded
  /\ HistoryOnceUnlessOvertaken
  /\ WorkingOrdersAreListed
-----------------------------------------------------------------------------
(* Add gives to one balance and leaves the others alone.                   *)
LEMMA AddOK ==
  ASSUME NEW acc \in Accounts, NEW u \in Users, NEW c \in Currencies, NEW a \in Int, NEW l \in Int
  PROVE  /\ Add(acc, u, c, a, l) \in Accounts
         /\ \A d \in Currencies : Total(Add(acc, u, c, a, l), d) =
                                    Total(acc, d) + (IF d = c THEN a + l ELSE 0)
<1> DEFINE new == Add(acc, u, c, a, l)
           b == [available |-> acc[u][c].available + a, locked |-> acc[u][c].locked + l]
<1>1. Users = {Demo, Bot} /\ Demo # Bot
  BY ExchangeAssumption DEF Demo, Bot
<1>2. \A v \in Users, d \in Currencies :
        acc[v][d] \in Balance /\ acc[v][d].available \in Int /\ acc[v][d].locked \in Int
  BY DEF Accounts, Balance
<1>3. b \in Balance
  BY <1>2 DEF Balance
<1>4. acc \in [Users -> [Currencies -> Balance]] /\ acc[u] \in [Currencies -> Balance]
  BY DEF Accounts
<1>5. new \in [Users -> [Currencies -> Balance]]
  BY <1>3, <1>4 DEF Add
<1>6. new \in Accounts
  BY <1>5 DEF Accounts
<1>7. \A v \in Users, d \in Currencies : new[v][d] = IF v = u /\ d = c THEN b ELSE acc[v][d]
  BY <1>3, <1>4 DEF Add
<1>8. ASSUME NEW d \in Currencies
      PROVE  Total(new, d) = Total(acc, d) + (IF d = c THEN a + l ELSE 0)
  <2>1. /\ b.available = acc[u][c].available + a
        /\ b.locked = acc[u][c].locked + l
    OBVIOUS
  <2> HIDE DEF new, b
  <2>2. CASE d # c
    <3>1. new[Demo][d] = acc[Demo][d] /\ new[Bot][d] = acc[Bot][d]
      BY <1>1, <1>7, <2>2
    <3>2. Total(new, d) = Total(acc, d) /\ Total(acc, d) \in Int
      BY <1>1, <1>2, <3>1 DEF Total
    <3> QED
      BY <2>2, <3>2
  <2>3. CASE d = c
    <3>1. CASE u = Demo
      <4>1. new[Demo][d] = b /\ new[Bot][d] = acc[Bot][d]
        BY <1>1, <1>7, <2>3, <3>1
      <4> QED
        BY <1>1, <1>2, <2>1, <2>3, <3>1, <4>1 DEF Total
    <3>2. CASE u = Bot
      <4>1. new[Bot][d] = b /\ new[Demo][d] = acc[Demo][d]
        BY <1>1, <1>7, <2>3, <3>2
      <4> QED
        BY <1>1, <1>2, <2>1, <2>3, <3>2, <4>1 DEF Total
    <3> QED
      BY <1>1, <3>1, <3>2
  <2> QED
    BY <2>2, <2>3
<1> QED
  BY <1>6, <1>8

\* The sum of integers is one.
LEMMA TotalIsInt ==
  ASSUME NEW acc \in Accounts, NEW d \in Currencies
  PROVE  Total(acc, d) \in Int
<1>1. \A v \in Users : acc[v][d].available \in Int /\ acc[v][d].locked \in Int
  BY DEF Accounts, Balance
<1>2. Demo \in Users /\ Bot \in Users
  BY ExchangeAssumption
<1> QED
  BY <1>1, <1>2 DEF Total

(* LockFunds and UnlockFunds move money within an account.                 *)
LEMMA EscrowMoves ==
  ASSUME accounts \in Accounts, NEW u \in Users, NEW c \in Currencies, NEW amount \in Int,
         LockFunds(u, c, amount) \/ UnlockFunds(u, c, amount)
  PROVE  accounts' \in Accounts /\ \A d \in Currencies : Total(accounts', d) = Total(accounts, d)
<1>1. -amount \in Int /\ amount + (-amount) = 0 /\ (-amount) + amount = 0
  OBVIOUS
<1>2. \A d \in Currencies : Total(accounts, d) \in Int
  BY TotalIsInt
<1>3. \/ accounts' = accounts
      \/ accounts' = Add(accounts, u, c, -amount, amount)
      \/ accounts' = Add(accounts, u, c, amount, -amount)
  BY DEF LockFunds, UnlockFunds
<1>4. CASE accounts' = Add(accounts, u, c, -amount, amount)
  BY <1>1, <1>2, <1>4, AddOK
<1>5. CASE accounts' = Add(accounts, u, c, amount, -amount)
  BY <1>1, <1>2, <1>5, AddOK
<1> QED
  BY <1>3, <1>4, <1>5

(* SettleTrade moves money between two accounts, which may be one.         *)
LEMMA SettlementMoves ==
  ASSUME accounts \in Accounts, NEW buyer \in Users, NEW seller \in Users,
         NEW amount \in Int, NEW price \in Int, NEW isBuyerMaker,
         SettleTrade(buyer, seller, amount, price, isBuyerMaker)
  PROVE  accounts' \in Accounts /\ \A d \in Currencies : Total(accounts', d) = Total(accounts, d)
<1> DEFINE quote == amount * price
           paid == IF isBuyerMaker THEN Add(accounts, buyer, "USDT", 0, -quote)
                                   ELSE Add(accounts, buyer, "USDT", -quote, 0)
           received == Add(paid, buyer, "ETH", amount, 0)
           delivered == IF isBuyerMaker THEN Add(received, seller, "ETH", -amount, 0)
                                        ELSE Add(received, seller, "ETH", 0, -amount)
           final == Add(delivered, seller, "USDT", quote, 0)
<1>1. accounts' = final \/ accounts' = accounts
  BY DEF SettleTrade
<1>2. quote \in Int /\ -quote \in Int /\ -amount \in Int /\ 0 \in Int
  OBVIOUS
<1>3. "USDT" \in Currencies /\ "ETH" \in Currencies /\ \A d \in Currencies : d = "USDT" \/ d = "ETH"
  BY DEF Currencies
<1> HIDE DEF quote
<1>4. paid \in Accounts /\ \A d \in Currencies : Total(paid, d) = Total(accounts, d) + (IF d = "USDT" THEN -quote ELSE 0)
  <2>1. 0 + (-quote) = -quote /\ -quote + 0 = -quote
    BY <1>2
  <2>2. CASE isBuyerMaker
    BY <1>2, <1>3, <2>1, <2>2, AddOK
  <2>3. CASE ~isBuyerMaker
    BY <1>2, <1>3, <2>1, <2>3, AddOK
  <2> QED
    BY <2>2, <2>3
<1> HIDE DEF paid
<1>5. received \in Accounts /\ \A d \in Currencies : Total(received, d) = Total(paid, d) + (IF d = "ETH" THEN amount ELSE 0)
  <2>1. amount + 0 = amount
    OBVIOUS
  <2> QED
    BY <1>2, <1>3, <1>4, <2>1, AddOK
<1> HIDE DEF received
<1>6. delivered \in Accounts /\ \A d \in Currencies : Total(delivered, d) = Total(received, d) + (IF d = "ETH" THEN -amount ELSE 0)
  <2>1. 0 + (-amount) = -amount /\ -amount + 0 = -amount
    OBVIOUS
  <2>2. CASE isBuyerMaker
    BY <1>2, <1>3, <1>5, <2>1, <2>2, AddOK
  <2>3. CASE ~isBuyerMaker
    BY <1>2, <1>3, <1>5, <2>1, <2>3, AddOK
  <2> QED
    BY <2>2, <2>3
<1> HIDE DEF delivered
<1>7. final \in Accounts /\ \A d \in Currencies : Total(final, d) = Total(delivered, d) + (IF d = "USDT" THEN quote ELSE 0)
  <2>1. quote + 0 = quote
    BY <1>2
  <2> QED
    BY <1>2, <1>3, <1>6, <2>1, AddOK
<1> HIDE DEF final
<1>8. ASSUME NEW d \in Currencies PROVE Total(final, d) = Total(accounts, d)
  <2>1. Total(accounts, d) \in Int
    BY TotalIsInt
  <2>2. CASE d = "USDT"
    BY <1>2, <1>4, <1>5, <1>6, <1>7, <2>1, <2>2
  <2>3. CASE d = "ETH"
    BY <1>2, <1>4, <1>5, <1>6, <1>7, <2>1, <2>3
  <2> QED
    BY <1>3, <2>2, <2>3
<1> QED
  BY <1>1, <1>7, <1>8
-----------------------------------------------------------------------------
\* Prices and amounts are numbers.
LEMMA Numbers == (\A p \in Prices \cup {0} : p \in Int) /\ (\A a \in Amounts : a \in Nat /\ a > 0)
<1>1. Prices \subseteq Int /\ Amounts \subseteq Nat \ {0}
  BY ExchangeAssumption
<1>2. \A p \in Prices : p \in Int
  BY <1>1
<1>3. \A a \in Amounts : a \in Nat \ {0}
  BY <1>1
<1> QED
  BY <1>2, <1>3

(* What the types say about orders and their numbers.                      *)
LEMMA OrderFacts ==
  ASSUME TypeOK
  PROVE  /\ submitted \in Nat /\ MaxOrders \in Nat /\ submitted <= MaxOrders
         /\ 1 .. submitted \subseteq Orders /\ resting \subseteq Orders /\ late \subseteq Orders
         /\ \A o \in Orders : /\ ord[o].user \in Users /\ ord[o].side \in {"BUY", "SELL"}
                              /\ ord[o].price \in Prices \cup {0} /\ ord[o].price \in Int
                              /\ ord[o].amount \in Nat /\ filled[o] \in Nat
                              /\ Engine!Left(o) = ord[o].amount - filled[o] /\ Engine!Left(o) \in Int
<1>1. MaxOrders \in Nat
  BY ExchangeAssumption DEF MaxOrders
<1>2. submitted \in Nat /\ submitted <= MaxOrders /\ 1 .. submitted \subseteq Orders
  BY <1>1 DEF TypeOK, Orders
<1>3. ASSUME NEW o \in Orders
      PROVE  /\ ord[o].user \in Users /\ ord[o].side \in {"BUY", "SELL"}
             /\ ord[o].price \in Prices \cup {0} /\ ord[o].price \in Int /\ ord[o].amount \in Nat
  <2>1. ord[o] \in Details \cup {Blank} /\ Users = {Demo, Bot}
    BY ExchangeAssumption DEF TypeOK
  <2>2. CASE ord[o] \in Details
    <3>1. /\ ord[o].user \in Users /\ ord[o].side \in {"BUY", "SELL"}
          /\ ord[o].price \in Prices \cup {0} /\ ord[o].amount \in Amounts
      BY <2>1, <2>2 DEF Details
    <3> QED
      BY <3>1, Numbers
  <2>3. CASE ord[o] = Blank
    BY <2>1, <2>3 DEF Blank
  <2> QED
    BY <2>1, <2>2, <2>3
<1>4. \A o \in Orders : filled[o] \in Nat
  BY DEF TypeOK
<1> QED
  BY <1>1, <1>2, <1>3, <1>4 DEF Engine!Left, TypeOK

\* What an order has in escrow is an integer.
LEMMA EscrowIsInt ==
  ASSUME TypeOK, NEW o \in Orders
  PROVE  EscrowLeft(o) \in Int
<1>1. ord[o].price \in Int /\ Engine!Left(o) \in Int
  BY OrderFacts
<1> QED
  BY <1>1 DEF EscrowLeft, Escrow

\* A sequence of elements of S is one of elements of any T that holds them.
LEMMA SeqMonotone ==
  ASSUME NEW S, NEW T, S \subseteq T, NEW q \in Seq(S)
  PROVE  q \in Seq(T)
<1>1. Len(q) \in Nat /\ q \in [1 .. Len(q) -> S]
  BY LenProperties
<1>2. q \in [1 .. Len(q) -> T]
  BY <1>1
<1> QED
  BY <1>1, <1>2, SeqDef

(* The faucet moves on to its next balance, or not.                        *)
FaucetStates == [at : Currencies \cup {"done"}, read : BOOLEAN, reg : Int, calls : 0 .. MaxFaucets]

LEMMA FaucetTypes ==
  ASSUME faucet \in FaucetStates
  PROVE  /\ NextBalance \in FaucetStates
         /\ FaucetMeanwhile => faucet' \in FaucetStates
<1>1. NextBalance \in FaucetStates
  <2>1. PICK at \in Currencies \cup {"done"} : NextBalance = [faucet EXCEPT !.at = at, !.read = FALSE, !.reg = 0]
    BY DEF NextBalance, Currencies
  <2>2. at \in Currencies \cup {"done"} /\ FALSE \in BOOLEAN /\ 0 \in Int
    OBVIOUS
  <2> QED
    BY <2>1, <2>2 DEF FaucetStates
<1> QED
  BY <1>1 DEF FaucetMeanwhile

\* The types of what the engine keeps, of the goroutines, and of the rest.
EngineTypes ==
  /\ ord \in [Orders -> Details \cup {Blank}]
  /\ filled \in [Orders -> Nat]
  /\ resting \subseteq 1 .. submitted
  /\ late \subseteq 1 .. submitted
  /\ submitted \in 0 .. MaxOrders
  /\ taker \in 0 .. submitted
  /\ trades \in Seq(Tape)

GoroutineTypes ==
  /\ pc \in [Threads -> {"start", "idle", "enter", "match", "settle", "done"}]
  /\ req \in [Threads -> Details \cup {Blank}]
  /\ mine \in [Threads -> 0 .. submitted]
  /\ ticks \in 0 .. MaxSeeds + MaxPulses
  /\ cancel \in [Orders -> {"none", "read", "unlock", "record", "done"}]
  /\ refund \in [Orders -> Int]
  /\ overtaken \subseteq 1 .. submitted

BookkeepingTypes ==
  /\ userOrders \subseteq {o \in 1 .. submitted : ord[o].kind = "LIMIT"}
  /\ history \in Seq([order : 1 .. submitted, status : {"FILLED", "CANCELED"}])
  /\ settled \subseteq DOMAIN trades

LedgerTypes ==
  /\ registered \subseteq Users
  /\ accounts \in Accounts
  /\ faucet \in FaucetStates

LEMMA TypeParts ==
  TypeOK <=> EngineTypes /\ GoroutineTypes /\ BookkeepingTypes /\ LedgerTypes
BY DEF TypeOK, EngineTypes, GoroutineTypes, BookkeepingTypes, LedgerTypes, Tape, Accounts, FaucetStates

LEMMA TypePartsNext ==
  ASSUME EngineTypes', GoroutineTypes', BookkeepingTypes', LedgerTypes'
  PROVE  TypeOK'
BY DEF TypeOK, EngineTypes, GoroutineTypes, BookkeepingTypes, LedgerTypes, Tape, Accounts, FaucetStates

(* A step that changes only where goroutines are, and the ledger.          *)
LEMMA WorkStepInv ==
  ASSUME ExchangeInv, TypeOK', UNCHANGED <<engineVars, mine, serverVars, cancelVars>>,
         \A h \in Handlers : pc'[h] \in {"idle", "enter"} => mine[h] = 0,
         \A t \in Threads : pc'[t] \in {"match", "settle"} => pc[t] = pc'[t],
         \A t \in Threads : pc[t] = "match" => pc'[t] = "match",
         \A h \in Handlers : pc[h] = "done" => pc'[h] = "done",
         \A h \in Handlers : pc'[h] = "done" => pc[h] = "done" \/ mine[h] = 0
  PROVE  ExchangeInv'
<1> USE DEF engineVars, serverVars, cancelVars
<1>1. RestingOrders'
  BY DEF ExchangeInv, RestingOrders, Engine!Left, Engine!Matches, Engine!Better
<1>a. Cancellations' /\ HistoryOnceUnlessOvertaken'
  BY DEF ExchangeInv, Cancellations, HistoryOnceUnlessOvertaken, Engine!Left
<1>2. Goroutines'
  BY DEF ExchangeInv, Goroutines
<1>3. Recorded'
  BY DEF ExchangeInv, Recorded, Engine!Left
<1>4. WorkingOrdersAreListed'
  <2>1. 0 \notin resting
    BY DEF ExchangeInv, TypeOK
  <2> QED
    BY <2>1 DEF ExchangeInv, WorkingOrdersAreListed, Engine!Left
<1> QED
  BY <1>1, <1>a, <1>2, <1>3, <1>4 DEF ExchangeInv

(* The faucet.                                                             *)
LEMMA FaucetInv ==
  ASSUME ExchangeInv, Faucet
  PROVE  ExchangeInv'
<1> USE TypeParts DEF cancelVars
<1>1. EngineTypes /\ GoroutineTypes /\ BookkeepingTypes /\ LedgerTypes
  BY DEF ExchangeInv
<1>2. UNCHANGED <<registered, engineVars, threadVars, serverVars, cancelVars, settled>>
  BY DEF Faucet, FaucetCall, FaucetRead, FaucetWrite, ledgerVars
<1>3. LedgerTypes'
  <2>1. CASE FaucetCall
    <3>1. MaxFaucets \in Nat
      BY ExchangeAssumption
    <3> QED
      BY <1>1, <2>1, <3>1 DEF FaucetCall, LedgerTypes, FaucetStates, Currencies, ledgerVars
  <2>2. CASE FaucetRead
    <3>1. faucet.at \in Currencies /\ Demo \in Users
      BY <1>1, <2>2, ExchangeAssumption DEF FaucetRead, LedgerTypes, FaucetStates
    <3>2. accounts[Demo][faucet.at].available \in Int
      BY <1>1, <3>1 DEF LedgerTypes, Accounts, Balance
    <3> QED
      BY <1>1, <2>2, <3>2 DEF FaucetRead, LedgerTypes, FaucetStates, ledgerVars
  <2>3. CASE FaucetWrite
    <3>1. faucet.at \in Currencies /\ Demo \in Users /\ faucet.reg \in Int
      BY <1>1, <2>3, ExchangeAssumption DEF FaucetWrite, LedgerTypes, FaucetStates
    <3>2. faucet.reg + Credit[faucet.at] \in Int
      BY <3>1, ExchangeAssumption
    <3>3. accounts' \in Accounts
      BY <1>1, <2>3, <3>1, <3>2 DEF FaucetWrite, LedgerTypes, Accounts, Balance
    <3>4. faucet' \in FaucetStates
      BY <1>1, <2>3, FaucetTypes DEF FaucetWrite, LedgerTypes
    <3> QED
      BY <1>1, <1>2, <3>3, <3>4 DEF LedgerTypes
  <2> QED
    BY <2>1, <2>2, <2>3 DEF Faucet
<1>4. TypeOK'
  BY <1>1, <1>2, <1>3, TypePartsNext DEF EngineTypes, GoroutineTypes, BookkeepingTypes, engineVars, threadVars, serverVars
<1> QED
  BY <1>2, <1>4, WorkStepInv DEF threadVars, ExchangeInv, Goroutines

(* A request locks its escrow, or is refused.                              *)
LEMMA RequestInv ==
  ASSUME ExchangeInv, NEW h \in Handlers, NEW q \in DemoRequests, Request(h, q)
  PROVE  ExchangeInv'
<1> USE DEF cancelVars
<1> DEFINE c == EscrowCurrency(q.side)
           cost == Escrow(q.side, q.price, q.amount)
<1>1. EngineTypes /\ GoroutineTypes /\ BookkeepingTypes /\ LedgerTypes
  BY TypeParts DEF ExchangeInv
<1>2. q \in Requests /\ Demo \in Users /\ Threads = Handlers \cup {BotLoop}
  BY ExchangeAssumption DEF Threads
<1>3. UNCHANGED <<engineVars, mine, ticks, serverVars, cancelVars, settled, registered>>
  BY DEF Request, LockFunds, ledgerVars
<1>4. /\ pc[h] = "idle"
      /\ pc' = [pc EXCEPT ![h] = "enter"] \/ pc' = [pc EXCEPT ![h] = "done"]
      /\ \/ LockFunds(Demo, c, cost) /\ FaucetMeanwhile
         \/ UNCHANGED <<accounts, faucet>>
      /\ req' = [req EXCEPT ![h] = [user |-> Demo, side |-> q.side, kind |-> q.kind,
                                    price |-> q.price, amount |-> q.amount]]
  BY DEF Request, ledgerVars
<1>5. c \in Currencies /\ cost \in Int
  <2>2. q.price \in Prices \cup {0} /\ q.amount \in Amounts
    BY <1>2 DEF Requests
  <2>3. q.price \in Int /\ q.amount \in Int
    BY <2>2, Numbers
  <2> QED
    BY <2>3 DEF EscrowCurrency, Escrow, Currencies
<1>6. LedgerTypes'
  BY <1>1, <1>2, <1>3, <1>4, <1>5, EscrowMoves, FaucetTypes DEF LedgerTypes
<1>7. GoroutineTypes'
  <2>1. [user |-> Demo, side |-> q.side, kind |-> q.kind, price |-> q.price, amount |-> q.amount] \in Details
    BY <1>2 DEF Requests, Details
  <2>2. req' \in [Threads -> Details \cup {Blank}]
    BY <1>1, <1>2, <1>4, <2>1 DEF GoroutineTypes
  <2>3. pc' \in [Threads -> {"start", "idle", "enter", "match", "settle", "done"}]
    BY <1>1, <1>2, <1>4 DEF GoroutineTypes
  <2> QED
    BY <1>1, <1>3, <2>2, <2>3 DEF GoroutineTypes, engineVars
<1>8. TypeOK'
  BY <1>1, <1>3, <1>6, <1>7, TypePartsNext DEF EngineTypes, BookkeepingTypes, engineVars, serverVars
<1>9. mine[h] = 0
  BY <1>4 DEF ExchangeInv, Goroutines
<1>10. \A t \in Threads : pc'[t] = IF t = h THEN pc'[h] ELSE pc[t]
  BY <1>1, <1>2, <1>4 DEF GoroutineTypes
<1>11. pc'[h] \in {"enter", "done"}
  BY <1>1, <1>2, <1>4 DEF GoroutineTypes
<1> QED
  BY <1>2, <1>3, <1>4, <1>8, <1>9, <1>10, <1>11, WorkStepInv DEF ExchangeInv, Goroutines

(* The bot registers, decides on an order, and waits for its next tick.    *)
LEMMA MarketInv ==
  ASSUME ExchangeInv, Market
  PROVE  ExchangeInv'
<1> USE DEF cancelVars
<1>1. EngineTypes /\ GoroutineTypes /\ BookkeepingTypes /\ LedgerTypes
  BY TypeParts DEF ExchangeInv
<1>2. BotLoop \in Threads /\ BotLoop \notin Handlers /\ Bot \in Users /\ Handlers \subseteq Threads
  BY ExchangeAssumption DEF Threads, BotLoop, Handlers
<1>3. UNCHANGED <<engineVars, mine, serverVars, cancelVars, settled, faucet>>
  BY DEF Market, BotStart, BotTick, BotWait, ledgerVars
<1>4. /\ pc' = [pc EXCEPT ![BotLoop] = "idle"] \/ pc' = [pc EXCEPT ![BotLoop] = "enter"]
      /\ pc[BotLoop] # "match"
  BY DEF Market, BotStart, BotTick, BotWait
<1>5. LedgerTypes'
  <2>1. CASE UNCHANGED ledgerVars
    BY <1>1, <1>3, <2>1 DEF LedgerTypes, ledgerVars
  <2>2. CASE RegisterUser(Bot)
    <3>1. Endowment(Bot) \in [Currencies -> Balance]
      BY <1>2, LedgerAssumption DEF Endowment, Balance
    <3>2. accounts' \in Accounts
      BY <1>1, <2>2, <3>1 DEF RegisterUser, LedgerTypes, Accounts
    <3> QED
      BY <1>1, <1>2, <1>3, <2>2, <3>2 DEF RegisterUser, LedgerTypes
  <2> QED
    BY <2>1, <2>2 DEF Market, BotStart, BotTick, BotWait
<1>6. GoroutineTypes'
  <2>1. pc' \in [Threads -> {"start", "idle", "enter", "match", "settle", "done"}]
    BY <1>1, <1>2, <1>4 DEF GoroutineTypes
  <2>2. req' \in [Threads -> Details \cup {Blank}] /\ ticks' \in 0 .. MaxSeeds + MaxPulses
    <3>1. CASE UNCHANGED <<req, ticks>>
      BY <1>1, <3>1 DEF GoroutineTypes
    <3>2. ASSUME NEW q \in SeedRequests \cup PulseRequests, BotTick(q)
          PROVE  req' \in [Threads -> Details \cup {Blank}] /\ ticks' \in 0 .. MaxSeeds + MaxPulses
      <4>1. q \in Requests
        BY ExchangeAssumption
      <4>2. [user |-> Bot, side |-> q.side, kind |-> q.kind, price |-> q.price, amount |-> q.amount] \in Details
        BY <4>1 DEF Requests, Details
      <4>3. req' \in [Threads -> Details \cup {Blank}]
        BY <1>1, <1>2, <3>2, <4>2 DEF BotTick, GoroutineTypes
      <4>4. MaxSeeds \in Nat /\ MaxPulses \in Nat
        BY ExchangeAssumption
      <4>5. ticks' \in 0 .. MaxSeeds + MaxPulses
        BY <1>1, <3>2, <4>4 DEF BotTick, GoroutineTypes
      <4> QED
        BY <4>3, <4>5
    <3> QED
      BY <3>1, <3>2 DEF Market, BotStart, BotWait
  <2> QED
    BY <1>1, <1>3, <2>1, <2>2 DEF GoroutineTypes, engineVars
<1>7. TypeOK'
  BY <1>1, <1>3, <1>5, <1>6, TypePartsNext DEF EngineTypes, BookkeepingTypes, engineVars, serverVars
<1>8. \A t \in Threads : pc'[t] = IF t = BotLoop THEN pc'[BotLoop] ELSE pc[t]
  BY <1>1, <1>2, <1>4 DEF GoroutineTypes
<1>9. pc'[BotLoop] \in {"idle", "enter"}
  BY <1>1, <1>2, <1>4 DEF GoroutineTypes
<1> QED
  BY <1>2, <1>3, <1>4, <1>7, <1>8, <1>9, WorkStepInv DEF ExchangeInv, Goroutines

\* What an entry of the history looks like.
LEMMA HistoryEntries ==
  ASSUME TypeOK
  PROVE  /\ DOMAIN history = 1 .. Len(history) /\ Len(history) \in Nat
         /\ \A i \in DOMAIN history : /\ history[i].order \in 1 .. submitted
                                       /\ history[i].status \in {"FILLED", "CANCELED"}
<1> DEFINE Entry == [order : 1 .. submitted, status : {"FILLED", "CANCELED"}]
<1>1. history \in Seq(Entry)
  BY DEF TypeOK
<1>2. history \in [1 .. Len(history) -> Entry] /\ Len(history) \in Nat
  BY <1>1, LenProperties
<1>3. \A e \in Entry : e.order \in 1 .. submitted /\ e.status \in {"FILLED", "CANCELED"}
  OBVIOUS
<1> HIDE DEF Entry
<1> QED
  BY <1>2, <1>3

(* A trade is settled.                                                     *)
LEMMA SettleInv ==
  ASSUME ExchangeInv, NEW t \in Threads, Settle(t)
  PROVE  /\ ExchangeInv'
         /\ \A d \in Currencies : Total(accounts', d) = Total(accounts, d)
<1> USE DEF cancelVars
<1>1. EngineTypes /\ GoroutineTypes /\ BookkeepingTypes /\ LedgerTypes /\ TypeOK
  BY TypeParts DEF ExchangeInv
<1>2. UNCHANGED <<registered, engineVars, threadVars, serverVars, cancelVars>> /\ FaucetMeanwhile
  BY DEF Settle, SettleTrade
<1>3. PICK i \in ToSettle(t) :
        LET trd == trades[i]
            buy == IF ord[trd.maker].side = "BUY" THEN trd.maker ELSE trd.taker
            sell == IF ord[trd.maker].side = "BUY" THEN trd.taker ELSE trd.maker
        IN  /\ SettleTrade(ord[buy].user, ord[sell].user, trd.amount, trd.price, IsBuyerMaker(t, trd))
            /\ settled' = settled \cup {i}
  BY DEF Settle
<1>4. i \in DOMAIN trades
  BY DEF ToSettle
<1>5. trades[i] \in Tape
  BY <1>1, <1>4 DEF EngineTypes
<1>6. /\ trades[i].maker \in Orders /\ trades[i].taker \in Orders
      /\ trades[i].amount \in Int /\ trades[i].price \in Int
  BY <1>5, Numbers DEF Tape
<1>7. \A o \in Orders : ord[o].user \in Users
  BY <1>1, OrderFacts
<1>8. accounts' \in Accounts /\ \A d \in Currencies : Total(accounts', d) = Total(accounts, d)
  <2>1. accounts \in Accounts
    BY <1>1 DEF LedgerTypes
  <2> QED
    BY <1>3, <1>6, <1>7, <2>1, SettlementMoves
<1>9. LedgerTypes'
  BY <1>1, <1>2, <1>8, FaucetTypes DEF LedgerTypes
<1>10. BookkeepingTypes'
  <2>1. settled' \subseteq DOMAIN trades'
    BY <1>1, <1>2, <1>3, <1>4 DEF BookkeepingTypes, engineVars
  <2> QED
    BY <1>1, <1>2, <2>1 DEF BookkeepingTypes, engineVars, serverVars
<1>11. TypeOK'
  BY <1>1, <1>2, <1>9, <1>10, TypePartsNext DEF EngineTypes, GoroutineTypes, engineVars, threadVars
<1>12. ExchangeInv'
  BY <1>2, <1>11, WorkStepInv DEF threadVars, ExchangeInv, Goroutines
<1> QED
  BY <1>8, <1>12

(* The engine takes an order.                                              *)
LEMMA EnterInv ==
  ASSUME ExchangeInv, NEW t \in Threads, Enter(t)
  PROVE  ExchangeInv'
<1> USE DEF cancelVars
<1>1. EngineTypes /\ GoroutineTypes /\ BookkeepingTypes /\ LedgerTypes /\ TypeOK
  BY TypeParts DEF ExchangeInv
<1>2. /\ taker = 0 /\ submitted < MaxOrders /\ submitted' = submitted + 1 /\ taker' = submitted + 1
      /\ ord' = [ord EXCEPT ![submitted + 1] = req[t]]
      /\ UNCHANGED <<filled, resting, late, trades>>
  BY DEF Enter, Engine!Submit
<1>3. /\ pc[t] = "enter" /\ pc' = [pc EXCEPT ![t] = "match"]
      /\ mine' = [mine EXCEPT ![t] = submitted + 1]
      /\ UNCHANGED <<ledgerVars, req, ticks, serverVars, cancelVars, faucet, settled>>
  BY DEF Enter
<1>4. submitted \in Nat /\ MaxOrders \in Nat
  BY <1>1, OrderFacts
<1>5. submitted + 1 \in Orders /\ \A o \in 1 .. submitted : o \in Orders /\ ord'[o] = ord[o] /\ o # submitted + 1
  BY <1>1, <1>2, <1>4 DEF EngineTypes, Orders
<1>6. \A o \in 1 .. submitted : Engine!Left(o)' = Engine!Left(o)
  BY <1>2, <1>5 DEF Engine!Left
<1>7. \A u \in Threads : /\ mine'[u] = IF u = t THEN submitted + 1 ELSE mine[u]
                         /\ pc'[u] = IF u = t THEN "match" ELSE pc[u]
                         /\ mine[u] \in 0 .. submitted
  BY <1>1, <1>3 DEF GoroutineTypes
<1>8. 1 .. submitted \subseteq 1 .. submitted + 1 /\ 0 .. submitted \subseteq 0 .. submitted + 1
  BY <1>4
<1>9. EngineTypes'
  <2>1. ord' \in [Orders -> Details \cup {Blank}]
    BY <1>1, <1>2 DEF EngineTypes, GoroutineTypes
  <2>2. submitted' \in 0 .. MaxOrders /\ taker' \in 0 .. submitted'
    BY <1>2, <1>4
  <2> QED
    BY <1>1, <1>2, <1>8, <2>1, <2>2 DEF EngineTypes
<1>10. GoroutineTypes'
  <2>1. mine' \in [Threads -> 0 .. submitted']
    BY <1>1, <1>2, <1>3, <1>4, <1>8 DEF GoroutineTypes
  <2>2. pc' \in [Threads -> {"start", "idle", "enter", "match", "settle", "done"}]
    BY <1>1, <1>3 DEF GoroutineTypes
  <2> QED
    BY <1>1, <1>2, <1>3, <1>8, <2>1, <2>2 DEF GoroutineTypes
<1>11. BookkeepingTypes'
  <2>1. userOrders' \subseteq {o \in 1 .. submitted' : ord'[o].kind = "LIMIT"}
    BY <1>1, <1>2, <1>3, <1>5, <1>8 DEF BookkeepingTypes, serverVars
  <2>2. [order : 1 .. submitted, status : {"FILLED", "CANCELED"}]
           \subseteq [order : 1 .. submitted', status : {"FILLED", "CANCELED"}]
    BY <1>2, <1>8
  <2>3. history' \in Seq([order : 1 .. submitted', status : {"FILLED", "CANCELED"}])
    BY <1>1, <1>3, <2>2, SeqMonotone DEF BookkeepingTypes, serverVars
  <2> QED
    BY <1>1, <1>2, <1>3, <2>1, <2>3 DEF BookkeepingTypes
<1>12. TypeOK'
  BY <1>1, <1>3, <1>9, <1>10, <1>11, TypePartsNext DEF LedgerTypes, ledgerVars
<1>13. RestingOrders'
  <2>1. resting \subseteq 1 .. submitted /\ submitted + 1 \notin 1 .. submitted
    BY <1>1, <1>4 DEF EngineTypes
  <2> QED
    BY <1>2, <1>5, <1>6, <2>1 DEF ExchangeInv, RestingOrders
<1>14. Goroutines'
  <2>1. submitted + 1 # 0 /\ submitted + 1 \notin 0 .. submitted
    BY <1>4
  <2>2. ASSUME NEW u \in Threads, u # t PROVE pc[u] # "match"
    BY <1>2, <2>2 DEF ExchangeInv, Goroutines
  <2>3. \A h \in Handlers : h \in Threads
    BY DEF Threads
  <2> QED
    BY <1>2, <1>7, <2>1, <2>2, <2>3 DEF ExchangeInv, Goroutines
<1>15. Cancellations'
  <2>1. \A o \in 1 .. submitted : o \in 1 .. submitted' /\ o # taker'
    BY <1>2, <1>4
  <2> QED
    BY <1>2, <1>3, <1>6, <2>1 DEF ExchangeInv, Cancellations
<1>16. Recorded' /\ HistoryOnceUnlessOvertaken'
  <2>1. \A i \in DOMAIN history : history[i].order \in 1 .. submitted
    BY <1>1, HistoryEntries
  <2>2. ASSUME NEW i \in DOMAIN history, Engine!Left(history[i].order) <= 0
        PROVE  Engine!Left(history[i].order)' <= 0
    <3>1. history'[i] = history[i]
      BY <1>3 DEF serverVars
    <3>2. ord'[history[i].order] = ord[history[i].order]
      BY <1>5, <2>1
    <3> QED
      BY <1>2, <2>2, <3>1, <3>2 DEF Engine!Left
  <2>3. \A h \in Handlers : pc[h] = "done" => pc'[h] = "done" /\ mine'[h] = mine[h]
    BY <1>3, <1>7 DEF Threads
  <2>4. Recorded'
    BY <1>3, <2>2, <2>3 DEF ExchangeInv, Recorded, serverVars
  <2>5. ASSUME NEW i \in DOMAIN history, Engine!Left(history[i].order) <= 0
        PROVE  ord'[history[i].order].amount - filled'[history[i].order] <= 0
    BY <1>3, <2>2, <2>5 DEF Engine!Left, serverVars
  <2>6. HistoryOnceUnlessOvertaken'
    BY <1>3, <2>5 DEF ExchangeInv, HistoryOnceUnlessOvertaken, Engine!Left, serverVars
  <2> QED
    BY <2>4, <2>6
<1>17. WorkingOrdersAreListed'
  <2>1. resting \subseteq 1 .. submitted
    BY <1>1 DEF EngineTypes
  <2>2. ASSUME NEW h \in Handlers, pc'[h] = "done", mine'[h] \in resting', Engine!Left(mine[h])' > 0
        PROVE  mine'[h] \in userOrders'
    <3>1. pc[h] = "done" /\ mine'[h] = mine[h] /\ mine[h] \in resting
      BY <1>2, <1>7, <2>2 DEF Threads
    <3>2. Engine!Left(mine[h]) > 0
      BY <1>6, <2>1, <2>2, <3>1 DEF Engine!Left
    <3> QED
      BY <1>3, <3>1, <3>2 DEF ExchangeInv, WorkingOrdersAreListed, serverVars
  <2> QED
    BY <2>2 DEF WorkingOrdersAreListed, Engine!Left
<1> QED
  BY <1>12, <1>13, <1>14, <1>15, <1>16, <1>17 DEF ExchangeInv

(* The engine trades: it fills two orders that have something left; one    *)
(* that was cancelled has been overtaken.                                  *)
LEMMA MatchInv ==
  ASSUME ExchangeInv, Match
  PROVE  ExchangeInv'
<1> USE DEF cancelVars
<1>1. EngineTypes /\ GoroutineTypes /\ BookkeepingTypes /\ LedgerTypes /\ TypeOK
  BY TypeParts DEF ExchangeInv
<1>2. UNCHANGED <<ord, resting, submitted, taker, ledgerVars, threadVars, serverVars, cancelVars, faucet, settled>>
  BY DEF Match, Engine!Trade
<1>3. taker # 0 /\ Engine!Left(taker) > 0
  BY DEF Match, Engine!Trade
<1> DEFINE Smaller(q) == IF Engine!Left(taker) < Engine!Left(q) THEN Engine!Left(taker) ELSE Engine!Left(q)
<1>pick. PICK r \in resting \cup late :
        /\ filled' = [filled EXCEPT ![taker] = @ + Smaller(r), ![r] = @ + Smaller(r)]
        /\ trades' = Engine!Record(trades, [maker |-> r, taker |-> taker, price |-> ord[r].price, amount |-> Smaller(r)])
        /\ late' = IF Smaller(r) = Engine!Left(taker) THEN {} ELSE late \ {r}
        /\ Engine!Left(r) > 0
  BY DEF Match, Engine!Trade, Engine!Candidates
<1> DEFINE amount == Smaller(r)
<1>4. /\ amount = IF Engine!Left(taker) < Engine!Left(r) THEN Engine!Left(taker) ELSE Engine!Left(r)
      /\ filled' = [filled EXCEPT ![taker] = @ + amount, ![r] = @ + amount]
      /\ trades' = Engine!Record(trades, [maker |-> r, taker |-> taker, price |-> ord[r].price, amount |-> amount])
      /\ late' = IF amount = Engine!Left(taker) THEN {} ELSE late \ {r}
      /\ Engine!Left(r) > 0
  BY <1>pick
<1> HIDE DEF amount
<1>5. /\ taker \in Orders /\ r \in Orders /\ r # taker /\ resting \cup late \subseteq Orders
      /\ Engine!Left(r) > 0 /\ ord[r].price > 0
  BY <1>1, <1>3, <1>4, OrderFacts DEF EngineTypes, ExchangeInv, RestingOrders
<1>6. Engine!Left(taker) \in Int /\ Engine!Left(r) \in Int /\ ord[r].price \in Prices \cup {0} /\ ord[r].price \in Int
  BY <1>1, <1>5, OrderFacts
<1>7. amount \in Nat /\ amount > 0 /\ amount <= Engine!Left(r)
  BY <1>3, <1>4, <1>5, <1>6
<1>8. /\ \A o \in Orders : filled'[o] = IF o = taker \/ o = r THEN filled[o] + amount ELSE filled[o]
      /\ \A o \in Orders : filled[o] \in Nat
  BY <1>1, <1>4, <1>5 DEF EngineTypes
<1>9. \A o \in Orders : Engine!Left(o)' = IF o = taker \/ o = r THEN ord[o].amount - (filled[o] + amount) ELSE Engine!Left(o)
  BY <1>2, <1>8 DEF Engine!Left
<1>10. EngineTypes'
  <2>1. filled' \in [Orders -> Nat]
    <3>1. \A o \in Orders : filled'[o] \in Nat
      BY <1>7, <1>8
    <3>2. filled' = [o \in Orders |-> filled'[o]]
      BY <1>1, <1>4 DEF EngineTypes
    <3> QED
      BY <3>1, <3>2
  <2>2. [maker |-> r, taker |-> taker, price |-> ord[r].price, amount |-> amount] \in Tape
    <3>1. ord[r].price \in Prices
      BY <1>5, <1>6
    <3> QED
      BY <1>5, <1>7, <3>1 DEF Tape
  <2>3. trades' \in Seq(Tape)
    BY <1>1, <1>4, <2>2, AppendProperties DEF EngineTypes, Engine!Record
  <2>4. late' \subseteq 1 .. submitted
    BY <1>1, <1>4 DEF EngineTypes
  <2> QED
    BY <1>1, <1>2, <2>1, <2>3, <2>4 DEF EngineTypes
<1>11. BookkeepingTypes'
  <2>1. DOMAIN trades \subseteq DOMAIN trades'
    <3>1. trades \in Seq(Tape) /\ trades' \in Seq(Tape) /\ Len(trades) \in Nat
      BY <1>1, <1>10, LenProperties DEF EngineTypes
    <3>2. Len(trades') = Len(trades) \/ Len(trades') = Len(trades) + 1
      BY <1>4, <3>1 DEF Engine!Record
    <3>3. DOMAIN trades = 1 .. Len(trades) /\ DOMAIN trades' = 1 .. Len(trades')
      BY <3>1, LenProperties
    <3>4. 1 .. Len(trades) \subseteq 1 .. Len(trades')
      BY <3>1, <3>2
    <3> QED
      BY <3>3, <3>4
  <2> QED
    BY <1>1, <1>2, <2>1 DEF BookkeepingTypes, serverVars
<1>12. TypeOK'
  BY <1>1, <1>2, <1>10, <1>11, TypePartsNext DEF GoroutineTypes, LedgerTypes, ledgerVars, threadVars
<1>a. /\ Engine!Left(r)' = Engine!Left(r) - amount /\ Engine!Left(taker)' = Engine!Left(taker) - amount
      /\ amount <= Engine!Left(taker)
  <2>1. \A o \in Orders : Engine!Left(o) = ord[o].amount - filled[o] /\ ord[o].amount \in Nat /\ filled[o] \in Nat
    BY <1>1, OrderFacts
  <2>2. Engine!Left(r)' = ord[r].amount - (filled[r] + amount) /\ Engine!Left(taker)' = ord[taker].amount - (filled[taker] + amount)
    BY <1>2, <1>5, <1>9
  <2> QED
    BY <1>4, <1>5, <1>6, <1>7, <2>1, <2>2
<1>13. RestingOrders'
  <2>1. late' \subseteq late /\ taker \notin resting \cup late
    BY <1>4 DEF ExchangeInv, RestingOrders
  <2>2. ASSUME NEW o \in resting \cup late PROVE Engine!Left(o)' >= 0
    <3>1. CASE o = r
      BY <1>4, <1>6, <1>7, <1>a, <3>1
    <3>2. CASE o # r
      <4>1. Engine!Left(o)' = Engine!Left(o)
        BY <1>5, <1>9, <2>1, <3>2
      <4> QED
        BY <4>1 DEF ExchangeInv, RestingOrders
    <3> QED
      BY <3>1, <3>2
  <2>3. ASSUME NEW o \in late'
        PROVE  /\ Engine!Left(o)' > 0 /\ o \in overtaken
               /\ Engine!Left(taker)' > 0 /\ Engine!Matches(taker, o)'
    <3>1. o \in late /\ o # r /\ amount # Engine!Left(taker)
      BY <1>4, <2>3
    <3>2. Engine!Left(o)' = Engine!Left(o)
      BY <1>5, <1>9, <2>1, <3>1
    <3>3. Engine!Left(taker)' > 0
      BY <1>6, <1>7, <1>a, <3>1
    <3>4. Engine!Matches(taker, o)' = Engine!Matches(taker, o)
      BY <1>2 DEF Engine!Matches, Engine!Better
    <3> QED
      BY <3>1, <3>2, <3>3, <3>4 DEF ExchangeInv, RestingOrders
  <2>4. \A o \in resting' \cup late' :
          ord'[o].kind = "LIMIT" /\ ord'[o].price > 0 /\ Engine!Left(o)' >= 0 /\ o # taker'
    BY <1>2, <2>1, <2>2 DEF ExchangeInv, RestingOrders
  <2> QED
    BY <1>2, <1>3, <2>3, <2>4 DEF RestingOrders
<1>14. Goroutines'
  BY <1>2 DEF ExchangeInv, Goroutines, threadVars
<1>15. Cancellations'
  <2>1. ASSUME NEW o \in Orders, cancel[o] # "none", o \notin overtaken
        PROVE  Engine!Left(o)' = Engine!Left(o) /\ Engine!Left(o) > 0
    <3>1. o # taker /\ o \notin resting /\ o \notin late /\ Engine!Left(o) > 0
      BY <2>1 DEF ExchangeInv, Cancellations, RestingOrders
    <3> QED
      BY <1>9, <3>1
  <2> QED
    BY <1>2, <2>1 DEF ExchangeInv, Cancellations
<1>16. Recorded' /\ HistoryOnceUnlessOvertaken'
  <2>1. ASSUME NEW i \in DOMAIN history, Engine!Left(history[i].order) <= 0
        PROVE  Engine!Left(history[i].order)' <= 0
    <3>1. history[i].order \in Orders
      BY <1>1, OrderFacts, HistoryEntries
    <3>2. history[i].order # taker /\ history[i].order # r
      BY <1>3, <1>5, <1>6, <2>1
    <3>3. history'[i] = history[i]
      BY <1>2 DEF serverVars
    <3>4. ord'[history[i].order] = ord[history[i].order] /\ filled'[history[i].order] = filled[history[i].order]
      BY <1>2, <1>8, <3>1, <3>2
    <3> QED
      BY <2>1, <3>3, <3>4 DEF Engine!Left
  <2> QED
    BY <1>2, <2>1 DEF ExchangeInv, Recorded, HistoryOnceUnlessOvertaken, serverVars, threadVars
<1>17. WorkingOrdersAreListed'
  <2>1. ASSUME NEW o \in resting, Engine!Left(o)' > 0 PROVE Engine!Left(o) > 0
    <3>1. CASE o = r
      BY <1>4, <3>1
    <3>2. CASE o # r
      <4>1. Engine!Left(o)' = Engine!Left(o)
        BY <1>5, <1>9, <3>2 DEF ExchangeInv, RestingOrders
      <4> QED
        BY <2>1, <4>1
    <3> QED
      BY <3>1, <3>2
  <2>2. \A h \in Handlers : Engine!Left(mine[h])' = ord'[mine'[h]].amount - filled'[mine'[h]]
    BY <1>2 DEF Engine!Left, threadVars
  <2> QED
    BY <1>2, <2>1, <2>2 DEF ExchangeInv, WorkingOrdersAreListed, serverVars, threadVars, Engine!Left
<1> QED
  BY <1>12, <1>13, <1>14, <1>15, <1>16, <1>17 DEF ExchangeInv

(* A filled maker leaves the book.                                         *)
LEMMA TakeOutInv ==
  ASSUME ExchangeInv, TakeOut
  PROVE  ExchangeInv'
<1> USE DEF cancelVars
<1>1. EngineTypes /\ GoroutineTypes /\ BookkeepingTypes /\ LedgerTypes /\ TypeOK
  BY TypeParts DEF ExchangeInv
<1>2. /\ resting' \subseteq resting /\ taker # 0
      /\ UNCHANGED <<ord, filled, late, submitted, taker, trades, ledgerVars, threadVars, serverVars, cancelVars, faucet, settled>>
  BY DEF TakeOut, Engine!Remove
<1>3. TypeOK'
  BY <1>1, <1>2, TypePartsNext
     DEF EngineTypes, GoroutineTypes, BookkeepingTypes, LedgerTypes, ledgerVars, threadVars, serverVars
<1>4. RestingOrders'
  BY <1>2 DEF ExchangeInv, RestingOrders, Engine!Left, Engine!Matches, Engine!Better
<1>5. Goroutines' /\ Cancellations'
  BY <1>2 DEF ExchangeInv, Goroutines, Cancellations, Engine!Left, threadVars
<1>6. Recorded' /\ HistoryOnceUnlessOvertaken'
  BY <1>2 DEF ExchangeInv, Recorded, HistoryOnceUnlessOvertaken, Engine!Left, threadVars, serverVars
<1>7. WorkingOrdersAreListed'
  BY <1>2 DEF ExchangeInv, WorkingOrdersAreListed, Engine!Left, threadVars, serverVars
<1> QED
  BY <1>3, <1>4, <1>5, <1>6, <1>7 DEF ExchangeInv

(* ProcessOrder returns: what it leaves in the book is a limit order with  *)
(* a price, and its goroutine has not answered yet.                        *)
LEMMA LeaveInv ==
  ASSUME ExchangeInv, NEW t \in Threads, Leave(t)
  PROVE  ExchangeInv'
<1> USE DEF cancelVars
<1>1. EngineTypes /\ GoroutineTypes /\ BookkeepingTypes /\ LedgerTypes /\ TypeOK
  BY TypeParts DEF ExchangeInv
<1>2. /\ taker # 0 /\ taker' = 0 /\ UNCHANGED <<ord, filled, late, submitted, trades>>
      /\ resting' = IF Engine!Left(taker) > 0 /\ ord[taker].kind = "LIMIT" /\ ord[taker].price > 0
                    THEN resting \cup {taker} ELSE resting
      /\ Engine!Left(taker) = 0 \/ Engine!Candidates(taker) = {}
      /\ \A q \in resting : Engine!Left(q) > 0
  BY DEF Leave, Engine!Finish
<1>3. /\ pc[t] = "match" /\ pc' = [pc EXCEPT ![t] = AfterMatch(t)]
      /\ UNCHANGED <<ledgerVars, req, mine, ticks, serverVars, cancelVars, faucet, settled>>
  BY DEF Leave
<1>4. taker \in 1 .. submitted /\ taker \in Orders /\ mine[t] = taker
  <2>1. submitted \in Nat /\ taker \in 0 .. submitted /\ 1 .. submitted \subseteq Orders
    BY <1>1, OrderFacts DEF EngineTypes
  <2> QED
    BY <1>2, <1>3, <2>1 DEF ExchangeInv, Goroutines
<1>5. AfterMatch(t) \in {"idle", "settle", "done"} /\ (t \in Handlers => AfterMatch(t) # "idle")
  BY DEF AfterMatch, BotLoop, Handlers
<1>6. \A u \in Threads : pc'[u] = IF u = t THEN AfterMatch(t) ELSE pc[u]
  BY <1>1, <1>3 DEF GoroutineTypes
<1>7. EngineTypes'
  <2>1. resting' \subseteq 1 .. submitted
    BY <1>1, <1>2, <1>4 DEF EngineTypes
  <2>2. 0 \in 0 .. submitted
    BY <1>1, OrderFacts
  <2> QED
    BY <1>1, <1>2, <2>1, <2>2 DEF EngineTypes
<1>8. GoroutineTypes'
  <2>1. pc' \in [Threads -> {"start", "idle", "enter", "match", "settle", "done"}]
    BY <1>1, <1>3, <1>5 DEF GoroutineTypes
  <2> QED
    BY <1>1, <1>2, <1>3, <2>1 DEF GoroutineTypes
<1>9. TypeOK'
  BY <1>1, <1>2, <1>3, <1>7, <1>8, TypePartsNext DEF BookkeepingTypes, LedgerTypes, ledgerVars, serverVars
<1>10. RestingOrders'
  <2>1. 0 \notin resting'
    BY <1>1, <1>2, <1>4 DEF EngineTypes
  <2>2. late = {}
    <3>1. \A o \in late : o \in Engine!Candidates(taker) /\ Engine!Left(taker) > 0
      BY DEF ExchangeInv, RestingOrders, Engine!Candidates
    <3>2. Engine!Left(taker) \in Int
      BY <1>1, <1>4, OrderFacts
    <3> QED
      BY <1>2, <3>1, <3>2
  <2>3. ASSUME NEW o PROVE Engine!Left(o)' = Engine!Left(o) /\ ord'[o] = ord[o]
    BY <1>2 DEF Engine!Left
  <2>4. ASSUME NEW o \in resting' PROVE ord[o].kind = "LIMIT" /\ ord[o].price > 0 /\ Engine!Left(o) > 0
    BY <1>2, <2>4 DEF ExchangeInv, RestingOrders
  <2>5. \A o \in resting' : Engine!Left(o) \in Int
    BY <1>1, <1>2, <1>4, OrderFacts
  <2>6. late' = {}
    BY <1>2, <2>2
  <2>7. \A o \in resting' : /\ ord'[o].kind = "LIMIT" /\ ord'[o].price > 0 /\ o # taker'
                             /\ Engine!Left(o)' >= 0 /\ Engine!Left(o)' > 0
    BY <1>2, <2>1, <2>3, <2>4, <2>5
  <2> QED
    BY <2>6, <2>7 DEF RestingOrders
<1>11. Goroutines'
  <2>1. \A u \in Threads : u # t => pc[u] # "match"
    BY <1>2, <1>3, <1>4 DEF ExchangeInv, Goroutines
  <2>2. \A h \in Handlers : h \in Threads
    BY DEF Threads
  <2> QED
    BY <1>2, <1>3, <1>4, <1>5, <1>6, <2>1, <2>2 DEF ExchangeInv, Goroutines
<1>12. Cancellations'
  <2>1. \A o \in 1 .. submitted : o # 0
    BY <1>1, OrderFacts
  <2> QED
    BY <1>2, <1>3, <2>1 DEF ExchangeInv, Cancellations, Engine!Left
<1>13. Recorded' /\ HistoryOnceUnlessOvertaken'
  <2>1. \A h \in Handlers : pc[h] = "done" => pc'[h] = "done"
    BY <1>3, <1>6 DEF Threads
  <2> QED
    BY <1>2, <1>3, <2>1 DEF ExchangeInv, Recorded, HistoryOnceUnlessOvertaken, Engine!Left, serverVars
<1>14. WorkingOrdersAreListed'
  <2>1. ASSUME NEW h \in Handlers, pc'[h] = "done", mine[h] \in resting', Engine!Left(mine[h]) > 0
        PROVE  mine[h] \in userOrders
    <3>1. CASE h = t
      <4>1. EngineError(taker)
        BY <1>4, <1>6, <2>1, <3>1 DEF AfterMatch, Threads, BotLoop, Handlers
      <4>2. resting' = resting
        <5>1. ord[taker].price \in Int /\ ord[taker].price <= 0
          BY <1>1, <1>4, <4>1, OrderFacts DEF EngineError
        <5>2. ~(ord[taker].price > 0)
          BY <5>1
        <5> QED
          BY <1>2, <5>2
      <4> QED
        BY <1>4, <2>1, <3>1, <4>2 DEF ExchangeInv, RestingOrders
    <3>2. CASE h # t
      <4>1. pc[h] = "done"
        BY <1>6, <2>1, <3>2 DEF Threads
      <4>2. mine[h] # taker
        BY <1>2, <4>1 DEF ExchangeInv, Goroutines, Threads
      <4>3. mine[h] \in resting
        BY <1>2, <2>1, <4>2
      <4> QED
        BY <2>1, <4>1, <4>3 DEF ExchangeInv, WorkingOrdersAreListed
    <3> QED
      BY <3>1, <3>2
  <2> QED
    BY <1>2, <1>3, <2>1 DEF WorkingOrdersAreListed, Engine!Left, serverVars
<1> QED
  BY <1>9, <1>10, <1>11, <1>12, <1>13, <1>14 DEF ExchangeInv

(* One more entry of the history: it says who recorded it, and an entry    *)
(* about the same order says otherwise, of an order that was overtaken.    *)
LEMMA EntryInv ==
  ASSUME TypeOK, Recorded, HistoryOnceUnlessOvertaken, NEW o \in 1 .. submitted, NEW status \in {"FILLED", "CANCELED"},
         history' = Append(history, [order |-> o, status |-> status]),
         UNCHANGED <<ord, filled, submitted, mine, overtaken>>,
         \A h \in Handlers : pc[h] = "done" => pc'[h] = "done",
         \A p \in Orders : cancel[p] = "done" => cancel'[p] = "done",
         \A i \in DOMAIN history :
           history[i].order = o => history[i].status # status /\ o \in overtaken /\ Engine!Left(o) <= 0,
         status = "FILLED" => Engine!Left(o) <= 0 /\ \E h \in Handlers : mine[h] = o /\ pc'[h] = "done",
         status = "CANCELED" => cancel'[o] = "done"
  PROVE  /\ history' \in Seq([order : 1 .. submitted', status : {"FILLED", "CANCELED"}])
         /\ Recorded' /\ HistoryOnceUnlessOvertaken'
<1> DEFINE Entry == [order : 1 .. submitted, status : {"FILLED", "CANCELED"}]
           e == [order |-> o, status |-> status]
           n == Len(history) + 1
<1>1. history \in Seq(Entry) /\ e \in Entry
  BY DEF TypeOK
<1>2. DOMAIN history = 1 .. Len(history) /\ Len(history) \in Nat
  BY HistoryEntries
<1>3. \A i \in DOMAIN history : history[i].order \in Orders
  BY HistoryEntries, OrderFacts
<1>4. e.order = o /\ e.status = status
  OBVIOUS
<1> HIDE DEF Entry, e
<1>5. /\ history' \in Seq(Entry) /\ Len(history') = n
      /\ history'[n] = e /\ \A i \in 1 .. Len(history) : history'[i] = history[i]
  BY <1>1, AppendProperties DEF e
<1>6. DOMAIN history' = 1 .. n
  BY <1>5, LenProperties
<1>7. ASSUME NEW i \in DOMAIN history' PROVE i = n \/ (i \in DOMAIN history /\ history'[i] = history[i])
  BY <1>2, <1>5, <1>6
<1>8. Recorded'
  <2>1. ASSUME NEW i \in DOMAIN history
        PROVE  /\ history[i].status = "FILLED" =>
                    Engine!Left(history[i].order) <= 0 /\ \E h \in Handlers : mine[h] = history[i].order /\ pc'[h] = "done"
               /\ history[i].status = "CANCELED" => cancel'[history[i].order] = "done"
    BY <1>3 DEF Recorded
  <2>2. ASSUME NEW i \in DOMAIN history'
        PROVE  /\ history'[i].status = "FILLED" =>
                    /\ ord[history'[i].order].amount - filled[history'[i].order] <= 0
                    /\ \E h \in Handlers : mine[h] = history'[i].order /\ pc'[h] = "done"
               /\ history'[i].status = "CANCELED" => cancel'[history'[i].order] = "done"
    <3>1. CASE i = n
      BY <1>4, <1>5, <3>1 DEF Engine!Left
    <3>2. CASE i \in DOMAIN history /\ history'[i] = history[i]
      BY <2>1, <3>2 DEF Engine!Left
    <3> QED
      BY <1>7, <3>1, <3>2
  <2> QED
    BY <2>2 DEF Recorded, Engine!Left
<1>9. HistoryOnceUnlessOvertaken'
  <2>1. ASSUME NEW i \in DOMAIN history', NEW j \in DOMAIN history', i # j,
               history'[i].order = history'[j].order
        PROVE  /\ history'[i].status # history'[j].status
               /\ history'[i].order \in overtaken /\ Engine!Left(history'[i].order) <= 0
    <3>1. CASE i \in DOMAIN history /\ j \in DOMAIN history
      BY <1>2, <1>5, <2>1, <3>1 DEF HistoryOnceUnlessOvertaken
    <3>2. CASE i = n /\ j \in DOMAIN history /\ history'[j] = history[j]
      BY <1>4, <1>5, <2>1, <3>2
    <3>3. CASE j = n /\ i \in DOMAIN history /\ history'[i] = history[i]
      BY <1>4, <1>5, <2>1, <3>3
    <3> QED
      BY <1>7, <2>1, <3>1, <3>2, <3>3
  <2>2. \A p : Engine!Left(p) = ord'[p].amount - filled'[p]
    BY DEF Engine!Left
  <2> QED
    BY <2>1, <2>2 DEF HistoryOnceUnlessOvertaken, Engine!Left
<1> QED
  BY <1>5, <1>8, <1>9 DEF Entry

(* A handler records its order.                                            *)
LEMMA RecordOrderInv ==
  ASSUME ExchangeInv, NEW h \in Handlers, RecordOrder(h)
  PROVE  ExchangeInv'
<1> USE DEF cancelVars
<1> DEFINE o == mine[h]
<1>1. EngineTypes /\ GoroutineTypes /\ BookkeepingTypes /\ LedgerTypes /\ TypeOK
  BY TypeParts DEF ExchangeInv
<1>2. /\ pc[h] = "settle" /\ pc' = [pc EXCEPT ![h] = "done"] /\ h \in Threads
      /\ UNCHANGED <<ledgerVars, engineVars, req, mine, ticks, cancelVars, faucet, settled>>
  BY DEF RecordOrder, Threads
<1>3. o \in 1 .. submitted /\ o \in Orders
  <2>1. o # 0 /\ o \in 0 .. submitted
    BY <1>1, <1>2 DEF ExchangeInv, Goroutines, GoroutineTypes
  <2>2. submitted \in Nat /\ 1 .. submitted \subseteq Orders
    BY <1>1, OrderFacts
  <2> QED
    BY <2>1, <2>2
<1>4. \A u \in Threads : pc'[u] = IF u = h THEN "done" ELSE pc[u]
  BY <1>1, <1>2 DEF GoroutineTypes
<1>5. \A g \in Handlers : g \in Threads /\ (pc[g] = "done" => pc'[g] = "done")
  BY <1>4 DEF Threads
<1>6. GoroutineTypes'
  BY <1>1, <1>2 DEF GoroutineTypes, engineVars
<1>7. /\ history' \in Seq([order : 1 .. submitted', status : {"FILLED", "CANCELED"}])
      /\ Recorded' /\ HistoryOnceUnlessOvertaken'
  <2>1. CASE IsFilled(o) /\ history' = Append(history, [order |-> o, status |-> "FILLED"])
    <3>1. Engine!Left(o) <= 0 /\ Engine!Left(o) \in Int
      BY <1>1, <1>3, <2>1, OrderFacts DEF IsFilled
    <3>2. ASSUME NEW i \in DOMAIN history, history[i].order = o
          PROVE  history[i].status # "FILLED" /\ o \in overtaken /\ Engine!Left(o) <= 0
      <4>1. history[i].order = o
        BY <3>2
      <4>2. CASE history[i].status = "FILLED"
        <5>1. PICK g \in Handlers : mine[g] = o /\ pc[g] = "done"
          BY <4>1, <4>2 DEF ExchangeInv, Recorded
        <5>2. g = h
          BY <1>2, <1>5, <5>1 DEF ExchangeInv, Goroutines
        <5> QED
          BY <1>2, <5>1, <5>2
      <4>3. CASE history[i].status = "CANCELED"
        <5>1. cancel[o] = "done"
          BY <4>1, <4>3 DEF ExchangeInv, Recorded
        <5>2. o \in overtaken
          BY <1>3, <3>1, <5>1 DEF ExchangeInv, Cancellations
        <5> QED
          BY <3>1, <4>3, <5>2
      <4> QED
        BY <1>1, <4>2, <4>3, HistoryEntries
    <3>3. \E g \in Handlers : mine[g] = o /\ pc'[g] = "done"
      BY <1>4, <1>5
    <3>4. "FILLED" \in {"FILLED", "CANCELED"} /\ "FILLED" # "CANCELED"
      OBVIOUS
    <3>5. TypeOK /\ Recorded /\ HistoryOnceUnlessOvertaken
      BY DEF ExchangeInv
    <3> HIDE DEF o
    <3> QED
      BY <1>2, <1>3, <1>5, <2>1, <3>1, <3>2, <3>3, <3>4, <3>5, EntryInv DEF engineVars
  <2>2. CASE history' = history
    BY <1>1, <1>2, <1>5, <2>2 DEF ExchangeInv, Recorded, HistoryOnceUnlessOvertaken, Engine!Left, engineVars, BookkeepingTypes
  <2> QED
    BY <2>1, <2>2 DEF RecordOrder, serverVars
<1>8. BookkeepingTypes'
  <2>1. userOrders' = userOrders \/ (userOrders' = userOrders \cup {o} /\ ord[o].kind = "LIMIT")
    BY DEF RecordOrder, StaysActive, serverVars
  <2> QED
    BY <1>1, <1>2, <1>3, <1>7, <2>1 DEF BookkeepingTypes, engineVars
<1>9. TypeOK'
  BY <1>1, <1>2, <1>6, <1>8, TypePartsNext DEF EngineTypes, LedgerTypes, ledgerVars, engineVars
<1>10. RestingOrders' /\ Cancellations'
  BY <1>2 DEF ExchangeInv, RestingOrders, Cancellations, Engine!Left, Engine!Matches, Engine!Better, engineVars
<1>11. Goroutines'
  BY <1>2, <1>4, <1>5 DEF ExchangeInv, Goroutines, engineVars
<1>12. WorkingOrdersAreListed'
  <2>1. userOrders \subseteq userOrders'
    BY DEF RecordOrder, serverVars
  <2>2. ASSUME o \in resting, Engine!Left(o) > 0 PROVE o \in userOrders'
    <3>1. Engine!Left(o) > 0 /\ ord[o].kind = "LIMIT" /\ Engine!Left(o) \in Int
      BY <1>1, <1>3, <2>2, OrderFacts DEF ExchangeInv, RestingOrders
    <3>2. ~IsFilled(o)
      BY <3>1 DEF IsFilled
    <3>3. StaysActive(o)
      BY <3>1, <3>2 DEF StaysActive
    <3> QED
      BY <3>2, <3>3 DEF RecordOrder
  <2> QED
    BY <1>2, <1>4, <1>5, <2>1, <2>2 DEF ExchangeInv, WorkingOrdersAreListed, Engine!Left, engineVars
<1> QED
  BY <1>7, <1>9, <1>10, <1>11, <1>12 DEF ExchangeInv

(* The engine hands an order back: it keeps what it has left, unless the   *)
(* match has overtaken it.                                                 *)
LEMMA CancelInEngineInv ==
  ASSUME ExchangeInv, NEW o \in Orders, CancelInEngine(o)
  PROVE  ExchangeInv'
<1>1. EngineTypes /\ GoroutineTypes /\ BookkeepingTypes /\ LedgerTypes /\ TypeOK
  BY TypeParts DEF ExchangeInv
<1>2. /\ o \in resting /\ resting' = resting \ {o}
      /\ UNCHANGED <<ord, filled, submitted, taker, trades>>
      /\ UNCHANGED late \/ (Engine!InHand(o) /\ late' = late \cup {o})
      /\ overtaken' = IF o \in late' \/ Engine!Left(o) = 0 THEN overtaken \cup {o} ELSE overtaken
  BY DEF CancelInEngine, Engine!Withdraw
<1>3. /\ cancel[o] = "none" /\ cancel' = [cancel EXCEPT ![o] = "read"]
      /\ UNCHANGED <<ledgerVars, threadVars, serverVars, refund, faucet, settled>>
  BY DEF CancelInEngine
<1>4. \A p \in Orders : cancel'[p] = IF p = o THEN "read" ELSE cancel[p]
  BY <1>1, <1>3 DEF GoroutineTypes
<1>5. GoroutineTypes'
  <2>1. cancel' \in [Orders -> {"none", "read", "unlock", "record", "done"}]
    BY <1>1, <1>3 DEF GoroutineTypes
  <2> QED
    BY <1>1, <1>2, <1>3, <2>1 DEF GoroutineTypes, EngineTypes, threadVars
<1>6. TypeOK'
  BY <1>1, <1>2, <1>3, <1>5, TypePartsNext
     DEF EngineTypes, BookkeepingTypes, LedgerTypes, ledgerVars, serverVars
<1>7. RestingOrders'
  <2>1. late' \subseteq late \cup {o} /\ resting' \subseteq resting /\ overtaken \subseteq overtaken'
    BY <1>2
  <2>2. ASSUME late' # late
        PROVE  /\ taker # 0 /\ Engine!Left(taker) > 0 /\ Engine!Left(o) > 0
               /\ Engine!Matches(taker, o) /\ o \in overtaken'
    BY <1>2, <2>2 DEF Engine!InHand, Engine!Candidates
  <2>3. \A p \in resting' \cup late' : p \in resting \cup late
    BY <1>2, <2>1
  <2>4. \A p \in late' : /\ Engine!Left(p) > 0 /\ p \in overtaken'
                          /\ Engine!Left(taker) > 0 /\ Engine!Matches(taker, p)
    BY <2>1, <2>2 DEF ExchangeInv, RestingOrders
  <2>5. taker = 0 => late' = {}
    BY <2>2 DEF ExchangeInv, RestingOrders
  <2>6. \A p : /\ Engine!Left(p)' = Engine!Left(p)
               /\ Engine!Matches(taker, p)' = Engine!Matches(taker, p)
    BY <1>2 DEF Engine!Left, Engine!Matches, Engine!Better
  <2>7. Engine!Left(taker)' = Engine!Left(taker)
    BY <1>2 DEF Engine!Left
  <2> QED
    BY <1>2, <2>1, <2>3, <2>4, <2>5, <2>6, <2>7 DEF ExchangeInv, RestingOrders
<1>8. Goroutines'
  BY <1>2, <1>3 DEF ExchangeInv, Goroutines, threadVars
<1>9. Cancellations'
  <2>1. o \in 1 .. submitted /\ o # taker /\ Engine!Left(o) >= 0 /\ Engine!Left(o) \in Int
    BY <1>1, <1>2, OrderFacts DEF EngineTypes, ExchangeInv, RestingOrders
  <2>2. o \notin overtaken' => Engine!Left(o) > 0
    BY <1>2, <2>1
  <2>3. overtaken \subseteq overtaken'
    BY <1>2
  <2> QED
    BY <1>2, <1>4, <2>1, <2>2, <2>3 DEF ExchangeInv, Cancellations, Engine!Left
<1>10. Recorded' /\ HistoryOnceUnlessOvertaken'
  <2>1. \A i \in DOMAIN history : history[i].order \in Orders
    BY <1>1, HistoryEntries, OrderFacts
  <2>2. \A p \in Orders : cancel[p] = "done" => cancel'[p] = "done"
    BY <1>3, <1>4
  <2> QED
    BY <1>2, <1>3, <2>1, <2>2 DEF ExchangeInv, Recorded, HistoryOnceUnlessOvertaken, Engine!Left, threadVars, serverVars
<1>11. WorkingOrdersAreListed'
  BY <1>2, <1>3 DEF ExchangeInv, WorkingOrdersAreListed, Engine!Left, threadVars, serverVars
<1> QED
  BY <1>6, <1>7, <1>8, <1>9, <1>10, <1>11 DEF ExchangeInv

(* The handler reads what the cancelled order has left.                    *)
LEMMA CancelReadInv ==
  ASSUME ExchangeInv, NEW o \in Orders, CancelRead(o)
  PROVE  ExchangeInv'
<1>1. EngineTypes /\ GoroutineTypes /\ BookkeepingTypes /\ LedgerTypes /\ TypeOK
  BY TypeParts DEF ExchangeInv
<1>2. /\ cancel[o] = "read" /\ cancel' = [cancel EXCEPT ![o] = "unlock"]
      /\ refund' = [refund EXCEPT ![o] = EscrowLeft(o)]
      /\ UNCHANGED <<ledgerVars, engineVars, threadVars, serverVars, overtaken, faucet, settled>>
  BY DEF CancelRead
<1>3. EscrowLeft(o) \in Int
  BY <1>1, EscrowIsInt
<1>4. \A p \in Orders : cancel'[p] = IF p = o THEN "unlock" ELSE cancel[p]
  BY <1>1, <1>2 DEF GoroutineTypes
<1>5. GoroutineTypes'
  <2>1. cancel' \in [Orders -> {"none", "read", "unlock", "record", "done"}] /\ refund' \in [Orders -> Int]
    BY <1>1, <1>2, <1>3 DEF GoroutineTypes
  <2> QED
    BY <1>1, <1>2, <2>1 DEF GoroutineTypes, threadVars, engineVars
<1>6. TypeOK'
  BY <1>1, <1>2, <1>5, TypePartsNext
     DEF EngineTypes, BookkeepingTypes, LedgerTypes, ledgerVars, serverVars, engineVars
<1>7. RestingOrders'
  BY <1>2 DEF ExchangeInv, RestingOrders, Engine!Left, Engine!Matches, Engine!Better, engineVars
<1>8. Goroutines'
  BY <1>2 DEF ExchangeInv, Goroutines, engineVars, threadVars
<1>9. Cancellations'
  BY <1>2, <1>4 DEF ExchangeInv, Cancellations, Engine!Left, engineVars
<1>10. Recorded' /\ HistoryOnceUnlessOvertaken'
  <2>1. \A i \in DOMAIN history : history[i].order \in Orders
    BY <1>1, HistoryEntries, OrderFacts
  <2>2. \A p \in Orders : cancel[p] = "done" => cancel'[p] = "done"
    BY <1>2, <1>4
  <2> QED
    BY <1>2, <2>1, <2>2 DEF ExchangeInv, Recorded, HistoryOnceUnlessOvertaken, Engine!Left, engineVars, threadVars, serverVars
<1>11. WorkingOrdersAreListed'
  BY <1>2 DEF ExchangeInv, WorkingOrdersAreListed, Engine!Left, engineVars, threadVars, serverVars
<1> QED
  BY <1>6, <1>7, <1>8, <1>9, <1>10, <1>11 DEF ExchangeInv

(* The escrow of a cancelled order is unlocked.                            *)
LEMMA CancelUnlockInv ==
  ASSUME ExchangeInv, NEW o \in Orders, CancelUnlock(o)
  PROVE  /\ ExchangeInv'
         /\ \A d \in Currencies : Total(accounts', d) = Total(accounts, d)
<1>1. EngineTypes /\ GoroutineTypes /\ BookkeepingTypes /\ LedgerTypes /\ TypeOK
  BY TypeParts DEF ExchangeInv
<1>2. /\ cancel[o] = "unlock" /\ cancel' = [cancel EXCEPT ![o] = "record"] /\ FaucetMeanwhile
      /\ UnlockFunds(ord[o].user, EscrowCurrency(ord[o].side), refund[o])
      /\ refund' = refund \/ refund' = [refund EXCEPT ![o] = 0]
      /\ UNCHANGED <<registered, engineVars, threadVars, serverVars, overtaken, settled>>
  BY DEF CancelUnlock, UnlockFunds
<1>3. ord[o].user \in Users /\ EscrowCurrency(ord[o].side) \in Currencies /\ refund[o] \in Int
  BY <1>1, OrderFacts DEF GoroutineTypes, EscrowCurrency, Currencies
<1>4. accounts' \in Accounts /\ \A d \in Currencies : Total(accounts', d) = Total(accounts, d)
  <2>1. accounts \in Accounts
    BY <1>1 DEF LedgerTypes
  <2> QED
    BY <1>2, <1>3, <2>1, EscrowMoves
<1>5. LedgerTypes'
  BY <1>1, <1>2, <1>4, FaucetTypes DEF LedgerTypes
<1>6. \A p \in Orders : cancel'[p] = IF p = o THEN "record" ELSE cancel[p]
  BY <1>1, <1>2 DEF GoroutineTypes
<1>7. GoroutineTypes'
  <2>1. cancel' \in [Orders -> {"none", "read", "unlock", "record", "done"}] /\ refund' \in [Orders -> Int]
    BY <1>1, <1>2 DEF GoroutineTypes
  <2> QED
    BY <1>1, <1>2, <2>1 DEF GoroutineTypes, threadVars, engineVars
<1>8. TypeOK'
  BY <1>1, <1>2, <1>5, <1>7, TypePartsNext DEF EngineTypes, BookkeepingTypes, engineVars, serverVars
<1>9. RestingOrders'
  BY <1>2 DEF ExchangeInv, RestingOrders, Engine!Left, Engine!Matches, Engine!Better, engineVars
<1>a. Goroutines'
  BY <1>2 DEF ExchangeInv, Goroutines, engineVars, threadVars
<1>10. Cancellations'
  BY <1>2, <1>6 DEF ExchangeInv, Cancellations, Engine!Left, engineVars
<1>11. Recorded' /\ HistoryOnceUnlessOvertaken'
  <2>1. \A i \in DOMAIN history : history[i].order \in Orders
    BY <1>1, HistoryEntries, OrderFacts
  <2>2. \A p \in Orders : cancel[p] = "done" => cancel'[p] = "done"
    BY <1>2, <1>6
  <2> QED
    BY <1>2, <2>1, <2>2 DEF ExchangeInv, Recorded, HistoryOnceUnlessOvertaken, Engine!Left, engineVars, threadVars, serverVars
<1>12. WorkingOrdersAreListed'
  BY <1>2 DEF ExchangeInv, WorkingOrdersAreListed, Engine!Left, engineVars, threadVars, serverVars
<1> QED
  BY <1>4, <1>8, <1>9, <1>a, <1>10, <1>11, <1>12 DEF ExchangeInv

(* A cancelled order is moved to the history.                              *)
LEMMA CancelRecordInv ==
  ASSUME ExchangeInv, NEW o \in Orders, CancelRecord(o)
  PROVE  ExchangeInv'
<1>1. EngineTypes /\ GoroutineTypes /\ BookkeepingTypes /\ LedgerTypes /\ TypeOK
  BY TypeParts DEF ExchangeInv
<1>2. /\ cancel[o] = "record" /\ cancel' = [cancel EXCEPT ![o] = "done"]
      /\ userOrders' = userOrders \ {o}
      /\ history' = Append(history, [order |-> o, status |-> "CANCELED"])
      /\ UNCHANGED <<ledgerVars, engineVars, threadVars, refund, overtaken, faucet, settled>>
  BY DEF CancelRecord
<1>3. o \in 1 .. submitted /\ o \notin resting /\ (o \notin overtaken => Engine!Left(o) > 0) /\ Engine!Left(o) \in Int
  BY <1>1, <1>2, OrderFacts DEF ExchangeInv, Cancellations
<1>4. \A p \in Orders : cancel'[p] = IF p = o THEN "done" ELSE cancel[p]
  BY <1>1, <1>2 DEF GoroutineTypes
<1>5. /\ history' \in Seq([order : 1 .. submitted', status : {"FILLED", "CANCELED"}])
      /\ Recorded' /\ HistoryOnceUnlessOvertaken'
  <2>1. ASSUME NEW i \in DOMAIN history, history[i].order = o
        PROVE  history[i].status # "CANCELED" /\ o \in overtaken /\ Engine!Left(o) <= 0
    <3>1. history[i].order = o
      BY <2>1
    <3>2. CASE history[i].status = "FILLED"
      <4>1. Engine!Left(o) <= 0
        BY <3>1, <3>2 DEF ExchangeInv, Recorded
      <4> QED
        BY <1>3, <3>2, <4>1
    <3>3. CASE history[i].status = "CANCELED"
      BY <1>2, <3>1, <3>3 DEF ExchangeInv, Recorded
    <3> QED
      BY <1>1, <3>2, <3>3, HistoryEntries
  <2>2. TypeOK /\ Recorded /\ HistoryOnceUnlessOvertaken
    BY DEF ExchangeInv
  <2>3. "CANCELED" \in {"FILLED", "CANCELED"} /\ "FILLED" # "CANCELED"
    OBVIOUS
  <2>4. UNCHANGED <<ord, filled, submitted, mine, pc, overtaken>> /\ cancel'[o] = "done"
    BY <1>2, <1>4 DEF engineVars, threadVars
  <2>5. \A p \in Orders : cancel[p] = "done" => cancel'[p] = "done"
    BY <1>4
  <2> QED
    BY <1>2, <1>3, <2>1, <2>2, <2>3, <2>4, <2>5, EntryInv
<1>6. GoroutineTypes'
  <2>1. cancel' \in [Orders -> {"none", "read", "unlock", "record", "done"}]
    BY <1>1, <1>2 DEF GoroutineTypes
  <2> QED
    BY <1>1, <1>2, <2>1 DEF GoroutineTypes, threadVars, engineVars
<1>7. BookkeepingTypes'
  BY <1>1, <1>2, <1>5 DEF BookkeepingTypes, engineVars
<1>8. TypeOK'
  BY <1>1, <1>2, <1>6, <1>7, TypePartsNext DEF EngineTypes, LedgerTypes, ledgerVars, engineVars
<1>9. RestingOrders'
  BY <1>2 DEF ExchangeInv, RestingOrders, Engine!Left, Engine!Matches, Engine!Better, engineVars
<1>a. Goroutines'
  BY <1>2 DEF ExchangeInv, Goroutines, engineVars, threadVars
<1>10. Cancellations'
  BY <1>2, <1>4 DEF ExchangeInv, Cancellations, Engine!Left, engineVars
<1>11. WorkingOrdersAreListed'
  BY <1>2, <1>3 DEF ExchangeInv, WorkingOrdersAreListed, Engine!Left, engineVars, threadVars
<1> QED
  BY <1>5, <1>8, <1>9, <1>a, <1>10, <1>11 DEF ExchangeInv
-----------------------------------------------------------------------------
(* The server has just been constructed.                                   *)
LEMMA ExchangeInitInv == Init => ExchangeInv
<1> SUFFICES ASSUME Init PROVE ExchangeInv
  OBVIOUS
<1>1. MaxOrders \in Nat /\ MaxSeeds + MaxPulses \in Nat /\ MaxFaucets \in Nat /\ Demo \in Users /\ Bot \in Users
  BY ExchangeAssumption DEF MaxOrders
<1>2. Engine!Init
  BY DEF Init
<1>3. EngineTypes
  <2>1. ord \in [Orders -> Details \cup {Blank}] /\ filled \in [Orders -> Nat]
    BY <1>2 DEF Engine!Init, Orders
  <2>2. trades \in Seq(Tape) /\ resting = {} /\ late = {} /\ submitted = 0 /\ taker = 0
    BY <1>2, EmptySeq DEF Engine!Init
  <2> QED
    BY <1>1, <2>1, <2>2 DEF EngineTypes
<1>4. GoroutineTypes
  <2>1. submitted = 0
    BY <1>2 DEF Engine!Init
  <2> QED
    BY <1>1, <2>1 DEF Init, GoroutineTypes
<1>5. BookkeepingTypes
  BY EmptySeq DEF Init, BookkeepingTypes
<1>6. LedgerTypes
  <2>1. NoFunds \in [Currencies -> Balance]
    BY DEF NoFunds, Balance
  <2>2. Endowment(Demo) \in [Currencies -> Balance]
    BY <1>1, LedgerAssumption DEF Endowment, Balance
  <2>3. LedgerEmpty \in Accounts
    BY <2>1 DEF LedgerEmpty, Accounts
  <2>4. accounts \in Accounts
    BY <1>1, <2>2, <2>3 DEF Init, Accounts
  <2>5. faucet \in FaucetStates
    BY <1>1 DEF Init, FaucetStates
  <2> QED
    BY <1>1, <2>4, <2>5 DEF Init, LedgerTypes
<1>7. RestingOrders
  BY <1>2 DEF Engine!Init, RestingOrders
<1>8. Goroutines
  <2>1. \A t \in Threads : mine[t] = 0 /\ pc[t] \in {"start", "idle"}
    BY DEF Init
  <2> QED
    BY <2>1 DEF Goroutines, Threads
<1>9. Cancellations /\ Recorded /\ HistoryOnceUnlessOvertaken
  <2>1. DOMAIN history = {}
    BY EmptySeq DEF Init
  <2> QED
    BY <2>1 DEF Init, Cancellations, Recorded, HistoryOnceUnlessOvertaken
<1>10. WorkingOrdersAreListed
  BY <1>2 DEF Engine!Init, WorkingOrdersAreListed
<1> QED
  BY <1>3, <1>4, <1>5, <1>6, <1>7, <1>8, <1>9, <1>10, TypeParts DEF ExchangeInv

(* Every step keeps the invariant.                                         *)
LEMMA ExchangeNextInv ==
  ASSUME ExchangeInv, [Next]_vars
  PROVE  ExchangeInv'
<1>1. CASE Next
  <2>1. ASSUME NEW h \in Handlers, Place(h) PROVE ExchangeInv'
    BY <2>1, RequestInv, RecordOrderInv DEF Place
  <2>2. ASSUME NEW t \in Threads, Shared(t) PROVE ExchangeInv'
    BY <2>2, EnterInv, LeaveInv, SettleInv DEF Shared
  <2>3. ASSUME NEW o \in Orders, Delete(o) PROVE ExchangeInv'
    BY <2>3, CancelInEngineInv, CancelReadInv, CancelUnlockInv, CancelRecordInv DEF Delete
  <2> QED
    BY <1>1, <2>1, <2>2, <2>3, MatchInv, TakeOutInv, MarketInv, FaucetInv DEF Next
<1>2. CASE UNCHANGED vars
  <2>1. TypeOK'
    BY <1>2 DEF ExchangeInv, TypeOK, vars, ledgerVars, engineVars, threadVars, serverVars, cancelVars
  <2> QED
    BY <1>2, <2>1, WorkStepInv DEF ExchangeInv, Goroutines, vars, engineVars, threadVars, serverVars
<1> QED
  BY <1>1, <1>2

(* The bookkeeping of the server is consistent whatever interleaves.       *)
THEOREM ExchangeCorrect == Spec => []ExchangeInv
<1>1. Init => ExchangeInv
  BY ExchangeInitInv
<1>2. ExchangeInv /\ [Next]_vars => ExchangeInv'
  BY ExchangeNextInv
<1> QED
  BY <1>1, <1>2, PTL DEF Spec

(* The types of the server's, the ledger's and the engine's state.         *)
THEOREM ExchangeTypeOK == Spec => []TypeOK
<1>1. ExchangeInv => TypeOK
  BY DEF ExchangeInv
<1> QED
  BY <1>1, ExchangeCorrect, PTL

(* Of orders with IDs of their own, each enters the history once; one      *)
(* whose cancellation was overtaken by the match that fills it at most     *)
(* twice, as FILLED and as CANCELED (main.go:260-270, 309-322).            *)
THEOREM HistoryStaysOnce == Spec => []HistoryOnceUnlessOvertaken
<1>1. ExchangeInv => HistoryOnceUnlessOvertaken
  BY DEF ExchangeInv
<1> QED
  BY <1>1, ExchangeCorrect, PTL

(* What works in the book when its handler has answered is listed as       *)
(* active, so that its owner can cancel it (main.go:272-274).              *)
THEOREM WorkingOrdersStayListed == Spec => []WorkingOrdersAreListed
<1>1. ExchangeInv => WorkingOrdersAreListed
  BY DEF ExchangeInv
<1> QED
  BY <1>1, ExchangeCorrect, PTL
-----------------------------------------------------------------------------
(* What is proved about money: a user nobody has registered has nothing,   *)
(* and all accounts together hold what users were registered with.         *)
MoneyInv ==
  /\ faucet.at = "done" /\ faucet.calls = 0
  /\ registered = {Demo} \/ registered = {Demo, Bot}
  /\ Bot \notin registered => accounts[Bot] = NoFunds
  /\ \A c \in Currencies :
       Total(accounts, c) = Funds[Demo][c] + (IF Bot \in registered THEN Funds[Bot][c] ELSE 0)

\* Add leaves the accounts of others alone.
LEMMA AddFrame ==
  ASSUME NEW acc \in Accounts, NEW u \in Users, NEW c \in Currencies, NEW a \in Int, NEW l \in Int,
         NEW v \in Users, v # u
  PROVE  Add(acc, u, c, a, l)[v] = acc[v]
BY DEF Add, Accounts

(* A method of the ledger never touches an account that is not registered. *)
LEMMA UnregisteredUntouched ==
  ASSUME accounts \in Accounts, registered = {Demo}, NEW amount \in Int
  PROVE  /\ \A u \in Users, c \in Currencies :
              LockFunds(u, c, amount) \/ UnlockFunds(u, c, amount) => accounts'[Bot] = accounts[Bot]
         /\ \A b \in Users, s \in Users : \A price \in Int : \A flag :
              SettleTrade(b, s, amount, price, flag) => accounts'[Bot] = accounts[Bot]
<1>1. Users = {Demo, Bot} /\ Demo # Bot
  BY ExchangeAssumption DEF Demo, Bot
<1>2. ASSUME NEW u \in Users, NEW c \in Currencies, LockFunds(u, c, amount) \/ UnlockFunds(u, c, amount)
      PROVE  accounts'[Bot] = accounts[Bot]
  <2>1. CASE accounts' = accounts
    BY <2>1
  <2>2. CASE accounts' # accounts
    <3>1. u = Demo /\ -amount \in Int
      BY <1>2, <2>2 DEF LockFunds, UnlockFunds, CanLock, CanUnlock
    <3>2. accounts' = Add(accounts, Demo, c, -amount, amount) \/ accounts' = Add(accounts, Demo, c, amount, -amount)
      BY <1>2, <2>2, <3>1 DEF LockFunds, UnlockFunds
    <3> QED
      BY <1>1, <3>1, <3>2, AddFrame
  <2> QED
    BY <2>1, <2>2
<1>3. ASSUME NEW b \in Users, NEW s \in Users, NEW price \in Int, NEW flag, SettleTrade(b, s, amount, price, flag)
      PROVE  accounts'[Bot] = accounts[Bot]
  <2> DEFINE quote == amount * price
             paid == IF flag THEN Add(accounts, Demo, "USDT", 0, -quote) ELSE Add(accounts, Demo, "USDT", -quote, 0)
             received == Add(paid, Demo, "ETH", amount, 0)
             delivered == IF flag THEN Add(received, Demo, "ETH", -amount, 0) ELSE Add(received, Demo, "ETH", 0, -amount)
             final == Add(delivered, Demo, "USDT", quote, 0)
  <2>1. accounts' = final \/ accounts' = accounts
    <3>1. CASE {b, s} \subseteq registered
      <4>1. b = Demo /\ s = Demo
        BY <3>1
      <4> QED
        BY <1>3, <4>1 DEF SettleTrade
    <3>2. CASE ~({b, s} \subseteq registered)
      BY <1>3, <3>2 DEF SettleTrade
    <3> QED
      BY <3>1, <3>2
  <2>2. quote \in Int /\ -quote \in Int /\ -amount \in Int /\ 0 \in Int /\ "USDT" \in Currencies /\ "ETH" \in Currencies
    BY DEF Currencies
  <2> HIDE DEF quote
  <2>3. paid \in Accounts /\ paid[Bot] = accounts[Bot]
    <3>1. CASE flag
      BY <1>1, <2>2, <3>1, AddOK, AddFrame
    <3>2. CASE ~flag
      BY <1>1, <2>2, <3>2, AddOK, AddFrame
    <3> QED
      BY <3>1, <3>2
  <2> HIDE DEF paid
  <2>4. received \in Accounts /\ received[Bot] = paid[Bot]
    <3>1. received \in Accounts
      BY <1>1, <2>2, <2>3, AddOK
    <3>2. received[Bot] = paid[Bot]
      BY <1>1, <2>2, <2>3, AddFrame
    <3> QED
      BY <3>1, <3>2
  <2> HIDE DEF received
  <2>5. delivered \in Accounts /\ delivered[Bot] = received[Bot]
    <3>1. CASE flag
      BY <1>1, <2>2, <2>4, <3>1, AddOK, AddFrame
    <3>2. CASE ~flag
      BY <1>1, <2>2, <2>4, <3>2, AddOK, AddFrame
    <3> QED
      BY <3>1, <3>2
  <2> HIDE DEF delivered
  <2>6. final[Bot] = delivered[Bot]
    BY <1>1, <2>2, <2>5, AddFrame
  <2> QED
    BY <2>1, <2>3, <2>4, <2>5, <2>6
<1> QED
  BY <1>2, <1>3

(* A step that registers nobody and leaves the total alone.                *)
LEMMA TransferInv ==
  ASSUME MoneyInv, UNCHANGED <<registered, faucet>>,
         \A d \in Currencies : Total(accounts', d) = Total(accounts, d),
         registered = {Demo} => accounts'[Bot] = accounts[Bot]
  PROVE  MoneyInv'
<1>1. Bot # Demo
  BY DEF Demo, Bot
<1>2. Bot \notin registered => registered = {Demo}
  BY <1>1 DEF MoneyInv
<1>3. \A d \in Currencies : Total(accounts, d)' = Total(accounts', d)
  BY DEF Total
<1> QED
  BY <1>2, <1>3 DEF MoneyInv

(* Without the faucet every step keeps the money.                          *)
LEMMA MoneyNextInv ==
  ASSUME MaxFaucets = 0, ExchangeInv, MoneyInv, [Next]_vars
  PROVE  MoneyInv'
<1>1. LedgerTypes /\ EngineTypes /\ BookkeepingTypes /\ TypeOK /\ accounts \in Accounts
  BY TypeParts DEF ExchangeInv, LedgerTypes
<1>2. faucet.at = "done" /\ faucet.calls = 0 /\ (FaucetMeanwhile => faucet' = faucet)
  BY DEF MoneyInv, FaucetMeanwhile
<1>3. CASE UNCHANGED <<ledgerVars, faucet>>
  BY <1>3, TransferInv DEF ledgerVars
<1>4. CASE Faucet
  BY <1>2, <1>4 DEF Faucet, FaucetCall, FaucetRead, FaucetWrite
<1>5. ASSUME NEW h \in Handlers, NEW q \in DemoRequests, Request(h, q) PROVE MoneyInv'
  <2> DEFINE c == EscrowCurrency(q.side)
             cost == Escrow(q.side, q.price, q.amount)
  <2>1. UNCHANGED <<ledgerVars, faucet>> \/ (LockFunds(Demo, c, cost) /\ FaucetMeanwhile)
    BY <1>5 DEF Request
  <2>2. CASE LockFunds(Demo, c, cost) /\ FaucetMeanwhile
    <3>1. q \in Requests /\ Demo \in Users
      BY ExchangeAssumption
    <3>2. q.price \in Prices \cup {0} /\ q.amount \in Amounts
      BY <3>1 DEF Requests
    <3>3. q.price \in Int /\ q.amount \in Int
      BY <3>2, Numbers
    <3>4. c \in Currencies /\ cost \in Int
      BY <3>3 DEF EscrowCurrency, Escrow, Currencies
    <3> HIDE DEF c, cost
    <3>5. UNCHANGED <<registered, faucet>>
      BY <1>2, <2>2 DEF LockFunds
    <3>6. \A d \in Currencies : Total(accounts', d) = Total(accounts, d)
      BY <1>1, <2>2, <3>1, <3>4, EscrowMoves
    <3>7. registered = {Demo} => accounts'[Bot] = accounts[Bot]
      BY <1>1, <2>2, <3>1, <3>4, UnregisteredUntouched
    <3> QED
      BY <3>5, <3>6, <3>7, TransferInv
  <2> QED
    BY <1>3, <2>1, <2>2
<1>6. ASSUME NEW t \in Threads, Settle(t) PROVE MoneyInv'
  <2>1. UNCHANGED <<registered, faucet>>
    BY <1>2, <1>6 DEF Settle, SettleTrade
  <2>2. \A d \in Currencies : Total(accounts', d) = Total(accounts, d)
    BY <1>6, SettleInv
  <2>3. ASSUME registered = {Demo} PROVE accounts'[Bot] = accounts[Bot]
    <3>1. PICK i \in ToSettle(t) :
            LET trd == trades[i]
                buy == IF ord[trd.maker].side = "BUY" THEN trd.maker ELSE trd.taker
                sell == IF ord[trd.maker].side = "BUY" THEN trd.taker ELSE trd.maker
            IN  SettleTrade(ord[buy].user, ord[sell].user, trd.amount, trd.price, IsBuyerMaker(t, trd))
      BY <1>6 DEF Settle
    <3>2. trades[i] \in Tape
      BY <1>1 DEF ToSettle, EngineTypes
    <3>3. /\ trades[i].maker \in Orders /\ trades[i].taker \in Orders
          /\ trades[i].amount \in Int /\ trades[i].price \in Int
      BY <3>2, Numbers DEF Tape
    <3>4. \A o \in Orders : ord[o].user \in Users
      BY <1>1, OrderFacts
    <3> QED
      BY <1>1, <2>3, <3>1, <3>3, <3>4, UnregisteredUntouched
  <2> QED
    BY <2>1, <2>2, <2>3, TransferInv
<1>7. ASSUME NEW o \in Orders, CancelUnlock(o) PROVE MoneyInv'
  <2>1. UNCHANGED <<registered, faucet>>
    BY <1>2, <1>7 DEF CancelUnlock, UnlockFunds
  <2>2. \A d \in Currencies : Total(accounts', d) = Total(accounts, d)
    BY <1>7, CancelUnlockInv
  <2>3. ord[o].user \in Users /\ EscrowCurrency(ord[o].side) \in Currencies /\ refund[o] \in Int
    BY <1>1, OrderFacts DEF TypeOK, EscrowCurrency, Currencies
  <2>4. registered = {Demo} => accounts'[Bot] = accounts[Bot]
    BY <1>1, <1>7, <2>3, UnregisteredUntouched DEF CancelUnlock
  <2> QED
    BY <2>1, <2>2, <2>4, TransferInv
<1>8. CASE BotStart
  <2>1. Users = {Demo, Bot} /\ Demo # Bot /\ registered' = registered \cup {Bot} /\ faucet' = faucet
    BY <1>8, ExchangeAssumption DEF BotStart, RegisterUser, Demo, Bot
  <2>2. registered' = {Demo, Bot} /\ Bot \in registered'
    BY <2>1 DEF MoneyInv
  <2>3. ASSUME NEW d \in Currencies PROVE Total(accounts', d) = Funds[Demo][d] + Funds[Bot][d]
    <3>1. CASE Bot \in registered
      BY <1>8, <3>1 DEF BotStart, RegisterUser, MoneyInv
    <3>2. CASE Bot \notin registered
      <4>1. accounts' = [accounts EXCEPT ![Bot] = Endowment(Bot)]
        BY <1>8, <3>2 DEF BotStart, RegisterUser
      <4>2. accounts'[Demo] = accounts[Demo] /\ accounts'[Bot] = Endowment(Bot)
        BY <1>1, <2>1, <4>1 DEF Accounts
      <4>3. /\ accounts[Bot][d].available = 0 /\ accounts[Bot][d].locked = 0
            /\ Endowment(Bot)[d].available = Funds[Bot][d] /\ Endowment(Bot)[d].locked = 0
        BY <3>2 DEF MoneyInv, NoFunds, Endowment
      <4>4. Total(accounts, d) = Funds[Demo][d]
        <5>1. Total(accounts, d) = Funds[Demo][d] + 0 /\ Funds[Demo][d] \in Int
          BY <2>1, <3>2, LedgerAssumption DEF MoneyInv
        <5> QED
          BY <5>1
      <4>5. accounts[Demo][d].available \in Int /\ accounts[Demo][d].locked \in Int /\ Funds[Bot][d] \in Int
        BY <1>1, <2>1, LedgerAssumption DEF Accounts, Balance
      <4> QED
        BY <4>2, <4>3, <4>4, <4>5 DEF Total
    <3> QED
      BY <3>1, <3>2
  <2>4. \A d \in Currencies : Total(accounts, d)' = Total(accounts', d)
    BY DEF Total
  <2> QED
    BY <1>2, <2>1, <2>2, <2>3, <2>4 DEF MoneyInv
<1>9. [Next]_vars =>
        \/ Faucet \/ BotStart \/ UNCHANGED <<ledgerVars, faucet>>
        \/ \E h \in Handlers, q \in DemoRequests : Request(h, q)
        \/ \E t \in Threads : Settle(t)
        \/ \E o \in Orders : CancelUnlock(o)
  BY DEF Next, Place, Shared, Market, Delete, RecordOrder, Enter, Leave, Match, TakeOut, BotTick, BotWait,
         CancelInEngine, CancelRead, CancelRecord, vars
<1> QED
  BY <1>3, <1>4, <1>5, <1>6, <1>7, <1>8, <1>9

\* Only the demo user is registered.
LEMMA MoneyInitInv == Init => MoneyInv
<1> SUFFICES ASSUME Init PROVE MoneyInv
  OBVIOUS
<1>1. Users = {Demo, Bot} /\ Demo # Bot
  BY ExchangeAssumption DEF Demo, Bot
<1>2. accounts[Demo] = Endowment(Demo) /\ accounts[Bot] = NoFunds
  BY <1>1 DEF Init, LedgerEmpty
<1>3. ASSUME NEW d \in Currencies PROVE Total(accounts, d) = Funds[Demo][d] + 0
  <2>1. /\ accounts[Demo][d].available = Funds[Demo][d] /\ accounts[Demo][d].locked = 0
        /\ accounts[Bot][d].available = 0 /\ accounts[Bot][d].locked = 0
    BY <1>2 DEF Endowment, NoFunds
  <2>2. Funds[Demo][d] \in Int
    BY <1>1, LedgerAssumption
  <2> QED
    BY <2>1, <2>2 DEF Total
<1> QED
  BY <1>1, <1>2, <1>3 DEF Init, MoneyInv

(* Whatever escrow, settlements and cancellations interleave, no money is  *)
(* made or lost (ledger.go:82-170), as long as nobody calls the faucet,    *)
(* whose updates the ledger may overwrite (main.go:198).                   *)
THEOREM MoneyStaysConserved ==
  ASSUME MaxFaucets = 0
  PROVE  Spec => []MoneyConserved
<1>1. Init => MoneyInv
  BY MoneyInitInv
<1>2. ExchangeInv /\ MoneyInv /\ [Next]_vars => MoneyInv'
  BY MoneyNextInv
<1>3. ExchangeInv /\ MoneyInv => MoneyConserved
  <2> SUFFICES ASSUME ExchangeInv, MoneyInv, NEW c \in Currencies
               PROVE  Holdings(Demo, c) + Holdings(Bot, c) =
                        Funds[Demo][c] + (IF Bot \in registered THEN Funds[Bot][c] ELSE 0) + faucet.calls * Credit[c]
    BY DEF MoneyConserved
  <2>1. Credit[c] \in Int /\ Funds[Demo][c] \in Int /\ Funds[Bot][c] \in Int
    BY ExchangeAssumption, LedgerAssumption
  <2>2. faucet.calls * Credit[c] = 0
    BY <2>1 DEF MoneyInv
  <2>3. Total(accounts, c) = Holdings(Demo, c) + Holdings(Bot, c)
    BY DEF Total, Holdings
  <2>4. Total(accounts, c) = Funds[Demo][c] + (IF Bot \in registered THEN Funds[Bot][c] ELSE 0)
    BY DEF MoneyInv
  <2> QED
    BY <2>1, <2>2, <2>3, <2>4
<1> QED
  BY <1>1, <1>2, <1>3, ExchangeCorrect, PTL DEF Spec
=============================================================================
