-------------------------- MODULE SettlementProofs --------------------------
(***************************************************************************)
(* What the accounts of the server have to do with the engine's trades, for *)
(* any number of requests, bot orders and cancellations, any prices,        *)
(* amounts and endowments:                                                  *)
(*   - every account holds what its user started with and what the tape     *)
(*     says that user bought and sold (PositionsMatchTrades), as long as    *)
(*     limit orders have a price, the bot's seed trades with nobody, and    *)
(*     nobody calls the faucet: the runs Exchange_unsettled_trade and       *)
(*     Exchange_settlement show each side of that line;                     *)
(*   - what the demo user has locked is accounted for at every moment       *)
(*     (EscrowAccounted), whatever is requested, overtaken or leaked; it is *)
(*     lost by the faults of Faultless and by nothing else                  *)
(*     (EscrowLostOnlyByFault, CancelUnlocksEscrow);                        *)
(*   - every step but an arrival uses up some of the work there is          *)
(*     (WorkRunsOut), whatever is requested and whoever trades with whom,   *)
(*     and until it is done somebody can take one (SomebodyCanGoOn).        *)
(*                                                                          *)
(* In all of it every order has an ID of its own, as in Exchange: of orders *)
(* that share one nothing is shown here, and the run Engine_id_collision    *)
(* shows an engine that never returns.                                      *)
(*                                                                          *)
(* All are sums.  TradingInv says who has placed which order and who trades *)
(* with whom; the sums then change by one term in the step of one           *)
(* goroutine, while the others stand anywhere.                              *)
(***************************************************************************)
EXTENDS ExchangeProofs, SumProofs

\* d is what user u's request q becomes.
Made(d, u, q) ==
  d = [user |-> u, side |-> q.side, kind |-> q.kind, price |-> q.price, amount |-> q.amount]

\* What the bot may have placed so far: its ticker starts when the seed is done.
BotRequests == IF ticks <= MaxSeeds THEN SeedRequests ELSE SeedRequests \cup PulseRequests

\* Whose request or order d can be.
Origin(d) ==
  \/ \E q \in DemoRequests : Made(d, Demo, q)
  \/ \E q \in BotRequests : Made(d, Bot, q)

Provenance ==
  /\ \A h \in Handlers : pc[h] = "enter" => \E q \in DemoRequests : Made(req[h], Demo, q)
  /\ pc[BotLoop] = "enter" => \E q \in BotRequests : Made(req[BotLoop], Bot, q)
  /\ \A o \in 1 .. submitted : Origin(ord[o])

\* Handlers place orders of the demo user, the bot its own, after its registration.
Owners ==
  /\ \A t \in Threads : mine[t] # 0 => ord[mine[t]].user = (IF t = BotLoop THEN Bot ELSE Demo)
  /\ taker # 0 => \E t \in Threads : mine[t] = taker
  /\ Demo \in registered
  /\ pc[BotLoop] # "start" => Bot \in registered
  /\ \A o \in 1 .. submitted : ord[o].user \in registered

\* Who trades with whom, and at which price.
Deals ==
  \A i \in DOMAIN trades :
    LET trd == trades[i]
    IN  /\ trd.maker \in 1 .. submitted /\ trd.taker \in 1 .. submitted
        /\ ord[trd.maker].kind = "LIMIT"
        /\ Engine!Matches(trd.taker, trd.maker)
        /\ trd.price = ord[trd.maker].price

\* No order is overfilled, and every trade has filled one.
FilledOrders == {o \in 1 .. submitted : Engine!Left(o) = 0}
Fills ==
  /\ \A o \in 1 .. submitted : Engine!Left(o) >= 0
  /\ \A o \in Orders : o > submitted => filled[o] = 0
  /\ Len(trades) <= Cardinality(FilledOrders)

\* Only what has rested can be cancelled.
LimitsAreCancelled == \A o \in Orders : cancel[o] # "none" => ord[o].kind = "LIMIT"

TradingInv == Provenance /\ Owners /\ Deals /\ Fills /\ LimitsAreCancelled

\* What a request has become keeps what it was.
LEMMA MadeFacts ==
  \A d, u, q : Made(d, u, q) => /\ d.user = u /\ d.side = q.side /\ d.kind = q.kind
                                /\ d.price = q.price /\ d.amount = q.amount
BY DEF Made

\* What the types say about trades, and what is counted.
LEMMA TapeFacts ==
  ASSUME TypeOK
  PROVE  /\ Len(trades) \in Nat /\ DOMAIN trades = 1 .. Len(trades) /\ IsFiniteSet(DOMAIN trades)
         /\ \A i \in DOMAIN trades :
              /\ trades[i] \in Tape
              /\ trades[i].maker \in Orders /\ trades[i].taker \in Orders
              /\ trades[i].price \in Prices /\ trades[i].price \in Int /\ trades[i].amount \in Nat
         /\ IsFiniteSet(FilledOrders) /\ Cardinality(FilledOrders) \in Nat
<1>1. trades \in Seq(Tape)
  BY DEF TypeOK, Tape
<1>2. Len(trades) \in Nat /\ DOMAIN trades = 1 .. Len(trades) /\ \A i \in DOMAIN trades : trades[i] \in Tape
  BY <1>1
<1>3. \A d \in Tape : d.maker \in Orders /\ d.taker \in Orders /\ d.price \in Prices /\ d.amount \in Nat
  BY DEF Tape
<1>4. IsFiniteSet(DOMAIN trades)
  BY <1>2, FS_Interval
<1>5. IsFiniteSet(1 .. submitted) /\ FilledOrders \subseteq 1 .. submitted
  BY OrderFacts, FS_Interval DEF FilledOrders
<1>6. IsFiniteSet(FilledOrders) /\ Cardinality(FilledOrders) \in Nat
  BY <1>5, FS_Subset, FS_CardinalityType
<1> QED
  BY <1>2, <1>3, <1>4, <1>6, Numbers

(* The engine has matched the taker with the resting order r for amount n: *)
(* it has exhausted one of the two, and the trade is on the tape.          *)
TradeStep(r, n) ==
  /\ r # taker /\ r \in 1 .. submitted /\ taker \in 1 .. submitted
  /\ ord[r].kind = "LIMIT" /\ ord[r].price > 0 /\ Engine!Matches(taker, r)
  /\ 0 < n /\ n <= Engine!Left(r) /\ n <= Engine!Left(taker)
  /\ n = Engine!Left(r) \/ n = Engine!Left(taker)
  /\ \A o \in Orders : filled'[o] = IF o = taker \/ o = r THEN filled[o] + n ELSE filled[o]
  /\ resting' = resting /\ late' \subseteq late
  /\ DOMAIN trades' = DOMAIN trades \cup {Len(trades) + 1} /\ Len(trades') = Len(trades) + 1
  /\ Len(trades) + 1 \notin DOMAIN trades
  /\ \A i \in DOMAIN trades : trades'[i] = trades[i]
  /\ trades'[Len(trades) + 1] = [maker |-> r, taker |-> taker, price |-> ord[r].price, amount |-> n]

(* The tape has room: it holds no more trades than there are filled        *)
(* orders, and the taker is not among them.                                *)
LEMMA MatchFacts ==
  ASSUME ExchangeInv, Fills, Match
  PROVE  \E r \in resting \cup late, n \in Nat : TradeStep(r, n)
<1>1. TypeOK /\ EngineTypes
  BY TypeParts DEF ExchangeInv
<1>2. /\ taker # 0 /\ Engine!Left(taker) > 0 /\ taker \in 1 .. submitted /\ taker \in Orders
      /\ submitted \in Nat /\ MaxOrders \in Nat /\ submitted <= MaxOrders
  BY <1>1, OrderFacts DEF Match, Engine!Trade, EngineTypes
<1> DEFINE Smaller(q) == IF Engine!Left(taker) < Engine!Left(q) THEN Engine!Left(taker) ELSE Engine!Left(q)
<1>3. PICK r \in resting \cup late :
        /\ Engine!Matches(taker, r) /\ Engine!Left(r) > 0
        /\ filled' = [filled EXCEPT ![taker] = @ + Smaller(r), ![r] = @ + Smaller(r)]
        /\ trades' = Engine!Record(trades, [maker |-> r, taker |-> taker, price |-> ord[r].price, amount |-> Smaller(r)])
        /\ resting' = resting
        /\ late' = IF Smaller(r) = Engine!Left(taker) THEN {} ELSE late \ {r}
  BY DEF Match, Engine!Trade, Engine!Candidates
<1> DEFINE n == Smaller(r)
           t == [maker |-> r, taker |-> taker, price |-> ord[r].price, amount |-> n]
<1>4. /\ r # taker /\ r \in 1 .. submitted /\ r \in Orders
      /\ Engine!Left(r) > 0 /\ ord[r].kind = "LIMIT" /\ ord[r].price > 0
  BY <1>1, <1>2, <1>3, OrderFacts DEF EngineTypes, ExchangeInv, RestingOrders
<1>5. n \in Nat /\ 0 < n /\ n <= Engine!Left(r) /\ n <= Engine!Left(taker) /\ (n = Engine!Left(r) \/ n = Engine!Left(taker))
  <2>1. Engine!Left(r) \in Int /\ Engine!Left(taker) \in Int
    BY <1>1, <1>2, <1>4, OrderFacts
  <2> QED
    BY <1>2, <1>4, <2>1
<1>6. \A o \in Orders : filled'[o] = IF o = taker \/ o = r THEN filled[o] + n ELSE filled[o]
  <2>1. filled \in [Orders -> Nat] /\ filled' = [filled EXCEPT ![taker] = @ + n, ![r] = @ + n]
    BY <1>1, <1>3 DEF EngineTypes
  <2> HIDE DEF n
  <2> QED
    BY <1>2, <1>4, <2>1
<1>7. Len(trades) < MaxOrders
  <2>1. taker \notin FilledOrders
    BY <1>2 DEF FilledOrders
  <2>2. IsFiniteSet(1 .. submitted) /\ Cardinality(1 .. submitted) = submitted
    BY <1>2, FS_Interval
  <2>3. FilledOrders \cup {taker} \subseteq 1 .. submitted
    BY <1>2 DEF FilledOrders
  <2>4. IsFiniteSet(FilledOrders) /\ Cardinality(FilledOrders) \in Nat /\ Len(trades) \in Nat
    BY <1>1, TapeFacts
  <2>5. Cardinality(FilledOrders \cup {taker}) = Cardinality(FilledOrders) + 1
    BY <2>1, <2>4, FS_AddElement
  <2>6. Cardinality(FilledOrders \cup {taker}) <= submitted
    BY <2>2, <2>3, FS_Subset
  <2> QED
    BY <1>2, <2>4, <2>5, <2>6 DEF Fills
<1>8. trades' = Append(trades, t)
  BY <1>3, <1>7 DEF Engine!Record, MaxTrades
<1>9. /\ DOMAIN trades' = DOMAIN trades \cup {Len(trades) + 1} /\ Len(trades') = Len(trades) + 1
      /\ Len(trades) + 1 \notin DOMAIN trades
      /\ \A i \in DOMAIN trades : trades'[i] = trades[i]
      /\ trades'[Len(trades) + 1] = t
  <2>1. trades \in Seq(Tape) /\ Len(trades) \in Nat /\ DOMAIN trades = 1 .. Len(trades)
    BY <1>1, TapeFacts DEF EngineTypes
  <2> HIDE DEF t
  <2> QED
    BY <1>8, <2>1
<1>10. resting' = resting /\ late' \subseteq late
  BY <1>3
<1>11. TradeStep(r, n)
  <2>1. t = [maker |-> r, taker |-> taker, price |-> ord[r].price, amount |-> n]
    OBVIOUS
  <2> HIDE DEF n, t
  <2> QED
    BY <1>2, <1>3, <1>4, <1>5, <1>6, <1>9, <1>10, <2>1 DEF TradeStep
<1> QED
  BY <1>3, <1>5, <1>11

(* A step that neither brings an order to the engine nor trades.           *)
LEMMA TradingFrame ==
  ASSUME TradingInv, UNCHANGED <<ord, filled, submitted, trades, req, mine, ticks>>,
         taker' \in {taker, 0}, registered \subseteq registered',
         \A t \in Threads : pc'[t] = "enter" => pc[t] = "enter",
         pc'[BotLoop] # "start" => pc[BotLoop] # "start" \/ Bot \in registered',
         \A o \in Orders : cancel'[o] # "none" => ord[o].kind = "LIMIT"
  PROVE  TradingInv'
<1>1. Provenance'
  BY DEF TradingInv, Provenance, Origin, BotRequests, Made, Threads
<1>2. Owners'
  BY DEF TradingInv, Owners, Threads
<1>3. Deals'
  BY DEF TradingInv, Deals, Engine!Matches, Engine!Better
<1>4. Fills'
  BY DEF TradingInv, Fills, FilledOrders, Engine!Left
<1>5. LimitsAreCancelled'
  BY DEF LimitsAreCancelled
<1> QED
  BY <1>1, <1>2, <1>3, <1>4, <1>5 DEF TradingInv

(* A goroutine has decided on its request q.                               *)
LEMMA DecidedTrading ==
  ASSUME ExchangeInv, TradingInv, NEW t \in Threads, NEW q,
         (t \in Handlers /\ q \in DemoRequests /\ Request(t, q)) \/ (t = BotLoop /\ BotTick(q))
  PROVE  TradingInv'
<1> USE DEF cancelVars
<1>1. GoroutineTypes /\ BotLoop \notin Handlers /\ Handlers \subseteq Threads
  BY TypeParts DEF ExchangeInv, Threads, BotLoop, Handlers
<1>2. UNCHANGED <<engineVars, mine, cancel, registered>> /\ (t # BotLoop => ticks' = ticks)
  BY <1>1 DEF Request, BotTick, LockFunds, ledgerVars
<1>3. \A u \in Threads : u # t => pc'[u] = pc[u] /\ req'[u] = req[u]
  BY <1>1 DEF Request, BotTick, GoroutineTypes
<1>4. BotRequests \subseteq BotRequests'
  <2>1. CASE t # BotLoop
    BY <1>2, <2>1 DEF BotRequests
  <2>2. CASE t = BotLoop
    <3>1. ticks' = ticks + 1 /\ ticks \in Int /\ MaxSeeds \in Int
      BY <1>1, <2>2, ExchangeAssumption DEF BotTick, GoroutineTypes
    <3> QED
      BY <3>1 DEF BotRequests
  <2> QED
    BY <2>1, <2>2
<1>5. \A o \in 1 .. submitted : Origin(ord[o])'
  <2>1. ord' = ord /\ submitted' = submitted
    BY <1>2 DEF engineVars
  <2> QED
    BY <1>4, <2>1 DEF TradingInv, Provenance, Origin, Made
<1>6. t \in Handlers => Made(req'[t], Demo, q) /\ q \in DemoRequests
  <2> SUFFICES ASSUME t \in Handlers PROVE Made(req'[t], Demo, q) /\ q \in DemoRequests
    OBVIOUS
  <2>1. req' = [req EXCEPT ![t] = [user |-> Demo, side |-> q.side, kind |-> q.kind, price |-> q.price, amount |-> q.amount]]
    BY <1>1 DEF Request
  <2> QED
    BY <1>1, <2>1 DEF Made, GoroutineTypes
<1>7. t = BotLoop => Made(req'[BotLoop], Bot, q) /\ q \in BotRequests'
  <2> SUFFICES ASSUME t = BotLoop PROVE Made(req'[BotLoop], Bot, q) /\ q \in BotRequests'
    OBVIOUS
  <2>1. req' = [req EXCEPT ![BotLoop] = [user |-> Bot, side |-> q.side, kind |-> q.kind, price |-> q.price, amount |-> q.amount]]
    BY <1>1 DEF BotTick
  <2>2. Made(req'[BotLoop], Bot, q)
    BY <1>1, <2>1 DEF Made, GoroutineTypes
  <2>3. ticks \in Int /\ MaxSeeds \in Int /\ ticks' = ticks + 1
    BY <1>1, ExchangeAssumption DEF BotTick, GoroutineTypes
  <2>4. q \in SeedRequests \/ (ticks >= MaxSeeds /\ q \in PulseRequests)
    BY <1>1 DEF BotTick
  <2> QED
    BY <2>2, <2>3, <2>4 DEF BotRequests
<1>8. Provenance'
  <2>1. \A h \in Handlers : pc'[h] = "enter" => \E p \in DemoRequests : Made(req'[h], Demo, p)
    BY <1>1, <1>3, <1>6 DEF TradingInv, Provenance
  <2>2. pc'[BotLoop] = "enter" => \E p \in BotRequests' : Made(req'[BotLoop], Bot, p)
    BY <1>1, <1>3, <1>4, <1>7 DEF TradingInv, Provenance, Threads
  <2>3. \A o \in 1 .. submitted' : Origin(ord[o])'
    BY <1>2, <1>5 DEF engineVars
  <2> QED
    BY <2>1, <2>2, <2>3 DEF Provenance, Made
<1>9. Owners'
  <2>1. pc[BotLoop] = "start" => pc'[BotLoop] = "start"
    BY <1>1, <1>3 DEF BotTick, Threads
  <2> QED
    BY <1>2, <2>1 DEF TradingInv, Owners, engineVars, Threads
<1>10. Deals' /\ Fills' /\ LimitsAreCancelled'
  BY <1>2 DEF TradingInv, Deals, Fills, FilledOrders, LimitsAreCancelled, Engine!Left, Engine!Matches,
              Engine!Better, engineVars
<1> QED
  BY <1>8, <1>9, <1>10 DEF TradingInv

(* The engine takes an order: it is what its goroutine has decided on.     *)
LEMMA EnterTrading ==
  ASSUME ExchangeInv, TradingInv, NEW t \in Threads, Enter(t)
  PROVE  TradingInv'
<1> USE DEF cancelVars
<1>1. EngineTypes /\ GoroutineTypes /\ TypeOK
  BY TypeParts DEF ExchangeInv
<1>2. /\ submitted' = submitted + 1 /\ taker' = submitted + 1
      /\ ord' = [ord EXCEPT ![submitted + 1] = req[t]]
      /\ UNCHANGED <<filled, trades, registered, req, ticks, cancel>>
      /\ pc[t] = "enter" /\ pc' = [pc EXCEPT ![t] = "match"]
      /\ mine' = [mine EXCEPT ![t] = submitted + 1]
  BY DEF Enter, Engine!Submit, ledgerVars
<1>3. /\ submitted \in Nat /\ submitted + 1 \in Orders /\ 1 .. submitted' = 1 .. submitted \cup {submitted + 1}
      /\ \A o \in 1 .. submitted : o \in Orders /\ o # submitted + 1
  <2>1. submitted \in Nat /\ MaxOrders \in Nat /\ submitted < MaxOrders
    BY <1>1, OrderFacts DEF Enter, Engine!Submit
  <2> QED
    BY <1>2, <2>1 DEF Orders
<1>4. /\ \A o \in Orders : ord'[o] = IF o = submitted + 1 THEN req[t] ELSE ord[o]
      /\ \A u \in Threads : /\ pc'[u] = IF u = t THEN "match" ELSE pc[u]
                            /\ mine'[u] = IF u = t THEN submitted + 1 ELSE mine[u]
                            /\ mine[u] \in 0 .. submitted
  BY <1>1, <1>2, <1>3 DEF EngineTypes, GoroutineTypes
<1>5. Origin(req[t]) /\ req[t].user = (IF t = BotLoop THEN Bot ELSE Demo)
  <2>1. CASE t = BotLoop
    <3>1. \E q \in BotRequests : Made(req[t], Bot, q)
      BY <1>2, <2>1 DEF TradingInv, Provenance
    <3> QED
      BY <2>1, <3>1 DEF Origin, Made
  <2>2. CASE t # BotLoop
    <3>1. \E q \in DemoRequests : Made(req[t], Demo, q)
      BY <1>2, <2>2 DEF TradingInv, Provenance, Threads
    <3> QED
      BY <2>2, <3>1 DEF Origin, Made
  <2> QED
    BY <2>1, <2>2
<1>6. /\ req[t].user \in registered
      /\ pc'[BotLoop] # "start" => Bot \in registered
  <2>1. BotLoop \in Threads
    BY DEF Threads
  <2>2. pc[BotLoop] # "start" => Bot \in registered
    BY DEF TradingInv, Owners
  <2>3. Demo \in registered
    BY DEF TradingInv, Owners
  <2> QED
    BY <1>2, <1>4, <1>5, <2>1, <2>2, <2>3
<1>7. Provenance'
  <2>1. \A o \in 1 .. submitted' : Origin(ord'[o])
    BY <1>3, <1>4, <1>5 DEF TradingInv, Provenance
  <2>2. \A o \in 1 .. submitted' : Origin(ord[o])'
    BY <1>2, <2>1 DEF Origin, BotRequests, Made
  <2>3. \A u \in Threads : pc'[u] = "enter" => pc[u] = "enter"
    BY <1>4
  <2> QED
    BY <1>2, <2>2, <2>3 DEF TradingInv, Provenance, Threads, BotRequests, Made
<1>8. Owners'
  <2>1. \A u \in Threads : mine'[u] # 0 => ord'[mine'[u]].user = (IF u = BotLoop THEN Bot ELSE Demo)
    <3> SUFFICES ASSUME NEW u \in Threads, mine'[u] # 0
                 PROVE  ord'[mine'[u]].user = (IF u = BotLoop THEN Bot ELSE Demo)
      OBVIOUS
    <3>1. CASE u = t
      BY <1>3, <1>4, <1>5, <3>1
    <3>2. CASE u # t
      <4>1. mine[u] \in 1 .. submitted /\ mine'[u] = mine[u]
        BY <1>3, <1>4, <3>2
      <4> QED
        BY <1>3, <1>4, <4>1 DEF TradingInv, Owners
    <3> QED
      BY <3>1, <3>2
  <2>2. \E u \in Threads : mine'[u] = taker'
    BY <1>2, <1>4
  <2>3. \A o \in 1 .. submitted' : ord'[o].user \in registered'
    BY <1>2, <1>3, <1>4, <1>6 DEF TradingInv, Owners
  <2>4. Demo \in registered'
    BY <1>2 DEF TradingInv, Owners
  <2> QED
    BY <1>2, <1>6, <2>1, <2>2, <2>3, <2>4 DEF Owners
<1>9. Deals'
  <2>1. ASSUME NEW i \in DOMAIN trades
        PROVE  /\ trades[i].maker \in 1 .. submitted /\ trades[i].taker \in 1 .. submitted
               /\ ord[trades[i].maker].kind = "LIMIT" /\ Engine!Matches(trades[i].taker, trades[i].maker)
               /\ trades[i].price = ord[trades[i].maker].price
    BY DEF TradingInv, Deals
  <2>2. ASSUME NEW i \in DOMAIN trades
        PROVE  ord'[trades[i].maker] = ord[trades[i].maker] /\ ord'[trades[i].taker] = ord[trades[i].taker]
    BY <1>3, <1>4, <2>1
  <2>3. \A i \in DOMAIN trades : trades[i].maker \in 1 .. submitted' /\ trades[i].taker \in 1 .. submitted'
    BY <1>3, <2>1
  <2> QED
    BY <1>2, <2>1, <2>2, <2>3 DEF Deals, Engine!Matches, Engine!Better
<1>10. Fills'
  <2>1. \A o \in 1 .. submitted : Engine!Left(o)' = Engine!Left(o)
    BY <1>2, <1>3, <1>4 DEF Engine!Left
  <2>2. (submitted + 1)' = submitted + 2
    BY <1>2, <1>3
  <2>3. filled'[submitted + 1] = 0
    BY <1>2, <1>3 DEF TradingInv, Fills
  <2>4. ord'[submitted + 1].amount \in Nat
    <3>1. TypeOK'
      BY EnterInv DEF ExchangeInv
    <3>2. ord' \in [Orders -> Details \cup {Blank}]
      BY <3>1 DEF TypeOK
    <3>3. ord'[submitted + 1] \in Details \cup {Blank}
      BY <1>3, <3>2
    <3>4. \A d \in Details : d.amount \in Amounts
      BY DEF Details
    <3> QED
      BY <3>3, <3>4, Numbers DEF Blank
  <2>5. \A o \in 1 .. submitted' : ord'[o].amount - filled'[o] >= 0
    <3> SUFFICES ASSUME NEW o \in 1 .. submitted' PROVE ord'[o].amount - filled'[o] >= 0
      OBVIOUS
    <3>1. CASE o = submitted + 1
      BY <2>3, <2>4, <3>1
    <3>2. CASE o \in 1 .. submitted
      BY <1>2, <1>3, <1>4, <3>2 DEF TradingInv, Fills, Engine!Left
    <3> QED
      BY <1>3, <3>1, <3>2
  <2>6. \A o \in Orders : o > submitted' => filled'[o] = 0
    <3>1. \A o \in Orders : o \in Int
      BY DEF Orders
    <3> QED
      BY <1>2, <1>3, <3>1 DEF TradingInv, Fills
  <2>7. FilledOrders \subseteq FilledOrders'
    BY <1>3, <2>1 DEF FilledOrders
  <2>8. IsFiniteSet(FilledOrders') /\ Cardinality(FilledOrders') \in Nat
    <3>1. IsFiniteSet(1 .. submitted') /\ FilledOrders' \subseteq 1 .. submitted'
      BY <1>2, <1>3, FS_Interval DEF FilledOrders
    <3> QED
      BY <3>1, FS_Subset, FS_CardinalityType
  <2>9. Cardinality(FilledOrders) <= Cardinality(FilledOrders')
    BY <2>7, <2>8, FS_Subset
  <2>10. Len(trades') <= Cardinality(FilledOrders')
    BY <1>1, <1>2, <2>8, <2>9, TapeFacts DEF TradingInv, Fills
  <2> QED
    BY <2>5, <2>6, <2>10 DEF Fills, Engine!Left
<1>11. LimitsAreCancelled'
  BY <1>2, <1>3, <1>4 DEF TradingInv, LimitsAreCancelled, ExchangeInv, Cancellations
<1> QED
  BY <1>7, <1>8, <1>9, <1>10, <1>11 DEF TradingInv

(* The engine trades: it overfills nobody, and fills one of the two.       *)
LEMMA MatchTrading ==
  ASSUME ExchangeInv, TradingInv, Match
  PROVE  TradingInv'
<1> USE DEF cancelVars
<1>1. EngineTypes /\ TypeOK
  BY TypeParts DEF ExchangeInv
<1>2. UNCHANGED <<ord, submitted, taker, registered, pc, req, mine, ticks, cancel>>
  BY DEF Match, Engine!Trade, ledgerVars, threadVars
<1>3. PICK r \in resting \cup late, n \in Nat : TradeStep(r, n)
  BY MatchFacts DEF TradingInv
<1>4. Provenance' /\ Owners' /\ LimitsAreCancelled'
  BY <1>2 DEF TradingInv, Provenance, Owners, LimitsAreCancelled, Origin, BotRequests, Made
<1>5. Deals'
  <2>1. \A i \in DOMAIN trades' :
          \/ i \in DOMAIN trades /\ trades'[i] = trades[i]
          \/ trades'[i] = [maker |-> r, taker |-> taker, price |-> ord[r].price, amount |-> n]
    BY <1>3 DEF TradeStep
  <2>2. \A a, b : Engine!Matches(a, b)' <=> Engine!Matches(a, b)
    BY <1>2 DEF Engine!Matches, Engine!Better
  <2> SUFFICES ASSUME NEW i \in DOMAIN trades'
               PROVE  /\ trades'[i].maker \in 1 .. submitted /\ trades'[i].taker \in 1 .. submitted
                      /\ ord[trades'[i].maker].kind = "LIMIT"
                      /\ Engine!Matches(trades'[i].taker, trades'[i].maker)
                      /\ trades'[i].price = ord[trades'[i].maker].price
    BY <1>2, <2>2 DEF Deals, Engine!Matches, Engine!Better
  <2> QED
    BY <1>3, <2>1 DEF TradeStep, TradingInv, Deals
<1>6. Fills'
  <2>1. \A o \in 1 .. submitted : /\ o \in Orders /\ ord[o].amount \in Nat /\ filled[o] \in Nat
                                  /\ Engine!Left(o) = ord[o].amount - filled[o] /\ Engine!Left(o) >= 0
    BY <1>1, OrderFacts DEF TradingInv, Fills
  <2>2. \A o \in 1 .. submitted : ord[o].amount - filled'[o] = IF o = taker \/ o = r THEN Engine!Left(o) - n ELSE Engine!Left(o)
    BY <1>3, <2>1 DEF TradeStep
  <2>3. \A o \in 1 .. submitted : ord[o].amount - filled'[o] >= 0
    <3>1. n <= Engine!Left(r) /\ n <= Engine!Left(taker)
      BY <1>3 DEF TradeStep
    <3>2. \A o \in 1 .. submitted : Engine!Left(o) \in Int
      BY <2>1
    <3> QED
      BY <2>1, <2>2, <3>1, <3>2
  <2>4. \A o \in Orders : o > submitted => filled'[o] = 0
    <3>1. \A o \in Orders : o > submitted => o # taker /\ o # r
      <4>1. r \in 1 .. submitted /\ taker \in 1 .. submitted /\ submitted \in Nat
        BY <1>1, <1>3, OrderFacts DEF TradeStep
      <4> QED
        BY <4>1 DEF Orders
    <3> QED
      BY <1>3, <3>1 DEF TradeStep, TradingInv, Fills
  <2>5. FilledOrders \subseteq FilledOrders'
    <3> SUFFICES ASSUME NEW o \in FilledOrders PROVE o \in FilledOrders'
      OBVIOUS
    <3>1. o \in 1 .. submitted /\ Engine!Left(o) = 0
      BY DEF FilledOrders
    <3>2. o # taker /\ o # r
      BY <1>3, <2>1, <3>1 DEF TradeStep
    <3>3. ord[o].amount - filled'[o] = 0
      BY <2>2, <3>1, <3>2
    <3> QED
      BY <1>2, <3>1, <3>3 DEF FilledOrders, Engine!Left
  <2>6. PICK x \in {r, taker} : x \in 1 .. submitted /\ Engine!Left(x) > 0 /\ ord[x].amount - filled'[x] = 0
    <3>1. /\ n = Engine!Left(r) \/ n = Engine!Left(taker)
          /\ r \in 1 .. submitted /\ taker \in 1 .. submitted /\ 0 < n
      BY <1>3 DEF TradeStep
    <3> QED
      BY <2>1, <2>2, <3>1
  <2>7. x \in FilledOrders' /\ x \notin FilledOrders
    BY <1>2, <2>6 DEF FilledOrders, Engine!Left
  <2>8. IsFiniteSet(FilledOrders') /\ Cardinality(FilledOrders') \in Nat
    <3>1. IsFiniteSet(1 .. submitted') /\ FilledOrders' \subseteq 1 .. submitted'
      <4>1. submitted \in Nat /\ submitted' = submitted
        BY <1>1, <1>2, OrderFacts
      <4> QED
        BY <4>1, FS_Interval DEF FilledOrders
    <3> QED
      BY <3>1, FS_Subset, FS_CardinalityType
  <2>9. Cardinality(FilledOrders) + 1 <= Cardinality(FilledOrders')
    <3>1. FilledOrders \cup {x} \subseteq FilledOrders'
      BY <2>5, <2>7
    <3>2. Cardinality(FilledOrders \cup {x}) = Cardinality(FilledOrders) + 1
      BY <1>1, <2>7, TapeFacts, FS_AddElement
    <3> QED
      BY <2>8, <3>1, <3>2, FS_Subset
  <2>10. Len(trades') <= Cardinality(FilledOrders')
    <3>1. Len(trades') = Len(trades) + 1 /\ Len(trades) <= Cardinality(FilledOrders)
      BY <1>3 DEF TradeStep, TradingInv, Fills
    <3> QED
      BY <1>1, <2>8, <2>9, <3>1, TapeFacts
  <2> QED
    BY <1>2, <2>3, <2>4, <2>10 DEF Fills, Engine!Left
<1> QED
  BY <1>4, <1>5, <1>6 DEF TradingInv

(* Nothing has been placed yet.                                            *)
LEMMA TradingInitInv == Init => TradingInv
<1> SUFFICES ASSUME Init PROVE TradingInv
  OBVIOUS
<1>1. /\ submitted = 0 /\ taker = 0 /\ filled = [o \in Orders |-> 0]
      /\ trades = <<>> /\ DOMAIN trades = {} /\ Len(trades) = 0
  BY EmptySeq DEF Init, Engine!Init, Orders
<1>2. Provenance
  BY <1>1 DEF Init, Provenance, Threads, Handlers, BotLoop
<1>3. Owners
  BY <1>1 DEF Init, Owners, Threads
<1>4. Deals
  BY <1>1 DEF Deals
<1>5. Fills
  <2>1. FilledOrders = {} /\ 1 .. submitted = {}
    BY <1>1 DEF FilledOrders
  <2>2. Cardinality(FilledOrders) = 0
    BY <2>1, FS_EmptySet
  <2> QED
    BY <1>1, <2>1, <2>2 DEF Fills
<1>6. LimitsAreCancelled
  BY DEF Init, LimitsAreCancelled
<1> QED
  BY <1>2, <1>3, <1>4, <1>5, <1>6 DEF TradingInv

(* Every step keeps it.                                                    *)
LEMMA TradingNextInv ==
  ASSUME ExchangeInv, TradingInv, [Next]_vars
  PROVE  TradingInv'
<1> USE DEF cancelVars
<1>1. TypeOK /\ GoroutineTypes /\ BotLoop \in Threads /\ BotLoop \notin Handlers
  BY TypeParts DEF ExchangeInv, Threads, BotLoop, Handlers
<1>2. \A o \in Orders : cancel[o] # "none" => ord[o].kind = "LIMIT"
  BY DEF TradingInv, LimitsAreCancelled
<1>3. CASE UNCHANGED <<registered, engineVars, threadVars, cancel>>
  <2>1. UNCHANGED <<ord, filled, submitted, trades, req, mine, ticks, pc, taker>>
    BY <1>3 DEF engineVars, threadVars
  <2> QED
    BY <1>2, <1>3, <2>1, TradingFrame
<1>4. ASSUME NEW h \in Handlers, RecordOrder(h) PROVE TradingInv'
  <2>1. UNCHANGED <<ord, filled, submitted, trades, req, mine, ticks, taker, registered, cancel>>
    BY <1>4 DEF RecordOrder, ledgerVars, engineVars
  <2>2. pc' = [pc EXCEPT ![h] = "done"] /\ h \in Threads /\ h # BotLoop
    BY <1>1, <1>4 DEF RecordOrder, Threads
  <2>3. \A t \in Threads : pc'[t] = IF t = h THEN "done" ELSE pc[t]
    BY <1>1, <2>2 DEF GoroutineTypes
  <2>4. pc'[BotLoop] = pc[BotLoop]
    BY <1>1, <2>2, <2>3
  <2> QED
    BY <1>2, <2>1, <2>3, <2>4, TradingFrame
<1>5. ASSUME NEW t \in Threads, Leave(t) PROVE TradingInv'
  <2>1. UNCHANGED <<ord, filled, submitted, trades, req, mine, ticks, registered, cancel>> /\ taker' = 0
    BY <1>5 DEF Leave, Engine!Finish, ledgerVars
  <2>2. \A u \in Threads : pc'[u] = IF u = t THEN AfterMatch(t) ELSE pc[u]
    BY <1>1, <1>5 DEF Leave, GoroutineTypes
  <2>3. AfterMatch(t) # "enter" /\ pc[t] = "match"
    BY <1>5 DEF AfterMatch, Leave
  <2>4. pc'[BotLoop] # "start" => pc[BotLoop] # "start"
    BY <1>1, <2>2, <2>3
  <2> QED
    BY <1>2, <2>1, <2>2, <2>3, <2>4, TradingFrame
<1>6. ASSUME BotStart \/ BotWait PROVE TradingInv'
  <2>1. UNCHANGED <<ord, filled, submitted, trades, req, mine, ticks, taker, cancel>>
    BY <1>6 DEF BotStart, BotWait, engineVars
  <2>2. \A t \in Threads : pc'[t] = IF t = BotLoop THEN "idle" ELSE pc[t]
    BY <1>1, <1>6 DEF BotStart, BotWait, GoroutineTypes
  <2>3. registered \subseteq registered' /\ (pc[BotLoop] = "start" => Bot \in registered')
    BY <1>6 DEF BotStart, BotWait, RegisterUser, ledgerVars
  <2> QED
    BY <1>2, <2>1, <2>2, <2>3, TradingFrame
<1>7. ASSUME NEW o \in Orders, CancelInEngine(o) PROVE TradingInv'
  <2>1. UNCHANGED <<ord, filled, submitted, trades, req, mine, ticks, taker, pc, registered>>
    BY <1>7 DEF CancelInEngine, Engine!Withdraw, ledgerVars, threadVars
  <2>2. ord[o].kind = "LIMIT"
    BY <1>7 DEF CancelInEngine, Engine!Withdraw, ExchangeInv, RestingOrders
  <2>3. \A p \in Orders : p # o => cancel'[p] = cancel[p]
    BY <1>1, <1>7 DEF CancelInEngine, GoroutineTypes
  <2> QED
    BY <1>2, <2>1, <2>2, <2>3, TradingFrame
<1>8. ASSUME NEW o \in Orders, CancelRead(o) \/ CancelUnlock(o) \/ CancelRecord(o) PROVE TradingInv'
  <2>1. UNCHANGED <<ord, filled, submitted, trades, req, mine, ticks, taker, pc, registered>>
    BY <1>8 DEF CancelRead, CancelUnlock, CancelRecord, UnlockFunds, ledgerVars, engineVars, threadVars
  <2>2. cancel[o] # "none" /\ \A p \in Orders : p # o => cancel'[p] = cancel[p]
    BY <1>1, <1>8 DEF CancelRead, CancelUnlock, CancelRecord, GoroutineTypes
  <2> QED
    BY <1>2, <2>1, <2>2, TradingFrame
<1>9. ASSUME NEW h \in Handlers, NEW q \in DemoRequests, Request(h, q) PROVE TradingInv'
  <2>1. h \in Threads
    BY DEF Threads
  <2> QED
    BY <1>9, <2>1, DecidedTrading
<1>10. ASSUME NEW q \in SeedRequests \cup PulseRequests, BotTick(q) PROVE TradingInv'
  BY <1>1, <1>10, DecidedTrading
<1>a. ASSUME TakeOut PROVE TradingInv'
  <2>1. UNCHANGED <<ord, filled, submitted, trades, req, mine, ticks, taker, pc, registered, cancel>>
    BY <1>a DEF TakeOut, Engine!Remove, ledgerVars, threadVars, cancelVars
  <2> QED
    BY <1>2, <2>1, TradingFrame
<1>11. [Next]_vars =>
         \/ \E h \in Handlers, q \in DemoRequests : Request(h, q)
         \/ \E h \in Handlers : RecordOrder(h)
         \/ \E t \in Threads : Enter(t) \/ Leave(t)
         \/ Match \/ TakeOut \/ BotStart \/ BotWait
         \/ \E q \in SeedRequests \cup PulseRequests : BotTick(q)
         \/ \E o \in Orders : CancelInEngine(o) \/ CancelRead(o) \/ CancelUnlock(o) \/ CancelRecord(o)
         \/ UNCHANGED <<registered, engineVars, threadVars, cancel>>
  BY DEF Next, Place, Shared, Market, Delete, Settle, SettleTrade, Faucet, FaucetCall, FaucetRead,
         FaucetWrite, ledgerVars, vars
<1> QED
  BY <1>3, <1>4, <1>5, <1>6, <1>7, <1>8, <1>9, <1>a, <1>10, <1>11, EnterTrading, MatchTrading

(* Whatever the requests, the bot and the cancellations interleave to: no  *)
(* order is overfilled, every trade fills one of its two orders, trades    *)
(* are between opposite sides at a price the taker takes, at the price of  *)
(* a resting limit order, and every order is the one its goroutine asked   *)
(* for (matching_engine.go:29-153, main.go:207-287, 360-410).  It says     *)
(* nothing of orders that share an ID.                                     *)
THEOREM TradingIsSound == Spec => []TradingInv
<1>1. Init => ExchangeInv /\ TradingInv
  BY ExchangeInitInv, TradingInitInv
<1>2. (ExchangeInv /\ TradingInv) /\ [Next]_vars => (ExchangeInv /\ TradingInv)'
  BY ExchangeNextInv, TradingNextInv
<1>3. ExchangeInv /\ TradingInv => TradingInv
  OBVIOUS
<1> QED
  BY <1>1, <1>2, <1>3, PTL DEF Spec
-----------------------------------------------------------------------------
\* A limit order without a price may trade, and its trades are never settled.
LimitsHavePrices == \A q \in DemoRequests : q.kind = "LIMIT" => q.price > 0

\* The seed's trades are never settled either: it must reach no resting order.
SeedsMeetNobody ==
  \A s \in SeedRequests, q \in DemoRequests \cup SeedRequests :
    q.kind = "LIMIT" /\ q.side # s.side =>
      IF s.side = "BUY" THEN s.price < q.price ELSE s.price > q.price

\* What user u was registered with, and how each trade changes what it holds.
Endowed(u, c) == IF u \in registered THEN Funds[u][c] ELSE 0
Gains(u, c) == [i \in DOMAIN trades |-> Change(u, c, i)]

\* The seed has traded with nobody.
SeedTradesNothing ==
  ticks <= MaxSeeds => \A i \in DOMAIN trades : ord[trades[i].taker].user = Demo

\* A trade that is not settled has a goroutine at work that will settle it.
TradesInHand ==
  \A i \in DOMAIN trades \ settled :
    \E t \in Threads : mine[t] = trades[i].taker /\ pc[t] \in {"match", "settle"}

\* Every account holds what its user started with and what the settled trades have changed.
AccountsFollowTrades ==
  \A u \in Users, c \in Currencies :
    Holdings(u, c) = Endowed(u, c) + SumFunctionOnSet(Gains(u, c), settled)

(* Whoever is in the middle of what, the accounts follow the trades that   *)
(* are settled, and nobody drops one that is not.                          *)
PositionsInv == TradingInv /\ SeedTradesNothing /\ TradesInHand /\ AccountsFollowTrades

\* What user u holds in currency c of the accounts acc.
Held(acc, u, c) == acc[u][c].available + acc[u][c].locked

\* Add changes what one user holds in one currency.
LEMMA AddHolds ==
  ASSUME NEW acc \in Accounts, NEW u \in Users, NEW c \in Currencies, NEW a \in Int, NEW l \in Int
  PROVE  \A v \in Users, d \in Currencies :
           /\ Held(acc, v, d) \in Int
           /\ Held(Add(acc, u, c, a, l), v, d) = Held(acc, v, d) + (IF v = u /\ d = c THEN a + l ELSE 0)
<1> SUFFICES ASSUME NEW v \in Users, NEW d \in Currencies
             PROVE  /\ Held(acc, v, d) \in Int
                    /\ Held(Add(acc, u, c, a, l), v, d) = Held(acc, v, d) + (IF v = u /\ d = c THEN a + l ELSE 0)
  OBVIOUS
<1>1. acc[v][d] \in Balance /\ acc[u][c] \in Balance
  BY DEF Accounts
<1>2. /\ acc[v][d].available \in Int /\ acc[v][d].locked \in Int
      /\ acc[u][c].available \in Int /\ acc[u][c].locked \in Int
  BY <1>1 DEF Balance
<1> DEFINE b == [available |-> acc[u][c].available + a, locked |-> acc[u][c].locked + l]
<1>3. b.available = acc[u][c].available + a /\ b.locked = acc[u][c].locked + l
  OBVIOUS
<1>4. Add(acc, u, c, a, l)[v][d] = IF v = u /\ d = c THEN b ELSE acc[v][d]
  <2>1. acc \in [Users -> [Currencies -> Balance]] /\ acc[u] \in [Currencies -> Balance]
    BY DEF Accounts
  <2> QED
    BY <2>1 DEF Add
<1> HIDE DEF b
<1>5. CASE v = u /\ d = c
  <2>1. Add(acc, u, c, a, l)[v][d] = b
    BY <1>4, <1>5
  <2> QED
    BY <1>2, <1>3, <1>5, <2>1 DEF Held
<1>6. CASE ~(v = u /\ d = c)
  <2>1. Add(acc, u, c, a, l)[v][d] = acc[v][d]
    BY <1>4, <1>6
  <2> QED
    BY <1>2, <1>6, <2>1 DEF Held
<1> QED
  BY <1>5, <1>6

(* Escrow moves within a balance.                                          *)
LEMMA EscrowHolds ==
  ASSUME accounts \in Accounts, NEW u \in Users, NEW c \in Currencies, NEW amount \in Int,
         LockFunds(u, c, amount) \/ UnlockFunds(u, c, amount)
  PROVE  \A v \in Users, d \in Currencies : Held(accounts', v, d) = Held(accounts, v, d)
<1> SUFFICES ASSUME NEW v \in Users, NEW d \in Currencies PROVE Held(accounts', v, d) = Held(accounts, v, d)
  OBVIOUS
<1>1. -amount \in Int /\ amount + (-amount) = 0 /\ (-amount) + amount = 0
  OBVIOUS
<1>2. \/ accounts' = accounts
      \/ accounts' = Add(accounts, u, c, -amount, amount)
      \/ accounts' = Add(accounts, u, c, amount, -amount)
  BY DEF LockFunds, UnlockFunds
<1>3. CASE accounts' = Add(accounts, u, c, -amount, amount)
  <2>1. Held(accounts, v, d) \in Int /\ Held(accounts', v, d) = Held(accounts, v, d) + 0
    BY <1>1, <1>3, AddHolds
  <2> QED
    BY <2>1
<1>4. CASE accounts' = Add(accounts, u, c, amount, -amount)
  <2>1. Held(accounts, v, d) \in Int /\ Held(accounts', v, d) = Held(accounts, v, d) + 0
    BY <1>1, <1>4, AddHolds
  <2> QED
    BY <2>1
<1> QED
  BY <1>2, <1>3, <1>4

(* Settlement gives the buyer base for quote, and the seller the reverse.  *)
LEMMA SettlementHolds ==
  ASSUME accounts \in Accounts, NEW buyer \in registered, NEW seller \in registered, registered \subseteq Users,
         NEW amount \in Int, NEW price \in Int, NEW isBuyerMaker,
         SettleTrade(buyer, seller, amount, price, isBuyerMaker)
  PROVE  \A v \in Users :
           LET bought == (IF buyer = v THEN 1 ELSE 0) - (IF seller = v THEN 1 ELSE 0)
           IN  /\ Held(accounts', v, "ETH") = Held(accounts, v, "ETH") + bought * amount
               /\ Held(accounts', v, "USDT") = Held(accounts, v, "USDT") - bought * (amount * price)
<1> SUFFICES ASSUME NEW v \in Users
             PROVE  LET bought == (IF buyer = v THEN 1 ELSE 0) - (IF seller = v THEN 1 ELSE 0)
                    IN  /\ Held(accounts', v, "ETH") = Held(accounts, v, "ETH") + bought * amount
                        /\ Held(accounts', v, "USDT") = Held(accounts, v, "USDT") - bought * (amount * price)
  OBVIOUS
<1> DEFINE quote == amount * price
           paid == IF isBuyerMaker THEN Add(accounts, buyer, "USDT", 0, -quote)
                                   ELSE Add(accounts, buyer, "USDT", -quote, 0)
           received == Add(paid, buyer, "ETH", amount, 0)
           delivered == IF isBuyerMaker THEN Add(received, seller, "ETH", -amount, 0)
                                        ELSE Add(received, seller, "ETH", 0, -amount)
           final == Add(delivered, seller, "USDT", quote, 0)
<1>1. accounts' = final
  BY DEF SettleTrade
<1>2. quote \in Int /\ -quote \in Int /\ -amount \in Int /\ 0 \in Int /\ quote = amount * price
  OBVIOUS
<1>3. "USDT" \in Currencies /\ "ETH" \in Currencies /\ "USDT" # "ETH" /\ buyer \in Users /\ seller \in Users
  BY DEF Currencies
<1> HIDE DEF quote
<1>4. /\ paid \in Accounts
      /\ Held(accounts, v, "USDT") \in Int /\ Held(accounts, v, "ETH") \in Int
      /\ Held(paid, v, "USDT") = Held(accounts, v, "USDT") + (IF v = buyer THEN -quote ELSE 0)
      /\ Held(paid, v, "ETH") = Held(accounts, v, "ETH") + 0
  <2>1. 0 + (-quote) = -quote /\ -quote + 0 = -quote
    BY <1>2
  <2>2. CASE isBuyerMaker
    BY <1>2, <1>3, <2>1, <2>2, AddOK, AddHolds
  <2>3. CASE ~isBuyerMaker
    BY <1>2, <1>3, <2>1, <2>3, AddOK, AddHolds
  <2> QED
    BY <2>2, <2>3
<1> HIDE DEF paid
<1>5. /\ received \in Accounts
      /\ Held(received, v, "USDT") = Held(paid, v, "USDT") + 0
      /\ Held(received, v, "ETH") = Held(paid, v, "ETH") + (IF v = buyer THEN amount ELSE 0)
  <2>1. amount + 0 = amount
    OBVIOUS
  <2> QED
    BY <1>2, <1>3, <1>4, <2>1, AddOK, AddHolds
<1> HIDE DEF received
<1>6. /\ delivered \in Accounts
      /\ Held(delivered, v, "USDT") = Held(received, v, "USDT") + 0
      /\ Held(delivered, v, "ETH") = Held(received, v, "ETH") + (IF v = seller THEN -amount ELSE 0)
  <2>1. 0 + (-amount) = -amount /\ -amount + 0 = -amount
    OBVIOUS
  <2>2. CASE isBuyerMaker
    BY <1>2, <1>3, <1>5, <2>1, <2>2, AddOK, AddHolds
  <2>3. CASE ~isBuyerMaker
    BY <1>2, <1>3, <1>5, <2>1, <2>3, AddOK, AddHolds
  <2> QED
    BY <2>2, <2>3
<1> HIDE DEF delivered
<1>7. /\ Held(final, v, "USDT") = Held(delivered, v, "USDT") + (IF v = seller THEN quote ELSE 0)
      /\ Held(final, v, "ETH") = Held(delivered, v, "ETH") + 0
  <2>1. quote + 0 = quote
    BY <1>2
  <2> QED
    BY <1>2, <1>3, <1>6, <2>1, AddHolds
<1> HIDE DEF final
<1>8. CASE v = buyer /\ v = seller
  BY <1>1, <1>2, <1>4, <1>5, <1>6, <1>7, <1>8
<1>9. CASE v = buyer /\ v # seller
  BY <1>1, <1>2, <1>4, <1>5, <1>6, <1>7, <1>9
<1>10. CASE v # buyer /\ v = seller
  BY <1>1, <1>2, <1>4, <1>5, <1>6, <1>7, <1>10
<1>11. CASE v # buyer /\ v # seller
  BY <1>1, <1>2, <1>4, <1>5, <1>6, <1>7, <1>11
<1> QED
  BY <1>8, <1>9, <1>10, <1>11

\* The sum of what the settled trades have changed is one of integers.
LEMMA ChangeFacts ==
  ASSUME TypeOK
  PROVE  /\ \A u, c : \A i \in DOMAIN trades : Change(u, c, i) \in Int /\ Gains(u, c)[i] = Change(u, c, i)
         /\ IsFiniteSet(settled) /\ settled \subseteq DOMAIN trades
<1>1. settled \subseteq DOMAIN trades
  BY DEF TypeOK
<1>2. IsFiniteSet(settled)
  BY <1>1, TapeFacts, FS_Subset
<1>3. \A u, c : \A i \in DOMAIN trades : Gains(u, c)[i] = Change(u, c, i)
  BY DEF Gains
<1>4. ASSUME NEW u, NEW c, NEW i \in DOMAIN trades PROVE Change(u, c, i) \in Int
  <2>1. trades[i].price \in Int /\ trades[i].amount \in Int
    BY TapeFacts
  <2> DEFINE buy == IF ord[trades[i].maker].side = "BUY" THEN trades[i].maker ELSE trades[i].taker
             sell == IF ord[trades[i].maker].side = "BUY" THEN trades[i].taker ELSE trades[i].maker
             bought == (IF ord[buy].user = u THEN 1 ELSE 0) - (IF ord[sell].user = u THEN 1 ELSE 0)
  <2>2. bought \in Int
    OBVIOUS
  <2>3. Change(u, c, i) = IF c = "ETH" THEN bought * trades[i].amount ELSE -bought * trades[i].amount * trades[i].price
    BY DEF Change
  <2> HIDE DEF bought
  <2> QED
    BY <2>1, <2>2, <2>3
<1> QED
  BY <1>1, <1>2, <1>3, <1>4

\* What has been settled changes nothing any more.
LEMMA GainsKept ==
  ASSUME TypeOK, Deals, settled' = settled,
         \A o \in 1 .. submitted : ord'[o] = ord[o],
         \A i \in DOMAIN trades : i \in DOMAIN trades' /\ trades'[i] = trades[i]
  PROVE  \A u \in Users, c \in Currencies :
           SumFunctionOnSet(Gains(u, c)', settled') = SumFunctionOnSet(Gains(u, c), settled)
<1> SUFFICES ASSUME NEW u \in Users, NEW c \in Currencies
             PROVE  SumFunctionOnSet(Gains(u, c)', settled) = SumFunctionOnSet(Gains(u, c), settled)
  OBVIOUS
<1>1. IsFiniteSet(settled) /\ settled \subseteq DOMAIN trades
  BY ChangeFacts
<1>2. ASSUME NEW i \in settled PROVE Gains(u, c)'[i] = Gains(u, c)[i]
  <2>1. i \in DOMAIN trades /\ i \in DOMAIN trades' /\ trades'[i] = trades[i]
    BY <1>1
  <2>2. ord'[trades[i].maker] = ord[trades[i].maker] /\ ord'[trades[i].taker] = ord[trades[i].taker]
    BY <2>1 DEF Deals
  <2>3. Gains(u, c)'[i] = Change(u, c, i)' /\ Gains(u, c)[i] = Change(u, c, i)
    BY <2>1 DEF Gains, Change
  <2>4. Change(u, c, i)' = Change(u, c, i)
    BY <2>1, <2>2 DEF Change
  <2> QED
    BY <2>3, <2>4
<1> QED
  BY <1>1, <1>2, SumCongruence

(* A step that settles nothing, trades nothing, registers nobody and moves *)
(* money only within accounts; no goroutine leaves a trade behind.         *)
LEMMA PositionsFrame ==
  ASSUME TypeOK, PositionsInv, TradingInv', UNCHANGED <<registered, trades, settled>>,
         ticks' = ticks \/ ticks' = ticks + 1,
         \A o \in 1 .. submitted : ord'[o] = ord[o],
         \A u \in Users, c \in Currencies : Held(accounts', u, c) = Held(accounts, u, c),
         \A t \in Threads : pc[t] \in {"match", "settle"} =>
            mine'[t] = mine[t] /\ (pc'[t] \in {"match", "settle"} \/ ToSettle(t) = {})
  PROVE  PositionsInv'
<1>1. Deals /\ TradingInv
  BY DEF PositionsInv, TradingInv
<1>2. SeedTradesNothing'
  <2>1. ticks \in Int /\ MaxSeeds \in Int
    BY ExchangeAssumption DEF TypeOK
  <2>2. ticks' <= MaxSeeds => ticks <= MaxSeeds
    BY <2>1
  <2> QED
    BY <1>1, <2>2 DEF PositionsInv, SeedTradesNothing, Deals
<1>3. TradesInHand'
  <2> SUFFICES ASSUME NEW i \in DOMAIN trades \ settled
               PROVE  \E t \in Threads : mine'[t] = trades[i].taker /\ pc'[t] \in {"match", "settle"}
    BY DEF TradesInHand
  <2>1. PICK t \in Threads : mine[t] = trades[i].taker /\ pc[t] \in {"match", "settle"}
    BY DEF PositionsInv, TradesInHand
  <2>2. i \in ToSettle(t)
    BY <2>1 DEF ToSettle
  <2> QED
    BY <2>1, <2>2
<1>4. AccountsFollowTrades'
  <2> SUFFICES ASSUME NEW u \in Users, NEW c \in Currencies
               PROVE  Held(accounts', u, c) = Endowed(u, c)' + SumFunctionOnSet(Gains(u, c)', settled')
    BY DEF AccountsFollowTrades, Holdings, Held
  <2>1. Held(accounts', u, c) = Endowed(u, c) + SumFunctionOnSet(Gains(u, c), settled)
    BY DEF PositionsInv, AccountsFollowTrades, Holdings, Held
  <2>2. Endowed(u, c)' = Endowed(u, c)
    BY DEF Endowed
  <2>3. SumFunctionOnSet(Gains(u, c)', settled') = SumFunctionOnSet(Gains(u, c), settled)
    BY <1>1, GainsKept
  <2> QED
    BY <2>1, <2>2, <2>3
<1> QED
  BY <1>2, <1>3, <1>4 DEF PositionsInv

(* Once the seed is in, its orders meet nothing they could trade with.     *)
LEMMA SeedMeetsNobody ==
  ASSUME SeedsMeetNobody, ExchangeInv, TradingInv, NEW r \in 1 .. submitted, taker \in 1 .. submitted,
         ord[r].kind = "LIMIT", Engine!Matches(taker, r), ticks <= MaxSeeds
  PROVE  ord[taker].user = Demo
<1> SUFFICES ASSUME ord[taker].user # Demo PROVE FALSE
  OBVIOUS
<1>1. BotRequests = SeedRequests
  BY DEF BotRequests
<1>2. PICK s \in SeedRequests : Made(ord[taker], Bot, s)
  <2>1. Origin(ord[taker])
    BY DEF TradingInv, Provenance
  <2>2. ~ \E q \in DemoRequests : Made(ord[taker], Demo, q)
    BY MadeFacts
  <2>3. \E s \in BotRequests : Made(ord[taker], Bot, s)
    BY <2>1, <2>2 DEF Origin
  <2> QED
    BY <1>1, <2>3
<1>3. PICK q \in DemoRequests \cup SeedRequests : Made(ord[r], Demo, q) \/ Made(ord[r], Bot, q)
  BY <1>1 DEF TradingInv, Provenance, Origin
<1>4. s \in Requests /\ s.kind = "LIMIT" /\ q \in Requests
  BY ExchangeAssumption
<1>5. s.price \in Prices \cup {0} /\ q.price \in Prices \cup {0} /\ q.side \in {"BUY", "SELL"} /\ s.side \in {"BUY", "SELL"}
  BY <1>4 DEF Requests
<1>6. s.price \in Int /\ q.price \in Int
  BY <1>5, Numbers
<1>7. /\ ord[taker].side = s.side /\ ord[taker].price = s.price /\ ord[taker].kind = "LIMIT"
      /\ ord[r].side = q.side /\ ord[r].price = q.price /\ q.kind = "LIMIT"
  BY <1>2, <1>3, <1>4 DEF Made
<1>8. q.side # s.side /\ ~Engine!Better(q.side, s.price, q.price)
  BY <1>7 DEF Engine!Matches
<1>9. IF s.side = "BUY" THEN s.price < q.price ELSE s.price > q.price
  BY <1>7, <1>8 DEF SeedsMeetNobody
<1> QED
  BY <1>5, <1>6, <1>8, <1>9 DEF Engine!Better

(* The engine trades: its goroutine has the trade in hand.                 *)
LEMMA MatchPositions ==
  ASSUME SeedsMeetNobody, ExchangeInv, PositionsInv, Match
  PROVE  PositionsInv'
<1>1. TypeOK /\ TradingInv /\ Fills /\ Deals
  BY DEF ExchangeInv, PositionsInv, TradingInv
<1>2. TradingInv'
  BY <1>1, MatchTrading
<1>3. UNCHANGED <<ord, submitted, taker, registered, accounts, pc, mine, ticks, settled>>
  BY DEF Match, Engine!Trade, ledgerVars, threadVars
<1>4. PICK r \in resting \cup late, n \in Nat : TradeStep(r, n)
  BY <1>1, MatchFacts
<1>5. \A i \in DOMAIN trades' :
        \/ i \in DOMAIN trades /\ trades'[i] = trades[i]
        \/ trades'[i].taker = taker
  BY <1>4 DEF TradeStep
<1>6. SeedTradesNothing'
  <2>1. ticks <= MaxSeeds => ord[taker].user = Demo
    BY <1>1, <1>4, SeedMeetsNobody DEF TradeStep
  <2> QED
    BY <1>3, <1>5, <2>1 DEF PositionsInv, SeedTradesNothing
<1>7. TradesInHand'
  <2>1. \E t \in Threads : mine[t] = taker /\ pc[t] = "match"
    BY <1>1, <1>4 DEF TradingInv, Owners, ExchangeInv, Goroutines, TradeStep, Match, Engine!Trade
  <2> QED
    BY <1>3, <1>5, <2>1 DEF PositionsInv, TradesInHand
<1>8. AccountsFollowTrades'
  <2> SUFFICES ASSUME NEW u \in Users, NEW c \in Currencies
               PROVE  Holdings(u, c) = Endowed(u, c) + SumFunctionOnSet(Gains(u, c)', settled')
    BY <1>3 DEF AccountsFollowTrades, Holdings, Endowed
  <2>1. \A i \in DOMAIN trades : i \in DOMAIN trades' /\ trades'[i] = trades[i]
    BY <1>4 DEF TradeStep
  <2>2. SumFunctionOnSet(Gains(u, c)', settled') = SumFunctionOnSet(Gains(u, c), settled)
    BY <1>1, <1>3, <2>1, GainsKept
  <2> QED
    BY <2>2 DEF PositionsInv, AccountsFollowTrades
<1> QED
  BY <1>2, <1>6, <1>7, <1>8 DEF PositionsInv

(* A trade is settled: both accounts change by what it says.               *)
LEMMA SettlePositions ==
  ASSUME ExchangeInv, PositionsInv, NEW t \in Threads, Settle(t), TradingInv'
  PROVE  PositionsInv'
<1>1. TypeOK /\ TradingInv /\ Deals /\ LedgerTypes
  BY TypeParts DEF ExchangeInv, PositionsInv, TradingInv
<1>2. UNCHANGED <<registered, ord, submitted, trades, pc, mine, ticks>>
  BY DEF Settle, SettleTrade, engineVars, threadVars
<1>3. PICK i \in ToSettle(t) :
        LET trd == trades[i]
            buy == IF ord[trd.maker].side = "BUY" THEN trd.maker ELSE trd.taker
            sell == IF ord[trd.maker].side = "BUY" THEN trd.taker ELSE trd.maker
        IN  /\ SettleTrade(ord[buy].user, ord[sell].user, trd.amount, trd.price, IsBuyerMaker(t, trd))
            /\ settled' = settled \cup {i}
  BY DEF Settle
<1> DEFINE trd == trades[i]
           buy == IF ord[trd.maker].side = "BUY" THEN trd.maker ELSE trd.taker
           sell == IF ord[trd.maker].side = "BUY" THEN trd.taker ELSE trd.maker
<1>4. /\ SettleTrade(ord[buy].user, ord[sell].user, trd.amount, trd.price, IsBuyerMaker(t, trd))
      /\ settled' = settled \cup {i} /\ i \in DOMAIN trades /\ i \notin settled
  BY <1>3 DEF ToSettle
<1>5. trd.amount \in Int /\ trd.price \in Int
  BY <1>1, <1>4, TapeFacts
<1>6. ord[buy].user \in registered /\ ord[sell].user \in registered
  BY <1>1, <1>4 DEF Deals, TradingInv, Owners
<1>7. \A u \in Users :
        LET bought == (IF ord[buy].user = u THEN 1 ELSE 0) - (IF ord[sell].user = u THEN 1 ELSE 0)
        IN  /\ Held(accounts', u, "ETH") = Held(accounts, u, "ETH") + bought * trd.amount
            /\ Held(accounts', u, "USDT") = Held(accounts, u, "USDT") - bought * (trd.amount * trd.price)
  <2>1. accounts \in Accounts /\ registered \subseteq Users
    BY <1>1 DEF LedgerTypes
  <2> DEFINE buyer == ord[buy].user
             seller == ord[sell].user
             flag == IsBuyerMaker(t, trd)
  <2>2. SettleTrade(buyer, seller, trd.amount, trd.price, flag)
    BY <1>4
  <2>3. buyer \in registered /\ seller \in registered
    BY <1>6
  <2> HIDE DEF buyer, seller, flag, trd
  <2>4. \A u \in Users :
          LET bought == (IF buyer = u THEN 1 ELSE 0) - (IF seller = u THEN 1 ELSE 0)
          IN  /\ Held(accounts', u, "ETH") = Held(accounts, u, "ETH") + bought * trd.amount
              /\ Held(accounts', u, "USDT") = Held(accounts, u, "USDT") - bought * (trd.amount * trd.price)
    BY <1>5, <2>1, <2>2, <2>3, SettlementHolds
  <2> QED
    BY <2>4 DEF buyer, seller
<1>8. ASSUME NEW u \in Users, NEW c \in Currencies
      PROVE  Held(accounts', u, c) = Held(accounts, u, c) + Change(u, c, i) /\ Held(accounts, u, c) \in Int
  <2> DEFINE bought == (IF ord[buy].user = u THEN 1 ELSE 0) - (IF ord[sell].user = u THEN 1 ELSE 0)
  <2>1. bought \in {-1, 0, 1}
    OBVIOUS
  <2>2. Change(u, c, i) = IF c = "ETH" THEN bought * trd.amount ELSE -bought * trd.amount * trd.price
    BY DEF Change
  <2>3. /\ Held(accounts', u, "ETH") = Held(accounts, u, "ETH") + bought * trd.amount
        /\ Held(accounts', u, "USDT") = Held(accounts, u, "USDT") - bought * (trd.amount * trd.price)
    BY <1>7
  <2>4. Held(accounts, u, c) \in Int /\ Held(accounts, u, "ETH") \in Int /\ Held(accounts, u, "USDT") \in Int
    <3>1. \A d \in Currencies : accounts[u][d] \in Balance
      BY <1>1 DEF LedgerTypes, Accounts
    <3>2. \A d \in Currencies : accounts[u][d].available \in Int /\ accounts[u][d].locked \in Int
      BY <3>1 DEF Balance
    <3> QED
      BY <3>2 DEF Held, Currencies
  <2> HIDE DEF bought, trd
  <2>5. CASE c = "ETH"
    BY <2>2, <2>3, <2>4, <2>5
  <2>6. CASE c = "USDT"
    <3>1. trd.amount * trd.price \in Int
      BY <1>5
    <3>2. -bought * trd.amount * trd.price = -(bought * (trd.amount * trd.price))
      <4>1. CASE bought = 0
        BY <1>5, <4>1
      <4>2. CASE bought = 1
        BY <1>5, <4>2
      <4>3. CASE bought = -1
        BY <1>5, <4>3
      <4> QED
        BY <2>1, <4>1, <4>2, <4>3
    <3>3. bought * (trd.amount * trd.price) \in Int
      BY <2>1, <3>1
    <3> QED
      BY <2>2, <2>3, <2>4, <2>6, <3>2, <3>3
  <2> QED
    BY <2>5, <2>6 DEF Currencies
<1>9. AccountsFollowTrades'
  <2> SUFFICES ASSUME NEW u \in Users, NEW c \in Currencies
               PROVE  Held(accounts', u, c) = Endowed(u, c) + SumFunctionOnSet(Gains(u, c), settled \cup {i})
    <3>1. ASSUME NEW u \in Users, NEW c \in Currencies
          PROVE  /\ Gains(u, c)' = Gains(u, c) /\ Endowed(u, c)' = Endowed(u, c)
                 /\ Holdings(u, c)' = Held(accounts', u, c)
      BY <1>2 DEF Gains, Change, Endowed, Holdings, Held
    <3>2. settled' = settled \cup {i}
      BY <1>4
    <3> QED
      BY <3>1, <3>2 DEF AccountsFollowTrades
  <2>1. Held(accounts, u, c) = Endowed(u, c) + SumFunctionOnSet(Gains(u, c), settled)
    BY DEF PositionsInv, AccountsFollowTrades, Holdings, Held
  <2>2. SumFunctionOnSet(Gains(u, c), settled \cup {i}) = SumFunctionOnSet(Gains(u, c), settled) + Change(u, c, i)
    <3>1. \A j \in settled \cup {i} : Gains(u, c)[j] \in Int
      BY <1>1, <1>4, ChangeFacts
    <3>2. Gains(u, c)[i] = Change(u, c, i)
      BY <1>1, <1>4, ChangeFacts
    <3> QED
      BY <1>1, <1>4, <3>1, <3>2, ChangeFacts, SumAdd
  <2>3. SumFunctionOnSet(Gains(u, c), settled) \in Int /\ Change(u, c, i) \in Int
    <3>1. \A j \in settled : Gains(u, c)[j] \in Int
      BY <1>1, ChangeFacts
    <3> QED
      BY <1>1, <1>4, <3>1, ChangeFacts, SumInt
  <2>4. Endowed(u, c) \in Int
    BY LedgerAssumption DEF Endowed
  <2> QED
    BY <1>8, <2>1, <2>2, <2>3, <2>4
<1>10. SeedTradesNothing' /\ TradesInHand'
  BY <1>2, <1>4 DEF PositionsInv, SeedTradesNothing, TradesInHand
<1> QED
  BY <1>9, <1>10 DEF PositionsInv

(* The bot is registered: it has had nothing, and gets its endowment.      *)
LEMMA BotStartPositions ==
  ASSUME ExchangeInv, MoneyInv, PositionsInv, BotStart, TradingInv'
  PROVE  PositionsInv'
<1>1. TypeOK /\ Deals /\ LedgerTypes /\ GoroutineTypes
  BY TypeParts DEF ExchangeInv, PositionsInv, TradingInv
<1>2. Users = {Demo, Bot} /\ Demo # Bot
  BY ExchangeAssumption DEF Demo, Bot
<1>3. /\ UNCHANGED <<ord, submitted, trades, mine, ticks, settled>>
      /\ pc[BotLoop] = "start" /\ pc' = [pc EXCEPT ![BotLoop] = "idle"]
      /\ registered' = registered \cup {Bot}
      /\ accounts' = IF Bot \in registered THEN accounts ELSE [accounts EXCEPT ![Bot] = Endowment(Bot)]
  BY DEF BotStart, RegisterUser, engineVars
<1>4. SeedTradesNothing' /\ TradesInHand'
  <2>1. \A t \in Threads : pc[t] # "start" => pc'[t] = pc[t]
    BY <1>1, <1>3 DEF GoroutineTypes
  <2> QED
    BY <1>3, <2>1 DEF PositionsInv, SeedTradesNothing, TradesInHand
<1>5. ASSUME NEW u \in Users, NEW c \in Currencies
      PROVE  Held(accounts', u, c) = Endowed(u, c)' + SumFunctionOnSet(Gains(u, c), settled)
  <2>1. Held(accounts, u, c) = Endowed(u, c) + SumFunctionOnSet(Gains(u, c), settled)
    BY DEF PositionsInv, AccountsFollowTrades, Holdings, Held
  <2>2. CASE u = Demo \/ Bot \in registered
    <3>1. accounts'[u] = accounts[u]
      BY <1>1, <1>2, <1>3, <2>2 DEF LedgerTypes, Accounts
    <3>2. Endowed(u, c)' = Endowed(u, c)
      BY <1>2, <1>3, <2>2 DEF Endowed
    <3> QED
      BY <2>1, <3>1, <3>2 DEF Held
  <2>3. CASE u = Bot /\ Bot \notin registered
    <3>1. accounts[Bot][c].available = 0 /\ accounts[Bot][c].locked = 0
      BY <2>3 DEF MoneyInv, NoFunds
    <3>2. accounts'[Bot] = Endowment(Bot)
      BY <1>1, <1>2, <1>3, <2>3 DEF LedgerTypes, Accounts
    <3>3. accounts'[Bot][c].available = Funds[Bot][c] /\ accounts'[Bot][c].locked = 0
      BY <3>2 DEF Endowment
    <3>4. Endowed(u, c) = 0 /\ Endowed(u, c)' = Funds[Bot][c]
      BY <1>3, <2>3 DEF Endowed
    <3>5. SumFunctionOnSet(Gains(u, c), settled) \in Int
      <4>1. \A j \in settled : Gains(u, c)[j] \in Int
        BY <1>1, ChangeFacts
      <4> QED
        BY <1>1, <4>1, ChangeFacts, SumInt
    <3>6. SumFunctionOnSet(Gains(u, c), settled) = 0
      BY <2>1, <2>3, <3>1, <3>4, <3>5 DEF Held
    <3>7. Funds[Bot][c] \in Int
      BY <1>2, LedgerAssumption
    <3> QED
      BY <2>3, <3>3, <3>4, <3>6, <3>7 DEF Held
  <2> QED
    BY <1>2, <2>2, <2>3
<1>6. AccountsFollowTrades'
  <2> SUFFICES ASSUME NEW u \in Users, NEW c \in Currencies
               PROVE  Held(accounts', u, c) = Endowed(u, c)' + SumFunctionOnSet(Gains(u, c)', settled')
    BY DEF AccountsFollowTrades, Holdings, Held
  <2>1. SumFunctionOnSet(Gains(u, c)', settled') = SumFunctionOnSet(Gains(u, c), settled)
    BY <1>1, <1>3, GainsKept
  <2> QED
    BY <1>5, <2>1
<1> QED
  BY <1>4, <1>6 DEF PositionsInv

(* ProcessOrder returns: whoever drops its trades has none.                *)
LEMMA LeavePositions ==
  ASSUME LimitsHavePrices, ExchangeInv, PositionsInv, NEW t \in Threads, Leave(t), TradingInv'
  PROVE  PositionsInv'
<1>1. TypeOK /\ EngineTypes /\ GoroutineTypes /\ Deals /\ TradingInv
  BY TypeParts DEF ExchangeInv, PositionsInv, TradingInv
<1>2. /\ UNCHANGED <<registered, trades, settled, ticks, ord, accounts, mine>>
      /\ pc[t] = "match" /\ pc' = [pc EXCEPT ![t] = AfterMatch(t)]
  BY DEF Leave, Engine!Finish, ledgerVars
<1>3. mine[t] # 0 /\ mine[t] \in 1 .. submitted /\ mine[t] \in Orders
  <2>1. mine[t] \in 0 .. submitted /\ mine[t] # 0
    BY <1>1, <1>2 DEF GoroutineTypes, ExchangeInv, Goroutines
  <2> QED
    BY <1>1, <2>1, OrderFacts
<1>4. CASE t = BotLoop /\ ticks <= MaxSeeds
  <2>1. ord[mine[t]].user = Bot /\ Bot # Demo
    BY <1>1, <1>3, <1>4 DEF TradingInv, Owners, Bot, Demo
  <2>2. ToSettle(t) = {}
    BY <1>4, <2>1 DEF ToSettle, PositionsInv, SeedTradesNothing
  <2>3. \A u \in Threads : u # t => pc'[u] = pc[u]
    BY <1>1, <1>2 DEF GoroutineTypes
  <2> QED
    BY <1>1, <1>2, <2>2, <2>3, PositionsFrame
<1>5. CASE ~(t = BotLoop /\ ticks <= MaxSeeds)
  <2>1. ord[mine[t]].kind = "LIMIT" => ord[mine[t]].price > 0
    <3>1. Origin(ord[mine[t]])
      BY <1>1, <1>3 DEF TradingInv, Provenance
    <3>2. CASE \E q \in DemoRequests : Made(ord[mine[t]], Demo, q)
      BY <3>2 DEF LimitsHavePrices, Made
    <3>3. CASE \E q \in BotRequests : Made(ord[mine[t]], Bot, q)
      <4>1. \A q \in BotRequests : q.price > 0
        BY ExchangeAssumption DEF BotRequests
      <4> QED
        BY <3>3, <4>1 DEF Made
    <3> QED
      BY <3>1, <3>2, <3>3 DEF Origin
  <2>2. ~EngineError(mine[t])
    <3>1. ord[mine[t]].price \in Int
      BY <1>1, <1>3, OrderFacts
    <3> QED
      BY <2>1, <3>1 DEF EngineError
  <2>3. AfterMatch(t) = "settle"
    BY <1>5, <2>2 DEF AfterMatch
  <2>4. \A u \in Threads : pc'[u] = IF u = t THEN "settle" ELSE pc[u]
    BY <1>1, <1>2, <2>3 DEF GoroutineTypes
  <2> QED
    BY <1>1, <1>2, <2>4, PositionsFrame
<1> QED
  BY <1>4, <1>5

(* Without the faucet every step keeps the accounts with the trades.       *)
LEMMA PositionsNextInv ==
  ASSUME MaxFaucets = 0, LimitsHavePrices, SeedsMeetNobody, ExchangeInv, MoneyInv, PositionsInv, [Next]_vars
  PROVE  PositionsInv'
<1>1. TypeOK /\ EngineTypes /\ GoroutineTypes /\ LedgerTypes /\ TradingInv /\ accounts \in Accounts
  BY TypeParts DEF ExchangeInv, PositionsInv, LedgerTypes
<1>2. TradingInv'
  BY <1>1, TradingNextInv
<1>3. BotLoop \in Threads /\ BotLoop \notin Handlers /\ Handlers \subseteq Threads
  BY DEF Threads, BotLoop, Handlers
<1>4. ~Faucet
  BY DEF MoneyInv, Faucet, FaucetCall, FaucetRead, FaucetWrite
<1>5. ASSUME NEW h \in Handlers, NEW q \in DemoRequests, Request(h, q) PROVE PositionsInv'
  <2>1. UNCHANGED <<registered, trades, settled, ticks, ord, mine>>
    BY <1>5 DEF Request, LockFunds, engineVars, ledgerVars
  <2>2. \A u \in Threads : pc[u] \in {"match", "settle"} => pc'[u] = pc[u]
    BY <1>1, <1>5 DEF Request, GoroutineTypes
  <2>3. \A u \in Users, d \in Currencies : Held(accounts', u, d) = Held(accounts, u, d)
    <3> DEFINE c == EscrowCurrency(q.side)
               cost == Escrow(q.side, q.price, q.amount)
    <3>1. accounts' = accounts \/ LockFunds(Demo, c, cost)
      BY <1>5 DEF Request, ledgerVars
    <3>2. q \in Requests /\ Demo \in Users
      BY ExchangeAssumption
    <3>3. q.price \in Prices \cup {0} /\ q.amount \in Amounts
      BY <3>2 DEF Requests
    <3>4. c \in Currencies /\ cost \in Int
      BY <3>3, Numbers DEF EscrowCurrency, Escrow, Currencies
    <3> HIDE DEF c, cost
    <3> QED
      BY <1>1, <3>1, <3>2, <3>4, EscrowHolds
  <2> QED
    BY <1>1, <1>2, <2>1, <2>2, <2>3, PositionsFrame
<1>6. ASSUME NEW t \in Threads, Enter(t) PROVE PositionsInv'
  <2>1. /\ UNCHANGED <<registered, trades, settled, ticks, accounts>>
        /\ submitted + 1 \notin 1 .. submitted /\ 1 .. submitted \subseteq Orders
        /\ ord' = [ord EXCEPT ![submitted + 1] = req[t]]
    BY <1>1, <1>6, OrderFacts DEF Enter, Engine!Submit, ledgerVars
  <2>2. \A o \in 1 .. submitted : ord'[o] = ord[o]
    BY <1>1, <2>1 DEF EngineTypes
  <2>3. \A u \in Threads : pc[u] \in {"match", "settle"} => pc'[u] = pc[u] /\ mine'[u] = mine[u]
    BY <1>1, <1>6 DEF Enter, GoroutineTypes
  <2> QED
    BY <1>1, <1>2, <2>1, <2>2, <2>3, PositionsFrame
<1>7. ASSUME NEW t \in Threads, (t \in Handlers /\ RecordOrder(t)) \/ (t = BotLoop /\ BotWait) PROVE PositionsInv'
  <2>1. UNCHANGED <<registered, trades, settled, ticks, ord, accounts, mine>> /\ ToSettle(t) = {}
    BY <1>7 DEF RecordOrder, BotWait, engineVars, ledgerVars
  <2>2. \A u \in Threads : u # t => pc'[u] = pc[u]
    BY <1>1, <1>7 DEF RecordOrder, BotWait, GoroutineTypes
  <2> QED
    BY <1>1, <1>2, <2>1, <2>2, PositionsFrame
<1>8. ASSUME NEW q, BotTick(q) PROVE PositionsInv'
  <2>1. UNCHANGED <<registered, trades, settled, ord, accounts, mine>> /\ ticks' = ticks + 1
    BY <1>8 DEF BotTick, engineVars, ledgerVars
  <2>2. \A u \in Threads : pc[u] \in {"match", "settle"} => pc'[u] = pc[u]
    BY <1>1, <1>8 DEF BotTick, GoroutineTypes
  <2> QED
    BY <1>1, <1>2, <2>1, <2>2, PositionsFrame
<1>9. ASSUME (\E o \in Orders : CancelInEngine(o) \/ CancelRead(o) \/ CancelRecord(o)) \/ TakeOut PROVE PositionsInv'
  <2>1. UNCHANGED <<registered, trades, settled, ticks, ord, accounts, mine, pc>>
    BY <1>9 DEF CancelInEngine, CancelRead, CancelRecord, TakeOut, Engine!Withdraw, Engine!Remove,
                engineVars, ledgerVars, threadVars
  <2> QED
    BY <1>1, <1>2, <2>1, PositionsFrame
<1>10. ASSUME NEW o \in Orders, CancelUnlock(o) PROVE PositionsInv'
  <2>1. UNCHANGED <<registered, trades, settled, ticks, ord, mine, pc>>
    BY <1>10 DEF CancelUnlock, UnlockFunds, engineVars, threadVars
  <2>2. ord[o].user \in Users /\ EscrowCurrency(ord[o].side) \in Currencies /\ refund[o] \in Int
    BY <1>1, OrderFacts DEF GoroutineTypes, EscrowCurrency, Currencies
  <2>3. \A u \in Users, d \in Currencies : Held(accounts', u, d) = Held(accounts, u, d)
    BY <1>1, <1>10, <2>2, EscrowHolds DEF CancelUnlock
  <2> QED
    BY <1>1, <1>2, <2>1, <2>3, PositionsFrame
<1>11. CASE UNCHANGED vars
  <2>1. UNCHANGED <<registered, trades, settled, ticks, ord, accounts, mine, pc>>
    BY <1>11 DEF vars, engineVars, ledgerVars, threadVars
  <2> QED
    BY <1>1, <1>2, <2>1, PositionsFrame
<1>12. [Next]_vars =>
         \/ \E h \in Handlers, q \in DemoRequests : Request(h, q)
         \/ \E h \in Handlers : RecordOrder(h)
         \/ \E t \in Threads : Enter(t) \/ Leave(t) \/ Settle(t)
         \/ Match \/ TakeOut \/ BotStart \/ BotWait \/ Faucet
         \/ \E q \in SeedRequests \cup PulseRequests : BotTick(q)
         \/ \E o \in Orders : CancelInEngine(o) \/ CancelRead(o) \/ CancelUnlock(o) \/ CancelRecord(o)
         \/ UNCHANGED vars
  BY DEF Next, Place, Shared, Market, Delete
<1> QED
  BY <1>2, <1>3, <1>4, <1>5, <1>6, <1>7, <1>8, <1>9, <1>10, <1>11, <1>12,
     MatchPositions, SettlePositions, BotStartPositions, LeavePositions

\* Nobody has traded yet.
LEMMA PositionsInitInv == Init => PositionsInv
<1> SUFFICES ASSUME Init PROVE PositionsInv
  OBVIOUS
<1>1. DOMAIN trades = {} /\ settled = {} /\ registered = {Demo}
  BY EmptySeq DEF Init, Engine!Init
<1>2. Users = {Demo, Bot} /\ Demo # Bot
  BY ExchangeAssumption DEF Demo, Bot
<1>3. accounts[Demo] = Endowment(Demo) /\ accounts[Bot] = NoFunds
  BY <1>2 DEF Init, LedgerEmpty
<1>4. ASSUME NEW u \in Users, NEW c \in Currencies
      PROVE  Holdings(u, c) = Endowed(u, c) + SumFunctionOnSet(Gains(u, c), settled)
  <2>1. SumFunctionOnSet(Gains(u, c), settled) = 0
    BY <1>1, SumEmpty
  <2>2. Funds[u][c] \in Int
    BY LedgerAssumption
  <2>3. CASE u = Demo
    <3>1. accounts[u][c].available = Funds[u][c] /\ accounts[u][c].locked = 0 /\ Endowed(u, c) = Funds[u][c]
      BY <1>1, <1>3, <2>3 DEF Endowment, Endowed
    <3> QED
      BY <2>1, <2>2, <3>1 DEF Holdings
  <2>4. CASE u = Bot
    <3>1. accounts[u][c].available = 0 /\ accounts[u][c].locked = 0 /\ Endowed(u, c) = 0
      BY <1>1, <1>2, <1>3, <2>4 DEF NoFunds, Endowed
    <3> QED
      BY <2>1, <3>1 DEF Holdings
  <2> QED
    BY <1>2, <2>3, <2>4
<1> QED
  BY <1>1, <1>4, TradingInitInv DEF PositionsInv, SeedTradesNothing, TradesInHand, AccountsFollowTrades

(* In the middle of whatever, nobody drops a trade: what the goroutines have *)
(* settled is exactly what the accounts show, and every trade that is not   *)
(* settled belongs to a goroutine that is still to settle it, although      *)
(* ProcessOrder and SettleTrade run under different locks (main.go:244-256). *)
(* The assumptions are those of PositionsFollowTrades.                      *)
THEOREM PositionsStayInHand ==
  ASSUME MaxFaucets = 0, LimitsHavePrices, SeedsMeetNobody
  PROVE  Spec => [](ExchangeInv /\ MoneyInv /\ PositionsInv)
<1> DEFINE Inv == ExchangeInv /\ MoneyInv /\ PositionsInv
<1>1. Init => Inv
  BY ExchangeInitInv, MoneyInitInv, PositionsInitInv
<1>2. Inv /\ [Next]_vars => Inv'
  BY ExchangeNextInv, MoneyNextInv, PositionsNextInv
<1> QED
  BY <1>1, <1>2, PTL DEF Spec

(* Whatever requests, settlements and cancellations interleave, once the   *)
(* goroutines have answered every account holds what its user started with *)
(* plus what the engine's tape says that user bought and sold: no trade is *)
(* lost, and none is settled twice (ledger.go:122-170, main.go:244-256).   *)
(* The code keeps this only where nobody trades with a limit order without *)
(* a price (its trades are dropped with ProcessOrder's error) or with the  *)
(* bot's seed (main.go:361-379 never settles), and without the faucet.     *)
THEOREM PositionsFollowTrades ==
  ASSUME MaxFaucets = 0, LimitsHavePrices, SeedsMeetNobody
  PROVE  Spec => []PositionsMatchTrades
<1> DEFINE Inv == ExchangeInv /\ MoneyInv /\ PositionsInv
<1>1. Inv => PositionsMatchTrades
  <2> SUFFICES ASSUME Inv, Quiet, NEW u \in registered, NEW c \in Currencies
               PROVE  Holdings(u, c) = Funds[u][c] + SumFunctionOnSet(Gains(u, c), DOMAIN trades)
                                         + (IF u = Demo THEN faucet.calls * Credit[c] ELSE 0)
    BY DEF PositionsMatchTrades, Gains
  <2>1. TypeOK /\ u \in Users
    BY DEF ExchangeInv, TypeOK
  <2>2. settled = DOMAIN trades
    <3>1. DOMAIN trades \subseteq settled
      BY DEF Quiet, PositionsInv, TradesInHand
    <3> QED
      BY <2>1, <3>1 DEF TypeOK
  <2>3. Holdings(u, c) = Funds[u][c] + SumFunctionOnSet(Gains(u, c), settled)
    BY <2>1 DEF PositionsInv, AccountsFollowTrades, Endowed
  <2>4. faucet.calls * Credit[c] = 0
    <3>1. Credit[c] \in Int
      BY ExchangeAssumption
    <3> QED
      BY <3>1 DEF MoneyInv
  <2>5. Funds[u][c] \in Int /\ SumFunctionOnSet(Gains(u, c), settled) \in Int
    <3>1. \A j \in settled : Gains(u, c)[j] \in Int
      BY <2>1, ChangeFacts
    <3> QED
      BY <2>1, <3>1, ChangeFacts, SumInt, LedgerAssumption
  <2> QED
    BY <2>2, <2>3, <2>4, <2>5
<1> QED
  BY <1>1, PositionsStayInHand, PTL

-----------------------------------------------------------------------------
(***************************************************************************)
(* What the demo user has locked.  It is a sum over its requests, its      *)
(* orders and its trades; every step changes at most one term of two of    *)
(* the sums, and the ledger's balance with them.                           *)
(***************************************************************************)
\* The terms of the three sums.
RequestTerm == [h \in Handlers |-> Escrow(req[h].side, req[h].price, req[h].amount)]
OrderTerm == [o \in Orders |-> Reserved(o)]
TradeTerm(c) == [i \in DOMAIN trades |-> Owing(i, c)]

LEMMA EscrowSums ==
  ASSUME NEW c
  PROVE  /\ EscrowOfRequests(c) = SumFunctionOnSet(RequestTerm, EscrowRequests(c))
         /\ EscrowOfOrders(c) = SumFunctionOnSet(OrderTerm, EscrowOrders(c))
         /\ EscrowOfTrades(c) = SumFunctionOnSet(TradeTerm(c), DOMAIN trades)
         /\ EscrowOfRequests(c)' = SumFunctionOnSet(RequestTerm', EscrowRequests(c)')
         /\ EscrowOfOrders(c)' = SumFunctionOnSet(OrderTerm', EscrowOrders(c)')
         /\ EscrowOfTrades(c)' = SumFunctionOnSet(TradeTerm(c)', DOMAIN trades')
BY DEF EscrowOfRequests, EscrowOfOrders, EscrowOfTrades, RequestTerm, OrderTerm, TradeTerm

\* What a trade has freed, and what its settlement takes.
LEMMA OwingFacts ==
  ASSUME TypeOK, NEW c, NEW i \in DOMAIN trades
  PROVE  /\ Freed(i, c) \in Int /\ Drawn(i, c) \in Int /\ Owing(i, c) \in Int
         /\ Owing(i, c) = Freed(i, c) - (IF i \in settled THEN Drawn(i, c) ELSE 0)
<1>1. /\ trades[i].maker \in Orders /\ trades[i].taker \in Orders
      /\ trades[i].price \in Int /\ trades[i].amount \in Int
  BY TapeFacts
<1>2. \A s, p, a : p \in Int /\ a \in Int => Escrow(s, p, a) \in Int
  BY DEF Escrow
<1>3. \A o \in Orders : ord[o].price \in Int
  BY OrderFacts
<1>4. \A o \in Orders : Releases(o, i, c) \in Int
  BY <1>1, <1>2, <1>3 DEF Releases
<1>5. Freed(i, c) \in Int
  BY <1>1, <1>4 DEF Freed
<1>6. Drawn(i, c) \in Int
  <2>1. trades[i].price * trades[i].amount \in Int
    BY <1>1
  <2> QED
    BY <1>1, <2>1 DEF Drawn
<1> QED
  BY <1>5, <1>6 DEF Owing

\* The terms are numbers, and finitely many.
LEMMA EscrowTerms ==
  ASSUME TypeOK, NEW c
  PROVE  /\ IsFiniteSet(EscrowRequests(c)) /\ EscrowRequests(c) \subseteq Handlers
         /\ IsFiniteSet(EscrowOrders(c)) /\ EscrowOrders(c) \subseteq 1 .. submitted /\ EscrowOrders(c) \subseteq Orders
         /\ IsFiniteSet(DOMAIN trades)
         /\ \A h \in Handlers : /\ RequestTerm[h] = Escrow(req[h].side, req[h].price, req[h].amount)
                                /\ RequestTerm[h] \in Int
         /\ \A o \in Orders : OrderTerm[o] = Reserved(o) /\ OrderTerm[o] \in Int
         /\ \A i \in DOMAIN trades : TradeTerm(c)[i] = Owing(i, c) /\ TradeTerm(c)[i] \in Int
         /\ EscrowOfRequests(c) \in Int /\ EscrowOfOrders(c) \in Int /\ EscrowOfTrades(c) \in Int
<1>1. GoroutineTypes
  BY TypeParts
<1>2. IsFiniteSet(EscrowRequests(c)) /\ EscrowRequests(c) \subseteq Handlers
  <2>1. MaxRequests \in Nat /\ EscrowRequests(c) \subseteq Handlers
    BY ExchangeAssumption DEF EscrowRequests
  <2>2. IsFiniteSet(Handlers)
    BY <2>1, FS_Interval DEF Handlers
  <2> QED
    BY <2>1, <2>2, FS_Subset
<1>3. IsFiniteSet(EscrowOrders(c)) /\ EscrowOrders(c) \subseteq 1 .. submitted /\ EscrowOrders(c) \subseteq Orders
  <2>1. IsFiniteSet(1 .. submitted) /\ 1 .. submitted \subseteq Orders
    BY OrderFacts, FS_Interval
  <2>2. EscrowOrders(c) \subseteq 1 .. submitted
    BY DEF EscrowOrders
  <2> QED
    BY <2>1, <2>2, FS_Subset
<1>4. IsFiniteSet(DOMAIN trades)
  BY TapeFacts
<1>5. \A h \in Handlers : /\ RequestTerm[h] = Escrow(req[h].side, req[h].price, req[h].amount)
                          /\ RequestTerm[h] \in Int
  <2> SUFFICES ASSUME NEW h \in Handlers PROVE Escrow(req[h].side, req[h].price, req[h].amount) \in Int
    BY DEF RequestTerm
  <2>1. req[h] \in Details \cup {Blank}
    BY <1>1 DEF GoroutineTypes, Threads
  <2>2. \A d \in Details : d.price \in Prices \cup {0} /\ d.amount \in Amounts
    BY DEF Details
  <2>3. req[h].price \in Int /\ req[h].amount \in Int
    BY <2>1, <2>2, Numbers DEF Blank
  <2> QED
    BY <2>3 DEF Escrow
<1>6. \A o \in Orders : OrderTerm[o] = Reserved(o) /\ OrderTerm[o] \in Int
  <2> SUFFICES ASSUME NEW o \in Orders PROVE Reserved(o) \in Int
    BY DEF OrderTerm
  <2>1. EscrowLeft(o) \in Int
    BY EscrowIsInt
  <2>2. refund[o] \in Int
    BY <1>1 DEF GoroutineTypes
  <2> QED
    BY <2>1, <2>2 DEF Reserved
<1>7. \A i \in DOMAIN trades : TradeTerm(c)[i] = Owing(i, c) /\ TradeTerm(c)[i] \in Int
  BY OwingFacts DEF TradeTerm
<1>8. EscrowOfRequests(c) \in Int
  BY <1>2, <1>5, EscrowSums, SumInt
<1>9. EscrowOfOrders(c) \in Int
  BY <1>3, <1>6, EscrowSums, SumInt
<1>10. EscrowOfTrades(c) \in Int
  BY <1>4, <1>7, EscrowSums, SumInt
<1> QED
  BY <1>2, <1>3, <1>4, <1>5, <1>6, <1>7, <1>8, <1>9, <1>10

\* A step that leaves the terms of a sum alone.
LEMMA RequestsKept ==
  ASSUME TypeOK, NEW c, EscrowRequests(c)' = EscrowRequests(c),
         \A h \in EscrowRequests(c) : req'[h] = req[h]
  PROVE  EscrowOfRequests(c)' = EscrowOfRequests(c)
<1>1. \A h \in EscrowRequests(c) : RequestTerm'[h] = RequestTerm[h]
  BY DEF EscrowRequests, RequestTerm
<1>2. IsFiniteSet(EscrowRequests(c))
  BY EscrowTerms
<1>3. SumFunctionOnSet(RequestTerm', EscrowRequests(c)) = SumFunctionOnSet(RequestTerm, EscrowRequests(c))
  BY <1>1, <1>2, SumCongruence
<1> QED
  BY <1>3, EscrowSums

\* A handler that is not on its way to the engine, and does not set out, holds no escrow.
LEMMA RequestsStay ==
  ASSUME TypeOK,
         \A h \in Handlers : (pc'[h] = "enter" <=> pc[h] = "enter") /\ (pc[h] = "enter" => req'[h] = req[h])
  PROVE  \A c : EscrowOfRequests(c)' = EscrowOfRequests(c)
<1> SUFFICES ASSUME NEW c PROVE EscrowOfRequests(c)' = EscrowOfRequests(c)
  OBVIOUS
<1>1. EscrowRequests(c)' = EscrowRequests(c) /\ \A h \in EscrowRequests(c) : req'[h] = req[h]
  BY DEF EscrowRequests
<1> QED
  BY <1>1, RequestsKept

\* What is reserved for an order after a step.
LEMMA ReservedNext ==
  \A o : Reserved(o)' = Escrow(ord'[o].side, ord'[o].price, ord'[o].amount - filled'[o])
                          - (IF cancel'[o] \in {"record", "done"} THEN refund'[o] ELSE 0)
BY DEF Reserved, EscrowLeft, Engine!Left

LEMMA ReservedNow ==
  \A o : Reserved(o) = Escrow(ord[o].side, ord[o].price, ord[o].amount - filled[o])
                          - (IF cancel[o] \in {"record", "done"} THEN refund[o] ELSE 0)
BY DEF Reserved, EscrowLeft, Engine!Left

LEMMA OrdersKept ==
  ASSUME TypeOK, UNCHANGED <<ord, filled, submitted>>,
         \A o \in Orders : /\ cancel'[o] \in {"record", "done"} <=> cancel[o] \in {"record", "done"}
                           /\ cancel[o] \in {"record", "done"} => refund'[o] = refund[o]
  PROVE  \A c : EscrowOfOrders(c)' = EscrowOfOrders(c)
<1> SUFFICES ASSUME NEW c PROVE EscrowOfOrders(c)' = EscrowOfOrders(c)
  OBVIOUS
<1>1. EscrowOrders(c)' = EscrowOrders(c)
  BY DEF EscrowOrders
<1>2. \A o \in Orders : Reserved(o)' = Reserved(o)
  BY ReservedNext, ReservedNow
<1>3. OrderTerm' = OrderTerm
  BY <1>2 DEF OrderTerm
<1> QED
  BY <1>1, <1>3, EscrowSums

LEMMA OwingKept ==
  ASSUME Deals, NEW c, NEW i \in DOMAIN trades, trades'[i] = trades[i], \A o \in 1 .. submitted : ord'[o] = ord[o]
  PROVE  /\ Freed(i, c)' = Freed(i, c) /\ Drawn(i, c)' = Drawn(i, c)
         /\ (i \in settled' <=> i \in settled) => Owing(i, c)' = Owing(i, c)
<1>1. ord'[trades[i].maker] = ord[trades[i].maker] /\ ord'[trades[i].taker] = ord[trades[i].taker]
  BY DEF Deals
<1>2. Freed(i, c)' = Freed(i, c)
  BY <1>1 DEF Freed, Releases
<1>3. Drawn(i, c)' = Drawn(i, c)
  BY <1>1 DEF Drawn
<1> QED
  BY <1>2, <1>3 DEF Owing

LEMMA TradesKept ==
  ASSUME Deals, UNCHANGED <<trades, settled>>, \A o \in 1 .. submitted : ord'[o] = ord[o]
  PROVE  \A c : EscrowOfTrades(c)' = EscrowOfTrades(c)
<1> SUFFICES ASSUME NEW c PROVE EscrowOfTrades(c)' = EscrowOfTrades(c)
  OBVIOUS
<1>1. \A i \in DOMAIN trades : Owing(i, c)' = Owing(i, c)
  BY OwingKept
<1>2. TradeTerm(c)' = TradeTerm(c)
  BY <1>1 DEF TradeTerm
<1> QED
  BY <1>2, EscrowSums

(* A step of nobody who locks, unlocks or trades.                          *)
LEMMA EscrowFrame ==
  ASSUME TypeOK, Deals, EscrowAccounted, UNCHANGED <<ord, filled, submitted, trades, settled>>,
         \A h \in Handlers : (pc'[h] = "enter" <=> pc[h] = "enter") /\ (pc[h] = "enter" => req'[h] = req[h]),
         \A o \in Orders : /\ cancel'[o] \in {"record", "done"} <=> cancel[o] \in {"record", "done"}
                           /\ cancel[o] \in {"record", "done"} => refund'[o] = refund[o],
         \A c \in Currencies : accounts'[Demo][c].locked = accounts[Demo][c].locked
  PROVE  EscrowAccounted'
<1> SUFFICES ASSUME NEW c \in Currencies
             PROVE  accounts'[Demo][c].locked = EscrowOfRequests(c)' + EscrowOfOrders(c)' + EscrowOfTrades(c)'
  BY DEF EscrowAccounted
<1>1. accounts[Demo][c].locked = EscrowOfRequests(c) + EscrowOfOrders(c) + EscrowOfTrades(c)
  BY DEF EscrowAccounted
<1>2. EscrowOfRequests(c)' = EscrowOfRequests(c)
  BY RequestsStay
<1>3. EscrowOfOrders(c)' = EscrowOfOrders(c)
  BY OrdersKept
<1>4. EscrowOfTrades(c)' = EscrowOfTrades(c)
  BY TradesKept
<1> QED
  BY <1>1, <1>2, <1>3, <1>4

\* Add changes what one user has locked in one currency.
LEMMA AddLocks ==
  ASSUME NEW acc \in Accounts, NEW u \in Users, NEW c \in Currencies, NEW a \in Int, NEW l \in Int
  PROVE  \A v \in Users, d \in Currencies :
           /\ acc[v][d].available \in Int /\ acc[v][d].locked \in Int
           /\ Add(acc, u, c, a, l)[v][d].locked = acc[v][d].locked + (IF v = u /\ d = c THEN l ELSE 0)
           /\ Add(acc, u, c, a, l)[v][d].available = acc[v][d].available + (IF v = u /\ d = c THEN a ELSE 0)
<1> SUFFICES ASSUME NEW v \in Users, NEW d \in Currencies
             PROVE  /\ acc[v][d].available \in Int /\ acc[v][d].locked \in Int
                    /\ Add(acc, u, c, a, l)[v][d].locked = acc[v][d].locked + (IF v = u /\ d = c THEN l ELSE 0)
                    /\ Add(acc, u, c, a, l)[v][d].available = acc[v][d].available + (IF v = u /\ d = c THEN a ELSE 0)
  OBVIOUS
<1>1. acc[v][d] \in Balance
  BY DEF Accounts
<1>2. acc[v][d].available \in Int /\ acc[v][d].locked \in Int
  BY <1>1 DEF Balance
<1> DEFINE b == [available |-> acc[u][c].available + a, locked |-> acc[u][c].locked + l]
<1>3. b.available = acc[u][c].available + a /\ b.locked = acc[u][c].locked + l
  OBVIOUS
<1>4. Add(acc, u, c, a, l)[v][d] = IF v = u /\ d = c THEN b ELSE acc[v][d]
  <2>1. acc \in [Users -> [Currencies -> Balance]] /\ acc[u] \in [Currencies -> Balance]
    BY DEF Accounts
  <2> QED
    BY <2>1 DEF Add
<1> HIDE DEF b
<1>5. CASE v = u /\ d = c
  BY <1>2, <1>3, <1>4, <1>5
<1>6. CASE ~(v = u /\ d = c)
  BY <1>2, <1>4, <1>6
<1> QED
  BY <1>5, <1>6

\* The demo user's: in the currency of the change, and in the others.
LEMMA AddLocksHere ==
  ASSUME NEW acc \in Accounts, NEW c \in Currencies, NEW a \in Int, NEW l \in Int
  PROVE  Add(acc, Demo, c, a, l)[Demo][c].locked = acc[Demo][c].locked + l
<1>1. Demo \in Users
  BY ExchangeAssumption
<1>2. Add(acc, Demo, c, a, l)[Demo][c].locked = acc[Demo][c].locked + (IF Demo = Demo /\ c = c THEN l ELSE 0)
  BY <1>1, AddLocks
<1> QED
  BY <1>2

LEMMA AddLocksAway ==
  ASSUME NEW acc \in Accounts, NEW c \in Currencies, NEW a \in Int, NEW l \in Int,
         NEW d \in Currencies, d # c
  PROVE  Add(acc, Demo, c, a, l)[Demo][d].locked = acc[Demo][d].locked
<1>1. Demo \in Users
  BY ExchangeAssumption
<1>2. /\ acc[Demo][d].locked \in Int
      /\ Add(acc, Demo, c, a, l)[Demo][d].locked = acc[Demo][d].locked + (IF Demo = Demo /\ d = c THEN l ELSE 0)
  BY <1>1, AddLocks
<1> QED
  BY <1>2

(* A settlement takes from what one user has locked: the price from the    *)
(* buyer's, when the buyer is the maker, else the goods from the seller's. *)
LEMMA SettlementLocks ==
  ASSUME accounts \in Accounts, NEW buyer \in registered, NEW seller \in registered, registered \subseteq Users,
         NEW amount \in Int, NEW price \in Int, NEW isBuyerMaker \in BOOLEAN,
         SettleTrade(buyer, seller, amount, price, isBuyerMaker)
  PROVE  \A v \in Users, d \in Currencies :
           accounts'[v][d].locked = accounts[v][d].locked
             - (IF isBuyerMaker THEN (IF v = buyer /\ d = "USDT" THEN amount * price ELSE 0)
                                ELSE (IF v = seller /\ d = "ETH" THEN amount ELSE 0))
<1> DEFINE quote == amount * price
           paid == IF isBuyerMaker THEN Add(accounts, buyer, "USDT", 0, -quote)
                                   ELSE Add(accounts, buyer, "USDT", -quote, 0)
           received == Add(paid, buyer, "ETH", amount, 0)
           delivered == IF isBuyerMaker THEN Add(received, seller, "ETH", -amount, 0)
                                        ELSE Add(received, seller, "ETH", 0, -amount)
           final == Add(delivered, seller, "USDT", quote, 0)
<1>1. accounts' = final
  BY DEF SettleTrade
<1>2. quote \in Int /\ -quote \in Int /\ -amount \in Int /\ 0 \in Int /\ quote = amount * price
  OBVIOUS
<1>3. "USDT" \in Currencies /\ "ETH" \in Currencies /\ buyer \in Users /\ seller \in Users
  BY DEF Currencies
<1> HIDE DEF quote
<1>4. /\ paid \in Accounts
      /\ \A v \in Users, d \in Currencies :
           /\ accounts[v][d].locked \in Int
           /\ paid[v][d].locked = accounts[v][d].locked
                                    + (IF isBuyerMaker /\ v = buyer /\ d = "USDT" THEN -quote ELSE 0)
  <2>1. CASE isBuyerMaker
    <3>1. paid = Add(accounts, buyer, "USDT", 0, -quote)
      BY <2>1
    <3> HIDE DEF paid
    <3>2. paid \in Accounts
      BY <1>2, <1>3, <3>1, AddOK
    <3>3. \A v \in Users, d \in Currencies :
            /\ accounts[v][d].locked \in Int
            /\ paid[v][d].locked = accounts[v][d].locked + (IF v = buyer /\ d = "USDT" THEN -quote ELSE 0)
      BY <1>2, <1>3, <3>1, AddLocks
    <3> QED
      BY <2>1, <3>2, <3>3
  <2>2. CASE ~isBuyerMaker
    <3>1. paid = Add(accounts, buyer, "USDT", -quote, 0)
      BY <2>2
    <3> HIDE DEF paid
    <3>2. paid \in Accounts
      BY <1>2, <1>3, <3>1, AddOK
    <3>3. \A v \in Users, d \in Currencies :
            /\ accounts[v][d].locked \in Int
            /\ paid[v][d].locked = accounts[v][d].locked + (IF v = buyer /\ d = "USDT" THEN 0 ELSE 0)
      BY <1>2, <1>3, <3>1, AddLocks
    <3> QED
      BY <2>2, <3>2, <3>3
  <2> QED
    BY <2>1, <2>2
<1> HIDE DEF paid
<1>5. /\ received \in Accounts
      /\ \A v \in Users, d \in Currencies : paid[v][d].locked \in Int /\ received[v][d].locked = paid[v][d].locked + 0
  <2>1. received \in Accounts
    BY <1>2, <1>3, <1>4, AddOK
  <2>2. \A v \in Users, d \in Currencies : paid[v][d].locked \in Int /\ received[v][d].locked = paid[v][d].locked + 0
    BY <1>2, <1>3, <1>4, AddLocks
  <2> QED
    BY <2>1, <2>2
<1> HIDE DEF received
<1>6. /\ delivered \in Accounts
      /\ \A v \in Users, d \in Currencies :
           /\ received[v][d].locked \in Int
           /\ delivered[v][d].locked = received[v][d].locked
                                         + (IF ~isBuyerMaker /\ v = seller /\ d = "ETH" THEN -amount ELSE 0)
  <2>1. CASE isBuyerMaker
    <3>1. delivered = Add(received, seller, "ETH", -amount, 0)
      BY <2>1
    <3> HIDE DEF delivered
    <3>2. delivered \in Accounts
      BY <1>2, <1>3, <1>5, <3>1, AddOK
    <3>3. \A v \in Users, d \in Currencies :
            /\ received[v][d].locked \in Int
            /\ delivered[v][d].locked = received[v][d].locked + (IF v = seller /\ d = "ETH" THEN 0 ELSE 0)
      BY <1>2, <1>3, <1>5, <3>1, AddLocks
    <3> QED
      BY <2>1, <3>2, <3>3
  <2>2. CASE ~isBuyerMaker
    <3>1. delivered = Add(received, seller, "ETH", 0, -amount)
      BY <2>2
    <3> HIDE DEF delivered
    <3>2. delivered \in Accounts
      BY <1>2, <1>3, <1>5, <3>1, AddOK
    <3>3. \A v \in Users, d \in Currencies :
            /\ received[v][d].locked \in Int
            /\ delivered[v][d].locked = received[v][d].locked + (IF v = seller /\ d = "ETH" THEN -amount ELSE 0)
      BY <1>2, <1>3, <1>5, <3>1, AddLocks
    <3> QED
      BY <2>2, <3>2, <3>3
  <2> QED
    BY <2>1, <2>2
<1> HIDE DEF delivered
<1>7. \A v \in Users, d \in Currencies :
        delivered[v][d].locked \in Int /\ final[v][d].locked = delivered[v][d].locked + 0
  BY <1>2, <1>3, <1>6, AddLocks
<1> HIDE DEF final
<1>8. ASSUME NEW v \in Users, NEW d \in Currencies
      PROVE  accounts'[v][d].locked = accounts[v][d].locked
               - (IF isBuyerMaker THEN (IF v = buyer /\ d = "USDT" THEN quote ELSE 0)
                                  ELSE (IF v = seller /\ d = "ETH" THEN amount ELSE 0))
  <2>1. /\ accounts[v][d].locked \in Int
        /\ paid[v][d].locked = accounts[v][d].locked
                                 + (IF isBuyerMaker /\ v = buyer /\ d = "USDT" THEN -quote ELSE 0)
        /\ received[v][d].locked = paid[v][d].locked + 0
        /\ delivered[v][d].locked = received[v][d].locked
                                      + (IF ~isBuyerMaker /\ v = seller /\ d = "ETH" THEN -amount ELSE 0)
        /\ final[v][d].locked = delivered[v][d].locked + 0
    BY <1>4, <1>5, <1>6, <1>7
  <2>2. CASE isBuyerMaker
    BY <1>1, <1>2, <2>1, <2>2
  <2>3. CASE ~isBuyerMaker
    BY <1>1, <1>2, <2>1, <2>3
  <2> QED
    BY <2>2, <2>3
<1> QED
  BY <1>2, <1>8

(* A limit order locks its escrow, in one step with its decision.          *)
LEMMA RequestAccounted ==
  ASSUME ExchangeInv, TradingInv, EscrowAccounted, NEW h \in Handlers, NEW q \in DemoRequests, Request(h, q)
  PROVE  EscrowAccounted'
<1> DEFINE c0 == EscrowCurrency(q.side)
           cost == Escrow(q.side, q.price, q.amount)
<1>1. TypeOK /\ GoroutineTypes /\ LedgerTypes /\ Deals /\ Demo \in Users /\ h \in Threads
  BY TypeParts, ExchangeAssumption DEF ExchangeInv, TradingInv, Threads
<1>2. /\ pc[h] = "idle" /\ UNCHANGED <<ord, filled, trades, settled, submitted, cancel, refund>>
      /\ req' = [req EXCEPT ![h] = [user |-> Demo, side |-> q.side, kind |-> q.kind,
                                    price |-> q.price, amount |-> q.amount]]
      /\ \/ /\ pc' = [pc EXCEPT ![h] = "enter"] /\ q.kind = "LIMIT"
            /\ accounts' = Add(accounts, Demo, c0, -cost, cost)
         \/ /\ accounts' = accounts
            /\ \/ pc' = [pc EXCEPT ![h] = "done"]
               \/ pc' = [pc EXCEPT ![h] = "enter"] /\ q.kind # "LIMIT"
  BY DEF Request, LockFunds, engineVars, ledgerVars, cancelVars
<1>3. /\ \A u \in Handlers : u # h => pc'[u] = pc[u] /\ req'[u] = req[u]
      /\ req'[h] = [user |-> Demo, side |-> q.side, kind |-> q.kind, price |-> q.price, amount |-> q.amount]
      /\ pc' = [pc EXCEPT ![h] = "enter"] => pc'[h] = "enter"
      /\ pc' = [pc EXCEPT ![h] = "done"] => pc'[h] = "done"
  BY <1>1, <1>2 DEF GoroutineTypes, Threads
<1>4. req'[h].side = q.side /\ req'[h].kind = q.kind /\ req'[h].price = q.price /\ req'[h].amount = q.amount
  BY <1>3
<1>5. c0 \in Currencies /\ cost \in Int /\ -cost \in Int
  <2>1. q \in Requests
    BY ExchangeAssumption
  <2>2. q.price \in Prices \cup {0} /\ q.amount \in Amounts
    BY <2>1 DEF Requests
  <2> QED
    BY <2>2, Numbers DEF EscrowCurrency, Escrow, Currencies
<1> SUFFICES ASSUME NEW c \in Currencies
             PROVE  accounts'[Demo][c].locked = EscrowOfRequests(c)' + EscrowOfOrders(c)' + EscrowOfTrades(c)'
  BY DEF EscrowAccounted
<1>6. /\ accounts[Demo][c].locked = EscrowOfRequests(c) + EscrowOfOrders(c) + EscrowOfTrades(c)
      /\ EscrowOfOrders(c)' = EscrowOfOrders(c) /\ EscrowOfTrades(c)' = EscrowOfTrades(c)
      /\ EscrowOfRequests(c) \in Int /\ EscrowOfOrders(c) \in Int /\ EscrowOfTrades(c) \in Int
  BY <1>1, <1>2, OrdersKept, TradesKept, EscrowTerms DEF EscrowAccounted
<1>7. h \notin EscrowRequests(c)
  BY <1>2 DEF EscrowRequests
<1>8. CASE /\ pc' = [pc EXCEPT ![h] = "enter"] /\ q.kind = "LIMIT" /\ c = c0
           /\ accounts' = Add(accounts, Demo, c0, -cost, cost)
  <2>1. EscrowRequests(c)' = EscrowRequests(c) \cup {h}
    BY <1>3, <1>4, <1>8 DEF EscrowRequests
  <2>2. \A u \in EscrowRequests(c) : RequestTerm'[u] = RequestTerm[u] /\ RequestTerm[u] \in Int
    <3>1. \A u \in EscrowRequests(c) : u # h /\ u \in Handlers
      BY <1>7 DEF EscrowRequests
    <3>2. \A u \in EscrowRequests(c) : RequestTerm'[u] = RequestTerm[u]
      BY <1>3, <3>1 DEF RequestTerm
    <3> QED
      BY <1>1, <3>1, <3>2, EscrowTerms
  <2>3. RequestTerm'[h] = cost
    BY <1>4 DEF RequestTerm
  <2>4. IsFiniteSet(EscrowRequests(c))
    BY <1>1, EscrowTerms
  <2>5. SumFunctionOnSet(RequestTerm', EscrowRequests(c)) = EscrowOfRequests(c)
    BY <2>2, <2>4, EscrowSums, SumCongruence
  <2> HIDE DEF cost, c0
  <2>6. \A y \in EscrowRequests(c) \cup {h} : RequestTerm'[y] \in Int
    BY <1>5, <2>2, <2>3
  <2>7. SumFunctionOnSet(RequestTerm', EscrowRequests(c) \cup {h}) = EscrowOfRequests(c) + cost
    BY <1>7, <2>3, <2>4, <2>5, <2>6, SumAdd
  <2>8. EscrowOfRequests(c)' = EscrowOfRequests(c) + cost
    BY <2>1, <2>7, EscrowSums
  <2>9. accounts'[Demo][c].locked = accounts[Demo][c].locked + cost
    <3>1. accounts \in Accounts
      BY <1>1 DEF LedgerTypes
    <3>2. Add(accounts, Demo, c0, -cost, cost)[Demo][c0].locked = accounts[Demo][c0].locked + cost
      BY <1>5, <3>1, AddLocksHere
    <3> QED
      BY <1>8, <3>2
  <2> QED
    BY <1>5, <1>6, <2>8, <2>9
<1>9. CASE ~(pc' = [pc EXCEPT ![h] = "enter"] /\ q.kind = "LIMIT" /\ c = c0)
  <2>1. EscrowRequests(c)' = EscrowRequests(c)
    BY <1>2, <1>3, <1>4, <1>7, <1>9 DEF EscrowRequests
  <2>2. EscrowOfRequests(c)' = EscrowOfRequests(c)
    <3>1. \A u \in EscrowRequests(c) : req'[u] = req[u]
      BY <1>3, <1>7 DEF EscrowRequests
    <3> QED
      BY <1>1, <2>1, <3>1, RequestsKept
  <2>3. accounts'[Demo][c].locked = accounts[Demo][c].locked
    <3>1. CASE accounts' = accounts
      BY <3>1
    <3>2. CASE accounts' # accounts
      <4>1. accounts' = Add(accounts, Demo, c0, -cost, cost) /\ c # c0
        BY <1>2, <1>9, <3>2
      <4>2. accounts \in Accounts
        BY <1>1 DEF LedgerTypes
      <4> HIDE DEF c0, cost
      <4>3. Add(accounts, Demo, c0, -cost, cost)[Demo][c].locked = accounts[Demo][c].locked
        BY <1>5, <4>1, <4>2, AddLocksAway
      <4> QED
        BY <4>1, <4>3
    <3> QED
      BY <3>1, <3>2
  <2> QED
    BY <1>6, <2>2, <2>3
<1> QED
  BY <1>2, <1>3, <1>8, <1>9

(* The escrow of a request becomes that of its order.                      *)
LEMMA EnterAccounted ==
  ASSUME ExchangeInv, TradingInv, EscrowAccounted, NEW t \in Threads, Enter(t)
  PROVE  EscrowAccounted'
<1>1. TypeOK /\ EngineTypes /\ GoroutineTypes /\ Deals /\ submitted \in Nat
  BY TypeParts, OrderFacts DEF ExchangeInv, TradingInv
<1>2. PICK o \in Orders : o = submitted + 1 /\ o \notin 1 .. submitted
  <2>1. MaxOrders \in Nat /\ submitted < MaxOrders
    BY <1>1, OrderFacts DEF Enter, Engine!Submit
  <2> QED
    BY <1>1, <2>1 DEF Orders
<1>3. /\ ord' = [ord EXCEPT ![o] = req[t]] /\ submitted' = o
      /\ UNCHANGED <<filled, trades, settled, accounts, req, cancel, refund>>
      /\ pc[t] = "enter" /\ pc' = [pc EXCEPT ![t] = "match"]
  BY <1>2 DEF Enter, Engine!Submit, ledgerVars, cancelVars
<1>4. /\ ord'[o] = req[t] /\ \A p \in Orders : p # o => ord'[p] = ord[p]
      /\ \A p \in 1 .. submitted : p \in Orders /\ p # o
      /\ 1 .. submitted' = 1 .. submitted \cup {o}
      /\ \A u \in Threads : u # t => pc'[u] = pc[u]
      /\ pc'[t] = "match"
  <2>1. 1 .. submitted \subseteq Orders /\ 1 .. submitted' = 1 .. submitted \cup {o}
    <3>1. 1 .. submitted \subseteq Orders
      BY <1>1, OrderFacts
    <3>2. submitted' = submitted + 1 /\ o = submitted + 1
      BY <1>2, <1>3
    <3>3. 1 .. submitted' = 1 .. submitted \cup {o}
      BY <1>1, <3>2
    <3> QED
      BY <3>1, <3>3
  <2> QED
    BY <1>1, <1>2, <1>3, <2>1 DEF EngineTypes, GoroutineTypes
<1>5. cancel[o] = "none" /\ filled[o] = 0 /\ req[t].amount \in Nat
  <2>1. cancel[o] = "none"
    BY <1>2 DEF ExchangeInv, Cancellations
  <2>2. filled[o] = 0
    BY <1>1, <1>2 DEF TradingInv, Fills
  <2>3. req[t] \in Details \cup {Blank}
    BY <1>1 DEF GoroutineTypes
  <2>4. \A d \in Details : d.amount \in Amounts
    BY DEF Details
  <2>5. req[t].amount \in Nat
    BY <2>3, <2>4, Numbers DEF Blank
  <2> QED
    BY <2>1, <2>2, <2>5
<1>6. Reserved(o)' = Escrow(req[t].side, req[t].price, req[t].amount)
  <2>1. ord'[o].amount - filled'[o] = req[t].amount /\ cancel'[o] = "none"
    BY <1>3, <1>4, <1>5
  <2>2. Escrow(req[t].side, req[t].price, req[t].amount) \in Int
    <3>1. req[t] \in Details \cup {Blank}
      BY <1>1 DEF GoroutineTypes
    <3>2. \A d \in Details : d.price \in Prices \cup {0}
      BY DEF Details
    <3>3. req[t].price \in Int
      BY <3>1, <3>2, Numbers DEF Blank
    <3> QED
      BY <1>5, <3>3 DEF Escrow
  <2> QED
    BY <1>4, <2>1, <2>2, ReservedNext
<1>7. \A p \in 1 .. submitted : Reserved(p)' = Reserved(p)
  BY <1>3, <1>4, ReservedNext, ReservedNow
<1> SUFFICES ASSUME NEW c \in Currencies
             PROVE  accounts'[Demo][c].locked = EscrowOfRequests(c)' + EscrowOfOrders(c)' + EscrowOfTrades(c)'
  BY DEF EscrowAccounted
<1>8. EscrowOfTrades(c)' = EscrowOfTrades(c)
  BY <1>1, <1>3, <1>4, TradesKept
<1>9. /\ accounts'[Demo][c].locked = EscrowOfRequests(c) + EscrowOfOrders(c) + EscrowOfTrades(c)
      /\ EscrowOfRequests(c) \in Int /\ EscrowOfOrders(c) \in Int /\ EscrowOfTrades(c) \in Int
  BY <1>1, <1>3, EscrowTerms DEF EscrowAccounted
<1>10. /\ EscrowOrders(c) \subseteq 1 .. submitted /\ o \notin EscrowOrders(c) /\ IsFiniteSet(EscrowOrders(c))
       /\ \A p \in EscrowOrders(c) : OrderTerm'[p] = OrderTerm[p] /\ OrderTerm[p] \in Int
  <2>1. EscrowOrders(c) \subseteq 1 .. submitted /\ EscrowOrders(c) \subseteq Orders /\ IsFiniteSet(EscrowOrders(c))
    BY <1>1, EscrowTerms
  <2>2. \A p \in EscrowOrders(c) : OrderTerm'[p] = Reserved(p)' /\ OrderTerm[p] = Reserved(p)
    BY <2>1 DEF OrderTerm
  <2> QED
    BY <1>1, <1>2, <1>7, <2>1, <2>2, EscrowTerms
<1>11. EscrowOrders(c)' = IF req[t].user = Demo /\ req[t].kind = "LIMIT" /\ EscrowCurrency(req[t].side) = c
                          THEN EscrowOrders(c) \cup {o} ELSE EscrowOrders(c)
  BY <1>4 DEF EscrowOrders
<1>12. SumFunctionOnSet(OrderTerm', EscrowOrders(c)) = EscrowOfOrders(c)
  BY <1>10, EscrowSums, SumCongruence
<1>13. RequestTerm' = RequestTerm
  BY <1>3 DEF RequestTerm
<1>14. \A h \in Handlers : h \in Threads
  BY DEF Threads
<1>15. CASE t \in EscrowRequests(c)
  <2>1. req[t].kind = "LIMIT" /\ EscrowCurrency(req[t].side) = c /\ t \in Handlers
    BY <1>15 DEF EscrowRequests
  <2>2. req[t].user = Demo
    BY <1>3, <2>1, MadeFacts DEF TradingInv, Provenance
  <2>3. EscrowRequests(c)' = EscrowRequests(c) \ {t}
    BY <1>3, <1>4, <1>14 DEF EscrowRequests
  <2>4. RequestTerm[t] = OrderTerm'[o] /\ RequestTerm[t] \in Int
    <3>1. OrderTerm'[o] = Reserved(o)'
      BY DEF OrderTerm
    <3> QED
      BY <1>1, <1>6, <2>1, <3>1, EscrowTerms
  <2>5. EscrowOfRequests(c) = RequestTerm[t] + EscrowOfRequests(c)'
    <3>1. \A h \in EscrowRequests(c) : RequestTerm[h] \in Int
      BY <1>1, EscrowTerms
    <3>2. SumFunctionOnSet(RequestTerm, EscrowRequests(c))
            = RequestTerm[t] + SumFunctionOnSet(RequestTerm, EscrowRequests(c) \ {t})
      BY <1>1, <1>15, <3>1, EscrowTerms, SumRemove
    <3> QED
      BY <1>13, <2>3, <3>2, EscrowSums
  <2>6. EscrowOfRequests(c)' \in Int
    <3>1. IsFiniteSet(EscrowRequests(c) \ {t})
      BY <1>1, EscrowTerms, FS_Subset
    <3>2. \A h \in EscrowRequests(c) \ {t} : RequestTerm[h] \in Int
      BY <1>1, EscrowTerms
    <3>3. SumFunctionOnSet(RequestTerm, EscrowRequests(c) \ {t}) \in Int
      BY <3>1, <3>2, SumInt
    <3> QED
      BY <1>13, <2>3, <3>3, EscrowSums
  <2>7. EscrowOfOrders(c)' = EscrowOfOrders(c) + RequestTerm[t]
    <3>1. EscrowOrders(c)' = EscrowOrders(c) \cup {o}
      BY <1>11, <2>1, <2>2
    <3>2. \A y \in EscrowOrders(c) \cup {o} : OrderTerm'[y] \in Int
      BY <1>10, <2>4
    <3>3. SumFunctionOnSet(OrderTerm', EscrowOrders(c) \cup {o})
            = SumFunctionOnSet(OrderTerm', EscrowOrders(c)) + OrderTerm'[o]
      BY <1>10, <3>2, SumAdd
    <3> QED
      BY <1>12, <2>4, <3>1, <3>3, EscrowSums
  <2> QED
    BY <1>8, <1>9, <2>4, <2>5, <2>6, <2>7
<1>16. CASE t \notin EscrowRequests(c)
  <2>1. EscrowRequests(c)' = EscrowRequests(c)
    BY <1>3, <1>4, <1>14, <1>16 DEF EscrowRequests
  <2>2. EscrowOfRequests(c)' = EscrowOfRequests(c)
    BY <1>13, <2>1, EscrowSums
  <2>3. ~(req[t].user = Demo /\ req[t].kind = "LIMIT" /\ EscrowCurrency(req[t].side) = c)
    <3>1. SUFFICES ASSUME req[t].user = Demo, req[t].kind = "LIMIT", EscrowCurrency(req[t].side) = c PROVE FALSE
      OBVIOUS
    <3>2. t \in Handlers
      <4>1. t = BotLoop => \E q : Made(req[t], Bot, q)
        BY <1>3 DEF TradingInv, Provenance
      <4>2. Demo # Bot
        BY DEF Demo, Bot
      <4> QED
        BY <3>1, <4>1, <4>2, MadeFacts DEF Threads
    <3> QED
      BY <1>3, <1>16, <3>1, <3>2 DEF EscrowRequests
  <2>4. EscrowOfOrders(c)' = EscrowOfOrders(c)
    BY <1>11, <1>12, <2>3, EscrowSums
  <2> QED
    BY <1>8, <1>9, <2>2, <2>4
<1> QED
  BY <1>15, <1>16

(* The engine trades: what the two orders need less, the trade has freed.  *)
LEMMA MatchAccounted ==
  ASSUME ExchangeInv, TradingInv, EscrowAccounted, Match
  PROVE  EscrowAccounted'
<1>1. TypeOK /\ EngineTypes /\ Deals /\ Fills
  BY TypeParts DEF ExchangeInv, TradingInv
<1>2. UNCHANGED <<ord, submitted, settled, accounts, pc, req, cancel, refund>>
  BY DEF Match, Engine!Trade, ledgerVars, threadVars, cancelVars
<1>3. PICK r \in resting \cup late, n \in Nat : TradeStep(r, n)
  BY <1>1, MatchFacts
<1>4. PICK k \in Nat : /\ DOMAIN trades' = DOMAIN trades \cup {k} /\ k \notin DOMAIN trades
                       /\ \A i \in DOMAIN trades : trades'[i] = trades[i]
                       /\ trades'[k] = [maker |-> r, taker |-> taker, price |-> ord[r].price, amount |-> n]
  BY <1>1, <1>3, TapeFacts DEF TradeStep
<1>5. /\ r \in 1 .. submitted /\ r \in Orders /\ taker \in 1 .. submitted /\ taker \in Orders /\ r # taker
      /\ \A o \in Orders : filled'[o] = IF o = taker \/ o = r THEN filled[o] + n ELSE filled[o]
  BY <1>1, <1>3, OrderFacts DEF TradeStep
<1> SUFFICES ASSUME NEW c \in Currencies
             PROVE  accounts'[Demo][c].locked = EscrowOfRequests(c)' + EscrowOfOrders(c)' + EscrowOfTrades(c)'
  BY DEF EscrowAccounted
<1>6. EscrowOfRequests(c)' = EscrowOfRequests(c)
  BY <1>1, <1>2, RequestsStay
<1>7. /\ accounts'[Demo][c].locked = EscrowOfRequests(c) + EscrowOfOrders(c) + EscrowOfTrades(c)
      /\ EscrowOfRequests(c) \in Int /\ EscrowOfOrders(c) \in Int /\ EscrowOfTrades(c) \in Int
  BY <1>1, <1>2, EscrowTerms DEF EscrowAccounted
<1>8. \A o \in Orders : /\ Reserved(o)' = IF o = taker \/ o = r
                                          THEN Reserved(o) - Escrow(ord[o].side, ord[o].price, n) ELSE Reserved(o)
                        /\ Reserved(o) \in Int /\ Escrow(ord[o].side, ord[o].price, n) \in Int
  <2> SUFFICES ASSUME NEW o \in Orders
               PROVE  /\ Reserved(o)' = IF o = taker \/ o = r
                                        THEN Reserved(o) - Escrow(ord[o].side, ord[o].price, n) ELSE Reserved(o)
                      /\ Reserved(o) \in Int /\ Escrow(ord[o].side, ord[o].price, n) \in Int
    OBVIOUS
  <2> DEFINE back == IF cancel[o] \in {"record", "done"} THEN refund[o] ELSE 0
             e == Escrow(ord[o].side, ord[o].price, n)
             now == Escrow(ord[o].side, ord[o].price, ord[o].amount - filled[o])
  <2>1. ord[o].price \in Int /\ ord[o].amount \in Int /\ filled[o] \in Int
    BY <1>1, OrderFacts
  <2>2. Reserved(o) = now - back /\ Reserved(o) \in Int
    BY <1>1, ReservedNow, EscrowTerms
  <2>3. Reserved(o)' = Escrow(ord[o].side, ord[o].price, ord[o].amount - filled'[o]) - back
    BY <1>2, ReservedNext
  <2>4. now \in Int /\ e \in Int
    BY <2>1 DEF Escrow
  <2>5. back \in Int
    <3>1. refund[o] \in Int
      BY <1>1, TypeParts DEF GoroutineTypes
    <3> QED
      BY <3>1
  <2>6. Escrow(ord[o].side, ord[o].price, ord[o].amount - (filled[o] + n)) = now - e
    <3>1. CASE ord[o].side = "BUY"
      <4>1. ord[o].price * (ord[o].amount - (filled[o] + n))
              = ord[o].price * (ord[o].amount - filled[o]) - ord[o].price * n
        BY <2>1
      <4> QED
        BY <3>1, <4>1 DEF Escrow
    <3>2. CASE ord[o].side # "BUY"
      BY <2>1, <3>2 DEF Escrow
    <3> QED
      BY <3>1, <3>2
  <2> HIDE DEF back, e, now
  <2>7. CASE o = taker \/ o = r
    <3>1. Reserved(o)' = (now - e) - back
      BY <1>5, <2>3, <2>6, <2>7
    <3> QED
      BY <2>2, <2>4, <2>5, <2>7, <3>1 DEF e
  <2>8. CASE ~(o = taker \/ o = r)
    BY <1>5, <2>2, <2>3, <2>4, <2>8 DEF now, e
  <2> QED
    BY <2>7, <2>8
<1>9. EscrowOrders(c)' = EscrowOrders(c)
  BY <1>2 DEF EscrowOrders
<1> DEFINE a == IF taker \in EscrowOrders(c) THEN Escrow(ord[taker].side, ord[taker].price, n) ELSE 0
           b == IF r \in EscrowOrders(c) THEN Escrow(ord[r].side, ord[r].price, n) ELSE 0
<1>10. a \in Int /\ b \in Int
  BY <1>5, <1>8
<1>11. EscrowOfOrders(c)' = EscrowOfOrders(c) + ((-a) + (-b))
  <2>1. /\ IsFiniteSet(EscrowOrders(c)) /\ EscrowOrders(c) \subseteq Orders
        /\ \A o \in EscrowOrders(c) : OrderTerm[o] = Reserved(o) /\ OrderTerm'[o] = Reserved(o)'
    BY <1>1, EscrowTerms DEF OrderTerm
  <2>2. /\ \A o \in EscrowOrders(c) : OrderTerm[o] \in Int /\ OrderTerm'[o] \in Int
        /\ \A o \in EscrowOrders(c) : o # taker /\ o # r => OrderTerm'[o] = OrderTerm[o]
    BY <1>8, <2>1
  <2>3. SumFunctionOnSet(OrderTerm', EscrowOrders(c)) = SumFunctionOnSet(OrderTerm, EscrowOrders(c))
          + ((IF taker \in EscrowOrders(c) THEN OrderTerm'[taker] - OrderTerm[taker] ELSE 0)
              + (IF r \in EscrowOrders(c) THEN OrderTerm'[r] - OrderTerm[r] ELSE 0))
    BY <1>5, <2>1, <2>2, SumChanges
  <2>4. (IF taker \in EscrowOrders(c) THEN OrderTerm'[taker] - OrderTerm[taker] ELSE 0) = -a
    BY <1>5, <1>8, <2>1
  <2>5. (IF r \in EscrowOrders(c) THEN OrderTerm'[r] - OrderTerm[r] ELSE 0) = -b
    BY <1>5, <1>8, <2>1
  <2> HIDE DEF a, b
  <2> QED
    BY <1>9, <2>3, <2>4, <2>5, EscrowSums
<1>12. k \in DOMAIN trades' /\ k \notin settled' /\ settled \subseteq DOMAIN trades
  BY <1>1, <1>2, <1>4, ChangeFacts
<1>13. Owing(k, c)' = b + a
  <2>1. /\ trades'[k].maker = r /\ trades'[k].taker = taker /\ trades'[k].amount = n
    BY <1>4
  <2>2. Releases(r, k, c)' = b /\ Releases(trades[k].taker, k, c)' = a
    <3>1. Releases(r, k, c)' = b
      BY <1>2, <1>5, <2>1 DEF Releases, EscrowOrders
    <3>2. Releases(trades[k].taker, k, c)' = a
      BY <1>2, <1>5, <2>1 DEF Releases, EscrowOrders
    <3> QED
      BY <3>1, <3>2
  <2>3. Freed(k, c)' = b + a
    BY <2>1, <2>2 DEF Freed, Releases
  <2>4. Owing(k, c)' = Freed(k, c)' - 0
    BY <1>12 DEF Owing
  <2> HIDE DEF a, b
  <2> QED
    BY <1>10, <2>3, <2>4
<1> HIDE DEF a, b
<1>14. EscrowOfTrades(c)' = EscrowOfTrades(c) + (b + a)
  <2>1. \A i \in DOMAIN trades : /\ TradeTerm(c)'[i] = Owing(i, c)' /\ TradeTerm(c)[i] = Owing(i, c)
                                 /\ Owing(i, c)' = Owing(i, c) /\ TradeTerm(c)[i] \in Int
    BY <1>1, <1>2, <1>4, OwingKept, EscrowTerms DEF TradeTerm
  <2>2. TradeTerm(c)'[k] = b + a
    BY <1>12, <1>13 DEF TradeTerm
  <2>3. SumFunctionOnSet(TradeTerm(c)', DOMAIN trades) = EscrowOfTrades(c)
    BY <1>1, <2>1, EscrowSums, EscrowTerms, SumCongruence
  <2>4. \A i \in DOMAIN trades \cup {k} : TradeTerm(c)'[i] \in Int
    BY <1>10, <2>1, <2>2
  <2>5. SumFunctionOnSet(TradeTerm(c)', DOMAIN trades \cup {k}) = EscrowOfTrades(c) + (b + a)
    BY <1>1, <1>4, <2>2, <2>3, <2>4, EscrowTerms, SumAdd
  <2> QED
    BY <1>4, <2>5, EscrowSums
<1> QED
  BY <1>6, <1>7, <1>10, <1>11, <1>14

(* A settlement takes from escrow what Drawn says.                         *)
LEMMA SettleAccounted ==
  ASSUME ExchangeInv, TradingInv, EscrowAccounted, NEW t \in Threads, Settle(t)
  PROVE  EscrowAccounted'
<1>1. TypeOK /\ GoroutineTypes /\ LedgerTypes /\ Deals /\ Demo \in Users /\ Demo # Bot
  BY TypeParts, ExchangeAssumption DEF ExchangeInv, TradingInv, Demo, Bot
<1>2. UNCHANGED <<ord, filled, submitted, trades, pc, req, cancel, refund, registered>>
  BY DEF Settle, SettleTrade, engineVars, threadVars, cancelVars
<1>3. PICK i \in ToSettle(t) :
        LET trd == trades[i]
            buy == IF ord[trd.maker].side = "BUY" THEN trd.maker ELSE trd.taker
            sell == IF ord[trd.maker].side = "BUY" THEN trd.taker ELSE trd.maker
        IN  /\ SettleTrade(ord[buy].user, ord[sell].user, trd.amount, trd.price, IsBuyerMaker(t, trd))
            /\ settled' = settled \cup {i}
  BY DEF Settle
<1>4. i \in DOMAIN trades /\ i \notin settled /\ trades[i].taker = mine[t]
  BY DEF ToSettle
<1> DEFINE a == trades[i].taker
           b == trades[i].maker
           buyer == IF ord[b].side = "BUY" THEN ord[b].user ELSE ord[a].user
           seller == IF ord[b].side = "BUY" THEN ord[a].user ELSE ord[b].user
           flag == IsBuyerMaker(t, trades[i])
<1>5. SettleTrade(buyer, seller, trades[i].amount, trades[i].price, flag) /\ settled' = settled \cup {i}
  BY <1>3
<1>6. /\ a \in 1 .. submitted /\ b \in 1 .. submitted /\ ord[a].side # ord[b].side
      /\ trades[i].amount \in Int /\ trades[i].price \in Int
  BY <1>1, <1>4, TapeFacts DEF Deals, Engine!Matches
<1>7. buyer \in registered /\ seller \in registered
  BY <1>6 DEF TradingInv, Owners
<1>8. flag \in BOOLEAN /\ (flag <=> ord[a].user = Bot)
  <2>1. flag <=> t = BotLoop
    BY <1>6 DEF IsBuyerMaker
  <2>2. mine[t] # 0 /\ mine[t] = a
    BY <1>1, <1>4, <1>6, OrderFacts
  <2>3. ord[a].user = (IF t = BotLoop THEN Bot ELSE Demo)
    BY <2>2 DEF TradingInv, Owners
  <2>4. flag \in BOOLEAN
    BY DEF IsBuyerMaker
  <2> QED
    BY <1>1, <2>1, <2>3, <2>4
<1>9. \A c \in Currencies :
        Drawn(i, c) = IF flag THEN (IF Demo = buyer /\ c = "USDT" THEN trades[i].amount * trades[i].price ELSE 0)
                              ELSE (IF Demo = seller /\ c = "ETH" THEN trades[i].amount ELSE 0)
  <2> SUFFICES ASSUME NEW c \in Currencies
               PROVE  Drawn(i, c) = IF flag THEN (IF Demo = buyer /\ c = "USDT" THEN trades[i].amount * trades[i].price ELSE 0)
                                            ELSE (IF Demo = seller /\ c = "ETH" THEN trades[i].amount ELSE 0)
    OBVIOUS
  <2>1. trades[i].price * trades[i].amount = trades[i].amount * trades[i].price
    BY <1>6
  <2> DEFINE buy == IF ord[b].side = "BUY" THEN b ELSE a
             sell == IF ord[b].side = "BUY" THEN a ELSE b
  <2>2. ord[buy].user = buyer /\ ord[sell].user = seller
    OBVIOUS
  <2>3. Drawn(i, c) = IF c = (IF ord[a].user = Bot THEN "USDT" ELSE "ETH")
                         /\ ord[IF c = "USDT" THEN buy ELSE sell].user = Demo
                      THEN (IF c = "USDT" THEN trades[i].price * trades[i].amount ELSE trades[i].amount) ELSE 0
    BY DEF Drawn
  <2> HIDE DEF a, b, buy, sell, buyer, seller, flag
  <2> QED
    BY <1>8, <2>1, <2>2, <2>3 DEF Currencies
<1> HIDE DEF a, b, flag, buyer, seller
<1>10. \A c \in Currencies : accounts'[Demo][c].locked = accounts[Demo][c].locked - Drawn(i, c)
  <2>1. accounts \in Accounts /\ registered \subseteq Users
    BY <1>1 DEF LedgerTypes
  <2>2. \A v \in Users, d \in Currencies :
          accounts'[v][d].locked = accounts[v][d].locked
            - (IF flag THEN (IF v = buyer /\ d = "USDT" THEN trades[i].amount * trades[i].price ELSE 0)
                       ELSE (IF v = seller /\ d = "ETH" THEN trades[i].amount ELSE 0))
    BY <1>5, <1>6, <1>7, <1>8, <2>1, SettlementLocks
  <2> QED
    BY <1>1, <1>9, <2>2
<1> SUFFICES ASSUME NEW c \in Currencies
             PROVE  accounts'[Demo][c].locked = EscrowOfRequests(c)' + EscrowOfOrders(c)' + EscrowOfTrades(c)'
  BY DEF EscrowAccounted
<1>11. EscrowOfRequests(c)' = EscrowOfRequests(c)
  BY <1>1, <1>2, RequestsStay
<1>12. EscrowOfOrders(c)' = EscrowOfOrders(c)
  BY <1>1, <1>2, OrdersKept
<1>13. /\ accounts[Demo][c].locked = EscrowOfRequests(c) + EscrowOfOrders(c) + EscrowOfTrades(c)
       /\ EscrowOfRequests(c) \in Int /\ EscrowOfOrders(c) \in Int /\ EscrowOfTrades(c) \in Int
  BY <1>1, EscrowTerms DEF EscrowAccounted
<1>14. /\ Drawn(i, c) \in Int /\ Freed(i, c) \in Int
       /\ Freed(i, c)' = Freed(i, c) /\ Drawn(i, c)' = Drawn(i, c)
  BY <1>1, <1>2, <1>4, OwingFacts, OwingKept
<1>15. EscrowOfTrades(c)' = EscrowOfTrades(c) - Drawn(i, c)
  <2>1. \A j \in DOMAIN trades : j # i => Owing(j, c)' = Owing(j, c)
    BY <1>1, <1>2, <1>5, OwingKept
  <2>2. Owing(i, c) = Freed(i, c) /\ Owing(i, c)' = Freed(i, c) - Drawn(i, c)
    BY <1>4, <1>5, <1>14 DEF Owing
  <2>3. \A j \in DOMAIN trades : TradeTerm(c)'[j] = Owing(j, c)' /\ TradeTerm(c)[j] = Owing(j, c) /\ TradeTerm(c)[j] \in Int
    BY <1>1, <1>2, EscrowTerms DEF TradeTerm
  <2>4. /\ \A j \in DOMAIN trades : j # i => TradeTerm(c)'[j] = TradeTerm(c)[j]
        /\ TradeTerm(c)[i] = Freed(i, c) /\ TradeTerm(c)'[i] = Freed(i, c) - Drawn(i, c)
    BY <1>4, <2>1, <2>2, <2>3
  <2>5. \A j \in DOMAIN trades : TradeTerm(c)[j] \in Int /\ TradeTerm(c)'[j] \in Int
    BY <1>14, <2>3, <2>4
  <2>6. SumFunctionOnSet(TradeTerm(c)', DOMAIN trades)
          = SumFunctionOnSet(TradeTerm(c), DOMAIN trades) + (TradeTerm(c)'[i] - TradeTerm(c)[i])
    BY <1>1, <1>4, <2>4, <2>5, TapeFacts, SumChange
  <2>7. EscrowOfTrades(c)' = EscrowOfTrades(c) + ((Freed(i, c) - Drawn(i, c)) - Freed(i, c))
    BY <1>2, <2>4, <2>6, EscrowSums
  <2> QED
    BY <1>13, <1>14, <2>7
<1> QED
  BY <1>10, <1>11, <1>12, <1>13, <1>14, <1>15

(* A cancellation unlocks what it has read, or nothing.                    *)
LEMMA CancelAccounted ==
  ASSUME ExchangeInv, TradingInv, EscrowAccounted, NEW o \in Orders, CancelUnlock(o)
  PROVE  EscrowAccounted'
<1> DEFINE c0 == EscrowCurrency(ord[o].side)
           u == ord[o].user
           back == IF CanUnlock(u, c0, refund[o]) THEN refund[o] ELSE 0
<1>1. TypeOK /\ GoroutineTypes /\ LedgerTypes /\ Deals /\ Demo \in Users /\ accounts \in Accounts
  BY TypeParts, ExchangeAssumption DEF ExchangeInv, TradingInv, LedgerTypes
<1>2. /\ cancel[o] = "unlock" /\ cancel' = [cancel EXCEPT ![o] = "record"]
      /\ UnlockFunds(u, c0, refund[o])
      /\ refund' = IF CanUnlock(u, c0, refund[o]) THEN refund ELSE [refund EXCEPT ![o] = 0]
      /\ UNCHANGED <<ord, filled, submitted, trades, settled, pc, req>>
  BY DEF CancelUnlock, engineVars, threadVars
<1>3. o \in 1 .. submitted /\ ord[o].kind = "LIMIT"
  BY <1>2 DEF ExchangeInv, Cancellations, TradingInv, LimitsAreCancelled
<1>4. /\ cancel'[o] = "record" /\ \A p \in Orders : p # o => cancel'[p] = cancel[p] /\ refund'[p] = refund[p]
      /\ refund'[o] = back
  BY <1>1, <1>2 DEF GoroutineTypes
<1>5. u \in Users /\ c0 \in Currencies /\ refund[o] \in Int /\ back \in Int /\ -back \in Int /\ -refund[o] \in Int
  <2>1. ord[o].user \in Users
    BY <1>1, OrderFacts
  <2>2. refund[o] \in Int
    BY <1>1 DEF GoroutineTypes
  <2> QED
    BY <2>1, <2>2 DEF EscrowCurrency, Currencies
<1>6. Reserved(o)' = Reserved(o) - back /\ \A p \in Orders : p # o => Reserved(p)' = Reserved(p)
  <2>1. EscrowLeft(o) \in Int /\ EscrowLeft(o)' = EscrowLeft(o)
    BY <1>1, <1>2, EscrowIsInt DEF EscrowLeft, Engine!Left
  <2>2. Reserved(o) = EscrowLeft(o) - 0 /\ Reserved(o)' = EscrowLeft(o) - back
    BY <1>2, <1>4, <2>1 DEF Reserved
  <2>3. \A p \in Orders : p # o => Reserved(p)' = Reserved(p)
    BY <1>2, <1>4, ReservedNow, ReservedNext
  <2> HIDE DEF back
  <2> QED
    BY <1>5, <2>1, <2>2, <2>3
<1>7. \A c \in Currencies : accounts'[Demo][c].locked
                              = accounts[Demo][c].locked - (IF u = Demo /\ c = c0 THEN back ELSE 0)
  <2>1. ASSUME NEW c \in Currencies
        PROVE  /\ accounts[Demo][c].locked \in Int
               /\ Add(accounts, u, c0, refund[o], -refund[o])[Demo][c].locked
                    = accounts[Demo][c].locked + (IF Demo = u /\ c = c0 THEN -refund[o] ELSE 0)
    <3> HIDE DEF u, c0
    <3> QED
      BY <1>1, <1>5, AddLocks
  <2>2. CASE CanUnlock(u, c0, refund[o])
    <3>1. accounts' = Add(accounts, u, c0, refund[o], -refund[o]) /\ back = refund[o]
      BY <1>2, <2>2 DEF UnlockFunds
    <3> HIDE DEF u, c0, back
    <3> QED
      BY <1>5, <2>1, <3>1
  <2>3. CASE ~CanUnlock(u, c0, refund[o])
    <3>1. accounts' = accounts /\ back = 0
      BY <1>2, <2>3 DEF UnlockFunds
    <3> HIDE DEF u, c0, back
    <3> QED
      BY <2>1, <3>1
  <2> QED
    BY <2>2, <2>3
<1> SUFFICES ASSUME NEW c \in Currencies
             PROVE  accounts'[Demo][c].locked = EscrowOfRequests(c)' + EscrowOfOrders(c)' + EscrowOfTrades(c)'
  BY DEF EscrowAccounted
<1>8. EscrowOfRequests(c)' = EscrowOfRequests(c) /\ EscrowOfTrades(c)' = EscrowOfTrades(c)
  BY <1>1, <1>2, RequestsStay, TradesKept
<1>9. /\ accounts[Demo][c].locked = EscrowOfRequests(c) + EscrowOfOrders(c) + EscrowOfTrades(c)
      /\ EscrowOfRequests(c) \in Int /\ EscrowOfOrders(c) \in Int /\ EscrowOfTrades(c) \in Int
  BY <1>1, EscrowTerms DEF EscrowAccounted
<1>10. EscrowOrders(c)' = EscrowOrders(c) /\ (o \in EscrowOrders(c) <=> u = Demo /\ c = c0)
  BY <1>2, <1>3 DEF EscrowOrders
<1>11. /\ IsFiniteSet(EscrowOrders(c)) /\ EscrowOrders(c) \subseteq Orders
       /\ \A p \in EscrowOrders(c) : OrderTerm[p] = Reserved(p) /\ OrderTerm'[p] = Reserved(p)' /\ OrderTerm[p] \in Int
  BY <1>1, EscrowTerms DEF OrderTerm
<1> HIDE DEF u, c0, back
<1>12. CASE u = Demo /\ c = c0
  <2>1. \A p \in EscrowOrders(c) : OrderTerm[p] \in Int /\ OrderTerm'[p] \in Int /\ (p # o => OrderTerm'[p] = OrderTerm[p])
    BY <1>5, <1>6, <1>11
  <2>2. SumFunctionOnSet(OrderTerm', EscrowOrders(c))
          = SumFunctionOnSet(OrderTerm, EscrowOrders(c)) + (OrderTerm'[o] - OrderTerm[o])
    BY <1>10, <1>11, <1>12, <2>1, SumChange
  <2>3. OrderTerm'[o] - OrderTerm[o] = -back
    BY <1>5, <1>6, <1>10, <1>11, <1>12
  <2>4. EscrowOfOrders(c)' = EscrowOfOrders(c) + (-back)
    BY <1>10, <2>2, <2>3, EscrowSums
  <2> QED
    BY <1>5, <1>7, <1>8, <1>9, <1>12, <2>4
<1>13. CASE ~(u = Demo /\ c = c0)
  <2>1. \A p \in EscrowOrders(c) : OrderTerm'[p] = OrderTerm[p]
    BY <1>6, <1>10, <1>11, <1>13
  <2>2. EscrowOfOrders(c)' = EscrowOfOrders(c)
    BY <1>10, <1>11, <2>1, EscrowSums, SumCongruence
  <2> QED
    BY <1>7, <1>8, <1>9, <1>13, <2>2
<1> QED
  BY <1>12, <1>13

\* The faucet's write leaves the escrow alone.
LEMMA FaucetLocks ==
  ASSUME ExchangeInv, Faucet
  PROVE  \A c \in Currencies : accounts'[Demo][c].locked = accounts[Demo][c].locked
<1>1. accounts \in Accounts /\ faucet.at \in Currencies \cup {"done"} /\ Demo \in Users
  BY TypeParts, ExchangeAssumption DEF ExchangeInv, LedgerTypes, FaucetStates
<1>2. CASE FaucetWrite
  <2>1. faucet.at \in Currencies
    BY <1>1, <1>2 DEF FaucetWrite
  <2>2. accounts' = [accounts EXCEPT ![Demo][faucet.at].available = faucet.reg + Credit[faucet.at]]
    BY <1>2 DEF FaucetWrite
  <2> QED
    BY <1>1, <2>1, <2>2 DEF Accounts, Balance
<1>3. CASE FaucetCall \/ FaucetRead
  BY <1>3 DEF FaucetCall, FaucetRead, ledgerVars
<1> QED
  BY <1>2, <1>3 DEF Faucet

\* Nothing is locked, and nothing holds escrow.
LEMMA AccountedInit == Init => EscrowAccounted
<1> SUFFICES ASSUME Init, NEW c \in Currencies
             PROVE  accounts[Demo][c].locked = EscrowOfRequests(c) + EscrowOfOrders(c) + EscrowOfTrades(c)
  BY DEF EscrowAccounted
<1>1. submitted = 0 /\ DOMAIN trades = {}
  BY EmptySeq DEF Init, Engine!Init
<1>2. EscrowRequests(c) = {}
  BY DEF Init, EscrowRequests, Threads, Handlers, BotLoop
<1>3. EscrowOrders(c) = {}
  <2>1. 1 .. submitted = {}
    BY <1>1
  <2> QED
    BY <2>1 DEF EscrowOrders
<1>4. EscrowOfRequests(c) = 0 /\ EscrowOfOrders(c) = 0 /\ EscrowOfTrades(c) = 0
  BY <1>1, <1>2, <1>3, EscrowSums, SumEmpty
<1>5. accounts[Demo][c].locked = 0
  <2>1. accounts = [LedgerEmpty EXCEPT ![Demo] = Endowment(Demo)] /\ Demo \in Users
    BY ExchangeAssumption DEF Init
  <2>2. accounts[Demo] = Endowment(Demo)
    BY <2>1 DEF LedgerEmpty
  <2> QED
    BY <2>2 DEF Endowment
<1> QED
  BY <1>4, <1>5

(* Every step keeps the account of what is locked.                         *)
LEMMA AccountedNext ==
  ASSUME ExchangeInv, TradingInv, EscrowAccounted, [Next]_vars
  PROVE  EscrowAccounted'
<1> USE DEF cancelVars
<1>1. TypeOK /\ GoroutineTypes /\ Deals /\ Demo # Bot /\ Demo \in Users
  BY TypeParts, ExchangeAssumption DEF ExchangeInv, TradingInv, Demo, Bot
<1>2. Handlers \subseteq Threads /\ BotLoop \in Threads /\ BotLoop \notin Handlers
  BY DEF Threads, Handlers, BotLoop
<1>3. ASSUME NEW h \in Handlers, RecordOrder(h) PROVE EscrowAccounted'
  <2>1. UNCHANGED <<ord, filled, submitted, trades, settled, req, accounts, cancel, refund>>
    BY <1>3 DEF RecordOrder, engineVars, ledgerVars
  <2>2. \A g \in Handlers : pc'[g] = "enter" <=> pc[g] = "enter"
    BY <1>1, <1>2, <1>3 DEF RecordOrder, GoroutineTypes
  <2> QED
    BY <1>1, <2>1, <2>2, EscrowFrame
<1>4. ASSUME BotStart \/ BotWait \/ \E q \in SeedRequests \cup PulseRequests : BotTick(q) PROVE EscrowAccounted'
  <2>1. UNCHANGED <<ord, filled, submitted, trades, settled, cancel, refund>>
    BY <1>4 DEF BotStart, BotWait, BotTick, engineVars
  <2>2. \A g \in Handlers : pc'[g] = pc[g] /\ req'[g] = req[g]
    BY <1>1, <1>2, <1>4 DEF BotStart, BotWait, BotTick, GoroutineTypes
  <2>3. accounts'[Demo] = accounts[Demo]
    <3>1. CASE BotStart
      <4>1. accounts' = accounts \/ accounts' = [accounts EXCEPT ![Bot] = Endowment(Bot)]
        BY <3>1 DEF BotStart, RegisterUser
      <4>2. accounts \in [Users -> [Currencies -> Balance]]
        BY <1>1 DEF TypeOK
      <4> QED
        BY <1>1, <4>1, <4>2
    <3>2. CASE BotWait \/ \E q \in SeedRequests \cup PulseRequests : BotTick(q)
      BY <3>2 DEF BotWait, BotTick, ledgerVars
    <3> QED
      BY <1>4, <3>1, <3>2
  <2> QED
    BY <1>1, <2>1, <2>2, <2>3, EscrowFrame
<1>5. ASSUME NEW o \in Orders, CancelInEngine(o) \/ CancelRead(o) \/ CancelRecord(o) PROVE EscrowAccounted'
  <2>1. UNCHANGED <<ord, filled, submitted, trades, settled, accounts, pc, req>>
    BY <1>5 DEF CancelInEngine, CancelRead, CancelRecord, Engine!Withdraw, engineVars, ledgerVars, threadVars
  <2>2. \A p \in Orders : p # o => cancel'[p] = cancel[p] /\ refund'[p] = refund[p]
    BY <1>1, <1>5 DEF CancelInEngine, CancelRead, CancelRecord, GoroutineTypes
  <2>3. /\ cancel'[o] \in {"record", "done"} <=> cancel[o] \in {"record", "done"}
        /\ cancel[o] \in {"record", "done"} => refund'[o] = refund[o]
    BY <1>1, <1>5 DEF CancelInEngine, CancelRead, CancelRecord, GoroutineTypes
  <2> QED
    BY <1>1, <2>1, <2>2, <2>3, EscrowFrame
<1>6. ASSUME Faucet PROVE EscrowAccounted'
  <2>1. UNCHANGED <<ord, filled, submitted, trades, settled, cancel, refund, pc, req>>
    BY <1>6 DEF Faucet, FaucetCall, FaucetRead, FaucetWrite, engineVars, threadVars
  <2> QED
    BY <1>1, <1>6, <2>1, FaucetLocks, EscrowFrame
<1>7. ASSUME NEW t \in Threads, Leave(t) PROVE EscrowAccounted'
  <2>1. UNCHANGED <<ord, filled, submitted, trades, settled, accounts, req, cancel, refund>>
    BY <1>7 DEF Leave, Engine!Finish, ledgerVars
  <2>2. \A h \in Handlers : pc'[h] = "enter" <=> pc[h] = "enter"
    <3>1. AfterMatch(t) # "enter" /\ pc[t] = "match"
      BY <1>7 DEF AfterMatch, Leave
    <3>2. \A u \in Threads : pc'[u] = IF u = t THEN AfterMatch(t) ELSE pc[u]
      BY <1>1, <1>7 DEF Leave, GoroutineTypes
    <3> QED
      BY <1>2, <3>1, <3>2
  <2> QED
    BY <1>1, <2>1, <2>2, EscrowFrame
<1>8. ASSUME TakeOut PROVE EscrowAccounted'
  <2>1. UNCHANGED <<ord, filled, submitted, trades, settled, accounts, pc, req, cancel, refund>>
    BY <1>8 DEF TakeOut, Engine!Remove, ledgerVars, threadVars
  <2> QED
    BY <1>1, <2>1, EscrowFrame
<1>9. ASSUME UNCHANGED vars PROVE EscrowAccounted'
  <2>1. UNCHANGED <<ord, filled, submitted, trades, settled, accounts, pc, req, cancel, refund>>
    BY <1>9 DEF vars, engineVars, threadVars, ledgerVars
  <2> QED
    BY <1>1, <2>1, EscrowFrame
<1>10. [Next]_vars =>
         \/ \E h \in Handlers, q \in DemoRequests : Request(h, q)
         \/ \E h \in Handlers : RecordOrder(h)
         \/ \E t \in Threads : Enter(t) \/ Leave(t) \/ Settle(t)
         \/ Match \/ TakeOut \/ Faucet
         \/ BotStart \/ BotWait \/ \E q \in SeedRequests \cup PulseRequests : BotTick(q)
         \/ \E o \in Orders : CancelInEngine(o) \/ CancelRead(o) \/ CancelUnlock(o) \/ CancelRecord(o)
         \/ UNCHANGED vars
  BY DEF Next, Place, Shared, Market, Delete
<1>11. \A h \in Handlers, q \in DemoRequests : Request(h, q) => EscrowAccounted'
  BY RequestAccounted
<1>12. \A t \in Threads : Enter(t) \/ Settle(t) => EscrowAccounted'
  BY EnterAccounted, SettleAccounted
<1>13. \A o \in Orders : CancelUnlock(o) => EscrowAccounted'
  BY CancelAccounted
<1>14. Match => EscrowAccounted'
  BY MatchAccounted
<1> QED
  BY <1>3, <1>4, <1>5, <1>6, <1>7, <1>8, <1>9, <1>10, <1>11, <1>12, <1>13, <1>14

(* Wherever the goroutines stand, however their steps interleave with the   *)
(* match and with the faucet's unlocked ones, and whatever is requested:    *)
(* what the demo user has locked is the escrow of its requests on their way *)
(* to the engine, of what its orders have left, less what cancellations     *)
(* have given back, and of its trades, less what their settlement has taken *)
(* (main.go:228-256, 289-307, ledger.go:82-170).  Every order has an ID of  *)
(* its own here.                                                           *)
THEOREM EscrowStaysAccounted == Spec => []EscrowAccounted
<1> DEFINE Inv == ExchangeInv /\ TradingInv /\ EscrowAccounted
<1>1. Init => Inv
  BY ExchangeInitInv, TradingInitInv, AccountedInit
<1>2. Inv /\ [Next]_vars => Inv'
  BY ExchangeNextInv, TradingNextInv, AccountedNext
<1>3. Inv => EscrowAccounted
  OBVIOUS
<1> QED
  BY <1>1, <1>2, <1>3, PTL DEF Spec

-----------------------------------------------------------------------------
(***************************************************************************)
(* The terms that lose escrow for good are those of Faultless.  Without    *)
(* them no term is negative, so what a cancellation unlocks is there, and  *)
(* in the end only the resting orders have a term that is not zero.        *)
(***************************************************************************)
\* No order is lost: what has something left waits in the book, is being matched or was
\* taken out by a cancellation.  A limit order without a price is refused by AddOrder.
OrdersAreKept ==
  \A o \in 1 .. submitted :
    ord[o].kind = "LIMIT" /\ ord[o].price > 0 /\ Engine!Left(o) > 0 =>
      o \in resting \cup {taker} \/ cancel[o] # "none"

\* Without a fault, what a cancellation has read is what it unlocks, and what the order
\* has left.
RefundsAreRight ==
  Faultless =>
    \A o \in 1 .. submitted :
      ord[o].user = Demo /\ cancel[o] \in {"unlock", "record", "done"} => refund[o] = EscrowLeft(o)

(* What EscrowLostOnlyByFault and CancelUnlocksEscrow rest on.             *)
EscrowInv == TradingInv /\ EscrowAccounted /\ OrdersAreKept /\ RefundsAreRight

\* What has happened stays as it was.
LEMMA PastIsKept ==
  ASSUME ExchangeInv, TradingInv, Next
  PROVE  /\ submitted \in Nat /\ submitted' \in Nat /\ submitted <= submitted'
         /\ \A o \in 1 .. submitted : ord'[o] = ord[o]
         /\ overtaken \subseteq overtaken' /\ settled \subseteq settled'
         /\ \A i \in DOMAIN trades : trades'[i] = trades[i]
<1> USE DEF cancelVars
<1>1. TypeOK /\ EngineTypes /\ Fills /\ submitted \in Nat /\ 1 .. submitted \subseteq Orders
  BY TypeParts, OrderFacts DEF ExchangeInv, TradingInv
<1>2. ASSUME NEW t \in Threads, Enter(t)
      PROVE  /\ submitted' = submitted + 1 /\ \A o \in 1 .. submitted : ord'[o] = ord[o]
             /\ UNCHANGED <<overtaken, settled, trades>>
  <2>1. ord' = [ord EXCEPT ![submitted + 1] = req[t]] /\ submitted' = submitted + 1
    BY <1>2 DEF Enter, Engine!Submit
  <2>2. \A o \in 1 .. submitted : o # submitted + 1
    BY <1>1
  <2>3. \A o \in 1 .. submitted : ord'[o] = ord[o]
    BY <1>1, <2>1, <2>2 DEF EngineTypes
  <2> QED
    BY <1>2, <2>1, <2>3 DEF Enter, Engine!Submit
<1>3. ASSUME Match
      PROVE  UNCHANGED <<submitted, ord, overtaken, settled>> /\ \A i \in DOMAIN trades : trades'[i] = trades[i]
  <2>1. \E r \in resting \cup late, n \in Nat : TradeStep(r, n)
    BY <1>1, <1>3, MatchFacts DEF ExchangeInv
  <2> QED
    BY <1>3, <2>1 DEF Match, Engine!Trade, TradeStep
<1>4. ASSUME TakeOut \/ \E t \in Threads : Leave(t)
      PROVE  UNCHANGED <<submitted, ord, overtaken, settled, trades>>
  BY <1>4 DEF TakeOut, Engine!Remove, Leave, Engine!Finish
<1>5. ASSUME NEW t \in Threads, Settle(t)
      PROVE  UNCHANGED <<submitted, ord, overtaken, trades>> /\ settled \subseteq settled'
  BY <1>5 DEF Settle, engineVars
<1>6. ASSUME NEW o \in Orders, Delete(o)
      PROVE  UNCHANGED <<submitted, ord, settled, trades>> /\ overtaken \subseteq overtaken'
  BY <1>6 DEF Delete, CancelInEngine, Engine!Withdraw, CancelRead, CancelUnlock, CancelRecord, engineVars
<1>7. ASSUME Market \/ Faucet \/ \E h \in Handlers : Place(h)
      PROVE  UNCHANGED <<submitted, ord, overtaken, settled, trades>>
  BY <1>7 DEF Market, BotStart, BotTick, BotWait, Faucet, FaucetCall, FaucetRead, FaucetWrite,
              Place, Request, RecordOrder, engineVars
<1>8. CASE \E t \in Threads : Enter(t)
  BY <1>1, <1>2, <1>8
<1>9. CASE Match \/ TakeOut \/ (\E t \in Threads : Leave(t) \/ Settle(t)) \/ (\E o \in Orders : Delete(o))
           \/ Market \/ Faucet \/ (\E h \in Handlers : Place(h))
  BY <1>1, <1>3, <1>4, <1>5, <1>6, <1>7, <1>9
<1> QED
  BY <1>8, <1>9 DEF Next, Shared

\* A request on its way to the engine is the same until it enters.
LEMMA RequestsWait ==
  ASSUME TypeOK, Next, NEW h \in Handlers, pc[h] = "enter"
  PROVE  Enter(h) \/ (pc'[h] = "enter" /\ req'[h] = req[h])
<1>1. GoroutineTypes /\ h \in Threads /\ h # BotLoop
  BY TypeParts DEF Threads, Handlers, BotLoop
<1>2. ASSUME NEW g \in Handlers, Place(g) PROVE pc'[h] = "enter" /\ req'[h] = req[h]
  BY <1>1, <1>2 DEF Place, Request, RecordOrder, GoroutineTypes
<1>3. ASSUME NEW t \in Threads, Shared(t), ~Enter(h) PROVE pc'[h] = "enter" /\ req'[h] = req[h]
  <2>1. CASE Enter(t) \/ Leave(t)
    BY <1>1, <1>3, <2>1 DEF Enter, Leave, GoroutineTypes
  <2>2. CASE Settle(t)
    BY <2>2 DEF Settle, threadVars
  <2> QED
    BY <1>3, <2>1, <2>2 DEF Shared
<1>4. ASSUME Market PROVE pc'[h] = "enter" /\ req'[h] = req[h]
  BY <1>1, <1>4 DEF Market, BotStart, BotTick, BotWait, GoroutineTypes
<1>5. ASSUME Match \/ TakeOut \/ Faucet \/ \E o \in Orders : Delete(o)
      PROVE  pc'[h] = "enter" /\ req'[h] = req[h]
  BY <1>5 DEF Match, TakeOut, Faucet, FaucetCall, FaucetRead, FaucetWrite, Delete, CancelInEngine,
              CancelRead, CancelUnlock, CancelRecord, threadVars
<1> QED
  BY <1>2, <1>3, <1>4, <1>5 DEF Next

\* Once something has gone wrong, it has.
LEMMA FaultsRemain ==
  ASSUME ExchangeInv, TradingInv, [Next]_vars, Faultless'
  PROVE  Faultless
<1>1. TypeOK /\ GoroutineTypes /\ EngineTypes /\ Deals /\ Handlers \subseteq Threads
  BY TypeParts DEF ExchangeInv, TradingInv, Threads
<1>2. CASE Next
  <2>1. /\ submitted \in Nat /\ submitted' \in Nat /\ submitted <= submitted'
        /\ \A o \in 1 .. submitted : ord'[o] = ord[o]
        /\ overtaken \subseteq overtaken' /\ settled \subseteq settled'
        /\ \A i \in DOMAIN trades : trades'[i] = trades[i]
    BY <1>2, PastIsKept
  <2>2. \A o \in 1 .. submitted : o \in 1 .. submitted'
    BY <2>1
  <2>3. \A o \in 1 .. submitted : ord[o].kind = "LIMIT" => ord[o].price > 0
    BY <2>1, <2>2 DEF Faultless
  <2>4. ASSUME NEW h \in Handlers, pc[h] = "enter", req[h].kind = "LIMIT" PROVE req[h].price > 0
    <3>1. CASE pc'[h] = "enter" /\ req'[h] = req[h]
      BY <2>4, <3>1 DEF Faultless
    <3>2. CASE Enter(h)
      <4>1. ord' = [ord EXCEPT ![submitted + 1] = req[h]] /\ submitted' = submitted + 1 /\ submitted < MaxOrders
        BY <3>2 DEF Enter, Engine!Submit
      <4>2. submitted + 1 \in Orders /\ submitted + 1 \in 1 .. submitted'
        <5>1. MaxOrders \in Nat
          BY <1>1, OrderFacts
        <5> QED
          BY <2>1, <4>1, <5>1 DEF Orders
      <4>3. ord'[submitted + 1] = req[h]
        BY <1>1, <4>1, <4>2 DEF EngineTypes
      <4> QED
        BY <2>4, <4>2, <4>3 DEF Faultless
    <3> QED
      BY <1>1, <1>2, <2>4, <3>1, <3>2, RequestsWait
  <2>5. overtaken = {}
    BY <2>1 DEF Faultless
  <2>6. ASSUME NEW i \in settled, NEW c \in Currencies PROVE Freed(i, c) = Drawn(i, c)
    <3>1. i \in DOMAIN trades
      BY <1>1 DEF TypeOK
    <3>2. Freed(i, c)' = Freed(i, c) /\ Drawn(i, c)' = Drawn(i, c)
      BY <1>1, <2>1, <3>1, OwingKept
    <3>3. Freed(i, c)' = Drawn(i, c)'
      BY <2>1 DEF Faultless
    <3> QED
      BY <3>2, <3>3
  <2> QED
    BY <2>3, <2>4, <2>5, <2>6 DEF Faultless
<1>3. CASE UNCHANGED vars
  BY <1>3 DEF vars, engineVars, threadVars, cancelVars, Faultless, Freed, Releases, Drawn
<1> QED
  BY <1>2, <1>3

\* A step that leaves the engine alone loses no order.
LEMMA KeptFrame ==
  ASSUME OrdersAreKept, UNCHANGED <<ord, filled, resting, submitted, taker>>,
         \A o \in 1 .. submitted : cancel[o] # "none" => cancel'[o] # "none"
  PROVE  OrdersAreKept'
BY DEF OrdersAreKept, Engine!Left

\* No step loses an order.
LEMMA OrdersKeptNext ==
  ASSUME ExchangeInv, TradingInv, OrdersAreKept, [Next]_vars
  PROVE  OrdersAreKept'
<1> USE DEF cancelVars
<1>1. TypeOK /\ EngineTypes /\ GoroutineTypes /\ Fills /\ submitted \in Nat /\ 1 .. submitted \subseteq Orders
  BY TypeParts, OrderFacts DEF ExchangeInv, TradingInv
<1>2. ASSUME NEW t \in Threads, Enter(t) PROVE OrdersAreKept'
  <2>1. /\ taker = 0 /\ taker' = submitted + 1 /\ submitted' = submitted + 1
        /\ ord' = [ord EXCEPT ![submitted + 1] = req[t]] /\ UNCHANGED <<filled, resting, cancel>>
    BY <1>2 DEF Enter, Engine!Submit
  <2>2. \A o \in 1 .. submitted' : o = taker' \/ (o \in 1 .. submitted /\ o # submitted + 1)
    BY <1>1, <2>1
  <2>3. \A o \in 1 .. submitted : ord'[o] = ord[o] /\ filled'[o] = filled[o] /\ o # taker
    BY <1>1, <2>1 DEF EngineTypes
  <2> QED
    BY <2>1, <2>2, <2>3 DEF OrdersAreKept, Engine!Left
<1>3. ASSUME Match PROVE OrdersAreKept'
  <2>1. PICK r \in resting \cup late, n \in Nat : TradeStep(r, n)
    BY <1>1, <1>3, MatchFacts DEF ExchangeInv
  <2>2. resting' = resting /\ UNCHANGED <<ord, submitted, taker, cancel>>
    BY <1>3, <2>1 DEF Match, Engine!Trade, TradeStep
  <2>3. ASSUME NEW o \in 1 .. submitted, Engine!Left(o)' > 0 PROVE Engine!Left(o) > 0
    <3>1. o \in Orders /\ filled[o] \in Nat /\ ord[o].amount \in Nat
      BY <1>1, OrderFacts
    <3>2. filled'[o] = filled[o] \/ filled'[o] = filled[o] + n
      BY <2>1, <3>1 DEF TradeStep
    <3> QED
      BY <2>2, <2>3, <3>1, <3>2 DEF Engine!Left
  <2> QED
    BY <2>2, <2>3 DEF OrdersAreKept
<1>4. ASSUME TakeOut PROVE OrdersAreKept'
  <2>1. PICK r \in resting : Engine!Left(r) = 0 /\ resting' = resting \ {r}
    BY <1>4 DEF TakeOut, Engine!Remove
  <2>2. UNCHANGED <<ord, filled, submitted, taker, cancel>>
    BY <1>4 DEF TakeOut, Engine!Remove
  <2> QED
    BY <2>1, <2>2 DEF OrdersAreKept, Engine!Left
<1>5. ASSUME NEW t \in Threads, Leave(t) PROVE OrdersAreKept'
  <2>1. /\ resting' = IF Engine!Left(taker) > 0 /\ ord[taker].kind = "LIMIT" /\ ord[taker].price > 0
                      THEN resting \cup {taker} ELSE resting
        /\ UNCHANGED <<ord, filled, submitted, cancel>>
    BY <1>5 DEF Leave, Engine!Finish
  <2> QED
    BY <2>1 DEF OrdersAreKept, Engine!Left
<1>6. ASSUME NEW p \in Orders, CancelInEngine(p) PROVE OrdersAreKept'
  <2>1. resting' = resting \ {p} /\ cancel' = [cancel EXCEPT ![p] = "read"]
        /\ UNCHANGED <<ord, filled, submitted, taker>>
    BY <1>6 DEF CancelInEngine, Engine!Withdraw
  <2>2. \A o \in Orders : cancel'[o] = IF o = p THEN "read" ELSE cancel[o]
    BY <1>1, <2>1 DEF GoroutineTypes
  <2> QED
    BY <1>1, <2>1, <2>2 DEF OrdersAreKept, Engine!Left
<1>7. ASSUME NEW p \in Orders, CancelRead(p) \/ CancelUnlock(p) \/ CancelRecord(p) PROVE OrdersAreKept'
  <2>1. UNCHANGED <<ord, filled, resting, submitted, taker>>
    BY <1>7 DEF CancelRead, CancelUnlock, CancelRecord, engineVars
  <2>2. \A o \in Orders : cancel[o] # "none" => cancel'[o] # "none"
    BY <1>1, <1>7 DEF CancelRead, CancelUnlock, CancelRecord, GoroutineTypes
  <2> QED
    BY <1>1, <2>1, <2>2, KeptFrame
<1>8. ASSUME Market \/ Faucet \/ (\E h \in Handlers : Place(h)) \/ (\E t \in Threads : Settle(t)) \/ UNCHANGED vars
      PROVE  OrdersAreKept'
  <2>1. UNCHANGED <<ord, filled, resting, submitted, taker, cancel>>
    BY <1>8 DEF Market, BotStart, BotTick, BotWait, Faucet, FaucetCall, FaucetRead, FaucetWrite,
                Place, Request, RecordOrder, Settle, vars, engineVars
  <2> QED
    BY <2>1, KeptFrame
<1> QED
  BY <1>2, <1>3, <1>4, <1>5, <1>6, <1>7, <1>8 DEF Next, Shared, Delete

\* Without a fault, every order and every trade holds what it seems to, and no more
\* than all of it is locked.
LEMMA ShareIsLocked ==
  ASSUME ExchangeInv, TradingInv, EscrowAccounted, RefundsAreRight, Faultless,
         NEW o \in 1 .. submitted, ord[o].user = Demo, ord[o].kind = "LIMIT"
  PROVE  /\ EscrowLeft(o) \in Nat
         /\ Reserved(o) <= accounts[Demo][EscrowCurrency(ord[o].side)].locked
<1> DEFINE c == EscrowCurrency(ord[o].side)
<1>1. TypeOK /\ GoroutineTypes /\ Deals /\ Fills /\ Provenance /\ 1 .. submitted \subseteq Orders /\ c \in Currencies
  BY TypeParts, OrderFacts DEF ExchangeInv, TradingInv, EscrowCurrency, Currencies
<1>2. \A s, p, a : p \in Nat /\ a \in Nat => Escrow(s, p, a) \in Nat
  BY DEF Escrow
<1>3. ASSUME NEW p \in 1 .. submitted, ord[p].kind = "LIMIT" PROVE ord[p].price \in Nat /\ EscrowLeft(p) \in Nat
  <2>1. ord[p].price \in Int /\ ord[p].price > 0 /\ Engine!Left(p) \in Int /\ Engine!Left(p) >= 0
    BY <1>1, <1>3, OrderFacts DEF Faultless, Fills
  <2>2. ord[p].price \in Nat /\ Engine!Left(p) \in Nat
    BY <2>1
  <2> QED
    BY <1>2, <2>2 DEF EscrowLeft
<1>4. \A h \in EscrowRequests(c) : RequestTerm[h] \in Nat
  <2> SUFFICES ASSUME NEW h \in EscrowRequests(c) PROVE RequestTerm[h] \in Nat
    OBVIOUS
  <2>1. h \in Handlers /\ pc[h] = "enter" /\ req[h].kind = "LIMIT"
    BY DEF EscrowRequests
  <2>2. req[h].price > 0
    BY <2>1 DEF Faultless
  <2>3. req[h] \in Details \cup {Blank}
    BY <1>1, <2>1 DEF GoroutineTypes, Threads
  <2>4. \A d \in Details : d.price \in Prices \cup {0} /\ d.amount \in Amounts
    BY DEF Details
  <2>5. req[h].price \in Nat /\ req[h].amount \in Nat
    BY <2>2, <2>3, <2>4, Numbers DEF Blank
  <2> QED
    BY <1>2, <2>1, <2>5 DEF RequestTerm
<1>5. \A p \in EscrowOrders(c) : OrderTerm[p] \in Nat
  <2> SUFFICES ASSUME NEW p \in EscrowOrders(c) PROVE OrderTerm[p] \in Nat
    OBVIOUS
  <2>1. p \in 1 .. submitted /\ p \in Orders /\ ord[p].user = Demo /\ ord[p].kind = "LIMIT"
    BY <1>1 DEF EscrowOrders
  <2>2. EscrowLeft(p) \in Nat
    BY <1>3, <2>1
  <2>3. Reserved(p) = EscrowLeft(p) - 0 \/ Reserved(p) = EscrowLeft(p) - EscrowLeft(p)
    BY <2>1 DEF Reserved, RefundsAreRight
  <2>4. OrderTerm[p] = Reserved(p)
    BY <2>1 DEF OrderTerm
  <2> QED
    BY <2>2, <2>3, <2>4
<1>6. \A i \in DOMAIN trades : TradeTerm(c)[i] \in Nat
  <2> SUFFICES ASSUME NEW i \in DOMAIN trades PROVE Owing(i, c) \in Nat
    BY DEF TradeTerm
  <2>1. trades[i].maker \in 1 .. submitted /\ trades[i].taker \in 1 .. submitted /\ trades[i].amount \in Nat
    BY <1>1, TapeFacts DEF Deals
  <2>2. \A p \in 1 .. submitted : Releases(p, i, c) \in Nat
    <3> SUFFICES ASSUME NEW p \in 1 .. submitted PROVE Releases(p, i, c) \in Nat
      OBVIOUS
    <3>1. CASE ord[p].kind = "LIMIT"
      <4>1. ord[p].price \in Nat
        BY <1>3, <3>1
      <4> QED
        BY <1>2, <2>1, <4>1 DEF Releases
    <3>2. CASE ord[p].kind # "LIMIT"
      BY <3>2 DEF Releases
    <3> QED
      BY <3>1, <3>2
  <2>3. Freed(i, c) \in Nat
    BY <2>1, <2>2 DEF Freed
  <2>4. i \in settled => Freed(i, c) = Drawn(i, c)
    BY <1>1 DEF Faultless
  <2> QED
    BY <2>3, <2>4 DEF Owing
<1> HIDE DEF c
<1>7. /\ IsFiniteSet(EscrowRequests(c)) /\ IsFiniteSet(EscrowOrders(c)) /\ IsFiniteSet(DOMAIN trades)
  BY <1>1, EscrowTerms
<1>8. EscrowOfRequests(c) \in Nat /\ EscrowOfTrades(c) \in Nat
  BY <1>4, <1>6, <1>7, EscrowSums, SumNat
<1>9. o \in EscrowOrders(c) /\ o \in Orders /\ OrderTerm[o] = Reserved(o)
  BY <1>1 DEF EscrowOrders, OrderTerm, c
<1>10. Reserved(o) <= EscrowOfOrders(c) /\ Reserved(o) \in Nat
  BY <1>5, <1>7, <1>9, EscrowSums, SumBounds
<1>11. EscrowOfOrders(c) \in Nat
  BY <1>5, <1>7, EscrowSums, SumNat
<1>12. accounts[Demo][c].locked = EscrowOfRequests(c) + EscrowOfOrders(c) + EscrowOfTrades(c)
  BY <1>1 DEF EscrowAccounted
<1>13. Reserved(o) <= accounts[Demo][c].locked
  BY <1>8, <1>10, <1>11, <1>12
<1> QED
  BY <1>3, <1>13 DEF c

\* Without a fault, a cancellation unlocks what its order has left.
LEMMA UnlockSucceeds ==
  ASSUME ExchangeInv, TradingInv, EscrowAccounted, RefundsAreRight, Faultless,
         NEW o \in Orders, CancelUnlock(o), ord[o].user = Demo
  PROVE  /\ refund[o] = EscrowLeft(o) /\ refund' = refund
         /\ CanUnlock(Demo, EscrowCurrency(ord[o].side), EscrowLeft(o))
<1>1. o \in 1 .. submitted /\ ord[o].kind = "LIMIT" /\ cancel[o] = "unlock"
  BY DEF CancelUnlock, ExchangeInv, Cancellations, TradingInv, LimitsAreCancelled
<1>2. refund[o] = EscrowLeft(o)
  BY <1>1 DEF RefundsAreRight
<1>3. EscrowLeft(o) \in Nat /\ Reserved(o) <= accounts[Demo][EscrowCurrency(ord[o].side)].locked
  BY <1>1, ShareIsLocked
<1>4. Reserved(o) = EscrowLeft(o)
  BY <1>1, <1>3 DEF Reserved
<1>5. accounts[Demo][EscrowCurrency(ord[o].side)].locked \in Int
  <2>1. accounts \in Accounts /\ Demo \in Users
    BY TypeParts, ExchangeAssumption DEF ExchangeInv, LedgerTypes
  <2>2. EscrowCurrency(ord[o].side) \in Currencies
    BY DEF EscrowCurrency, Currencies
  <2> QED
    BY <2>1, <2>2 DEF Accounts, Balance
<1>6. CanUnlock(Demo, EscrowCurrency(ord[o].side), EscrowLeft(o))
  BY <1>3, <1>4, <1>5 DEF CanUnlock, TradingInv, Owners
<1>7. refund' = refund
  BY <1>2, <1>6 DEF CancelUnlock
<1> QED
  BY <1>2, <1>6, <1>7

\* What a cancellation that has read its refund, and the order it was read from, go
\* through in a step in which nothing goes wrong.
LEMMA RefundsFrame ==
  ASSUME RefundsAreRight, Faultless, UNCHANGED submitted,
         \A o \in 1 .. submitted :
           ord'[o].user = Demo /\ cancel'[o] \in {"unlock", "record", "done"} =>
             /\ ord[o].user = Demo /\ cancel[o] \in {"unlock", "record", "done"}
             /\ refund'[o] = refund[o] /\ ord'[o] = ord[o] /\ filled'[o] = filled[o]
  PROVE  RefundsAreRight'
<1> SUFFICES ASSUME NEW o \in 1 .. submitted, ord'[o].user = Demo, cancel'[o] \in {"unlock", "record", "done"}
             PROVE  refund'[o] = Escrow(ord'[o].side, ord'[o].price, ord'[o].amount - filled'[o])
  BY DEF RefundsAreRight, EscrowLeft, Engine!Left
<1>1. refund[o] = Escrow(ord[o].side, ord[o].price, ord[o].amount - filled[o])
  BY DEF RefundsAreRight, EscrowLeft, Engine!Left
<1> QED
  BY <1>1

\* No step makes a refund wrong.
LEMMA RefundsNext ==
  ASSUME ExchangeInv, TradingInv, EscrowAccounted, RefundsAreRight, [Next]_vars
  PROVE  RefundsAreRight'
<1> USE DEF cancelVars
<1> SUFFICES ASSUME Faultless' PROVE RefundsAreRight'
  BY DEF RefundsAreRight
<1>1. TypeOK /\ EngineTypes /\ GoroutineTypes /\ Fills /\ submitted \in Nat /\ 1 .. submitted \subseteq Orders
  BY TypeParts, OrderFacts DEF ExchangeInv, TradingInv
<1>2. Faultless
  BY FaultsRemain
<1>3. ASSUME NEW t \in Threads, Enter(t) PROVE RefundsAreRight'
  <2>1. /\ submitted' = submitted + 1 /\ ord' = [ord EXCEPT ![submitted + 1] = req[t]]
        /\ UNCHANGED <<filled, cancel, refund>>
    BY <1>3 DEF Enter, Engine!Submit
  <2>2. submitted < MaxOrders /\ submitted + 1 \in Orders
    <3>1. submitted < MaxOrders /\ MaxOrders \in Nat
      BY <1>1, <1>3, OrderFacts DEF Enter, Engine!Submit
    <3> QED
      BY <1>1, <3>1 DEF Orders
  <2>3. cancel[submitted + 1] = "none"
    <3>1. submitted + 1 \notin 1 .. submitted
      BY <1>1
    <3> QED
      BY <2>2, <3>1 DEF ExchangeInv, Cancellations
  <2>4. \A o \in 1 .. submitted' : o = submitted + 1 \/ (o \in 1 .. submitted /\ o # submitted + 1)
    BY <1>1, <2>1
  <2>5. \A o \in 1 .. submitted : ord'[o] = ord[o] /\ EscrowLeft(o)' = EscrowLeft(o)
    <3>1. \A o \in 1 .. submitted : o # submitted + 1
      BY <1>1
    <3>2. \A o \in 1 .. submitted : ord'[o] = ord[o]
      BY <1>1, <2>1, <3>1 DEF EngineTypes
    <3> QED
      BY <2>1, <3>2 DEF EscrowLeft, Engine!Left
  <2> QED
    BY <1>2, <2>1, <2>3, <2>4, <2>5 DEF RefundsAreRight
<1>4. ASSUME Match PROVE RefundsAreRight'
  <2>1. PICK r \in resting \cup late, n \in Nat : TradeStep(r, n)
    BY <1>1, <1>4, MatchFacts DEF ExchangeInv
  <2>2. UNCHANGED <<ord, submitted, taker, cancel, refund>>
    BY <1>4 DEF Match, Engine!Trade
  <2>3. cancel[taker] = "none" /\ cancel[r] = "none"
    <3>1. late = {}
      BY <1>2 DEF Faultless, ExchangeInv, RestingOrders
    <3>2. r \in resting /\ r \in Orders /\ taker \in Orders
      BY <1>1, <2>1, <3>1 DEF TradeStep
    <3> QED
      BY <3>2 DEF ExchangeInv, Cancellations
  <2>4. \A o \in 1 .. submitted : cancel[o] \in {"unlock", "record", "done"} => filled'[o] = filled[o]
    BY <1>1, <2>1, <2>3 DEF TradeStep
  <2> QED
    BY <1>2, <2>2, <2>4, RefundsFrame
<1>5. ASSUME TakeOut \/ \E t \in Threads : Leave(t) PROVE RefundsAreRight'
  <2>1. UNCHANGED <<ord, filled, submitted, cancel, refund>>
    BY <1>5 DEF TakeOut, Engine!Remove, Leave, Engine!Finish
  <2> QED
    BY <1>2, <2>1, RefundsFrame
<1>6. ASSUME NEW p \in Orders, CancelInEngine(p) \/ CancelRecord(p) PROVE RefundsAreRight'
  <2>1. UNCHANGED <<ord, filled, submitted, refund>>
    BY <1>6 DEF CancelInEngine, Engine!Withdraw, CancelRecord, engineVars
  <2>2. \A o \in Orders : cancel'[o] \in {"unlock", "record", "done"} => cancel[o] \in {"unlock", "record", "done"}
    BY <1>1, <1>6 DEF CancelInEngine, CancelRecord, GoroutineTypes
  <2> QED
    BY <1>1, <1>2, <2>1, <2>2, RefundsFrame
<1>7. ASSUME NEW p \in Orders, CancelRead(p) PROVE RefundsAreRight'
  <2>1. /\ refund' = [refund EXCEPT ![p] = EscrowLeft(p)] /\ cancel' = [cancel EXCEPT ![p] = "unlock"]
        /\ UNCHANGED <<ord, filled, submitted>>
    BY <1>7 DEF CancelRead, engineVars
  <2>2. \A o \in Orders : /\ refund'[o] = IF o = p THEN EscrowLeft(o) ELSE refund[o]
                          /\ o # p => cancel'[o] = cancel[o]
                          /\ EscrowLeft(o)' = EscrowLeft(o)
    BY <1>1, <2>1 DEF GoroutineTypes, EscrowLeft, Engine!Left
  <2> QED
    BY <1>1, <1>2, <2>1, <2>2 DEF RefundsAreRight
<1>8. ASSUME NEW p \in Orders, CancelUnlock(p) PROVE RefundsAreRight'
  <2>1. /\ UNCHANGED <<ord, filled, submitted>> /\ cancel[p] = "unlock" /\ cancel' = [cancel EXCEPT ![p] = "record"]
        /\ refund' = refund \/ refund' = [refund EXCEPT ![p] = 0]
    BY <1>8 DEF CancelUnlock, engineVars
  <2>2. \A o \in Orders : cancel'[o] \in {"unlock", "record", "done"} => cancel[o] \in {"unlock", "record", "done"}
    BY <1>1, <2>1 DEF GoroutineTypes
  <2>3. ord[p].user = Demo => refund' = refund
    BY <1>2, <1>8, UnlockSucceeds
  <2>4. \A o \in Orders : ord[o].user = Demo => refund'[o] = refund[o]
    BY <1>1, <2>1, <2>3 DEF GoroutineTypes
  <2> QED
    BY <1>1, <1>2, <2>1, <2>2, <2>4, RefundsFrame
<1>9. ASSUME Market \/ Faucet \/ (\E h \in Handlers : Place(h)) \/ (\E t \in Threads : Settle(t)) \/ UNCHANGED vars
      PROVE  RefundsAreRight'
  <2>1. UNCHANGED <<ord, filled, submitted, cancel, refund>>
    BY <1>9 DEF Market, BotStart, BotTick, BotWait, Faucet, FaucetCall, FaucetRead, FaucetWrite,
                Place, Request, RecordOrder, Settle, vars, engineVars
  <2> QED
    BY <1>2, <2>1, RefundsFrame
<1> QED
  BY <1>3, <1>4, <1>5, <1>6, <1>7, <1>8, <1>9 DEF Next, Shared, Delete

LEMMA EscrowInvInit == Init => EscrowInv
<1> SUFFICES ASSUME Init PROVE OrdersAreKept /\ RefundsAreRight
  BY TradingInitInv, AccountedInit DEF EscrowInv
<1>1. 1 .. submitted = {}
  BY DEF Init, Engine!Init
<1> QED
  BY <1>1 DEF OrdersAreKept, RefundsAreRight

LEMMA EscrowInvNext == ExchangeInv /\ EscrowInv /\ [Next]_vars => EscrowInv'
BY TradingNextInv, AccountedNext, OrdersKeptNext, RefundsNext DEF EscrowInv

(* "tracks available and locked (in resting orders) funds" (ledger.go:14):  *)
(* while no limit order comes without a positive price, no cancellation     *)
(* gets an order the match has in hand, and every settlement takes from     *)
(* escrow what its trade has freed, the demo user has locked, once the      *)
(* goroutines have answered, what its resting orders may still have to pay: *)
(* these are the ways to lose escrow, and the only ones (main.go:228-256,   *)
(* 289-307).  Every order has an ID of its own here.                        *)
THEOREM EscrowLostOnlyByFaults == Spec => []EscrowLostOnlyByFault
<1>1. Init => ExchangeInv /\ EscrowInv
  BY ExchangeInitInv, EscrowInvInit
<1>2. ExchangeInv /\ EscrowInv /\ [Next]_vars => (ExchangeInv /\ EscrowInv)'
  BY ExchangeNextInv, EscrowInvNext
<1>3. ExchangeInv /\ EscrowInv => EscrowLostOnlyByFault
  <2> DEFINE Left == [o \in Orders |-> EscrowLeft(o)]
             Resting(c) == {o \in resting : ord[o].user = Demo /\ EscrowCurrency(ord[o].side) = c}
  <2> SUFFICES ASSUME ExchangeInv, EscrowInv, Faultless, settled = DOMAIN trades, Quiet, NEW c \in Currencies
               PROVE  accounts[Demo][c].locked = SumFunctionOnSet(Left, Resting(c))
    BY DEF EscrowLostOnlyByFault, EscrowBacksRestingOrders
  <2>1. TypeOK /\ Deals /\ Fills /\ 1 .. submitted \subseteq Orders /\ Handlers \subseteq Threads
        /\ EscrowAccounted /\ RefundsAreRight /\ OrdersAreKept
    BY OrderFacts DEF ExchangeInv, EscrowInv, TradingInv, Threads
  <2>2. EscrowRequests(c) = {}
    BY <2>1 DEF Quiet, EscrowRequests
  <2>3. EscrowOfRequests(c) = 0
    BY <2>2, EscrowSums, SumEmpty
  <2>4. EscrowOfTrades(c) = 0
    <3>1. \A i \in DOMAIN trades : TradeTerm(c)[i] = 0
      <4> SUFFICES ASSUME NEW i \in DOMAIN trades PROVE Owing(i, c) = 0
        BY DEF TradeTerm
      <4>1. Freed(i, c) \in Int /\ Owing(i, c) = Freed(i, c) - Drawn(i, c)
        BY <2>1, OwingFacts
      <4> QED
        BY <4>1 DEF Faultless
    <3>2. IsFiniteSet(DOMAIN trades)
      BY <2>1, TapeFacts
    <3>3. SumFunctionOnSet(TradeTerm(c), DOMAIN trades) = SumFunctionOnSet(TradeTerm(c), {})
      BY <3>1, <3>2, SumWithoutZeros
    <3> QED
      BY <3>3, EscrowSums, SumEmpty
  <2>5. taker = 0
    BY DEF Quiet, EscrowInv, TradingInv, Owners, ExchangeInv, Goroutines
  <2>6. Resting(c) \subseteq EscrowOrders(c)
    BY <2>1 DEF ExchangeInv, RestingOrders, TypeOK, EscrowOrders
  <2>7. ASSUME NEW o \in Resting(c) PROVE OrderTerm[o] = Left[o]
    <3>1. o \in Orders /\ o \in resting
      BY <2>1 DEF TypeOK
    <3>2. cancel[o] = "none"
      BY <3>1 DEF ExchangeInv, Cancellations
    <3>3. EscrowLeft(o) \in Int
      BY <2>1, <3>1, EscrowIsInt
    <3> QED
      BY <3>1, <3>2, <3>3 DEF OrderTerm, Reserved
  <2>8. ASSUME NEW o \in EscrowOrders(c), o \notin Resting(c) PROVE OrderTerm[o] = 0
    <3>1. o \in 1 .. submitted /\ o \in Orders /\ o \notin resting /\ ord[o].user = Demo /\ ord[o].kind = "LIMIT"
      BY <2>1, <2>8 DEF EscrowOrders
    <3>2. EscrowLeft(o) \in Int /\ OrderTerm[o] = Reserved(o) /\ ord[o].price > 0 /\ ord[o].price \in Int
      BY <2>1, <3>1, EscrowIsInt, OrderFacts DEF OrderTerm, Faultless
    <3>3. CASE cancel[o] # "none"
      <4>1. cancel[o] = "done"
        BY <3>1, <3>3 DEF Quiet
      <4>2. refund[o] = EscrowLeft(o)
        BY <2>1, <3>1, <4>1 DEF RefundsAreRight
      <4> QED
        BY <3>2, <4>1, <4>2 DEF Reserved
    <3>4. CASE cancel[o] = "none"
      <4>1. o \notin resting \cup {taker}
        BY <2>5, <3>1
      <4>2. Engine!Left(o) = 0
        <5>1. ~(Engine!Left(o) > 0)
          BY <2>1, <3>1, <3>2, <3>4, <4>1 DEF OrdersAreKept
        <5>2. Engine!Left(o) \in Int /\ Engine!Left(o) >= 0
          BY <2>1, <3>1, OrderFacts DEF Fills
        <5> QED
          BY <5>1, <5>2
      <4>3. EscrowLeft(o) = 0
        BY <3>2, <4>2 DEF EscrowLeft, Escrow
      <4> QED
        BY <3>2, <3>4, <4>3 DEF Reserved
    <3> QED
      BY <3>3, <3>4
  <2> HIDE DEF Left, Resting
  <2>9. IsFiniteSet(EscrowOrders(c)) /\ IsFiniteSet(Resting(c)) /\ \A o \in EscrowOrders(c) : OrderTerm[o] \in Int
    <3>1. IsFiniteSet(EscrowOrders(c)) /\ \A o \in EscrowOrders(c) : OrderTerm[o] \in Int
      BY <2>1, EscrowTerms
    <3> QED
      BY <2>6, <3>1, FS_Subset
  <2>10. EscrowOfOrders(c) = SumFunctionOnSet(OrderTerm, Resting(c))
    BY <2>6, <2>8, <2>9, EscrowSums, SumWithoutZeros
  <2>11. SumFunctionOnSet(OrderTerm, Resting(c)) = SumFunctionOnSet(Left, Resting(c))
    BY <2>7, <2>9, SumCongruence
  <2>12. accounts[Demo][c].locked = 0 + EscrowOfOrders(c) + 0 /\ EscrowOfOrders(c) \in Int
    BY <2>1, <2>3, <2>4, EscrowTerms DEF EscrowAccounted
  <2> QED
    BY <2>10, <2>11, <2>12
<1> QED
  BY <1>1, <1>2, <1>3, PTL DEF Spec

(* "Canceling an order instantly unlocks the unused escrow capital"         *)
(* (README.md): without such a fault no unlock of the demo user is refused, *)
(* whatever other orders trade, wait for their settlement or are cancelled  *)
(* meanwhile (main.go:303-307 ignores the error UnlockFunds would return):  *)
(* what the order has left comes back in full.  Every order has an ID of    *)
(* its own here.                                                            *)
THEOREM CancelsUnlockEscrow == Spec => CancelUnlocksEscrow
<1>1. Init => ExchangeInv /\ EscrowInv
  BY ExchangeInitInv, EscrowInvInit
<1>2. ExchangeInv /\ EscrowInv /\ [Next]_vars => (ExchangeInv /\ EscrowInv)'
  BY ExchangeNextInv, EscrowInvNext
<1> DEFINE Unlocks(o) ==
             LET c == EscrowCurrency(ord[o].side)
             IN  Faultless /\ cancel[o] = "unlock" /\ cancel'[o] = "record" /\ ord[o].user = Demo =>
                   accounts'[Demo][c].locked = accounts[Demo][c].locked - EscrowLeft(o)
<1>3. ExchangeInv /\ EscrowInv /\ [Next]_vars => [\A o \in Orders : Unlocks(o)]_vars
  <2> SUFFICES ASSUME ExchangeInv, EscrowInv, Next, NEW o \in Orders, Faultless,
                      cancel[o] = "unlock", cancel'[o] = "record", ord[o].user = Demo
               PROVE  accounts'[Demo][EscrowCurrency(ord[o].side)].locked
                        = accounts[Demo][EscrowCurrency(ord[o].side)].locked - EscrowLeft(o)
    OBVIOUS
  <2>1. GoroutineTypes /\ LedgerTypes /\ TypeOK
    BY TypeParts DEF ExchangeInv
  <2>2. ASSUME NEW p \in Orders, CancelInEngine(p) \/ CancelRead(p) \/ CancelRecord(p) PROVE FALSE
    BY <2>1, <2>2 DEF CancelInEngine, CancelRead, CancelRecord, GoroutineTypes
  <2>3. ASSUME NEW p \in Orders, CancelUnlock(p) PROVE p = o
    BY <2>1, <2>3 DEF CancelUnlock, GoroutineTypes
  <2>4. cancel' # cancel
    OBVIOUS
  <2>5. ~Faucet /\ ~Market /\ ~Match /\ ~TakeOut /\ (\A h \in Handlers : ~Place(h)) /\ (\A t \in Threads : ~Shared(t))
    BY <2>4 DEF Faucet, FaucetCall, FaucetRead, FaucetWrite, Market, BotStart, BotTick, BotWait, Match, TakeOut,
                Place, Request, RecordOrder, Shared, Enter, Leave, Settle, cancelVars
  <2>6. CancelUnlock(o)
    BY <2>2, <2>3, <2>5 DEF Next, Delete
  <2> DEFINE c == EscrowCurrency(ord[o].side)
             e == EscrowLeft(o)
  <2>7. refund[o] = e /\ CanUnlock(Demo, c, e) /\ UnlockFunds(Demo, c, refund[o])
    BY <2>6, UnlockSucceeds DEF EscrowInv, CancelUnlock
  <2>8. accounts' = Add(accounts, Demo, c, e, -e)
    BY <2>7 DEF UnlockFunds
  <2>9. /\ accounts \in Accounts /\ Demo \in Users /\ c \in Currencies /\ e \in Int /\ -e \in Int
    BY <2>1, EscrowIsInt, ExchangeAssumption DEF LedgerTypes, EscrowCurrency, Currencies
  <2> HIDE DEF c, e
  <2>10. accounts'[Demo][c].locked = accounts[Demo][c].locked + (-e) /\ accounts[Demo][c].locked \in Int
    BY <2>8, <2>9, AddLocks
  <2>11. accounts'[Demo][c].locked = accounts[Demo][c].locked - e
    BY <2>9, <2>10
  <2> QED
    BY <2>11 DEF c, e
<1> QED
  BY <1>1, <1>2, <1>3, PTL DEF Spec, CancelUnlocksEscrow

-----------------------------------------------------------------------------
(***************************************************************************)
(* Nobody works in vain.  A goroutine that enters the engine brings an     *)
(* order, which costs less than the steps it leaves behind; a trade fills  *)
(* an order for good and leaves one trade to settle; everything else moves *)
(* one goroutine, or the faucet, one step on.                              *)
(***************************************************************************)
ThreadTerm == [t \in Threads |-> ThreadToGo[pc[t]]]
CancelTerm == [o \in Orders |-> CancelToGo[cancel[o]]]
ThreadWork == SumFunctionOnSet(ThreadTerm, Threads)
CancelWork == SumFunctionOnSet(CancelTerm, Orders)
Unsettled == DOMAIN trades \ settled

LEMMA WorkTerms ==
  ASSUME TypeOK
  PROVE  /\ IsFiniteSet(Threads) /\ \A t \in Threads : ThreadTerm[t] = ThreadToGo[pc[t]] /\ ThreadTerm[t] \in Int
         /\ IsFiniteSet(Orders) /\ \A o \in Orders : CancelTerm[o] = CancelToGo[cancel[o]] /\ CancelTerm[o] \in Int
         /\ ThreadWork \in Int /\ CancelWork \in Int /\ FaucetToGo \in Int
         /\ IsFiniteSet(Unfilled) /\ Cardinality(Unfilled) \in Nat
         /\ IsFiniteSet(FilledResting) /\ Cardinality(FilledResting) \in Nat
         /\ IsFiniteSet(Unsettled) /\ Cardinality(Unsettled) \in Nat
         /\ WorkLeft = ThreadWork + CancelWork + FaucetToGo + 3 * Cardinality(Unfilled)
                          + Cardinality(FilledResting) + Cardinality(Unsettled)
<1>1. IsFiniteSet(Threads)
  <2>1. MaxRequests \in Nat
    BY ExchangeAssumption
  <2>2. IsFiniteSet(Handlers)
    BY <2>1, FS_Interval DEF Handlers
  <2> QED
    BY <2>2, FS_AddElement DEF Threads
<1>2. \A t \in Threads : ThreadTerm[t] = ThreadToGo[pc[t]] /\ ThreadTerm[t] \in Int
  <2>1. \A t \in Threads : pc[t] \in {"start", "idle", "enter", "match", "settle", "done"}
    BY DEF TypeOK
  <2>2. \A p \in {"start", "idle", "enter", "match", "settle", "done"} : ThreadToGo[p] \in Int
    BY DEF ThreadToGo
  <2> QED
    BY <2>1, <2>2 DEF ThreadTerm
<1>3. IsFiniteSet(Orders)
  BY OrderFacts, FS_Interval DEF Orders
<1>4. \A o \in Orders : CancelTerm[o] = CancelToGo[cancel[o]] /\ CancelTerm[o] \in Int
  <2>1. \A o \in Orders : cancel[o] \in {"none", "read", "unlock", "record", "done"}
    BY DEF TypeOK
  <2>2. \A c \in {"none", "read", "unlock", "record", "done"} : CancelToGo[c] \in Int
    BY DEF CancelToGo
  <2> QED
    BY <2>1, <2>2 DEF CancelTerm
<1>5. ThreadWork \in Int /\ CancelWork \in Int /\ FaucetToGo \in Int
  BY <1>1, <1>2, <1>3, <1>4, SumInt DEF ThreadWork, CancelWork, FaucetToGo
<1>6. IsFiniteSet(Unfilled) /\ Cardinality(Unfilled) \in Nat
  <2>1. IsFiniteSet(1 .. submitted) /\ Unfilled \subseteq 1 .. submitted
    BY OrderFacts, FS_Interval DEF Unfilled
  <2>2. IsFiniteSet(Unfilled)
    BY <2>1, FS_Subset
  <2> QED
    BY <2>2, FS_CardinalityType
<1>7. IsFiniteSet(Unsettled) /\ Cardinality(Unsettled) \in Nat
  <2>1. IsFiniteSet(DOMAIN trades) /\ Unsettled \subseteq DOMAIN trades
    BY TapeFacts DEF Unsettled
  <2>2. IsFiniteSet(Unsettled)
    BY <2>1, FS_Subset
  <2> QED
    BY <2>2, FS_CardinalityType
<1>8. IsFiniteSet(FilledResting) /\ Cardinality(FilledResting) \in Nat
  <2>1. IsFiniteSet(1 .. submitted)
    BY OrderFacts, FS_Interval
  <2>2. IsFiniteSet(FilledResting)
    <3>1. resting \subseteq 1 .. submitted
      BY DEF TypeOK
    <3>2. FilledResting \subseteq 1 .. submitted
      BY <3>1 DEF FilledResting
    <3> QED
      BY <2>1, <3>2, FS_Subset
  <2> QED
    BY <2>2, FS_CardinalityType
<1> QED
  BY <1>1, <1>2, <1>3, <1>4, <1>5, <1>6, <1>7, <1>8 DEF WorkLeft, ThreadWork, ThreadTerm, CancelWork, CancelTerm, Unsettled

\* The faucet does not go back.
LEMMA FaucetGoesOn ==
  ASSUME TypeOK, FaucetMeanwhile PROVE FaucetToGo' <= FaucetToGo
<1>1. faucet \in FaucetStates
  BY TypeParts DEF LedgerTypes
<1>2. faucet.at \in {"USDT", "ETH", "done"} /\ faucet.read \in BOOLEAN
  BY <1>1 DEF FaucetStates, Currencies
<1>3. CASE UNCHANGED faucet
  BY <1>2, <1>3 DEF FaucetToGo
<1>4. CASE faucet.at # "done" /\ faucet' = NextBalance
  <2>1. ~faucet'.read /\ faucet'.at = IF faucet.at = "USDT" THEN "ETH" ELSE "done"
    BY <1>1, <1>4 DEF NextBalance, FaucetStates
  <2> QED
    BY <1>2, <1>4, <2>1 DEF FaucetToGo
<1> QED
  BY <1>3, <1>4 DEF FaucetMeanwhile

\* The sum as the next state has it.
LEMMA WorkTermsNext ==
  /\ WorkLeft' = ThreadWork' + CancelWork' + FaucetToGo' + 3 * Cardinality(Unfilled')
                   + Cardinality(FilledResting') + Cardinality(Unsettled')
  /\ FaucetToGo' \in Int
BY DEF WorkLeft, ThreadWork, ThreadTerm, CancelWork, CancelTerm, Unsettled, FaucetToGo

\* One goroutine moves from where it is to p.
LEMMA ThreadMoves ==
  ASSUME TypeOK, TypeOK', NEW t \in Threads, NEW p, pc' = [pc EXCEPT ![t] = p]
  PROVE  ThreadWork' = ThreadWork + (ThreadToGo[p] - ThreadToGo[pc[t]])
<1>1. pc \in [Threads -> {"start", "idle", "enter", "match", "settle", "done"}]
  BY DEF TypeOK
<1>2. \A u \in Threads : pc'[u] = IF u = t THEN p ELSE pc[u]
  BY <1>1
<1>3. IsFiniteSet(Threads) /\ \A u \in Threads : ThreadTerm[u] = ThreadToGo[pc[u]] /\ ThreadTerm[u] \in Int
  BY WorkTerms
<1>4. \A u \in Threads : ThreadTerm'[u] = ThreadToGo[pc'[u]] /\ ThreadTerm'[u] \in Int
  <2>1. \A u \in Threads : pc'[u] \in {"start", "idle", "enter", "match", "settle", "done"}
    BY DEF TypeOK
  <2>2. \A q \in {"start", "idle", "enter", "match", "settle", "done"} : ThreadToGo[q] \in Int
    BY DEF ThreadToGo
  <2> QED
    BY <2>1, <2>2 DEF ThreadTerm, ThreadToGo
<1>5. \A u \in Threads : u # t => ThreadTerm'[u] = ThreadTerm[u]
  BY <1>2, <1>3, <1>4
<1>6. SumFunctionOnSet(ThreadTerm', Threads) = SumFunctionOnSet(ThreadTerm, Threads) + (ThreadTerm'[t] - ThreadTerm[t])
  BY <1>3, <1>4, <1>5, SumChange
<1> QED
  BY <1>2, <1>3, <1>4, <1>6 DEF ThreadWork

\* One cancellation moves from where it is to c.
LEMMA CancelMoves ==
  ASSUME TypeOK, TypeOK', NEW o \in Orders, NEW c, cancel' = [cancel EXCEPT ![o] = c]
  PROVE  CancelWork' = CancelWork + (CancelToGo[c] - CancelToGo[cancel[o]])
<1>1. cancel \in [Orders -> {"none", "read", "unlock", "record", "done"}]
  BY DEF TypeOK
<1>2. \A q \in Orders : cancel'[q] = IF q = o THEN c ELSE cancel[q]
  BY <1>1
<1>3. IsFiniteSet(Orders) /\ \A q \in Orders : CancelTerm[q] = CancelToGo[cancel[q]] /\ CancelTerm[q] \in Int
  BY WorkTerms
<1>4. \A q \in Orders : CancelTerm'[q] = CancelToGo[cancel'[q]] /\ CancelTerm'[q] \in Int
  <2>1. \A q \in Orders : cancel'[q] \in {"none", "read", "unlock", "record", "done"}
    BY DEF TypeOK
  <2>2. \A d \in {"none", "read", "unlock", "record", "done"} : CancelToGo[d] \in Int
    BY DEF CancelToGo
  <2> QED
    BY <2>1, <2>2 DEF CancelTerm, CancelToGo
<1>5. \A q \in Orders : q # o => CancelTerm'[q] = CancelTerm[q]
  BY <1>2, <1>3, <1>4
<1>6. SumFunctionOnSet(CancelTerm', Orders) = SumFunctionOnSet(CancelTerm, Orders) + (CancelTerm'[o] - CancelTerm[o])
  BY <1>3, <1>4, <1>5, SumChange
<1> QED
  BY <1>2, <1>3, <1>4, <1>6 DEF CancelWork

\* A goroutine moves on, while the faucet may, and touches no order and no trade.
LEMMA GoroutineWorks ==
  ASSUME TypeOK, TypeOK', NEW t \in Threads, NEW p, pc' = [pc EXCEPT ![t] = p],
         ThreadToGo[p] < ThreadToGo[pc[t]],
         UNCHANGED <<ord, filled, submitted, trades, cancel, settled, faucet>>, FilledResting' = FilledResting
  PROVE  WorkLeft' < WorkLeft
<1> USE DEF cancelVars
<1>1. ThreadWork' = ThreadWork + (ThreadToGo[p] - ThreadToGo[pc[t]])
  BY ThreadMoves
<1>2. Unfilled' = Unfilled /\ Unsettled' = Unsettled /\ CancelWork' = CancelWork /\ FaucetToGo' = FaucetToGo
  BY DEF Unfilled, Engine!Left, Unsettled, CancelWork, CancelTerm, FaucetToGo
<1>3. ThreadToGo[p] \in Int /\ ThreadToGo[pc[t]] \in Int
  <2>1. pc \in [Threads -> {"start", "idle", "enter", "match", "settle", "done"}] /\ pc'[t] = p
    BY DEF TypeOK
  <2>2. p \in {"start", "idle", "enter", "match", "settle", "done"}
    BY <2>1 DEF TypeOK
  <2> QED
    BY <2>1, <2>2 DEF ThreadToGo
<1> HIDE DEF ThreadToGo
<1> QED
  BY <1>1, <1>2, <1>3, WorkTerms, WorkTermsNext

(* An order enters the engine, and may come to fill.                        *)
LEMMA EnterWorks ==
  ASSUME ExchangeInv, TypeOK', TradingInv, NEW t \in Threads, Enter(t)
  PROVE  WorkLeft' < WorkLeft
<1> USE DEF cancelVars
<1>1. TypeOK /\ pc[t] = "enter" /\ submitted \in Nat
  BY OrderFacts DEF Enter, ExchangeInv
<1>2. ThreadWork' = ThreadWork - 4
  <2>1. ThreadWork' = ThreadWork + (ThreadToGo["match"] - ThreadToGo["enter"])
    BY <1>1, ThreadMoves DEF Enter
  <2> QED
    BY <1>1, <2>1, WorkTerms DEF ThreadToGo
<1>3. UNCHANGED <<filled, trades, settled, cancel, faucet>> /\ submitted' = submitted + 1 /\ submitted < MaxOrders
      /\ ord' = [ord EXCEPT ![submitted + 1] = req[t]]
  BY DEF Enter, Engine!Submit
<1>4. Unsettled' = Unsettled /\ CancelWork' = CancelWork /\ FaucetToGo' = FaucetToGo
  BY <1>3 DEF Unsettled, CancelWork, CancelTerm, FaucetToGo
<1>a. FilledResting' = FilledResting
  <2>1. resting' = resting /\ resting \subseteq 1 .. submitted
    BY <1>1 DEF Enter, Engine!Submit, TypeOK
  <2>2. \A o \in resting : ord'[o] = ord[o]
    BY <1>1, <1>3, <2>1, OrderFacts DEF TypeOK
  <2> QED
    BY <1>3, <2>1, <2>2 DEF FilledResting, Engine!Left
<1>5. Unfilled' \subseteq Unfilled \cup {submitted + 1}
  <2>1. \A o \in 1 .. submitted : ord'[o] = ord[o]
    BY <1>1, <1>3, OrderFacts DEF TypeOK
  <2>2. 1 .. submitted' \subseteq (1 .. submitted) \cup {submitted + 1}
    BY <1>1, <1>3
  <2> QED
    BY <1>3, <2>1, <2>2 DEF Unfilled, Engine!Left
<1>6. Cardinality(Unfilled') <= Cardinality(Unfilled) + 1 /\ Cardinality(Unfilled') \in Nat
  <2>1. IsFiniteSet(Unfilled) /\ Cardinality(Unfilled) \in Nat
    BY <1>1, WorkTerms
  <2>2. submitted + 1 \notin Unfilled
    BY <1>1 DEF Unfilled
  <2>3. IsFiniteSet(Unfilled \cup {submitted + 1}) /\ Cardinality(Unfilled \cup {submitted + 1}) = Cardinality(Unfilled) + 1
    BY <2>1, <2>2, FS_AddElement
  <2>4. Cardinality(Unfilled') <= Cardinality(Unfilled \cup {submitted + 1}) /\ IsFiniteSet(Unfilled')
    BY <1>5, <2>3, FS_Subset
  <2>5. Cardinality(Unfilled') \in Nat
    BY <2>4, FS_CardinalityType
  <2> QED
    BY <2>3, <2>4, <2>5
<1> QED
  BY <1>1, <1>2, <1>4, <1>a, <1>6, WorkTerms, WorkTermsNext

(* A trade fills its maker or its taker for good.                           *)
LEMMA MatchWorks ==
  ASSUME ExchangeInv, TypeOK', TradingInv, Match
  PROVE  WorkLeft' < WorkLeft
<1> USE DEF cancelVars
<1>1. TypeOK /\ Fills
  BY DEF ExchangeInv, TradingInv
<1>2. UNCHANGED <<ord, submitted, pc, settled, cancel, faucet>>
  BY DEF Match, Engine!Trade, threadVars
<1>3. ThreadWork' = ThreadWork /\ CancelWork' = CancelWork /\ FaucetToGo' = FaucetToGo
  BY <1>2 DEF ThreadWork, ThreadTerm, CancelWork, CancelTerm, FaucetToGo
<1>4. PICK r \in resting \cup late, n \in Nat : TradeStep(r, n)
  BY <1>1, MatchFacts
<1>5. PICK x \in {taker, r} : n = Engine!Left(x)
  BY <1>4 DEF TradeStep
<1>6. x \in Unfilled /\ Unfilled' \subseteq Unfilled \ {x}
  <2>1. /\ x \in 1 .. submitted /\ 1 .. submitted \subseteq Orders /\ 0 < n
        /\ \A o \in Orders : filled'[o] = IF o = taker \/ o = r THEN filled[o] + n ELSE filled[o]
    BY <1>1, <1>4, OrderFacts DEF TradeStep
  <2>2. x \in Unfilled
    BY <1>5, <2>1 DEF Unfilled
  <2>3. \A o \in 1 .. submitted : /\ ord'[o] = ord[o] /\ ord[o].amount \in Nat /\ filled[o] \in Nat
                                  /\ Engine!Left(o) = ord[o].amount - filled[o]
    BY <1>1, <1>2, OrderFacts
  <2>4. \A o \in 1 .. submitted : Engine!Left(o)' = ord[o].amount - filled'[o]
    BY <1>2, <2>3 DEF Engine!Left
  <2>5. Engine!Left(x)' = 0
    BY <1>5, <2>1, <2>3, <2>4
  <2>6. \A o \in 1 .. submitted : Engine!Left(o)' <= Engine!Left(o)
    BY <2>1, <2>3, <2>4
  <2>7. \A o \in 1 .. submitted : Engine!Left(o)' \in Int /\ Engine!Left(o) \in Int
    BY <2>1, <2>3, <2>4
  <2> QED
    BY <1>2, <2>2, <2>5, <2>6, <2>7 DEF Unfilled
<1>7. Cardinality(Unfilled') <= Cardinality(Unfilled) - 1 /\ Cardinality(Unfilled') \in Nat
  <2>1. IsFiniteSet(Unfilled \ {x}) /\ Cardinality(Unfilled \ {x}) = Cardinality(Unfilled) - 1
    BY <1>1, <1>6, WorkTerms, FS_RemoveElement
  <2>2. Cardinality(Unfilled') <= Cardinality(Unfilled \ {x}) /\ IsFiniteSet(Unfilled')
    BY <1>6, <2>1, FS_Subset
  <2> QED
    BY <2>1, <2>2, FS_CardinalityType
<1>8. Cardinality(Unsettled') = Cardinality(Unsettled) + 1
  <2>1. DOMAIN trades' = DOMAIN trades \cup {Len(trades) + 1} /\ Len(trades) + 1 \notin DOMAIN trades
    BY <1>4 DEF TradeStep
  <2>2. settled \subseteq DOMAIN trades
    BY <1>1 DEF TypeOK
  <2>3. Unsettled' = Unsettled \cup {Len(trades) + 1} /\ Len(trades) + 1 \notin Unsettled
    BY <1>2, <2>1, <2>2 DEF Unsettled
  <2> QED
    BY <1>1, <2>3, WorkTerms, FS_AddElement
<1>9. Cardinality(FilledResting') <= Cardinality(FilledResting) + 1 /\ Cardinality(FilledResting') \in Nat
  <2>1. FilledResting' \subseteq FilledResting \cup {r}
    <3>1. resting' = resting /\ taker \notin resting /\ resting \subseteq Orders
      BY <1>1, <1>4, OrderFacts DEF TradeStep, ExchangeInv, RestingOrders
    <3>2. \A o \in resting : o # r => filled'[o] = filled[o]
      BY <1>4, <3>1 DEF TradeStep
    <3> QED
      BY <1>2, <3>1, <3>2 DEF FilledResting, Engine!Left
  <2>2. IsFiniteSet(FilledResting) /\ Cardinality(FilledResting) \in Nat
    BY <1>1, WorkTerms
  <2>3. r \notin FilledResting
    BY <1>4 DEF TradeStep, FilledResting
  <2>4. IsFiniteSet(FilledResting \cup {r}) /\ Cardinality(FilledResting \cup {r}) = Cardinality(FilledResting) + 1
    BY <2>2, <2>3, FS_AddElement
  <2>5. Cardinality(FilledResting') <= Cardinality(FilledResting \cup {r}) /\ IsFiniteSet(FilledResting')
    BY <2>1, <2>4, FS_Subset
  <2>6. Cardinality(FilledResting') \in Nat
    BY <2>5, FS_CardinalityType
  <2> QED
    BY <2>4, <2>5, <2>6
<1> QED
  BY <1>1, <1>3, <1>7, <1>8, <1>9, WorkTerms, WorkTermsNext

(* A filled maker leaves the book once.                                     *)
LEMMA TakeOutWorks ==
  ASSUME ExchangeInv, TakeOut
  PROVE  WorkLeft' < WorkLeft
<1>1. TypeOK
  BY DEF ExchangeInv
<1>2. UNCHANGED <<ord, filled, submitted, trades, pc, settled, cancel, faucet>>
  BY DEF TakeOut, Engine!Remove, threadVars, cancelVars
<1>3. /\ ThreadWork' = ThreadWork /\ CancelWork' = CancelWork /\ FaucetToGo' = FaucetToGo
      /\ Unfilled' = Unfilled /\ Unsettled' = Unsettled
  BY <1>2 DEF ThreadWork, ThreadTerm, CancelWork, CancelTerm, FaucetToGo, Unfilled, Unsettled, Engine!Left
<1>4. PICK r \in resting : Engine!Left(r) = 0 /\ resting' = resting \ {r}
  BY DEF TakeOut, Engine!Remove
<1>5. r \in FilledResting /\ FilledResting' = FilledResting \ {r}
  BY <1>2, <1>4 DEF FilledResting, Engine!Left
<1>6. Cardinality(FilledResting') = Cardinality(FilledResting) - 1
  BY <1>1, <1>5, WorkTerms, FS_RemoveElement
<1> QED
  BY <1>1, <1>3, <1>6, WorkTerms, WorkTermsNext

(* A settlement takes one trade off the list, once.                         *)
LEMMA SettleWorks ==
  ASSUME ExchangeInv, TypeOK', NEW t \in Threads, Settle(t)
  PROVE  WorkLeft' < WorkLeft
<1> USE DEF cancelVars
<1>1. TypeOK /\ FaucetToGo' <= FaucetToGo
  BY FaucetGoesOn DEF ExchangeInv, Settle
<1>2. UNCHANGED <<ord, filled, submitted, resting, trades, pc, cancel>>
  BY DEF Settle, engineVars, threadVars
<1>3. ThreadWork' = ThreadWork /\ CancelWork' = CancelWork /\ Unfilled' = Unfilled /\ FilledResting' = FilledResting
  BY <1>2 DEF ThreadWork, ThreadTerm, CancelWork, CancelTerm, Unfilled, FilledResting, Engine!Left
<1>4. PICK i \in ToSettle(t) : settled' = settled \cup {i}
  BY DEF Settle
<1>5. i \in Unsettled /\ Unsettled' = Unsettled \ {i}
  BY <1>2, <1>4 DEF Unsettled, ToSettle
<1>6. Cardinality(Unsettled') = Cardinality(Unsettled) - 1
  BY <1>1, <1>5, WorkTerms, FS_RemoveElement
<1> QED
  BY <1>1, <1>3, <1>6, WorkTerms, WorkTermsNext

(* A cancellation moves on.                                                 *)
LEMMA CancelWorks ==
  ASSUME ExchangeInv, TypeOK', NEW o \in Orders, CancelRead(o) \/ CancelUnlock(o) \/ CancelRecord(o)
  PROVE  WorkLeft' < WorkLeft
<1> USE DEF cancelVars
<1>1. TypeOK /\ FaucetToGo' <= FaucetToGo
  <2>1. CASE CancelUnlock(o)
    BY <2>1, FaucetGoesOn DEF CancelUnlock, ExchangeInv
  <2>2. CASE CancelRead(o) \/ CancelRecord(o)
    BY <2>2, WorkTerms DEF CancelRead, CancelRecord, FaucetToGo, ExchangeInv
  <2> QED
    BY <2>1, <2>2
<1>2. UNCHANGED <<ord, filled, submitted, resting, trades, pc, settled>>
  BY DEF CancelRead, CancelUnlock, CancelRecord, engineVars, threadVars
<1>3. ThreadWork' = ThreadWork /\ Unfilled' = Unfilled /\ FilledResting' = FilledResting /\ Unsettled' = Unsettled
  BY <1>2 DEF ThreadWork, ThreadTerm, Unfilled, FilledResting, Engine!Left, Unsettled
<1>4. CancelWork' = CancelWork - 1
  <2>1. PICK c \in {"unlock", "record", "done"} : /\ cancel' = [cancel EXCEPT ![o] = c]
                                         /\ CancelToGo[c] - CancelToGo[cancel[o]] = -1
    BY DEF CancelRead, CancelUnlock, CancelRecord, CancelToGo
  <2> QED
    BY <1>1, <2>1, CancelMoves, WorkTerms
<1> QED
  BY <1>1, <1>3, <1>4, WorkTerms, WorkTermsNext

(* The faucet moves on.                                                     *)
LEMMA FaucetWorks ==
  ASSUME ExchangeInv, TypeOK', FaucetRead \/ FaucetWrite
  PROVE  WorkLeft' < WorkLeft
<1> USE DEF cancelVars
<1>1. TypeOK /\ faucet \in FaucetStates
  BY TypeParts DEF LedgerTypes, ExchangeInv
<1>2. UNCHANGED <<ord, filled, submitted, resting, trades, pc, settled, cancel>>
  BY DEF FaucetRead, FaucetWrite, engineVars, threadVars
<1>3. ThreadWork' = ThreadWork /\ CancelWork' = CancelWork /\ Unfilled' = Unfilled /\ FilledResting' = FilledResting /\ Unsettled' = Unsettled
  BY <1>2 DEF ThreadWork, ThreadTerm, CancelWork, CancelTerm, Unfilled, FilledResting, Engine!Left, Unsettled
<1>4. FaucetToGo' < FaucetToGo
  <2>1. faucet.at \in {"USDT", "ETH"} /\ faucet.read \in BOOLEAN
    BY <1>1 DEF FaucetRead, FaucetWrite, FaucetStates, Currencies
  <2>2. CASE FaucetRead
    <3>1. ~faucet.read /\ faucet'.read /\ faucet'.at = faucet.at
      BY <1>1, <2>2 DEF FaucetRead, FaucetStates
    <3> QED
      BY <2>1, <3>1 DEF FaucetToGo
  <2>3. CASE FaucetWrite
    <3>1. faucet.read /\ ~faucet'.read /\ faucet'.at = IF faucet.at = "USDT" THEN "ETH" ELSE "done"
      BY <1>1, <2>3 DEF FaucetWrite, NextBalance, FaucetStates
    <3> QED
      BY <2>1, <3>1 DEF FaucetToGo
  <2> QED
    BY <2>2, <2>3
<1> QED
  BY <1>1, <1>3, <1>4, WorkTerms, WorkTermsNext

(* For any number of requests, orders of the bot, cancellations and faucet  *)
(* calls: once they stop arriving, the goroutines of the server come to an  *)
(* end after a number of steps that WorkLeft bounds.  Nobody settles a      *)
(* trade twice, sends a refused order again or turns in a circle            *)
(* (main.go:196-416); what TLC adds is that none of them waits for ever.    *)
(* Orders have IDs of their own: with two resting orders of one ID the      *)
(* engine does turn in a circle (run Engine_id_collision).                  *)
THEOREM WorkAlwaysRunsOut == Spec => WorkRunsOut
<1>1. ExchangeInv /\ ExchangeInv' /\ TradingInv /\ [Next]_vars => [Arrival \/ WorkLeft' < WorkLeft]_vars
  <2> SUFFICES ASSUME ExchangeInv, ExchangeInv', TradingInv, Next, ~Arrival
               PROVE  WorkLeft' < WorkLeft
    OBVIOUS
  <2>1. TypeOK /\ TypeOK' /\ Handlers \subseteq Threads /\ BotLoop \in Threads
    BY DEF ExchangeInv, Threads
  <2>2. ASSUME NEW h \in Handlers, RecordOrder(h) PROVE WorkLeft' < WorkLeft
    <3>1. /\ pc' = [pc EXCEPT ![h] = "done"] /\ pc[h] = "settle"
          /\ UNCHANGED <<ord, filled, submitted, resting, trades, cancel, settled, faucet>>
      BY <2>2 DEF RecordOrder, engineVars, cancelVars
    <3>2. ThreadToGo["done"] < ThreadToGo[pc[h]]
      BY <3>1 DEF ThreadToGo
    <3>3. FilledResting' = FilledResting
      BY <3>1 DEF FilledResting, Engine!Left
    <3> QED
      BY <2>1, <3>1, <3>2, <3>3, GoroutineWorks
  <2>3. ASSUME NEW t \in Threads, Leave(t) PROVE WorkLeft' < WorkLeft
    <3>1. /\ pc' = [pc EXCEPT ![t] = AfterMatch(t)] /\ pc[t] = "match"
          /\ UNCHANGED <<ord, filled, submitted, trades, cancel, settled, faucet>>
      BY <2>3 DEF Leave, Engine!Finish, cancelVars
    <3>2. ThreadToGo[AfterMatch(t)] < ThreadToGo[pc[t]]
      BY <3>1 DEF ThreadToGo, AfterMatch
    <3>3. FilledResting' = FilledResting
      <4>1. resting' = resting \/ (Engine!Left(taker) > 0 /\ resting' = resting \cup {taker})
        BY <2>3 DEF Leave, Engine!Finish
      <4>2. \A o : Engine!Left(o)' = Engine!Left(o)
        BY <3>1 DEF Engine!Left
      <4> QED
        BY <4>1, <4>2 DEF FilledResting
    <3> QED
      BY <2>1, <3>1, <3>2, <3>3, GoroutineWorks
  <2>4. ASSUME BotStart \/ BotWait PROVE WorkLeft' < WorkLeft
    <3>1. /\ pc' = [pc EXCEPT ![BotLoop] = "idle"] /\ pc[BotLoop] \in {"start", "settle"}
          /\ UNCHANGED <<ord, filled, submitted, resting, trades, cancel, settled, faucet>>
      BY <2>4 DEF BotStart, BotWait, engineVars, cancelVars
    <3>2. ThreadToGo["idle"] < ThreadToGo[pc[BotLoop]]
      BY <3>1 DEF ThreadToGo
    <3>3. FilledResting' = FilledResting
      BY <3>1 DEF FilledResting, Engine!Left
    <3> QED
      BY <2>1, <3>1, <3>2, <3>3, GoroutineWorks
  <2>5. \/ \E h \in Handlers : RecordOrder(h)
        \/ \E t \in Threads : Enter(t) \/ Leave(t) \/ Settle(t)
        \/ Match \/ TakeOut \/ BotStart \/ BotWait
        \/ \E o \in Orders : CancelRead(o) \/ CancelUnlock(o) \/ CancelRecord(o)
        \/ FaucetRead \/ FaucetWrite
    BY DEF Next, Place, Shared, Market, Delete, Faucet, Arrival
  <2> QED
    BY <2>1, <2>2, <2>3, <2>4, <2>5, EnterWorks, MatchWorks, TakeOutWorks, SettleWorks, CancelWorks, FaucetWorks
<1> QED
  BY <1>1, ExchangeCorrect, TradingIsSound, PTL DEF WorkRunsOut, Spec

-----------------------------------------------------------------------------
(***************************************************************************)
(* Nobody is stuck.  The handlers take the locks one after the other, so   *)
(* the only waits are for the engine and for a faucet call that holds      *)
(* s.mu.  Neither waits for anybody: whoever holds the engine can trade or *)
(* return, because the orders it can trade with have a first among them.   *)
(***************************************************************************)

\* The guards of the steps that do not come from outside: the faucet, a cancellation, a
\* goroutine before the engine, the engine, and a goroutine in the settlement loop.  They
\* stand for ENABLED, which cannot be proved about: each is its action (FaucetRead or
\* FaucetWrite, CancelRead, CancelUnlock or CancelRecord, Enter, Match, TakeOut, Leave,
\* Settle, RecordOrder or BotWait) without the conjuncts that only say what it does.
FaucetCanGoOn == ~ServerUnlocked
CancelCanGoOn(o) == cancel[o] \in {"read", "unlock"} \/ (cancel[o] = "record" /\ ServerUnlocked)
CanEnter(t) == pc[t] = "enter" /\ taker = 0 /\ submitted < MaxOrders
CanTrade ==
  /\ taker # 0 /\ Engine!Left(taker) > 0
  /\ \E r \in Engine!Candidates(taker) :
       Engine!Left(r) > 0 /\ \A q \in Engine!Candidates(taker) \ {r} : Engine!Precedes(r, q)
CanTakeOut == taker # 0 /\ \E r \in resting : Engine!Left(r) = 0
CanLeave(t) ==
  /\ pc[t] = "match" /\ taker # 0
  /\ Engine!Left(taker) = 0 \/ Engine!Candidates(taker) = {}
  /\ \A q \in resting : Engine!Left(q) > 0
CanSettle(t) == pc[t] = "settle" /\ \E i \in ToSettle(t) : \A j \in ToSettle(t) : i <= j
CanRecord(t) == pc[t] = "settle" /\ ToSettle(t) = {} /\ ServerUnlocked

SomebodyCanGoOn ==
  \/ FaucetCanGoOn \/ CanTrade \/ CanTakeOut
  \/ \E o \in Orders : CancelCanGoOn(o)
  \/ \E t \in Threads : CanEnter(t) \/ CanLeave(t) \/ CanSettle(t) \/ CanRecord(t)

\* Every order in the engine is the one of its handler or one of the bot's.
HandlersInside == {h \in Handlers : mine[h] # 0}
OrdersCounted ==
  submitted = Cardinality(HandlersInside) + ticks - (IF pc[BotLoop] = "enter" THEN 1 ELSE 0)

\* Of some orders of one side, one comes first: if the smallest set without a first one
\* lost an element, the first of the others or that element would be its first.
LEMMA SomebodyIsFirst ==
  ASSUME TypeOK, NEW C \in SUBSET Orders, C # {}, \A r, q \in C : ord[r].side = ord[q].side
  PROVE  \E r \in C : \A q \in C \ {r} : Engine!Precedes(r, q)
<1> DEFINE IsFirst(r, s) == r \in s /\ \A q \in s \ {r} : Engine!Precedes(r, q)
           Headless == {s \in SUBSET C : s # {} /\ ~ \E r \in s : IsFirst(r, s)}
<1>1. \A r \in C : /\ r \in Nat /\ ord[r].price \in Int /\ ord[r].side \in {"BUY", "SELL"}
  BY OrderFacts DEF Orders
<1>2. \A r, q \in C : r # q => Engine!Precedes(r, q) \/ Engine!Precedes(q, r)
  BY <1>1 DEF Engine!Precedes, Engine!Better
<1>3. \A p, r, q \in C : Engine!Precedes(p, r) /\ Engine!Precedes(r, q) => Engine!Precedes(p, q)
  <2> SUFFICES ASSUME NEW p \in C, NEW r \in C, NEW q \in C, Engine!Precedes(p, r), Engine!Precedes(r, q)
               PROVE  Engine!Precedes(p, q)
    OBVIOUS
  <2>1. ord[p].side = ord[r].side /\ ord[r].side = ord[q].side
    OBVIOUS
  <2>2. CASE ord[p].side = "BUY"
    BY <1>1, <2>1, <2>2 DEF Engine!Precedes, Engine!Better
  <2>3. CASE ord[p].side = "SELL"
    BY <1>1, <2>1, <2>3 DEF Engine!Precedes, Engine!Better
  <2> QED
    BY <1>1, <2>2, <2>3
<1>4. IsFiniteSet(C)
  <2>1. IsFiniteSet(Orders)
    BY WorkTerms
  <2> QED
    BY <2>1, FS_Subset
<1>5. Headless = {}
  <2> SUFFICES ASSUME Headless # {} PROVE FALSE
    OBVIOUS
  <2>1. PICK s \in Headless : \A x \in s : s \ {x} \notin Headless
    <3>1. Headless \subseteq SUBSET C
      OBVIOUS
    <3> HIDE DEF Headless
    <3> QED
      BY <1>4, <3>1, SmallestSet
  <2>2. s \in SUBSET C /\ s # {} /\ ~ \E r \in s : IsFirst(r, s)
    BY <2>1
  <2>3. PICK x \in s : TRUE
    BY <2>2
  <2>4. CASE s \ {x} = {}
    BY <2>2, <2>4
  <2>5. CASE s \ {x} # {}
    <3>1. \E r \in s \ {x} : IsFirst(r, s \ {x})
      BY <2>1, <2>2, <2>3, <2>5
    <3>2. PICK r \in s \ {x} : \A q \in (s \ {x}) \ {r} : Engine!Precedes(r, q)
      BY <3>1
    <3>3. r \in C /\ x \in C /\ r # x /\ r \in s
      BY <2>2, <2>3, <3>2
    <3>4. CASE Engine!Precedes(r, x)
      <4>1. IsFirst(r, s)
        BY <3>2, <3>3, <3>4
      <4> QED
        BY <2>2, <3>3, <4>1
    <3>5. CASE Engine!Precedes(x, r)
      <4>1. \A q \in s \ {x} : Engine!Precedes(x, q)
        BY <1>3, <2>2, <3>2, <3>3, <3>5
      <4> QED
        BY <2>2, <2>3, <4>1
    <3> QED
      BY <1>2, <3>3, <3>4, <3>5
  <2> QED
    BY <2>4, <2>5
<1>6. \E r \in C : IsFirst(r, C)
  BY <1>5
<1> QED
  BY <1>6

(* Whoever is in the engine can trade or return: the order it works on is   *)
(* the taker, and what it may trade with is all on the other side.          *)
LEMMA EngineGoesOn ==
  ASSUME ExchangeInv, TradingInv, NEW t \in Threads, pc[t] = "match"
  PROVE  CanTrade \/ CanTakeOut \/ CanLeave(t)
<1>1. TypeOK /\ taker # 0 /\ taker \in 1 .. submitted /\ taker \in Orders
  <2>1. TypeOK /\ mine[t] = taker /\ mine[t] # 0
    BY DEF ExchangeInv, Goroutines
  <2>2. taker \in 1 .. submitted
    BY <2>1, OrderFacts DEF TypeOK
  <2> QED
    BY <2>1, <2>2, OrderFacts
<1>a. CASE \E r \in resting : Engine!Left(r) = 0
  BY <1>1, <1>a DEF CanTakeOut
<1>b. ASSUME ~ \E r \in resting : Engine!Left(r) = 0 PROVE \A r \in resting \cup late : Engine!Left(r) > 0
  <2>1. \A r \in resting : Engine!Left(r) >= 0 /\ Engine!Left(r) \in Int
    BY <1>1, OrderFacts DEF ExchangeInv, RestingOrders
  <2> QED
    BY <1>b, <2>1 DEF ExchangeInv, RestingOrders
<1>2. CASE (~ \E r \in resting : Engine!Left(r) = 0) /\ (Engine!Left(taker) = 0 \/ Engine!Candidates(taker) = {})
  BY <1>1, <1>b, <1>2 DEF CanLeave
<1>3. CASE (~ \E r \in resting : Engine!Left(r) = 0) /\ Engine!Left(taker) # 0 /\ Engine!Candidates(taker) # {}
  <2>1. Engine!Left(taker) > 0
    <3>1. Engine!Left(taker) >= 0 /\ Engine!Left(taker) \in Int
      BY <1>1, OrderFacts DEF TradingInv, Fills
    <3> QED
      BY <1>3, <3>1
  <2>2. Engine!Candidates(taker) \in SUBSET Orders
    BY <1>1, OrderFacts DEF Engine!Candidates
  <2>3. \A r, q \in Engine!Candidates(taker) : ord[r].side = ord[q].side
    <3>1. \A r \in Engine!Candidates(taker) :
            ord[r].side \in {"BUY", "SELL"} /\ ord[r].side # ord[taker].side
      BY <1>1, <2>2, OrderFacts DEF Engine!Candidates, Engine!Matches
    <3>2. ord[taker].side \in {"BUY", "SELL"}
      BY <1>1, OrderFacts
    <3> QED
      BY <3>1, <3>2
  <2>4. \E r \in Engine!Candidates(taker) : \A q \in Engine!Candidates(taker) \ {r} : Engine!Precedes(r, q)
    BY <1>1, <1>3, <2>2, <2>3, SomebodyIsFirst
  <2>5. \A r \in Engine!Candidates(taker) : Engine!Left(r) > 0
    BY <1>3, <1>b DEF Engine!Candidates
  <2> QED
    BY <1>1, <2>1, <2>4, <2>5 DEF CanTrade
<1> QED
  BY <1>a, <1>2, <1>3

(* The model's bound on orders never keeps a goroutine waiting: one that is *)
(* on its way to the engine is not among those that have been there.        *)
LEMMA RoomInEngine ==
  ASSUME ExchangeInv, OrdersCounted, NEW t \in Threads, pc[t] = "enter"
  PROVE  submitted < MaxOrders
<1>1. /\ submitted \in Nat /\ ticks \in Nat /\ ticks <= MaxSeeds + MaxPulses
      /\ MaxRequests \in Nat /\ MaxSeeds \in Nat /\ MaxPulses \in Nat
      /\ MaxOrders = MaxRequests + MaxSeeds + MaxPulses
  BY ExchangeAssumption DEF ExchangeInv, TypeOK, MaxOrders
<1>2. IsFiniteSet(Handlers) /\ Cardinality(Handlers) = MaxRequests
  BY <1>1, FS_Interval DEF Handlers
<1>3. HandlersInside \subseteq Handlers
  BY DEF HandlersInside
<1>4. Cardinality(HandlersInside) \in Nat /\ Cardinality(HandlersInside) <= MaxRequests
  <2>1. IsFiniteSet(HandlersInside) /\ Cardinality(HandlersInside) <= MaxRequests
    BY <1>2, <1>3, FS_Subset
  <2> QED
    BY <2>1, FS_CardinalityType
<1>5. CASE t = BotLoop
  BY <1>1, <1>4, <1>5 DEF OrdersCounted
<1>6. CASE t \in Handlers
  <2>1. HandlersInside \subseteq Handlers \ {t}
    BY <1>3, <1>6 DEF HandlersInside, ExchangeInv, Goroutines
  <2>2. IsFiniteSet(Handlers \ {t}) /\ Cardinality(Handlers \ {t}) = MaxRequests - 1
    BY <1>2, <1>6, FS_RemoveElement
  <2>3. Cardinality(HandlersInside) <= MaxRequests - 1
    BY <2>1, <2>2, FS_Subset
  <2> QED
    BY <1>1, <1>4, <2>3 DEF OrdersCounted
<1> QED
  BY <1>5, <1>6 DEF Threads

\* A step that brings no order to the engine, and after which the bot is not on its way.
LEMMA CountFrame ==
  ASSUME OrdersCounted, UNCHANGED <<submitted, mine, ticks>>,
         pc'[BotLoop] = "enter" <=> pc[BotLoop] = "enter"
  PROVE  OrdersCounted'
<1>1. HandlersInside' = HandlersInside
  BY DEF HandlersInside
<1> QED
  BY <1>1 DEF OrdersCounted

LEMMA CountNext ==
  ASSUME ExchangeInv, OrdersCounted, [Next]_vars
  PROVE  OrdersCounted'
<1>1. /\ TypeOK /\ GoroutineTypes /\ submitted \in Nat /\ ticks \in Nat
      /\ Threads = Handlers \cup {BotLoop} /\ BotLoop \notin Handlers
  <2>1. TypeOK /\ GoroutineTypes /\ submitted \in Nat
    BY TypeParts, OrderFacts DEF ExchangeInv
  <2>2. ticks \in Nat
    BY <2>1, ExchangeAssumption DEF TypeOK
  <2> QED
    BY <2>1, <2>2 DEF Threads, Handlers, BotLoop
<1>2. IsFiniteSet(HandlersInside) /\ Cardinality(HandlersInside) \in Nat
  <2>1. MaxRequests \in Nat /\ HandlersInside \subseteq Handlers
    BY ExchangeAssumption DEF HandlersInside
  <2>2. IsFiniteSet(Handlers)
    BY <2>1, FS_Interval DEF Handlers
  <2>3. IsFiniteSet(HandlersInside)
    BY <2>1, <2>2, FS_Subset
  <2> QED
    BY <2>3, FS_CardinalityType
<1>3. ASSUME NEW h \in Handlers, Enter(h) PROVE OrdersCounted'
  <2>1. /\ submitted' = submitted + 1 /\ mine' = [mine EXCEPT ![h] = submitted + 1]
        /\ UNCHANGED ticks /\ pc[h] = "enter" /\ pc' = [pc EXCEPT ![h] = "match"]
    BY <1>3 DEF Enter, Engine!Submit
  <2>2. pc'[BotLoop] = pc[BotLoop] /\ \A g \in Handlers : mine'[g] = IF g = h THEN submitted + 1 ELSE mine[g]
    BY <1>1, <2>1 DEF GoroutineTypes
  <2>3. h \notin HandlersInside
    BY <2>1 DEF HandlersInside, ExchangeInv, Goroutines
  <2>4. HandlersInside' = HandlersInside \cup {h}
    BY <1>1, <2>2 DEF HandlersInside
  <2>5. Cardinality(HandlersInside') = Cardinality(HandlersInside) + 1
    BY <1>2, <2>3, <2>4, FS_AddElement
  <2> QED
    BY <1>1, <1>2, <2>1, <2>2, <2>5 DEF OrdersCounted
<1>4. ASSUME Enter(BotLoop) PROVE OrdersCounted'
  <2>1. /\ submitted' = submitted + 1 /\ mine' = [mine EXCEPT ![BotLoop] = submitted + 1]
        /\ UNCHANGED ticks /\ pc[BotLoop] = "enter" /\ pc' = [pc EXCEPT ![BotLoop] = "match"]
    BY <1>4 DEF Enter, Engine!Submit
  <2>2. pc'[BotLoop] = "match" /\ \A g \in Handlers : mine'[g] = mine[g]
    BY <1>1, <2>1 DEF GoroutineTypes
  <2>3. HandlersInside' = HandlersInside
    BY <2>2 DEF HandlersInside
  <2> QED
    BY <1>1, <1>2, <2>1, <2>2, <2>3 DEF OrdersCounted
<1>5. ASSUME NEW q, BotTick(q) PROVE OrdersCounted'
  <2>1. /\ UNCHANGED <<submitted, mine>> /\ ticks' = ticks + 1
        /\ pc[BotLoop] = "idle" /\ pc' = [pc EXCEPT ![BotLoop] = "enter"]
    BY <1>5 DEF BotTick, engineVars
  <2>2. pc'[BotLoop] = "enter" /\ HandlersInside' = HandlersInside
    BY <1>1, <2>1 DEF GoroutineTypes, HandlersInside
  <2> QED
    BY <1>1, <1>2, <2>1, <2>2 DEF OrdersCounted
<1>6. ASSUME NEW t \in Threads, Leave(t) PROVE OrdersCounted'
  <2>1. /\ UNCHANGED <<submitted, mine, ticks>> /\ pc[t] = "match"
        /\ pc' = [pc EXCEPT ![t] = AfterMatch(t)] /\ AfterMatch(t) # "enter"
    BY <1>6 DEF Leave, Engine!Finish, AfterMatch
  <2>2. pc'[BotLoop] = "enter" <=> pc[BotLoop] = "enter"
    BY <1>1, <2>1 DEF GoroutineTypes
  <2> QED
    BY <2>1, <2>2, CountFrame
<1>7. ASSUME NEW h \in Handlers, RecordOrder(h) \/ \E q \in DemoRequests : Request(h, q) PROVE OrdersCounted'
  <2>1. UNCHANGED <<submitted, mine, ticks>>
    BY <1>7 DEF RecordOrder, Request, engineVars
  <2>2. pc'[BotLoop] = pc[BotLoop]
    BY <1>1, <1>7 DEF RecordOrder, Request, GoroutineTypes
  <2> QED
    BY <2>1, <2>2, CountFrame
<1>8. ASSUME BotStart \/ BotWait PROVE OrdersCounted'
  <2>1. UNCHANGED <<submitted, mine, ticks>> /\ pc[BotLoop] # "enter"
    BY <1>8 DEF BotStart, BotWait, engineVars
  <2>2. pc'[BotLoop] # "enter"
    BY <1>1, <1>8 DEF BotStart, BotWait, GoroutineTypes
  <2> QED
    BY <2>1, <2>2, CountFrame
<1>9. ASSUME \/ \E t \in Threads : Settle(t)
             \/ Match \/ TakeOut \/ Faucet \/ (\E o \in Orders : Delete(o)) \/ UNCHANGED vars
      PROVE  OrdersCounted'
  <2>1. UNCHANGED <<submitted, mine, ticks, pc>>
    BY <1>9 DEF Settle, Match, TakeOut, Faucet, FaucetCall, FaucetRead, FaucetWrite, Delete,
                CancelInEngine, CancelRead, CancelUnlock, CancelRecord,
                Engine!Trade, Engine!Remove, Engine!Withdraw, vars, engineVars, threadVars
  <2> QED
    BY <2>1, CountFrame
<1>10. [Next]_vars =>
         \/ \E h \in Handlers : RecordOrder(h) \/ \E q \in DemoRequests : Request(h, q)
         \/ \E t \in Threads : Enter(t) \/ Leave(t) \/ Settle(t)
         \/ BotStart \/ BotWait \/ \E q \in SeedRequests \cup PulseRequests : BotTick(q)
         \/ Match \/ TakeOut \/ Faucet \/ (\E o \in Orders : Delete(o)) \/ UNCHANGED vars
  BY DEF Next, Place, Shared, Market
<1> QED
  BY <1>1, <1>3, <1>4, <1>5, <1>6, <1>7, <1>8, <1>9, <1>10

LEMMA CountInit == Init => OrdersCounted
<1> SUFFICES ASSUME Init PROVE OrdersCounted
  OBVIOUS
<1>1. submitted = 0 /\ ticks = 0 /\ BotLoop \in Threads /\ pc[BotLoop] = "start"
  BY DEF Init, Engine!Init, Threads
<1>2. HandlersInside = {}
  BY DEF Init, HandlersInside, Threads
<1>3. Cardinality(HandlersInside) = 0
  BY <1>2, FS_EmptySet
<1> QED
  BY <1>1, <1>3 DEF OrdersCounted

(* For any number of goroutines: as long as a request, an order of the bot, *)
(* a cancellation or a faucet call is under way, one of them can take a     *)
(* step.  The locks of ledger, engine and server are never waited for in a  *)
(* circle (main.go:196-416), and with WorkAlwaysRunsOut the server comes to *)
(* rest whichever of them the scheduler lets go on, as long as orders have  *)
(* IDs of their own.                                                        *)
THEOREM NobodyIsStuck == Spec => [](Quiet \/ SomebodyCanGoOn)
<1>1. ExchangeInv /\ TradingInv /\ OrdersCounted => Quiet \/ SomebodyCanGoOn
  <2> SUFFICES ASSUME ExchangeInv, TradingInv, OrdersCounted, ~Quiet PROVE SomebodyCanGoOn
    OBVIOUS
  <2>1. TypeOK /\ GoroutineTypes
    BY TypeParts DEF ExchangeInv
  <2>2. CASE ~ServerUnlocked
    BY <2>2 DEF SomebodyCanGoOn, FaucetCanGoOn
  <2>3. CASE ServerUnlocked /\ \E o \in Orders : cancel[o] \notin {"none", "done"}
    <3>1. PICK o \in Orders : cancel[o] \in {"read", "unlock", "record"}
      BY <2>1, <2>3 DEF GoroutineTypes
    <3>2. CancelCanGoOn(o)
      BY <2>3, <3>1 DEF CancelCanGoOn
    <3> QED
      BY <3>2 DEF SomebodyCanGoOn
  <2>4. ASSUME ServerUnlocked, NEW t \in Threads, pc[t] = "settle" PROVE SomebodyCanGoOn
    <3>1. CASE ToSettle(t) = {}
      BY <2>4, <3>1 DEF SomebodyCanGoOn, CanRecord
    <3>2. CASE ToSettle(t) # {}
      <4>1. ToSettle(t) \subseteq Nat
        BY <2>1, TapeFacts DEF ToSettle
      <4>2. \E i \in ToSettle(t) : \A j \in ToSettle(t) : i <= j
        BY <3>2, <4>1, LeastNatural
      <4> QED
        BY <2>4, <4>2 DEF SomebodyCanGoOn, CanSettle
    <3> QED
      BY <3>1, <3>2
  <2>5. ASSUME NEW t \in Threads, pc[t] = "match" PROVE SomebodyCanGoOn
    BY <2>5, EngineGoesOn DEF SomebodyCanGoOn
  <2>6. ASSUME NEW t \in Threads, pc[t] = "enter" PROVE SomebodyCanGoOn
    <3>1. CASE taker = 0
      <4>1. submitted < MaxOrders
        BY <2>6, RoomInEngine
      <4> QED
        BY <2>6, <3>1, <4>1 DEF SomebodyCanGoOn, CanEnter
    <3>2. CASE taker # 0
      <4>1. PICK u \in Threads : mine[u] = taker
        BY <3>2 DEF TradingInv, Owners
      <4>2. pc[u] = "match"
        BY <3>2, <4>1 DEF ExchangeInv, Goroutines
      <4> QED
        BY <2>5, <4>2
    <3> QED
      BY <3>1, <3>2
  <2>7. \/ ~ServerUnlocked \/ \E o \in Orders : cancel[o] \notin {"none", "done"}
        \/ \E t \in Threads : pc[t] \in {"enter", "match", "settle"}
    BY <2>1 DEF Quiet, GoroutineTypes
  <2> QED
    BY <2>2, <2>3, <2>4, <2>5, <2>6, <2>7
<1>2. OrdersCounted /\ ExchangeInv /\ [Next]_vars => OrdersCounted'
  BY CountNext
<1> QED
  BY <1>1, <1>2, CountInit, ExchangeCorrect, TradingIsSound, PTL DEF Spec

=============================================================================
