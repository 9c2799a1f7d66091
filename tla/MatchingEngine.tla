--------------------------- MODULE MatchingEngine ---------------------------
(***************************************************************************)
(* Package engine: ProcessOrder and CancelOrder over the order book.       *)
(*                                                                         *)
(* ProcessOrder holds e.mu from its first line to its last, so one order   *)
(* (taker) is matched at a time.  CancelOrder does not take e.mu, only the *)
(* book's own lock, and the matching loop reads and writes the linked      *)
(* lists, Filled and TotalVolume without that lock: cancellations therefore*)
(* interleave with the steps below, one step per access to shared state.   *)
(***************************************************************************)
EXTENDS OrderBook

CONSTANTS
  MaxTrades,  \* bound: the tape keeps the first MaxTrades trades
  ReuseIds    \* may a new order get the ID of an earlier one?

ASSUME EngineAssumption == MaxTrades \in Nat /\ ReuseIds \in BOOLEAN

VARIABLES
  submitted,  \* how many orders have entered ProcessOrder
  taker,      \* the order that holds e.mu, Nil when the lock is free
  stage,      \* where in ProcessOrder the taker is
  tier,       \* the price of bestAsk (bestBid), the level being swept
  curr, nxt,  \* the loop's variables curr and next
  fill,       \* fillAmount
  vol,        \* the TotalVolume read by "TotalVolume -= fillAmount"
  trades,     \* e.trades
  cancelled,  \* history: the orders CancelOrder has handed back to its caller
  torn        \* history: the levels whose TotalVolume a cancellation has put out of step

loopVars == <<tier, curr, nxt, fill, vol>>
vars == <<ord, filled, listVars, submitted, taker, stage, loopVars, trades, cancelled, torn>>

Stages == {"idle", "best", "head", "pick", "fill", "volume", "remove", "rest"}

Opposite(s) == IF s = "BUY" THEN "SELL" ELSE "BUY"
MakerSide == Opposite(ord[taker].side)

\* The price check of matchBuyOrder and matchSellOrder.
CrossesAlways(o, p) == TRUE                             \* mutant
CrossesStrictly(o, p) ==                                \* mutant: equal prices do not match
  ord[o].kind = "LIMIT" => Ahead(ord[o].side, ord[o].price, p)
Crosses(o, p) == ord[o].kind = "LIMIT" => ~Ahead(Opposite(ord[o].side), ord[o].price, p)

Init ==
  /\ BookInit
  /\ submitted = 0
  /\ taker = Nil
  /\ stage = "idle"
  /\ tier = 0
  /\ curr = Nil
  /\ nxt = Nil
  /\ fill = 0
  /\ vol = 0
  /\ trades = <<>>
  /\ cancelled = {}
  /\ torn = {}
-----------------------------------------------------------------------------
\* The requests a caller can make.  A market order carries no price.
Requests == {d \in Details : d.kind = "MARKET" => d.price = 0}

(* ProcessOrder takes e.mu for a new order.                                *)
Submit(d) ==
  LET o == submitted + 1
  IN  /\ taker = Nil
      /\ submitted < MaxOrders
      /\ d.id \in IF ReuseIds THEN 1 .. o ELSE {o}
      /\ d.kind = "LIMIT" => d.price \in Prices
      /\ ord' = [ord EXCEPT ![o] = d]
      /\ submitted' = o
      /\ taker' = o
      /\ stage' = "best"
      /\ UNCHANGED <<filled, listVars, loopVars, trades, cancelled, torn>>

(* The outer loop: BestAsk (BestBid) and the price check.                  *)
MoreToMatch ==
  /\ Remaining(taker) > 0
  /\ ladder[MakerSide] # <<>>
  /\ Crosses(taker, BestPrice(MakerSide))

SelectLevel ==
  /\ stage = "best"
  /\ MoreToMatch
  /\ tier' = BestPrice(MakerSide)
  /\ stage' = "head"
  /\ UNCHANGED <<ord, filled, listVars, submitted, taker, curr, nxt, fill, vol, trades, cancelled, torn>>

StopMatching ==
  /\ stage = "best"
  /\ ~MoreToMatch
  /\ stage' = "rest"
  /\ UNCHANGED <<ord, filled, listVars, submitted, taker, loopVars, trades, cancelled, torn>>

\* The condition of the inner loop, once curr is o.
LoopWhileMakers(o) == IF o # Nil THEN "pick" ELSE "best"   \* mutant
LoopOn(o) == IF o # Nil /\ Remaining(taker) > 0 THEN "pick" ELSE "best"

(* curr := bestAsk.Head                                                    *)
ReadTail ==                                             \* mutant: the newest order first
  /\ stage = "head"
  /\ curr' = level[MakerSide][tier].tail
  /\ stage' = LoopOn(curr')
  /\ UNCHANGED <<ord, filled, listVars, submitted, taker, tier, nxt, fill, vol, trades, cancelled, torn>>
ReadHead ==
  /\ stage = "head"
  /\ curr' = level[MakerSide][tier].head
  /\ stage' = LoopOn(curr')
  /\ UNCHANGED <<ord, filled, listVars, submitted, taker, tier, nxt, fill, vol, trades, cancelled, torn>>

\* fillAmount
MakersRemaining(o, r) == Remaining(r)                   \* mutant
FillAmount(o, r) == Min({Remaining(o), Remaining(r)})

(* next := curr.Next and fillAmount.                                       *)
PickMaker ==
  /\ stage = "pick"
  /\ nxt' = next[curr]
  /\ fill' = FillAmount(taker, curr)
  /\ stage' = "fill"
  /\ UNCHANGED <<ord, filled, listVars, submitted, taker, tier, curr, vol, trades, cancelled, torn>>

\* append(e.trades, t), up to the bound.
Record(tape, t) == IF Len(tape) < MaxTrades THEN Append(tape, t) ELSE tape

(* The trade, the Filled of both orders, and the read of TotalVolume.      *)
RecordTrade ==
  /\ stage = "fill"
  /\ trades' = Record(trades, [maker |-> curr, taker |-> taker,
                               price |-> ord[curr].price, amount |-> fill])
  /\ filled' = [filled EXCEPT ![taker] = @ + fill, ![curr] = @ + fill]
  /\ vol' = level[MakerSide][tier].volume
  /\ stage' = "volume"
  /\ UNCHANGED <<ord, listVars, submitted, taker, tier, curr, nxt, fill, cancelled, torn>>

(* curr := next                                                            *)
Advance ==
  /\ curr' = nxt
  /\ stage' = LoopOn(nxt)

(* The write of TotalVolume, and IsFilled.                                 *)
WriteVolume ==
  /\ stage = "volume"
  /\ level' = [level EXCEPT ![MakerSide][tier].volume = vol - fill]
  /\ \/ IsFilled(curr) /\ stage' = "remove" /\ curr' = curr
     \/ ~IsFilled(curr) /\ Advance
  /\ UNCHANGED <<ord, filled, next, prev, tiers, ladder, index, resting,
                 submitted, taker, tier, nxt, fill, vol, trades, cancelled, torn>>

(* e.Book.CancelOrder(curr.ID); its error is ignored.                      *)
RemoveMaker ==
  /\ stage = "remove"
  /\ \/ index[ord[curr].id] # Nil /\ CancelOrder(ord[curr].id)
     \/ index[ord[curr].id] = Nil /\ UNCHANGED listVars
  /\ Advance
  /\ UNCHANGED <<ord, filled, submitted, taker, tier, nxt, fill, vol, trades, cancelled, torn>>

(* The end of ProcessOrder: what is left of a limit order goes into the    *)
(* book, and e.mu is released.                                             *)
Rest ==
  /\ stage = "rest"
  /\ \/ /\ Remaining(taker) > 0 /\ ord[taker].kind = "LIMIT"
        /\ AddOrder(taker)
     \/ /\ ~(Remaining(taker) > 0 /\ ord[taker].kind = "LIMIT")
        /\ UNCHANGED listVars
  /\ taker' = Nil
  /\ stage' = "idle"
  /\ tier' = 0 /\ curr' = Nil /\ nxt' = Nil /\ fill' = 0 /\ vol' = 0
  /\ torn' = {l \in torn : l[2] \in tiers[l[1]]}
  /\ UNCHANGED <<ord, filled, submitted, trades, cancelled>>

\* The cancelled orders the loop still has in hand: its maker, up to the fill, and the
\* one it goes on to.
Late ==
  {o \in Orders \ resting :
     /\ taker # Nil /\ Remaining(taker) > 0 /\ Remaining(o) > 0
     /\ \/ o = curr /\ stage \in {"pick", "fill"}
        \/ o = nxt /\ stage \in {"fill", "volume", "remove"}}

\* Its level loses track when o is cancelled between the read and the write of the
\* level's TotalVolume, or has been in hand: the loop takes its fill off once more.
Tears(o) ==
  IF \/ stage = "volume" /\ ord[o].side = MakerSide /\ ord[o].price = tier
     \/ o \in Late'
  THEN {<<ord[o].side, ord[o].price>>} ELSE {}

(* MatchingEngine.CancelOrder, called by the HTTP handler at any time.     *)
Cancel(id) ==
  /\ index[id] # Nil
  /\ CancelOrder(id)
  /\ cancelled' = cancelled \cup {index[id]}
  /\ UNCHANGED <<ord, filled, submitted, taker, stage, loopVars, trades>>
  /\ torn' = torn \cup Tears(index[id])

\* The bound on submissions is reached and nothing is being matched.
Exhausted == submitted = MaxOrders /\ taker = Nil /\ UNCHANGED vars

ProcessOrder ==
  \/ SelectLevel \/ StopMatching \/ ReadHead \/ PickMaker
  \/ RecordTrade \/ WriteVolume \/ RemoveMaker \/ Rest

Next ==
  \/ \E d \in Requests : Submit(d)
  \/ ProcessOrder
  \/ \E id \in Ids : Cancel(id)
  \/ Exhausted

Spec == Init /\ [][Next]_vars

\* The goroutine inside ProcessOrder is never blocked: it takes ob.mu, which
\* is held only for the length of one step.
FairSpec == Spec /\ WF_vars(ProcessOrder)
-----------------------------------------------------------------------------
TypeOK ==
  /\ BookTypeOK
  /\ submitted \in 0 .. MaxOrders
  /\ taker \in Orders \cup {Nil}
  /\ stage \in Stages
  /\ tier \in Prices \cup {0}
  /\ curr \in Orders \cup {Nil}
  /\ nxt \in Orders \cup {Nil}
  /\ fill \in Nat
  /\ vol \in Int
  /\ trades \in Seq([maker : Orders, taker : Orders, price : Prices, amount : Nat])
  /\ cancelled \subseteq Orders
  /\ torn \subseteq Sides \X Prices

(* README: "The oldest resting order at the best price is guaranteed to    *)
(* fill first".  Whatever is cancelled while the loop walks the list, the  *)
(* maker it is about to fill comes before every order still in the book.   *)
PriceTimePriority ==
  stage = "fill" =>
    \A r \in resting \ {curr} : ord[r].side = MakerSide =>
      \/ Ahead(MakerSide, ord[curr].price, ord[r].price)
      \/ ord[curr].price = ord[r].price /\ curr < r

(* A trade never executes outside the limit of either party, for nothing,  *)
(* or between orders of one side.                                          *)
TradesAreFair ==
  \A i \in DOMAIN trades :
    LET t == trades[i]
    IN  /\ t.amount > 0
        /\ ord[t.maker].side = Opposite(ord[t.taker].side)
        /\ t.price = ord[t.maker].price
        /\ \/ ord[t.taker].kind = "MARKET"
           \/ ord[t.taker].side = "BUY" /\ t.price <= ord[t.taker].price
           \/ ord[t.taker].side = "SELL" /\ t.price >= ord[t.taker].price

\* The positions of the trades that o is a party to.
TradesOf(o) == {i \in DOMAIN trades : o \in {trades[i].maker, trades[i].taker}}

(* No order is filled beyond its amount, and what an order counts as       *)
(* filled is what its trades add up to.                                    *)
FillsMatchTrades ==
  \A o \in Orders :
    /\ filled[o] <= ord[o].amount
    /\ filled[o] = SumFunctionOnSet([i \in DOMAIN trades |-> trades[i].amount], TradesOf(o))

(* Between two calls of ProcessOrder the book is not crossed: no resting   *)
(* bid reaches a resting ask, although cancellations may have raced with   *)
(* every step of the match that placed them.                               *)
BookIsUncrossed ==
  taker = Nil =>
    \A b, a \in resting : ord[b].side = "BUY" /\ ord[a].side = "SELL" => ord[b].price < ord[a].price

(* Between two calls of ProcessOrder only limit orders with something left *)
(* rest in the book: nothing that is filled stays behind in a queue.       *)
OnlyLiveOrdersRest ==
  taker = Nil => \A o \in resting : Remaining(o) > 0 /\ ord[o].kind = "LIMIT"

(* GetDepth "returns an aggregated L2 depth view" (orderbook.go:161): the  *)
(* volume shown for a tier is what its orders have left, unless a          *)
(* cancellation of the tier met the loop at one of the two spots of Tears. *)
DepthIsExact ==
  taker = Nil =>
    \A s \in Sides, i \in 1 .. MaxOrders :
      LET depth == Depth(s, MaxOrders)
      IN  i \in DOMAIN depth /\ <<s, depth[i].price>> \notin torn =>
            depth[i].volume = SumFunctionOnSet([o \in Orders |-> Remaining(o)], Queue(s, depth[i].price))

(* What an order handed back by CancelOrder would be expected to do: it    *)
(* trades no more.                                                         *)
CancelledTradesNoMore == [][\A o \in cancelled : filled'[o] = filled[o]]_vars

(* What the code does guarantee: a cancelled order never gets back into    *)
(* the hands of the loop, and trades only out of them, so that it trades   *)
(* at most once after CancelOrder has handed it back.                      *)
CancelledTradesOnceMore ==
  [][\A o \in cancelled : /\ o \in Late' => o \in Late
                          /\ filled'[o] # filled[o] => o \in Late \ Late']_vars

\* How far the running ProcessOrder may still have to go: at most seven steps for every
\* order that is not filled, three for every order that may be cancelled under it, and
\* the rest of the turn it is in.  A level that was emptied after it was picked costs a
\* second look for the best price.
TurnLeft ==
  CASE stage = "volume" -> 8
    [] stage = "remove" -> 7
    [] stage = "head" /\ LoopOn(level[MakerSide][tier].head) = "best" -> 6
    [] stage = "best" -> 5
    [] stage = "head" /\ LoopOn(level[MakerSide][tier].head) # "best" -> 4
    [] stage = "pick" -> 3
    [] stage = "fill" -> 2
    [] OTHER -> 1
Unfilled == {o \in 1 .. submitted : Remaining(o) > 0}
StepsLeft ==
  IF taker = Nil THEN 0 ELSE 7 * Cardinality(Unfilled) + 3 * Cardinality(resting) + TurnLeft

(* The safety half of "ProcessOrder returns":                              *)
(* whatever is cancelled while it holds e.mu, every step brings its end    *)
(* closer, so it returns after a number of steps linear in the orders.     *)
MatchAdvances == [][taker # Nil => StepsLeft' < StepsLeft]_vars

(* ProcessOrder "returns matched trades and whether the order was fully    *)
(* filled or added to the book" (matching_engine.go:30): it returns.       *)
ProcessOrderReturns == taker # Nil ~> taker = Nil
=============================================================================
