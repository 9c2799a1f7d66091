------------------------ MODULE MatchingEngineProofs ------------------------
(***************************************************************************)
(* ProcessOrder and CancelOrder keep the book whole and match by price and  *)
(* time, for every number of orders, every set of prices and amounts, and   *)
(* every interleaving of cancellations with the matching loop.  The one     *)
(* assumption is that order IDs are unique (ReuseIds = FALSE): with reused  *)
(* IDs the index is wrong, as the run Engine_id_collision shows.            *)
(*                                                                          *)
(* The properties are not inductive by themselves.  That the maker about to *)
(* be filled is the oldest at the best price depends on where curr and next *)
(* were read and on which of the two parties the last fill exhausted, so    *)
(* EngineInv says, stage by stage, what the loop's variables still promise  *)
(* although cancellations may have removed any order since they were read.  *)
(* The same facts show that no cancellation sends the loop round for ever.  *)
(***************************************************************************)
EXTENDS MatchingEngine, OrderBookProofs

\* Every order that has entered ProcessOrder: its ID is its own, and it has
\* not been filled beyond its amount.
SubmittedOrders ==
  /\ submitted \in 0 .. MaxOrders
  /\ \A o \in 1 .. submitted : /\ ord[o] \in Details
                               /\ ord[o].id = o
                               /\ ord[o].kind = "LIMIT" => ord[o].price \in Prices
                               /\ filled[o] <= ord[o].amount
  /\ \A o \in Orders : o > submitted => filled[o] = 0

\* The taker is the youngest order and is not in the book.
TakerIsYoungest ==
  /\ taker \in Orders \cup {Nil}
  /\ stage \in Stages
  /\ taker = Nil <=> stage = "idle"
  /\ taker # Nil => taker = submitted /\ taker \notin resting

\* What rests are limit orders with something left; the one exception is the
\* maker that has just been filled and is about to be removed.
RestingOrdersLive ==
  \A o \in resting :
    /\ o <= submitted
    /\ ord[o].kind = "LIMIT"
    /\ Remaining(o) > 0 \/ (o = curr /\ stage \in {"volume", "remove"})

Uncrossed ==
  \A b, a \in resting : ord[b].side = "BUY" /\ ord[a].side = "SELL" => ord[b].price < ord[a].price

\* The level being swept is one the taker reaches, and the best one.
SweepsBestTier ==
  stage \in {"head", "pick", "fill", "volume", "remove"} =>
    /\ tier \in Prices
    /\ Crosses(taker, tier)
    /\ \A r \in resting : ord[r].side = MakerSide => ~Ahead(MakerSide, ord[r].price, tier)

\* o belongs, or belonged, to the level being swept.
IsMaker(o) ==
  /\ o \in 1 .. submitted
  /\ ord[o].kind = "LIMIT"
  /\ ord[o].side = MakerSide
  /\ ord[o].price = tier

\* curr is older than whatever else still rests at its price, ...
MakerIsOldest ==
  stage \in {"pick", "fill", "volume", "remove"} =>
    /\ IsMaker(curr)
    /\ \A r \in Queue(MakerSide, tier) : r # curr => curr < r
    /\ stage \in {"pick", "fill"} => Remaining(curr) > 0 /\ Remaining(taker) > 0

\* ... and so is next, when curr is set aside.
NextIsOldest ==
  stage \in {"fill", "volume", "remove"} /\ nxt # Nil =>
    /\ IsMaker(nxt)
    /\ nxt # curr
    /\ Remaining(nxt) > 0
    /\ \A r \in Queue(MakerSide, tier) : r # curr => nxt <= r

\* A fill leaves the maker or the taker with nothing.
FillExhausts ==
  /\ fill \in Nat
  /\ vol \in Int
  /\ stage = "fill" => fill = FillAmount(taker, curr)
  /\ stage = "volume" => Remaining(curr) = 0 \/ Remaining(taker) = 0
  /\ stage = "remove" => Remaining(curr) = 0

\* An order is put into the book only when it reaches nothing in it.
RestsUncrossed ==
  stage = "rest" /\ Remaining(taker) > 0 =>
    \A r \in resting : ord[r].side = MakerSide => ~Crosses(taker, ord[r].price)

TradeOK(t) ==
  /\ t.maker \in 1 .. submitted
  /\ t.taker \in 1 .. submitted
  /\ t.price \in Prices
  /\ t.amount \in Nat \ {0}
  /\ ord[t.maker].side = Opposite(ord[t.taker].side)
  /\ t.price = ord[t.maker].price
  /\ \/ ord[t.taker].kind = "MARKET"
     \/ ord[t.taker].side = "BUY" /\ t.price <= ord[t.taker].price
     \/ ord[t.taker].side = "SELL" /\ t.price >= ord[t.taker].price

Tape ==
  /\ trades \in Seq([maker : Orders, taker : Orders, price : Prices, amount : Nat])
  /\ \A i \in DOMAIN trades : TradeOK(trades[i])

LoopTypes ==
  /\ tier \in Prices \cup {0}
  /\ curr \in Orders \cup {Nil}
  /\ nxt \in Orders \cup {Nil}
  /\ cancelled \subseteq Orders
  /\ torn \subseteq Sides \X Prices

EngineInv ==
  /\ BookInv
  /\ SubmittedOrders
  /\ TakerIsYoungest
  /\ RestingOrdersLive
  /\ Uncrossed
  /\ SweepsBestTier
  /\ MakerIsOldest
  /\ NextIsOldest
  /\ FillExhausts
  /\ RestsUncrossed
  /\ Tape
  /\ LoopTypes
-----------------------------------------------------------------------------
(* The program starts with an empty book and no taker.                      *)
LEMMA EngineInitInv == Init => EngineInv
<1> SUFFICES ASSUME Init PROVE EngineInv
  OBVIOUS
<1>1. BookInv
  BY BookInitInv DEF Init
<1>2. resting = {} /\ filled = [o \in Orders |-> 0]
  BY DEF Init, BookInit
<1>3. SubmittedOrders
  BY <1>2, BookAssumption DEF SubmittedOrders, Init, Orders
<1>4. TakerIsYoungest
  BY DEF TakerIsYoungest, Init, Stages, Nil
<1>5. Tape
  BY DEF Tape, Init
<1>6. RestingOrdersLive /\ Uncrossed
  BY <1>2 DEF RestingOrdersLive, Uncrossed
<1>7. SweepsBestTier /\ MakerIsOldest /\ NextIsOldest /\ FillExhausts /\ RestsUncrossed /\ LoopTypes
  BY DEF Init, SweepsBestTier, MakerIsOldest, NextIsOldest, FillExhausts, RestsUncrossed, LoopTypes
<1> QED
  BY <1>1, <1>3, <1>4, <1>5, <1>6, <1>7 DEF EngineInv

(* Nothing changes when no variable does.                                   *)
LEMMA StutterInv == EngineInv /\ UNCHANGED vars => EngineInv'
<1> SUFFICES ASSUME EngineInv, UNCHANGED vars PROVE EngineInv'
  OBVIOUS
<1> USE DEF EngineInv, vars, loopVars
<1>1. BookInv'
  BY BookStutterInv DEF BookInv, BookTypeOK
<1>2. SubmittedOrders' /\ TakerIsYoungest' /\ LoopTypes' /\ Uncrossed'
  BY DEF SubmittedOrders, TakerIsYoungest, LoopTypes, Uncrossed, listVars
<1>3. RestingOrdersLive' /\ FillExhausts'
  BY DEF RestingOrdersLive, FillExhausts, FillAmount, Remaining, listVars
<1>4. SweepsBestTier' /\ MakerIsOldest' /\ NextIsOldest' /\ RestsUncrossed'
  BY DEF SweepsBestTier, MakerIsOldest, NextIsOldest, RestsUncrossed, IsMaker, Queue, Remaining,
         Crosses, MakerSide, listVars
<1>5. Tape'
  BY DEF Tape, TradeOK
<1> QED
  BY <1>1, <1>2, <1>3, <1>4, <1>5

(* What the taker and its opposite side are while ProcessOrder runs.        *)
LEMMA TakerFacts ==
  ASSUME EngineInv, taker # Nil
  PROVE  /\ taker \in 1 .. submitted /\ taker \in Orders /\ taker = submitted
         /\ ord[taker] \in Details
         /\ ord[taker].side \in Sides /\ MakerSide \in Sides /\ MakerSide # ord[taker].side
         /\ ord[taker].kind = "LIMIT" => ord[taker].price \in Prices
         /\ taker \notin resting
<1>1. taker = submitted /\ taker \in Orders /\ taker \notin resting
  BY DEF EngineInv, TakerIsYoungest
<1>2. taker \in 1 .. submitted
  BY <1>1 DEF Orders
<1>3. ord[taker] \in Details /\ (ord[taker].kind = "LIMIT" => ord[taker].price \in Prices)
  BY <1>2 DEF EngineInv, SubmittedOrders
<1> QED
  BY <1>1, <1>2, <1>3 DEF Details, MakerSide, Opposite, Sides

(* BestAsk (BestBid) finds the best tier, and the taker reaches it.         *)
LEMMA SelectLevelInv == EngineInv /\ SelectLevel => EngineInv'
<1> SUFFICES ASSUME EngineInv, SelectLevel PROVE EngineInv'
  OBVIOUS
<1> USE DEF EngineInv, SelectLevel
<1>1. BookInv'
  BY BookStutterInv DEF BookInv, BookTypeOK
<1>2. taker # Nil
  BY DEF TakerIsYoungest
<1>3. /\ tier' \in Prices
      /\ \A r \in resting : ord[r].side = MakerSide => ~Ahead(MakerSide, ord[r].price, tier')
      /\ Crosses(taker, tier')
  BY <1>2, TakerFacts, BestPriceIsBest DEF MoreToMatch
<1>4. SubmittedOrders' /\ TakerIsYoungest' /\ LoopTypes' /\ Uncrossed' /\ Tape'
  BY <1>2, <1>3 DEF SubmittedOrders, TakerIsYoungest, LoopTypes, Uncrossed, Tape, TradeOK, listVars, Stages
<1>5. RestingOrdersLive' /\ FillExhausts'
  BY DEF RestingOrdersLive, FillExhausts, Remaining, listVars
<1>6. SweepsBestTier'
  BY <1>3 DEF SweepsBestTier, Crosses, MakerSide, listVars
<1>7. MakerIsOldest' /\ NextIsOldest' /\ RestsUncrossed'
  BY DEF MakerIsOldest, NextIsOldest, RestsUncrossed
<1> QED
  BY <1>1, <1>4, <1>5, <1>6, <1>7

(* The loop ends with the taker exhausted or reaching nothing in the book.  *)
LEMMA StopMatchingInv == EngineInv /\ StopMatching => EngineInv'
<1> SUFFICES ASSUME EngineInv, StopMatching PROVE EngineInv'
  OBVIOUS
<1> USE DEF EngineInv, StopMatching
<1>1. BookInv'
  BY BookStutterInv DEF BookInv, BookTypeOK
<1>2. taker # Nil
  BY DEF TakerIsYoungest
<1>3. ASSUME Remaining(taker) > 0, NEW r \in resting, ord[r].side = MakerSide
      PROVE  ~Crosses(taker, ord[r].price)
  <2>1. ladder[MakerSide] # <<>>
    BY <1>2, <1>3, TakerFacts, BestPriceIsBest
  <2>2. ~Crosses(taker, BestPrice(MakerSide))
    BY <1>3, <2>1 DEF MoreToMatch
  <2>3. BestPrice(MakerSide) \in Prices /\ ~Ahead(MakerSide, ord[r].price, BestPrice(MakerSide))
    BY <1>2, <1>3, <2>1, TakerFacts, BestPriceIsBest
  <2>4. ord[taker].kind = "LIMIT" /\ ord[taker].price \in Prices /\ ord[r].price \in Prices
    BY <1>2, <2>2, TakerFacts DEF Crosses, BookInv, RestingOrdersOK
  <2>5. BestPrice(MakerSide) \in Int /\ ord[taker].price \in Int /\ ord[r].price \in Int
    BY <2>3, <2>4, BookAssumption
  <2> QED
    BY <2>2, <2>3, <2>4, <2>5 DEF Crosses, Ahead, MakerSide
<1>4. SubmittedOrders' /\ TakerIsYoungest' /\ LoopTypes' /\ Uncrossed' /\ Tape'
  BY <1>2 DEF SubmittedOrders, TakerIsYoungest, LoopTypes, Uncrossed, Tape, TradeOK, listVars, loopVars, Stages
<1>5. RestingOrdersLive' /\ FillExhausts'
  BY DEF RestingOrdersLive, FillExhausts, Remaining, listVars, loopVars
<1>6. SweepsBestTier' /\ MakerIsOldest' /\ NextIsOldest'
  BY DEF SweepsBestTier, MakerIsOldest, NextIsOldest
<1>7. RestsUncrossed'
  BY <1>3 DEF RestsUncrossed, Crosses, MakerSide, Remaining, listVars
<1> QED
  BY <1>1, <1>4, <1>5, <1>6, <1>7

(* The head of the best level is its oldest order.                          *)
LEMMA ReadHeadInv == EngineInv /\ ReadHead => EngineInv'
<1> SUFFICES ASSUME EngineInv, ReadHead PROVE EngineInv'
  OBVIOUS
<1> USE DEF EngineInv, ReadHead
<1>1. BookInv'
  BY BookStutterInv DEF BookInv, BookTypeOK
<1>2. taker # Nil /\ tier \in Prices /\ MakerSide \in Sides
  BY TakerFacts DEF TakerIsYoungest, SweepsBestTier
<1> DEFINE Q == Queue(MakerSide, tier)
<1>3. IsOldest(curr', Q) /\ curr' \in Orders \cup {Nil} /\ stage' = LoopOn(curr')
  BY <1>2 DEF BookInv, BookTypeOK, QueuesAreFIFO
<1>4. SubmittedOrders' /\ LoopTypes' /\ Uncrossed' /\ Tape'
  BY <1>3 DEF SubmittedOrders, LoopTypes, Uncrossed, Tape, TradeOK, listVars
<1>5. TakerIsYoungest' /\ stage' \in {"pick", "best"}
  BY <1>2, <1>3 DEF TakerIsYoungest, LoopOn, listVars, Stages
<1>6. RestingOrdersLive' /\ FillExhausts'
  BY <1>5 DEF RestingOrdersLive, FillExhausts, Remaining, listVars
<1>7. SweepsBestTier'
  BY <1>5 DEF SweepsBestTier, Crosses, MakerSide, listVars
<1>8. MakerIsOldest'
  <2> SUFFICES ASSUME stage' = "pick"
               PROVE  /\ IsMaker(curr)'
                      /\ \A r \in Q : r # curr' => curr' < r
                      /\ Remaining(curr)' > 0 /\ Remaining(taker)' > 0
    BY <1>5 DEF MakerIsOldest, Queue, MakerSide, listVars
  <2>1. curr' # Nil /\ Remaining(taker) > 0
    BY <1>3 DEF LoopOn
  <2>2. curr' \in Q /\ (\A r \in Q : curr' <= r)
    BY <1>3, <2>1 DEF IsOldest
  <2>3. curr' \in resting /\ ord[curr'].side = MakerSide /\ ord[curr'].price = tier
    BY <2>2 DEF Queue
  <2>4. curr' \in 1 .. submitted /\ ord[curr'].kind = "LIMIT" /\ Remaining(curr') > 0
    BY <1>3, <2>1, <2>3 DEF RestingOrdersLive, Orders, Nil
  <2>5. \A r \in Q : r # curr' => curr' < r
    BY <2>2, <2>4, QueuesAreFinite DEF BookInv, Orders
  <2>6. IsMaker(curr)'
    BY <2>3, <2>4 DEF IsMaker, MakerSide
  <2> QED
    BY <2>1, <2>4, <2>5, <2>6 DEF Remaining
<1>9. NextIsOldest' /\ RestsUncrossed'
  BY <1>5 DEF NextIsOldest, RestsUncrossed
<1> QED
  BY <1>1, <1>4, <1>5, <1>6, <1>7, <1>8, <1>9

(* The smaller of two numbers.                                              *)
LEMMA MinOfTwo == \A a, b \in Nat : Min({a, b}) = IF a <= b THEN a ELSE b
<1> SUFFICES ASSUME NEW a \in Nat, NEW b \in Nat PROVE Min({a, b}) = IF a <= b THEN a ELSE b
  OBVIOUS
<1> DEFINE m == IF a <= b THEN a ELSE b
           OK(x) == \A y \in {a, b} : x <= y
<1>1. m \in {a, b} /\ OK(m) /\ \A x \in {a, b} : OK(x) => x = m
  OBVIOUS
<1>2. Min({a, b}) = CHOOSE x \in {a, b} : OK(x)
  BY DEF Min
<1> HIDE DEF m, OK
<1>3. (CHOOSE x \in {a, b} : OK(x)) = m
  BY <1>1
<1> QED
  BY <1>2, <1>3 DEF m

(* What is left of an order that has entered ProcessOrder.                  *)
LEMMA RemainingFacts ==
  ASSUME EngineInv
  PROVE  \A o \in 1 .. submitted : /\ o \in Orders
                                   /\ filled[o] \in Nat /\ ord[o].amount \in Nat
                                   /\ Remaining(o) = ord[o].amount - filled[o]
                                   /\ Remaining(o) \in Nat
                                   /\ IsFilled(o) <=> Remaining(o) = 0
<1> SUFFICES ASSUME NEW o \in 1 .. submitted
             PROVE  /\ o \in Orders
                    /\ filled[o] \in Nat /\ ord[o].amount \in Nat
                    /\ Remaining(o) = ord[o].amount - filled[o]
                    /\ Remaining(o) \in Nat
                    /\ IsFilled(o) <=> Remaining(o) = 0
  OBVIOUS
<1>1. o \in Orders
  BY BookAssumption DEF EngineInv, SubmittedOrders, Orders
<1>2. filled[o] \in Nat /\ ord[o].amount \in Nat /\ filled[o] <= ord[o].amount
  BY <1>1, BookAssumption DEF EngineInv, SubmittedOrders, Details, BookInv, BookTypeOK
<1> QED
  BY <1>1, <1>2 DEF Remaining, IsFilled

(* The Next of a maker that still rests is the oldest of the others; of one *)
(* that was cancelled meanwhile it is nil.                                  *)
LEMMA PickMakerInv == EngineInv /\ PickMaker => EngineInv'
<1> SUFFICES ASSUME EngineInv, PickMaker PROVE EngineInv'
  OBVIOUS
<1> USE DEF EngineInv, PickMaker
<1>1. BookInv'
  BY BookStutterInv DEF BookInv, BookTypeOK
<1>2. /\ taker # Nil /\ tier \in Prices /\ MakerSide \in Sides
      /\ taker \in 1 .. submitted
      /\ IsMaker(curr) /\ curr \in 1 .. submitted /\ curr \in Orders
      /\ \A r \in Queue(MakerSide, tier) : r # curr => curr < r
      /\ Remaining(curr) > 0 /\ Remaining(taker) > 0
  BY TakerFacts, RemainingFacts DEF TakerIsYoungest, SweepsBestTier, MakerIsOldest, IsMaker
<1> DEFINE Q == Queue(MakerSide, tier)
<1>3. fill' = FillAmount(taker, curr) /\ fill' \in Nat
  BY <1>2, RemainingFacts, MinOfTwo DEF FillAmount
<1>4. nxt' = next[curr] /\ nxt' \in Orders \cup {Nil}
  BY <1>2 DEF BookInv, BookTypeOK
<1>5. ASSUME nxt' # Nil
      PROVE  /\ nxt' \in Q /\ curr < nxt'
             /\ \A r \in Q : r # curr => nxt' <= r
  <2>1. curr \in Q
    BY <1>2, <1>4, <1>5 DEF BookInv, RemovedOrdersAreUnlinked, IsMaker, Queue
  <2>2. IsOldest(nxt', {x \in Q : curr < x})
    BY <2>1, <1>2, <1>4 DEF BookInv, QueuesAreFIFO
  <2> HIDE DEF Q
  <2> QED
    BY <2>2, <1>2, <1>5 DEF IsOldest, Q
<1>6. SubmittedOrders' /\ TakerIsYoungest' /\ LoopTypes' /\ Uncrossed' /\ Tape'
  BY <1>2, <1>4 DEF SubmittedOrders, TakerIsYoungest, LoopTypes, Uncrossed, Tape, TradeOK, listVars, Stages
<1>7. RestingOrdersLive' /\ FillExhausts'
  BY <1>3 DEF RestingOrdersLive, FillExhausts, FillAmount, Remaining, listVars
<1>8. SweepsBestTier' /\ MakerIsOldest' /\ RestsUncrossed'
  BY <1>2 DEF SweepsBestTier, MakerIsOldest, RestsUncrossed, IsMaker, Queue, Remaining, Crosses, MakerSide, listVars
<1>9. NextIsOldest'
  <2> SUFFICES ASSUME nxt' # Nil
               PROVE  /\ IsMaker(nxt)' /\ nxt' # curr /\ Remaining(nxt)' > 0
                      /\ \A r \in Q : r # curr => nxt' <= r
    BY DEF NextIsOldest, Queue, MakerSide, listVars
  <2>1. nxt' \in resting /\ ord[nxt'].side = MakerSide /\ ord[nxt'].price = tier
    BY <1>5 DEF Queue
  <2>2. nxt' \in 1 .. submitted /\ ord[nxt'].kind = "LIMIT" /\ Remaining(nxt') > 0
    BY <1>4, <2>1 DEF RestingOrdersLive, Orders, Nil
  <2>3. nxt' # curr
    BY <1>2, <1>5
  <2> QED
    BY <1>5, <2>1, <2>2, <2>3 DEF IsMaker, MakerSide, Remaining
<1> QED
  BY <1>1, <1>6, <1>7, <1>8, <1>9

(* A trade exhausts the maker or the taker and overfills neither.           *)
LEMMA RecordTradeInv == EngineInv /\ RecordTrade => EngineInv'
<1> SUFFICES ASSUME EngineInv, RecordTrade PROVE EngineInv'
  OBVIOUS
<1> USE DEF EngineInv, RecordTrade
<1>1. /\ taker # Nil /\ tier \in Prices /\ MakerSide \in Sides /\ taker = submitted
      /\ taker \in 1 .. submitted /\ taker \in Orders /\ ord[taker].side # MakerSide
      /\ ord[taker] \in Details /\ taker \notin resting
      /\ ord[taker].kind = "LIMIT" => ord[taker].price \in Prices
      /\ IsMaker(curr) /\ curr \in 1 .. submitted /\ curr \in Orders
      /\ Remaining(curr) > 0 /\ Remaining(taker) > 0
      /\ Crosses(taker, tier)
  BY TakerFacts, RemainingFacts DEF TakerIsYoungest, SweepsBestTier, MakerIsOldest, IsMaker
<1>2. curr # taker /\ (nxt # Nil => nxt # taker)
  BY <1>1 DEF IsMaker, NextIsOldest
<1>3. /\ fill \in Nat /\ fill > 0 /\ fill <= Remaining(curr) /\ fill <= Remaining(taker)
      /\ fill = Remaining(curr) \/ fill = Remaining(taker)
  BY <1>1, RemainingFacts, MinOfTwo DEF FillExhausts, FillAmount
<1>4. /\ filled' \in [Orders -> Nat]
      /\ filled'[taker] = filled[taker] + fill /\ filled'[curr] = filled[curr] + fill
      /\ \A o \in Orders : o # taker /\ o # curr => filled'[o] = filled[o]
  <2>1. filled \in [Orders -> Nat] /\ fill \in Nat
    BY <1>3 DEF BookInv, BookTypeOK
  <2>2. filled' = [filled EXCEPT ![taker] = @ + fill, ![curr] = @ + fill]
    OBVIOUS
  <2>3. \A o \in Orders : filled[o] + fill \in Nat
    BY <2>1
  <2> HIDE DEF EngineInv, RecordTrade
  <2> QED
    BY <1>1, <1>2, <2>1, <2>2, <2>3
<1>5. /\ Remaining(taker)' = Remaining(taker) - fill /\ Remaining(taker)' >= 0
      /\ Remaining(curr)' = Remaining(curr) - fill /\ Remaining(curr)' >= 0
  BY <1>1, <1>3, <1>4, RemainingFacts DEF Remaining
<1>6. \A o \in 1 .. submitted : o # taker /\ o # curr => Remaining(o)' = Remaining(o)
  BY <1>4, RemainingFacts DEF Remaining
<1>7. BookInv'
  BY <1>4, BookStutterInv
<1>8. SubmittedOrders'
  <2>1. ASSUME NEW o \in 1 .. submitted PROVE filled'[o] <= ord[o].amount
    <3>1. CASE o = taker \/ o = curr
      BY <3>1, <1>1, <1>3, <1>4, RemainingFacts
    <3>2. CASE o # taker /\ o # curr
      BY <3>2, <1>4, RemainingFacts DEF SubmittedOrders
    <3> QED
      BY <3>1, <3>2
  <2>2. \A o \in Orders : o > submitted => filled'[o] = 0
    BY <1>1, <1>4 DEF SubmittedOrders
  <2> QED
    BY <2>1, <2>2 DEF SubmittedOrders
<1>9. TakerIsYoungest' /\ LoopTypes' /\ Uncrossed'
  BY <1>1 DEF TakerIsYoungest, LoopTypes, Uncrossed, listVars, Stages
<1>10. RestingOrdersLive'
  <2> SUFFICES ASSUME NEW o \in resting
               PROVE  o <= submitted /\ ord[o].kind = "LIMIT" /\ (Remaining(o)' > 0 \/ o = curr)
    BY DEF RestingOrdersLive, listVars
  <2>1. o \in 1 .. submitted /\ ord[o].kind = "LIMIT" /\ (Remaining(o) > 0 \/ o = curr)
    BY DEF RestingOrdersLive, BookInv, BookTypeOK, Orders
  <2> QED
    BY <2>1, <1>1, <1>6
<1>11. FillExhausts'
  <2>1. vol' \in Int
    BY <1>1 DEF BookInv, BookTypeOK
  <2> QED
    BY <2>1, <1>1, <1>3, <1>5, RemainingFacts DEF FillExhausts
<1>12. SweepsBestTier' /\ MakerIsOldest' /\ RestsUncrossed'
  BY DEF SweepsBestTier, MakerIsOldest, RestsUncrossed, IsMaker, Queue, Crosses, MakerSide, listVars
<1>13. NextIsOldest'
  <2> SUFFICES ASSUME nxt # Nil
               PROVE  /\ IsMaker(nxt)' /\ nxt # curr /\ Remaining(nxt)' > 0
                      /\ \A r \in Queue(MakerSide, tier)' : r # curr => nxt <= r
    BY DEF NextIsOldest
  <2>1. IsMaker(nxt) /\ nxt # curr /\ Remaining(nxt) > 0
    BY DEF NextIsOldest
  <2>2. Remaining(nxt)' > 0
    BY <2>1, <1>2, <1>6 DEF IsMaker
  <2> QED
    BY <2>1, <2>2 DEF NextIsOldest, IsMaker, Queue, MakerSide, listVars
<1>14. Tape'
  <2> DEFINE t == [maker |-> curr, taker |-> taker, price |-> ord[curr].price, amount |-> fill]
  <2>1. t \in [maker : Orders, taker : Orders, price : Prices, amount : Nat] /\ TradeOK(t)
    <3>1. ord[curr].price = tier /\ ord[curr].side = MakerSide /\ tier \in Int
      BY <1>1, BookAssumption DEF IsMaker
    <3>2. ord[taker].side \in Sides /\ (ord[taker].kind = "LIMIT" => ord[taker].price \in Int)
          /\ ord[taker].kind \in Kinds
      BY <1>1, BookAssumption DEF Details
    <3> QED
      BY <1>1, <1>3, <3>1, <3>2 DEF TradeOK, Crosses, Ahead, MakerSide, Opposite, Sides, Kinds
  <2>2. trades' = trades \/ trades' = Append(trades, t)
    BY DEF Record
  <2>3. trades \in Seq([maker : Orders, taker : Orders, price : Prices, amount : Nat])
        /\ \A i \in DOMAIN trades : TradeOK(trades[i])
    BY DEF Tape
  <2>4. \A u : TradeOK(u) => TradeOK(u)'
    BY DEF TradeOK
  <2> HIDE DEF t
  <2>5. trades' \in Seq([maker : Orders, taker : Orders, price : Prices, amount : Nat])
        /\ \A i \in DOMAIN trades' : TradeOK(trades'[i])
    <3>1. CASE trades' = trades
      BY <2>3, <3>1
    <3>2. CASE trades' = Append(trades, t)
      <4>1. trades' \in Seq([maker : Orders, taker : Orders, price : Prices, amount : Nat])
        <5> DEFINE R == [maker : Orders, taker : Orders, price : Prices, amount : Nat]
        <5>1. trades \in Seq(R) /\ t \in R
          BY <2>1, <2>3
        <5> HIDE DEF R
        <5>2. trades' \in Seq(R)
          BY <5>1, <3>2
        <5> QED
          BY <5>2 DEF R
      <4>2. ASSUME NEW i \in DOMAIN trades' PROVE TradeOK(trades'[i])
        <5>1. (i \in DOMAIN trades /\ trades'[i] = trades[i]) \/ trades'[i] = t
          BY <2>3, <3>2
        <5> QED
          BY <2>1, <2>3, <5>1
      <4> QED
        BY <4>1, <4>2
    <3> QED
      BY <2>2, <3>1, <3>2
  <2> QED
    BY <2>4, <2>5 DEF Tape
<1> QED
  BY <1>7, <1>8, <1>9, <1>10, <1>11, <1>12, <1>13, <1>14

(* The loop moves on to next without removing the maker only when the taker *)
(* has nothing left.                                                        *)
LEMMA WriteVolumeInv == EngineInv /\ WriteVolume => EngineInv'
<1> SUFFICES ASSUME EngineInv, WriteVolume PROVE EngineInv'
  OBVIOUS
<1> USE DEF EngineInv, WriteVolume
<1>1. /\ taker # Nil /\ tier \in Prices /\ MakerSide \in Sides /\ taker \in 1 .. submitted
      /\ IsMaker(curr) /\ curr \in 1 .. submitted /\ curr \in Orders
      /\ stage = "volume"
  BY TakerFacts, RemainingFacts DEF TakerIsYoungest, SweepsBestTier, MakerIsOldest, IsMaker
<1>2. \/ stage' = "remove" /\ curr' = curr /\ Remaining(curr) = 0
      \/ stage' = "best" /\ curr' = nxt /\ Remaining(curr) > 0
  BY <1>1, RemainingFacts DEF Advance, LoopOn, FillExhausts
<1>3. BookInv'
  <2>1. vol - fill \in Int
    BY DEF FillExhausts
  <2> QED
    BY <2>1, <1>1, VolumeInv
<1>4. SubmittedOrders' /\ TakerIsYoungest' /\ LoopTypes' /\ Uncrossed' /\ Tape'
  BY <1>1, <1>2 DEF SubmittedOrders, TakerIsYoungest, LoopTypes, Uncrossed, Tape, TradeOK, Stages
<1>5. RestingOrdersLive'
  BY <1>1, <1>2 DEF RestingOrdersLive, Remaining
<1>6. FillExhausts'
  BY <1>2 DEF FillExhausts, Remaining
<1>7. SweepsBestTier' /\ MakerIsOldest' /\ NextIsOldest' /\ RestsUncrossed'
  BY <1>1, <1>2 DEF SweepsBestTier, MakerIsOldest, NextIsOldest, RestsUncrossed, IsMaker, Queue,
                    Remaining, Crosses, MakerSide
<1> QED
  BY <1>3, <1>4, <1>5, <1>6, <1>7

(* CancelOrder of an ID removes the order that has it.                      *)
LEMMA CancelFacts ==
  ASSUME EngineInv, NEW id \in Ids, index[id] # Nil
  PROVE  index[id] = id /\ id \in resting /\ id \in Orders
<1>1. index[id] \in resting /\ ord[index[id]].id = id
  BY DEF EngineInv, BookInv, IndexIsExact
<1>2. index[id] \in 1 .. submitted
  BY <1>1 DEF EngineInv, RestingOrdersLive, BookInv, BookTypeOK, Orders
<1> QED
  BY <1>1, <1>2 DEF EngineInv, SubmittedOrders, Ids

(* A filled maker leaves the book, or has left it already.                  *)
LEMMA RemoveMakerInv == EngineInv /\ RemoveMaker => EngineInv'
<1> SUFFICES ASSUME EngineInv, RemoveMaker PROVE EngineInv'
  OBVIOUS
<1> USE DEF EngineInv, RemoveMaker
<1>1. /\ taker # Nil /\ tier \in Prices /\ MakerSide \in Sides /\ taker \in 1 .. submitted
      /\ IsMaker(curr) /\ curr \in 1 .. submitted /\ curr \in Orders
      /\ stage = "remove" /\ ord[curr].id = curr /\ curr \in Ids
  BY TakerFacts, RemainingFacts DEF TakerIsYoungest, SweepsBestTier, MakerIsOldest, IsMaker, SubmittedOrders, Ids
<1>2. BookInv' /\ resting' = resting \ {curr}
  <2>1. CASE index[curr] # Nil
    <3>1. CancelOrder(curr)
      BY <1>1, <2>1
    <3>2. index[curr] = curr
      BY <1>1, <2>1, CancelFacts
    <3>3. resting' = resting \ {curr}
      BY <1>1, <3>1, <3>2, CancelOrderRemoves
    <3>4. BookInv'
      BY <1>1, <2>1, <3>1, CancelOrderInv
    <3> QED
      BY <3>3, <3>4
  <2>2. CASE index[curr] = Nil
    <3>1. UNCHANGED listVars
      BY <1>1, <2>2
    <3>2. curr \notin resting
      BY <1>1, <2>2 DEF BookInv, IndexIsExact, Nil, Orders
    <3>3. BookInv'
      BY <3>1, BookStutterInv DEF BookInv, BookTypeOK
    <3> QED
      BY <3>1, <3>2, <3>3 DEF listVars
  <2> QED
    BY <2>1, <2>2
<1>3. stage' = LoopOn(nxt) /\ curr' = nxt /\ stage' \in {"pick", "best"}
  BY DEF Advance, LoopOn
<1>4. SubmittedOrders' /\ TakerIsYoungest' /\ LoopTypes' /\ Uncrossed' /\ Tape'
  BY <1>1, <1>2, <1>3 DEF SubmittedOrders, TakerIsYoungest, LoopTypes, Uncrossed, Tape, TradeOK, Stages
<1>5. RestingOrdersLive'
  BY <1>1, <1>2 DEF RestingOrdersLive, Remaining
<1>6. FillExhausts'
  BY <1>3 DEF FillExhausts
<1>7. SweepsBestTier'
  BY <1>1, <1>2, <1>3 DEF SweepsBestTier, Crosses, MakerSide
<1>8. MakerIsOldest'
  <2> SUFFICES ASSUME stage' = "pick"
               PROVE  /\ IsMaker(curr)'
                      /\ \A r \in Queue(MakerSide, tier)' : r # nxt => nxt < r
                      /\ Remaining(curr)' > 0 /\ Remaining(taker)' > 0
    BY <1>3 DEF MakerIsOldest
  <2>1. nxt # Nil /\ Remaining(taker) > 0
    BY <1>3 DEF LoopOn
  <2>2. /\ IsMaker(nxt) /\ Remaining(nxt) > 0
        /\ \A r \in Queue(MakerSide, tier) : r # curr => nxt <= r
    BY <1>1, <2>1 DEF NextIsOldest
  <2>3. Queue(MakerSide, tier)' = Queue(MakerSide, tier) \ {curr}
    BY <1>2 DEF Queue, MakerSide
  <2>4. \A r \in Queue(MakerSide, tier) : r \in Nat
    BY QueuesAreFinite DEF BookInv, Orders
  <2>5. \A r \in Queue(MakerSide, tier)' : r # nxt => nxt < r
    BY <2>2, <2>3, <2>4 DEF IsMaker
  <2> QED
    BY <1>3, <2>1, <2>2, <2>5 DEF IsMaker, MakerSide, Remaining
<1>9. NextIsOldest' /\ RestsUncrossed'
  BY <1>3 DEF NextIsOldest, RestsUncrossed
<1> QED
  BY <1>2, <1>4, <1>5, <1>6, <1>7, <1>8, <1>9

(* The rest of a limit order enters a book it does not cross.               *)
LEMMA RestInv == EngineInv /\ Rest => EngineInv'
<1> SUFFICES ASSUME EngineInv, Rest PROVE EngineInv'
  OBVIOUS
<1> USE DEF EngineInv, Rest
<1>1. /\ taker # Nil /\ stage = "rest" /\ MakerSide \in Sides
      /\ taker \in 1 .. submitted /\ taker \in Orders /\ taker = submitted
      /\ ord[taker] \in Details /\ taker \notin resting
      /\ ord[taker].kind = "LIMIT" => ord[taker].price \in Prices
      /\ ord[taker].id = taker
  BY TakerFacts DEF TakerIsYoungest, SubmittedOrders
<1>2. \A o \in resting : o \in 1 .. submitted /\ ord[o].id = o /\ ord[o].kind = "LIMIT" /\ Remaining(o) > 0
  BY <1>1 DEF RestingOrdersLive, SubmittedOrders, BookInv, BookTypeOK, Orders
<1>3. /\ BookInv'
      /\ \/ resting' = resting
         \/ resting' = resting \cup {taker} /\ Remaining(taker) > 0 /\ ord[taker].kind = "LIMIT"
  <2>1. CASE Remaining(taker) > 0 /\ ord[taker].kind = "LIMIT"
    <3>1. AddOrder(taker) /\ UNCHANGED <<ord, filled>>
      BY <2>1
    <3>2. \A x \in resting : x < taker /\ ord[x].id # ord[taker].id
      BY <1>1, <1>2
    <3>3. BookInv'
      BY <1>1, <2>1, <3>1, <3>2, AddOrderInv
    <3> QED
      BY <1>1, <2>1, <3>1, <3>3, AddOrderRests
  <2>2. CASE ~(Remaining(taker) > 0 /\ ord[taker].kind = "LIMIT")
    <3>1. UNCHANGED <<ord, listVars>> /\ filled' \in [Orders -> Nat]
      BY <2>2 DEF BookInv, BookTypeOK
    <3> QED
      BY <3>1, BookStutterInv DEF listVars
  <2> QED
    BY <2>1, <2>2
<1>4. SubmittedOrders' /\ TakerIsYoungest' /\ LoopTypes' /\ Tape'
  <2>1. torn' \subseteq torn
    OBVIOUS
  <2>2. LoopTypes'
    BY <2>1 DEF LoopTypes, Nil
  <2> QED
    BY <2>2 DEF SubmittedOrders, TakerIsYoungest, Tape, TradeOK, Stages, Nil
<1>5. RestingOrdersLive'
  BY <1>1, <1>2, <1>3 DEF RestingOrdersLive, Remaining
<1>6. Uncrossed'
  <2> SUFFICES ASSUME NEW b \in resting', NEW a \in resting', ord[b].side = "BUY", ord[a].side = "SELL"
               PROVE  ord[b].price < ord[a].price
    BY DEF Uncrossed
  <2>1. CASE b \in resting /\ a \in resting
    BY <2>1 DEF Uncrossed
  <2>2. CASE b \notin resting \/ a \notin resting
    <3>1. /\ Remaining(taker) > 0 /\ ord[taker].kind = "LIMIT" /\ ord[taker].price \in Int
          /\ \/ b = taker /\ a \in resting
             \/ a = taker /\ b \in resting
      <4>1. resting' = resting \cup {taker} /\ Remaining(taker) > 0 /\ ord[taker].kind = "LIMIT"
        BY <2>2, <1>3
      <4>2. ord[taker].price \in Int
        BY <4>1, <1>1, BookAssumption
      <4>3. a # b
        BY DEF Sides
      <4> QED
        BY <4>1, <4>2, <4>3, <2>2
    <3>2. \A r \in resting : ord[r].side = MakerSide => ~Crosses(taker, ord[r].price)
      BY <3>1, <1>1 DEF RestsUncrossed
    <3>3. \A r \in resting : ord[r].price \in Int
      BY BookAssumption DEF BookInv, RestingOrdersOK
    <3> QED
      BY <3>1, <3>2, <3>3 DEF Crosses, Ahead, MakerSide, Opposite
  <2> QED
    BY <2>1, <2>2
<1>7. SweepsBestTier' /\ MakerIsOldest' /\ NextIsOldest' /\ FillExhausts' /\ RestsUncrossed'
  BY DEF SweepsBestTier, MakerIsOldest, NextIsOldest, FillExhausts, RestsUncrossed
<1> QED
  BY <1>3, <1>4, <1>5, <1>6, <1>7

(* A cancellation, at any stage of the loop, takes one order out.           *)
LEMMA CancelInv == ASSUME EngineInv, NEW id \in Ids, Cancel(id) PROVE EngineInv'
<1> USE DEF EngineInv, Cancel
<1>1. index[id] = id /\ id \in resting /\ id \in Orders
  BY CancelFacts
<1>2. BookInv'
  BY CancelOrderInv
<1>3. resting' = resting \ {id}
  BY <1>1, CancelOrderRemoves
<1>4. SubmittedOrders' /\ TakerIsYoungest' /\ Uncrossed' /\ Tape'
  BY <1>3 DEF SubmittedOrders, TakerIsYoungest, Uncrossed, Tape, TradeOK
<1>5. LoopTypes'
  <2>1. ord[id].side \in Sides /\ ord[id].price \in Prices
    BY <1>1 DEF BookInv, BookTypeOK, RestingOrdersOK, Details
  <2>2. torn' \subseteq torn \cup {<<ord[id].side, ord[id].price>>}
    BY <1>1 DEF Tears
  <2>3. torn' \subseteq Sides \X Prices
    BY <2>1, <2>2 DEF LoopTypes
  <2> QED
    BY <1>1, <2>3 DEF LoopTypes, loopVars
<1>6. RestingOrdersLive' /\ FillExhausts'
  BY <1>3 DEF RestingOrdersLive, FillExhausts, FillAmount, Remaining, loopVars
<1>7. SweepsBestTier' /\ RestsUncrossed'
  BY <1>3 DEF SweepsBestTier, RestsUncrossed, Remaining, Crosses, MakerSide, loopVars
<1>8. Queue(MakerSide, tier)' \subseteq Queue(MakerSide, tier)
  BY <1>3 DEF Queue, MakerSide, loopVars
<1>9. MakerIsOldest' /\ NextIsOldest'
  BY <1>8 DEF MakerIsOldest, NextIsOldest, IsMaker, Remaining, MakerSide, loopVars
<1> QED
  BY <1>2, <1>4, <1>5, <1>6, <1>7, <1>9

(* A new order has an ID of its own, and is younger than every other.       *)
LEMMA SubmitInv ==
  ASSUME ReuseIds = FALSE, EngineInv, NEW d \in Requests, Submit(d) PROVE EngineInv'
<1> USE DEF EngineInv, Submit
<1> SUFFICES ASSUME NEW o, o = submitted + 1 PROVE EngineInv'
  OBVIOUS
<1>1. /\ o \in Orders /\ d \in Details /\ d.id = o /\ taker' = o /\ submitted' = o
      /\ taker = Nil /\ stage = "idle" /\ submitted \in Nat
      /\ ord' = [ord EXCEPT ![o] = d]
      /\ d.kind = "LIMIT" => d.price \in Prices
  BY BookAssumption DEF SubmittedOrders, TakerIsYoungest, Requests, Orders
<1>2. /\ \A x \in 1 .. submitted : ord'[x] = ord[x]
      /\ ord'[o] = d
      /\ \A x \in resting : x \in 1 .. submitted /\ x # o
      /\ UNCHANGED <<filled, listVars>>
  BY <1>1, BookAssumption DEF BookInv, BookTypeOK, RestingOrdersLive, SubmittedOrders, Orders
<1>3. BookInv'
  BY <1>1, <1>2, SubmitBookInv
<1>4. SubmittedOrders'
  <2>1. filled[o] = 0 /\ d.amount \in Nat
    <3>1. o > submitted
      BY <1>1
    <3>2. d.amount \in Amounts
      BY <1>1 DEF Details
    <3> QED
      BY <3>1, <3>2, <1>1, BookAssumption DEF SubmittedOrders
  <2>2. \A x \in 1 .. o : x = o \/ x \in 1 .. submitted
    BY <1>1
  <2> QED
    BY <1>1, <1>2, <2>1, <2>2 DEF SubmittedOrders, Orders
<1>5. TakerIsYoungest'
  BY <1>1, <1>2 DEF TakerIsYoungest, Stages, Nil, Orders, listVars
<1>6. LoopTypes' /\ FillExhausts'
  BY DEF LoopTypes, FillExhausts, loopVars
<1>7. RestingOrdersLive' /\ Uncrossed'
  BY <1>1, <1>2 DEF RestingOrdersLive, Uncrossed, Remaining, listVars
<1>8. SweepsBestTier' /\ MakerIsOldest' /\ NextIsOldest' /\ RestsUncrossed'
  BY DEF SweepsBestTier, MakerIsOldest, NextIsOldest, RestsUncrossed
<1>9. Tape'
  BY <1>1, <1>2 DEF Tape, TradeOK
<1> QED
  BY <1>3, <1>4, <1>5, <1>6, <1>7, <1>8, <1>9
-----------------------------------------------------------------------------
(* Every step of the program keeps the invariant.                           *)
LEMMA EngineStepInv ==
  ASSUME ReuseIds = FALSE, EngineInv, [Next]_vars PROVE EngineInv'
<1>1. CASE \E d \in Requests : Submit(d)
  BY <1>1, SubmitInv
<1>2. CASE ProcessOrder
  BY <1>2, SelectLevelInv, StopMatchingInv, ReadHeadInv, PickMakerInv, RecordTradeInv,
     WriteVolumeInv, RemoveMakerInv, RestInv DEF ProcessOrder
<1>3. CASE \E id \in Ids : Cancel(id)
  BY <1>3, CancelInv
<1>4. CASE Exhausted \/ UNCHANGED vars
  BY <1>4, StutterInv DEF Exhausted
<1> QED
  BY <1>1, <1>2, <1>3, <1>4 DEF Next

(* What the runs check, read off the invariant.                             *)
LEMMA EngineInvImplies ==
  EngineInv => /\ TypeOK /\ QueuesAreFIFO /\ LaddersMatchQueues /\ IndexIsExact
               /\ PriceTimePriority /\ TradesAreFair /\ BookIsUncrossed /\ OnlyLiveOrdersRest
<1> SUFFICES ASSUME EngineInv
             PROVE  /\ TypeOK /\ QueuesAreFIFO /\ LaddersMatchQueues /\ IndexIsExact
                    /\ PriceTimePriority /\ TradesAreFair /\ BookIsUncrossed /\ OnlyLiveOrdersRest
  OBVIOUS
<1> USE DEF EngineInv
<1>1. TypeOK
  BY DEF TypeOK, BookInv, SubmittedOrders, TakerIsYoungest, FillExhausts, LoopTypes, Tape
<1>2. QueuesAreFIFO /\ LaddersMatchQueues /\ IndexIsExact
  BY DEF BookInv
<1>3. PriceTimePriority
  <2> SUFFICES ASSUME stage = "fill", NEW r \in resting, r # curr, ord[r].side = MakerSide
               PROVE  \/ Ahead(MakerSide, ord[curr].price, ord[r].price)
                      \/ ord[curr].price = ord[r].price /\ curr < r
    BY DEF PriceTimePriority
  <2>1. /\ ord[curr].price = tier /\ tier \in Prices /\ ord[r].price \in Prices
        /\ ~Ahead(MakerSide, ord[r].price, tier)
    BY DEF MakerIsOldest, IsMaker, SweepsBestTier, BookInv, RestingOrdersOK
  <2>2. tier \in Int /\ ord[r].price \in Int
    BY <2>1, BookAssumption
  <2>3. ord[r].price = tier => curr < r
    BY DEF MakerIsOldest, Queue
  <2> QED
    BY <2>1, <2>2, <2>3 DEF Ahead
<1>4. TradesAreFair
  BY DEF Tape, TradeOK, TradesAreFair
<1>5. BookIsUncrossed
  BY DEF Uncrossed, BookIsUncrossed
<1>6. OnlyLiveOrdersRest
  BY DEF OnlyLiveOrdersRest, RestingOrdersLive, TakerIsYoungest
<1> QED
  BY <1>1, <1>2, <1>3, <1>4, <1>5, <1>6

(* Whatever is submitted, matched and cancelled, the invariant holds.       *)
THEOREM EngineCorrect == ASSUME ReuseIds = FALSE PROVE Spec => []EngineInv
<1>1. Init => EngineInv
  BY EngineInitInv
<1>2. EngineInv /\ [Next]_vars => EngineInv'
  BY EngineStepInv
<1> QED
  BY <1>1, <1>2, PTL DEF Spec

(* The variables of ProcessOrder and of the book keep their types: tier,    *)
(* curr and next never lead out of the order book.                          *)
THEOREM EngineTypeOK == ASSUME ReuseIds = FALSE PROVE Spec => []TypeOK
  BY EngineCorrect, EngineInvImplies, PTL

(* LimitLevel.Append and Remove keep every list whole, forwards and         *)
(* backwards, in order of arrival, while the loop walks it.                 *)
THEOREM QueuesStayFIFO == ASSUME ReuseIds = FALSE PROVE Spec => []QueuesAreFIFO
  BY EngineCorrect, EngineInvImplies, PTL

(* The price slices stay sorted and list exactly the prices where an order  *)
(* rests; the levels count their orders.                                    *)
THEOREM LaddersStayExact == ASSUME ReuseIds = FALSE PROVE Spec => []LaddersMatchQueues
  BY EngineCorrect, EngineInvImplies, PTL

(* orderIndex leads from the ID of every resting order to it, and nowhere   *)
(* else: CancelOrder finds what rests and nothing that does not.            *)
THEOREM IndexStaysExact == ASSUME ReuseIds = FALSE PROVE Spec => []IndexIsExact
  BY EngineCorrect, EngineInvImplies, PTL

(* "The oldest resting order at the best price is guaranteed to fill first" *)
(* (README.md:64), although cancellations run without the engine's lock.    *)
THEOREM PriceTimeHolds == ASSUME ReuseIds = FALSE PROVE Spec => []PriceTimePriority
  BY EngineCorrect, EngineInvImplies, PTL

(* Every trade on the tape is for a positive amount, between opposite       *)
(* sides, at the maker's price and within the taker's limit.                *)
THEOREM TradesStayFair == ASSUME ReuseIds = FALSE PROVE Spec => []TradesAreFair
  BY EngineCorrect, EngineInvImplies, PTL

(* After ProcessOrder no resting bid reaches a resting ask.                 *)
THEOREM BookStaysUncrossed == ASSUME ReuseIds = FALSE PROVE Spec => []BookIsUncrossed
  BY EngineCorrect, EngineInvImplies, PTL

(* After ProcessOrder no filled order and no market order is in the book.   *)
THEOREM OnlyLiveOrdersStay == ASSUME ReuseIds = FALSE PROVE Spec => []OnlyLiveOrdersRest
  BY EngineCorrect, EngineInvImplies, PTL
-----------------------------------------------------------------------------
(***************************************************************************)
(* The tape adds up.  Every trade exhausts its maker or its taker, and a    *)
(* trade begins with a taker that is not exhausted: so there are fewer      *)
(* trades than orders whenever one is recorded, and a tape as long as the   *)
(* number of orders holds them all.                                         *)
(***************************************************************************)
FilledOrders == {o \in 1 .. submitted : Remaining(o) = 0}
TapeAmounts == [i \in DOMAIN trades |-> trades[i].amount]

(* Every trade exhausts an order, and no two the same one: e.trades never   *)
(* holds more trades than there are filled orders, and every fill is on it. *)
TapeIsWhole ==
  /\ Len(trades) <= Cardinality(FilledOrders)
  /\ \A o \in Orders : filled[o] = SumFunctionOnSet(TapeAmounts, TradesOf(o))

\* What the sums are taken over.
LEMMA TapeFacts ==
  ASSUME EngineInv
  PROVE  /\ Len(trades) \in Nat /\ DOMAIN trades = 1 .. Len(trades)
         /\ \A i \in DOMAIN trades : TapeAmounts[i] = trades[i].amount /\ trades[i].amount \in Nat
         /\ \A o : IsFiniteSet(TradesOf(o)) /\ TradesOf(o) \subseteq DOMAIN trades
         /\ \A o \in Orders : o > submitted => TradesOf(o) = {}
         /\ IsFiniteSet(FilledOrders) /\ Cardinality(FilledOrders) \in Nat
<1>1. Len(trades) \in Nat /\ DOMAIN trades = 1 .. Len(trades)
  BY DEF EngineInv, Tape
<1>2. \A i \in DOMAIN trades : TradeOK(trades[i])
  BY DEF EngineInv, Tape
<1>3. \A i \in DOMAIN trades : TapeAmounts[i] = trades[i].amount /\ trades[i].amount \in Nat
  BY <1>2 DEF TapeAmounts, TradeOK
<1>4. IsFiniteSet(1 .. Len(trades))
  BY <1>1, FS_Interval
<1>5. \A o : IsFiniteSet(TradesOf(o)) /\ TradesOf(o) \subseteq DOMAIN trades
  BY <1>1, <1>4, FS_Subset DEF TradesOf
<1>6. submitted \in Nat
  BY BookAssumption DEF EngineInv, SubmittedOrders
<1>7. \A o \in Orders : o > submitted => TradesOf(o) = {}
  BY <1>2, <1>6 DEF TradeOK, TradesOf, Orders
<1>8. IsFiniteSet(1 .. submitted) /\ FilledOrders \subseteq 1 .. submitted
  BY <1>6, FS_Interval DEF FilledOrders
<1> QED
  BY <1>1, <1>3, <1>5, <1>7, <1>8, FS_Subset, FS_CardinalityType

(* Nothing is traded yet.                                                   *)
LEMMA TapeInit == Init => TapeIsWhole
<1> SUFFICES ASSUME Init PROVE TapeIsWhole
  OBVIOUS
<1>1. trades = <<>> /\ submitted = 0 /\ filled = [o \in Orders |-> 0]
  BY DEF Init, BookInit
<1>2. FilledOrders = {} /\ Len(trades) = 0 /\ \A o : TradesOf(o) = {}
  BY <1>1 DEF FilledOrders, TradesOf
<1>3. Cardinality(FilledOrders) = 0
  BY <1>2, FS_EmptySet
<1>4. \A o \in Orders : filled[o] = 0 /\ SumFunctionOnSet(TapeAmounts, {}) = 0
  BY <1>1, SumEmpty
<1>5. Len(trades) <= Cardinality(FilledOrders)
  BY <1>2, <1>3
<1> QED
  BY <1>2, <1>4, <1>5 DEF TapeIsWhole

(* An order that enters has traded nothing, and what it is was Blank.       *)
LEMMA SubmitTape ==
  ASSUME EngineInv, TapeIsWhole, NEW d \in Requests, Submit(d) PROVE TapeIsWhole'
<1>1. /\ submitted \in Nat /\ submitted' = submitted + 1
      /\ UNCHANGED <<filled, trades>>
      /\ \A x \in 1 .. submitted : ord'[x] = ord[x]
  <2>1. submitted \in Nat /\ ord \in [Orders -> Details \cup {Blank}] /\ 1 .. submitted \subseteq Orders
    BY BookAssumption DEF EngineInv, SubmittedOrders, BookInv, BookTypeOK, Orders
  <2> QED
    BY <2>1 DEF Submit
<1>2. IsFiniteSet(1 .. submitted') /\ FilledOrders' \subseteq 1 .. submitted'
  BY <1>1, FS_Interval DEF FilledOrders
<1>3. FilledOrders \subseteq FilledOrders'
  BY <1>1 DEF FilledOrders, Remaining
<1>4. Cardinality(FilledOrders) <= Cardinality(FilledOrders')
  BY <1>2, <1>3, FS_Subset
<1>5. Len(trades) \in Nat /\ Cardinality(FilledOrders) \in Nat /\ Cardinality(FilledOrders') \in Nat
  BY <1>2, TapeFacts, FS_Subset, FS_CardinalityType
<1>6. TapeAmounts' = TapeAmounts /\ \A o : TradesOf(o)' = TradesOf(o)
  BY <1>1 DEF TapeAmounts, TradesOf
<1> QED
  BY <1>1, <1>4, <1>5, <1>6 DEF TapeIsWhole

(* A fill leaves its maker or its taker with nothing, and whoever had       *)
(* nothing left before.                                                     *)
LEMMA FillUsesUp ==
  ASSUME EngineInv, RecordTrade
  PROVE  /\ \E x \in 1 .. submitted : Remaining(x) > 0 /\ Remaining(x)' = 0
         /\ \A o \in 1 .. submitted : Remaining(o) = 0 => Remaining(o)' = 0
<1>1. /\ taker # Nil /\ taker \in 1 .. submitted /\ taker \in Orders
      /\ IsMaker(curr) /\ curr \in 1 .. submitted /\ curr \in Orders /\ curr # taker
      /\ Remaining(curr) > 0 /\ Remaining(taker) > 0
  BY TakerFacts, RemainingFacts DEF EngineInv, RecordTrade, TakerIsYoungest, MakerIsOldest, IsMaker
<1>2. /\ fill \in Nat
      /\ fill = Remaining(curr) \/ fill = Remaining(taker)
      /\ fill <= Remaining(curr) /\ fill <= Remaining(taker)
  BY <1>1, RemainingFacts, MinOfTwo DEF EngineInv, RecordTrade, FillExhausts, FillAmount
<1>3. UNCHANGED <<submitted, ord>>
  BY DEF RecordTrade
<1>4. /\ filled'[taker] = filled[taker] + fill /\ filled'[curr] = filled[curr] + fill
      /\ \A o \in Orders : o # taker /\ o # curr => filled'[o] = filled[o]
  <2>1. filled \in [Orders -> Nat]
    BY DEF EngineInv, BookInv, BookTypeOK
  <2>2. filled' = [filled EXCEPT ![taker] = @ + fill, ![curr] = @ + fill]
    BY DEF RecordTrade
  <2> QED
    BY <1>1, <2>1, <2>2
<1>5. /\ Remaining(taker)' = Remaining(taker) - fill
      /\ Remaining(curr)' = Remaining(curr) - fill
  <2>1. ord' = ord /\ taker' = taker /\ curr' = curr
    BY DEF RecordTrade
  <2>2. /\ filled[taker] \in Nat /\ ord[taker].amount \in Nat
        /\ Remaining(taker) = ord[taker].amount - filled[taker] /\ Remaining(taker) \in Nat
        /\ filled[curr] \in Nat /\ ord[curr].amount \in Nat
        /\ Remaining(curr) = ord[curr].amount - filled[curr] /\ Remaining(curr) \in Nat
    BY <1>1, RemainingFacts
  <2> QED
    BY <1>2, <1>4, <2>1, <2>2 DEF Remaining
<1>6. \E x \in 1 .. submitted : Remaining(x) > 0 /\ Remaining(x)' = 0
  <2>1. Remaining(taker) \in Nat /\ Remaining(curr) \in Nat
    BY <1>1, RemainingFacts
  <2>2. Remaining(taker)' = 0 \/ Remaining(curr)' = 0
    BY <1>2, <1>5, <2>1
  <2>3. taker' = taker /\ curr' = curr
    BY DEF RecordTrade
  <2> QED
    BY <1>1, <2>2, <2>3
<1>7. \A o \in 1 .. submitted : Remaining(o) = 0 => Remaining(o)' = 0
  <2> SUFFICES ASSUME NEW o \in 1 .. submitted, Remaining(o) = 0 PROVE Remaining(o)' = 0
    OBVIOUS
  <2>1. o # taker /\ o # curr
    BY <1>1
  <2> QED
    BY <1>3, <1>4, <2>1, RemainingFacts DEF Remaining
<1> QED
  BY <1>6, <1>7

(* A trade is recorded, adds to the sums of its two orders, and exhausts    *)
(* one of them.                                                             *)
LEMMA RecordTradeTape ==
  ASSUME MaxTrades >= MaxOrders, EngineInv, TapeIsWhole, RecordTrade PROVE TapeIsWhole'
<1> DEFINE n == Len(trades) + 1
           t == [maker |-> curr, taker |-> taker, price |-> ord[curr].price, amount |-> fill]
<1>1. /\ taker # Nil /\ taker \in 1 .. submitted /\ taker \in Orders
      /\ IsMaker(curr) /\ curr \in 1 .. submitted /\ curr \in Orders /\ curr # taker
      /\ Remaining(curr) > 0 /\ Remaining(taker) > 0
  BY TakerFacts, RemainingFacts DEF EngineInv, RecordTrade, TakerIsYoungest, MakerIsOldest, IsMaker
<1>2. /\ fill \in Nat
      /\ fill = Remaining(curr) \/ fill = Remaining(taker)
      /\ fill <= Remaining(curr) /\ fill <= Remaining(taker)
  BY <1>1, RemainingFacts, MinOfTwo DEF EngineInv, RecordTrade, FillExhausts, FillAmount
<1>3. /\ submitted \in Nat /\ MaxOrders \in Nat /\ MaxTrades \in Nat /\ submitted <= MaxOrders
      /\ UNCHANGED <<submitted, ord>>
  BY BookAssumption, EngineAssumption DEF EngineInv, SubmittedOrders, RecordTrade
<1>4. /\ filled'[taker] = filled[taker] + fill /\ filled'[curr] = filled[curr] + fill
      /\ \A o \in Orders : o # taker /\ o # curr => filled'[o] = filled[o]
  <2>1. filled \in [Orders -> Nat]
    BY DEF EngineInv, BookInv, BookTypeOK
  <2>2. filled' = [filled EXCEPT ![taker] = @ + fill, ![curr] = @ + fill]
    BY DEF RecordTrade
  <2> QED
    BY <1>1, <2>1, <2>2
<1>6. PICK x \in 1 .. submitted : Remaining(x) > 0 /\ Remaining(x)' = 0
  BY FillUsesUp
<1>7. \A o \in FilledOrders : Remaining(o)' = 0
  BY FillUsesUp DEF FilledOrders
<1>8. Cardinality(FilledOrders) + 1 <= Cardinality(FilledOrders')
  <2>1. FilledOrders \cup {x} \subseteq FilledOrders' /\ x \notin FilledOrders
    BY <1>3, <1>6, <1>7 DEF FilledOrders
  <2>2. IsFiniteSet(FilledOrders) /\ Cardinality(FilledOrders) \in Nat
    BY TapeFacts
  <2>3. Cardinality(FilledOrders \cup {x}) = Cardinality(FilledOrders) + 1
    BY <2>1, <2>2, FS_AddElement
  <2>4. IsFiniteSet(1 .. submitted) /\ FilledOrders' \subseteq 1 .. submitted
    BY <1>3, FS_Interval DEF FilledOrders
  <2>5. IsFiniteSet(FilledOrders')
    BY <2>4, FS_Subset
  <2> QED
    BY <2>1, <2>3, <2>5, FS_Subset
<1>9. Cardinality(FilledOrders') <= submitted /\ Cardinality(FilledOrders') \in Nat
  <2>1. IsFiniteSet(1 .. submitted) /\ FilledOrders' \subseteq 1 .. submitted
    BY <1>3, FS_Interval DEF FilledOrders
  <2>2. Cardinality(1 .. submitted) = submitted
    BY <1>3, FS_Interval
  <2> QED
    BY <2>1, <2>2, FS_Subset, FS_CardinalityType
<1>10. /\ trades' = Append(trades, t) /\ Len(trades) \in Nat
       /\ Len(trades') = n /\ DOMAIN trades' = DOMAIN trades \cup {n} /\ n \notin DOMAIN trades
       /\ trades'[n] = t /\ \A i \in DOMAIN trades : trades'[i] = trades[i]
  <2>1. /\ trades \in Seq([maker : Orders, taker : Orders, price : Prices, amount : Nat])
        /\ Len(trades) \in Nat
    BY DEF EngineInv, Tape
  <2>2. Len(trades) < MaxTrades
    BY <1>3, <1>8, <1>9, <2>1, TapeFacts DEF TapeIsWhole
  <2>3. trades' = Append(trades, t)
    BY <2>2 DEF RecordTrade, Record
  <2> HIDE DEF t
  <2> QED
    BY <2>1, <2>3
<1> HIDE DEF n
<1>11. ASSUME NEW o \in Orders
       PROVE  filled'[o] = SumFunctionOnSet(TapeAmounts', TradesOf(o)')
  <2>1. /\ \A i \in DOMAIN trades : TapeAmounts'[i] = TapeAmounts[i] /\ TapeAmounts[i] \in Nat
        /\ TapeAmounts'[n] = fill
    BY <1>10, TapeFacts DEF TapeAmounts
  <2>2. IsFiniteSet(TradesOf(o)) /\ TradesOf(o) \subseteq DOMAIN trades /\ n \notin TradesOf(o)
    BY <1>10, TapeFacts
  <2>3. SumFunctionOnSet(TapeAmounts', TradesOf(o)) = filled[o]
    <3>1. SumFunctionOnSet(TapeAmounts', TradesOf(o)) = SumFunctionOnSet(TapeAmounts, TradesOf(o))
      BY <2>1, <2>2, SumCongruence
    <3> QED
      BY <3>1 DEF TapeIsWhole
  <2>4. CASE o = taker \/ o = curr
    <3>1. TradesOf(o)' = TradesOf(o) \cup {n}
      BY <1>10, <2>4 DEF TradesOf
    <3>2. \A i \in TradesOf(o) \cup {n} : TapeAmounts'[i] \in Int
      BY <1>2, <2>1, <2>2
    <3>3. SumFunctionOnSet(TapeAmounts', TradesOf(o)') = SumFunctionOnSet(TapeAmounts', TradesOf(o)) + fill
      BY <2>1, <2>2, <3>1, <3>2, SumAdd
    <3> QED
      BY <1>4, <2>3, <2>4, <3>3
  <2>5. CASE o # taker /\ o # curr
    <3>1. TradesOf(o)' = TradesOf(o)
      BY <1>10, <2>5 DEF TradesOf
    <3> QED
      BY <1>4, <2>3, <2>5, <3>1
  <2> QED
    BY <2>4, <2>5
<1>12. Len(trades') <= Cardinality(FilledOrders')
  BY <1>8, <1>9, <1>10, TapeFacts DEF TapeIsWhole, n
<1> QED
  BY <1>11, <1>12 DEF TapeIsWhole

(* Every other step leaves the tape, what is filled and the orders alone.   *)
LEMMA TapeStepInv ==
  ASSUME MaxTrades >= MaxOrders, EngineInv, TapeIsWhole, [Next]_vars PROVE TapeIsWhole'
<1>1. CASE \E d \in Requests : Submit(d)
  BY <1>1, SubmitTape
<1>2. CASE RecordTrade
  BY <1>2, RecordTradeTape
<1>3. CASE UNCHANGED <<ord, filled, submitted, trades>>
  BY <1>3 DEF TapeIsWhole, TapeAmounts, TradesOf, FilledOrders, Remaining
<1>4. ASSUME SelectLevel \/ StopMatching \/ ReadHead \/ PickMaker \/ WriteVolume \/ RemoveMaker \/ Rest
      PROVE  UNCHANGED <<ord, filled, submitted, trades>>
  BY <1>4 DEF SelectLevel, StopMatching, ReadHead, PickMaker, WriteVolume, RemoveMaker, Rest
<1>5. ASSUME (\E id \in Ids : Cancel(id)) \/ Exhausted \/ UNCHANGED vars
      PROVE  UNCHANGED <<ord, filled, submitted, trades>>
  BY <1>5 DEF Cancel, Exhausted, vars
<1> QED
  BY <1>1, <1>2, <1>3, <1>4, <1>5 DEF Next, ProcessOrder

(* The tape misses no fill, whatever is cancelled while the loop runs: the   *)
(* trades of every order add up to its Filled.  Every trade leaves one of   *)
(* its two orders filled, and no two the same one: there are never more     *)
(* trades than filled orders, so MaxTrades >= MaxOrders loses none.         *)
THEOREM TapeStaysWhole ==
  ASSUME ReuseIds = FALSE, MaxTrades >= MaxOrders PROVE Spec => []TapeIsWhole
<1>1. Init => EngineInv /\ TapeIsWhole
  BY EngineInitInv, TapeInit
<1>2. (EngineInv /\ TapeIsWhole) /\ [Next]_vars => (EngineInv /\ TapeIsWhole)'
  BY EngineStepInv, TapeStepInv
<1> QED
  BY <1>1, <1>2, PTL DEF Spec

(* However the matching loop and the cancellations interleave, e.trades     *)
(* accounts for every fill: ProcessOrder never overfills an order, and what *)
(* Order.Filled says is what the trades of that order add up to.  The tape  *)
(* of the model is bounded; MaxTrades >= MaxOrders makes it long enough.    *)
THEOREM FillsAlwaysMatchTrades ==
  ASSUME ReuseIds = FALSE, MaxTrades >= MaxOrders PROVE Spec => []FillsMatchTrades
<1>1. EngineInv /\ TapeIsWhole => FillsMatchTrades
  <2> SUFFICES ASSUME EngineInv, TapeIsWhole, NEW o \in Orders
               PROVE  /\ filled[o] <= ord[o].amount
                      /\ filled[o] = SumFunctionOnSet(TapeAmounts, TradesOf(o))
    BY DEF FillsMatchTrades, TapeAmounts
  <2>1. CASE o \in 1 .. submitted
    BY <2>1 DEF EngineInv, SubmittedOrders, TapeIsWhole
  <2>2. CASE o \notin 1 .. submitted
    <3>1. filled[o] = 0
      BY <2>2, BookAssumption DEF EngineInv, SubmittedOrders, Orders
    <3>2. ord[o].amount \in Nat
      <4>1. ord[o] \in Details \cup {Blank}
        BY DEF EngineInv, BookInv, BookTypeOK
      <4>2. CASE ord[o] \in Details
        <5>1. ord[o].amount \in Amounts
          BY <4>2 DEF Details
        <5> QED
          BY <5>1, BookAssumption
      <4>3. CASE ord[o] = Blank
        BY <4>3 DEF Blank
      <4> QED
        BY <4>1, <4>2, <4>3
    <3> QED
      BY <3>1, <3>2 DEF TapeIsWhole
  <2> QED
    BY <2>1, <2>2
<1> QED
  BY <1>1, EngineCorrect, TapeStaysWhole, PTL
-----------------------------------------------------------------------------
(***************************************************************************)
(* ProcessOrder comes to its end.  A fill uses an order up for good, and a  *)
(* turn of the loop without a fill is caused by a cancellation, which uses  *)
(* up a resting order; nothing else can send the loop round again.          *)
(***************************************************************************)

\* What is counted is finite.
LEMMA CountFacts ==
  ASSUME EngineInv
  PROVE  /\ IsFiniteSet(Unfilled) /\ Cardinality(Unfilled) \in Nat
         /\ IsFiniteSet(resting) /\ Cardinality(resting) \in Nat
         /\ TurnLeft \in 1 .. 8
<1>1. submitted \in Nat /\ MaxOrders \in Nat /\ resting \subseteq 1 .. MaxOrders
  BY BookAssumption DEF EngineInv, SubmittedOrders, BookInv, BookTypeOK, Orders
<1>2. IsFiniteSet(1 .. submitted) /\ IsFiniteSet(1 .. MaxOrders) /\ Unfilled \subseteq 1 .. submitted
  BY <1>1, FS_Interval DEF Unfilled
<1>3. TurnLeft \in 1 .. 8
  BY DEF TurnLeft
<1>4. IsFiniteSet(Unfilled) /\ IsFiniteSet(resting)
  BY <1>1, <1>2, FS_Subset
<1> QED
  BY <1>3, <1>4, FS_CardinalityType

(* A step that fills nothing and puts nothing into the book advances when   *)
(* it goes on within the turn.                                              *)
LEMMA TurnAdvances ==
  ASSUME EngineInv, taker # Nil, UNCHANGED <<ord, filled, submitted, taker>>,
         resting' \subseteq resting, TurnLeft' < TurnLeft
  PROVE  StepsLeft' < StepsLeft
<1>1. Unfilled' = Unfilled
  BY DEF Unfilled, Remaining
<1>2. Cardinality(resting') <= Cardinality(resting) /\ Cardinality(resting') \in Nat
  <2>1. Cardinality(resting') <= Cardinality(resting) /\ IsFiniteSet(resting')
    BY CountFacts, FS_Subset
  <2> QED
    BY <2>1, FS_CardinalityType
<1>3. Cardinality(Unfilled) \in Nat /\ Cardinality(resting) \in Nat /\ TurnLeft \in Int /\ TurnLeft' \in Int
  BY CountFacts DEF TurnLeft
<1>4. StepsLeft = 7 * Cardinality(Unfilled) + 3 * Cardinality(resting) + TurnLeft
  BY DEF StepsLeft
<1>5. StepsLeft' = 7 * Cardinality(Unfilled) + 3 * Cardinality(resting') + TurnLeft'
  BY <1>1 DEF StepsLeft
<1> QED
  BY <1>2, <1>3, <1>4, <1>5

(* A level that was picked a moment ago has a head to begin with.           *)
LEMMA SelectLevelAdvances ==
  ASSUME EngineInv, SelectLevel PROVE StepsLeft' < StepsLeft
<1>1. taker # Nil /\ stage = "best" /\ stage' = "head"
  BY DEF SelectLevel, EngineInv, TakerIsYoungest
<1>2. /\ MakerSide \in Sides /\ tier' \in Prices /\ Remaining(taker) > 0
      /\ Queue(MakerSide, tier') # {}
  <2>1. MakerSide \in Sides /\ Remaining(taker) > 0 /\ ladder[MakerSide] # <<>>
        /\ tier' = ladder[MakerSide][1]
    BY <1>1, TakerFacts DEF SelectLevel, MoreToMatch, BestPrice
  <2>2. /\ ladder[MakerSide] \in Seq(Prices)
        /\ ToSet(ladder[MakerSide]) = {p \in Prices : Queue(MakerSide, p) # {}}
    BY <2>1 DEF EngineInv, BookInv, BookTypeOK, LaddersMatchQueues
  <2>3. tier' \in ToSet(ladder[MakerSide])
    BY <2>1, <2>2 DEF ToSet
  <2> QED
    BY <2>1, <2>2, <2>3
<1>3. level[MakerSide][tier'].head # Nil
  <2>1. IsOldest(level[MakerSide][tier'].head, Queue(MakerSide, tier'))
    BY <1>2 DEF EngineInv, BookInv, QueuesAreFIFO
  <2>2. Nil \notin Queue(MakerSide, tier')
    BY DEF Queue, EngineInv, BookInv, BookTypeOK, Orders, Nil
  <2> QED
    BY <1>2, <2>1, <2>2 DEF IsOldest
<1>4. LoopOn(level[MakerSide][tier].head)' = "pick"
  BY <1>2, <1>3 DEF LoopOn, SelectLevel, MakerSide, Remaining, listVars
<1>5. TurnLeft = 5 /\ TurnLeft' = 4
  BY <1>1, <1>4 DEF TurnLeft
<1> QED
  BY <1>1, <1>5, TurnAdvances DEF SelectLevel, listVars

(* The other accesses that fill nothing.                                    *)
LEMMA LoopAdvances ==
  ASSUME EngineInv, StopMatching \/ ReadHead \/ PickMaker \/ WriteVolume \/ RemoveMaker
  PROVE  StepsLeft' < StepsLeft
<1>1. taker # Nil
  BY DEF StopMatching, ReadHead, PickMaker, WriteVolume, RemoveMaker, EngineInv, TakerIsYoungest
<1>2. CASE StopMatching
  <2>1. TurnLeft = 5 /\ TurnLeft' = 1
    BY <1>2 DEF StopMatching, TurnLeft
  <2> QED
    BY <1>1, <1>2, <2>1, TurnAdvances DEF StopMatching, listVars
<1>3. CASE ReadHead
  <2>1. TurnLeft' < TurnLeft
    BY <1>3 DEF ReadHead, TurnLeft, LoopOn
  <2> QED
    BY <1>1, <1>3, <2>1, TurnAdvances DEF ReadHead, listVars
<1>4. CASE PickMaker
  <2>1. TurnLeft = 3 /\ TurnLeft' = 2
    BY <1>4 DEF PickMaker, TurnLeft
  <2> QED
    BY <1>1, <1>4, <2>1, TurnAdvances DEF PickMaker, listVars
<1>5. CASE WriteVolume
  <2>1. TurnLeft' < TurnLeft
    BY <1>5 DEF WriteVolume, Advance, LoopOn, TurnLeft
  <2> QED
    BY <1>1, <1>5, <2>1, TurnAdvances DEF WriteVolume
<1>6. CASE RemoveMaker
  <2>1. TurnLeft' < TurnLeft
    BY <1>6 DEF RemoveMaker, Advance, LoopOn, TurnLeft
  <2>2. resting' \subseteq resting
    <3>1. ord[curr].id \in Ids
      BY <1>6 DEF RemoveMaker, EngineInv, MakerIsOldest, IsMaker, SubmittedOrders, Details
    <3> QED
      BY <1>6, <3>1, CancelOrderRemoves DEF RemoveMaker, listVars
  <2> QED
    BY <1>1, <1>6, <2>1, <2>2, TurnAdvances DEF RemoveMaker
<1> QED
  BY <1>2, <1>3, <1>4, <1>5, <1>6

(* A fill leaves its maker or its taker with nothing: one order less.       *)
LEMMA RecordTradeAdvances ==
  ASSUME EngineInv, RecordTrade PROVE StepsLeft' < StepsLeft
<1>1. taker # Nil /\ taker' = taker /\ submitted \in Nat
      /\ UNCHANGED <<ord, submitted, resting>> /\ stage = "fill" /\ stage' = "volume"
  BY BookAssumption DEF RecordTrade, EngineInv, TakerIsYoungest, SubmittedOrders, listVars
<1>2. PICK x \in 1 .. submitted : Remaining(x) > 0 /\ Remaining(x)' = 0
  BY FillUsesUp
<1>3. x \in Unfilled /\ Unfilled' \subseteq Unfilled \ {x}
  <2>1. x \in Unfilled /\ x \notin Unfilled'
    BY <1>1, <1>2 DEF Unfilled
  <2>2. \A o \in 1 .. submitted : Remaining(o) \in Nat
    BY RemainingFacts
  <2> QED
    BY <1>1, <2>1, <2>2, FillUsesUp DEF Unfilled
<1>4. Cardinality(Unfilled') <= Cardinality(Unfilled) - 1 /\ Cardinality(Unfilled') \in Nat
  <2>1. Cardinality(Unfilled \ {x}) = Cardinality(Unfilled) - 1 /\ IsFiniteSet(Unfilled \ {x})
    BY <1>3, CountFacts, FS_RemoveElement
  <2>2. Cardinality(Unfilled') <= Cardinality(Unfilled \ {x}) /\ IsFiniteSet(Unfilled')
    BY <1>3, <2>1, FS_Subset
  <2>3. Cardinality(Unfilled') \in Nat
    BY <2>2, FS_CardinalityType
  <2> QED
    BY <2>1, <2>2, <2>3
<1>5. Cardinality(Unfilled) \in Nat /\ Cardinality(resting) \in Nat
  BY CountFacts
<1>6. TurnLeft = 2 /\ TurnLeft' = 8
  BY <1>1 DEF TurnLeft
<1>7. StepsLeft = 7 * Cardinality(Unfilled) + 3 * Cardinality(resting) + 2
  BY <1>1, <1>6 DEF StepsLeft
<1>8. StepsLeft' = 7 * Cardinality(Unfilled') + 3 * Cardinality(resting) + 8
  BY <1>1, <1>6 DEF StepsLeft
<1> QED
  BY <1>4, <1>5, <1>7, <1>8

(* A cancellation may empty the level the loop has picked, and send it back *)
(* to look for the best price; but then the book has one order less.        *)
LEMMA CancelAdvances ==
  ASSUME EngineInv, NEW id \in Ids, Cancel(id), taker # Nil PROVE StepsLeft' < StepsLeft
<1>1. /\ id \in resting /\ resting' = resting \ {id}
      /\ UNCHANGED <<ord, filled, submitted, taker, stage>>
  BY CancelFacts, CancelOrderRemoves DEF Cancel
<1>2. Cardinality(resting') = Cardinality(resting) - 1
  BY <1>1, CountFacts, FS_RemoveElement
<1>3. Unfilled' = Unfilled
  BY <1>1 DEF Unfilled, Remaining
<1>4. TurnLeft' <= TurnLeft + 2
  BY <1>1 DEF TurnLeft
<1>5. Cardinality(Unfilled) \in Nat /\ Cardinality(resting) \in Nat /\ TurnLeft \in Int /\ TurnLeft' \in Int
  BY CountFacts DEF TurnLeft
<1>6. StepsLeft = 7 * Cardinality(Unfilled) + 3 * Cardinality(resting) + TurnLeft
  BY DEF StepsLeft
<1>7. StepsLeft' = 7 * Cardinality(Unfilled) + 3 * Cardinality(resting') + TurnLeft'
  BY <1>1, <1>3 DEF StepsLeft
<1> QED
  BY <1>2, <1>4, <1>5, <1>6, <1>7

(* The return itself.                                                       *)
LEMMA RestAdvances == ASSUME EngineInv, Rest PROVE StepsLeft' < StepsLeft
<1>1. taker # Nil /\ taker' = Nil
  BY DEF EngineInv, TakerIsYoungest, Rest
<1>2. StepsLeft = 7 * Cardinality(Unfilled) + 3 * Cardinality(resting) + TurnLeft /\ StepsLeft' = 0
  BY <1>1 DEF StepsLeft
<1> QED
  BY <1>2, CountFacts

(* matching_engine.go:29: ProcessOrder "returns", as far as a safety        *)
(* property can say it: while it holds e.mu every step of it, and every     *)
(* cancellation meanwhile, leaves it fewer steps to go.                     *)
THEOREM MatchesAlwaysAdvance == ASSUME ReuseIds = FALSE PROVE Spec => MatchAdvances
<1>1. EngineInv /\ [Next]_vars => [taker # Nil => StepsLeft' < StepsLeft]_vars
  <2> SUFFICES ASSUME EngineInv, Next, taker # Nil PROVE StepsLeft' < StepsLeft \/ UNCHANGED vars
    OBVIOUS
  <2>1. CASE \E d \in Requests : Submit(d)
    BY <2>1 DEF Submit
  <2>2. CASE ProcessOrder
    BY <2>2, SelectLevelAdvances, LoopAdvances, RecordTradeAdvances, RestAdvances DEF ProcessOrder
  <2>3. CASE \E id \in Ids : Cancel(id)
    BY <2>3, CancelAdvances
  <2>4. CASE Exhausted
    BY <2>4 DEF Exhausted
  <2> QED
    BY <2>1, <2>2, <2>3, <2>4 DEF Next
<1> QED
  BY <1>1, EngineCorrect, PTL DEF Spec, MatchAdvances
=============================================================================
