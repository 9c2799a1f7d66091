-------------------------- MODULE RefinementProofs --------------------------
(***************************************************************************)
(* With unique order IDs ProcessOrder is price-time matching, whatever is  *)
(* cancelled while it runs: every access of the loop to the book is a step *)
(* of PriceTimeMatching or invisible to it, for every number of orders and *)
(* every set of prices and amounts.  CancelOrder does not wait for the     *)
(* loop, so an order it has handed back may still be filled; it is filled  *)
(* at most once, and out of the loop's hands.                              *)
(*                                                                         *)
(* EngineInv allows the loop to stand on an order that a cancellation has  *)
(* unlinked.  LoopInv adds which orders these are (Late), and that each of *)
(* them has put the TotalVolume of its level out of step.                  *)
(***************************************************************************)
EXTENDS MatchingEngineRefines, MatchingEngineProofs

\* What has been handed back is neither in the book nor being matched.
CancelledAreGone ==
  /\ cancelled \subseteq 1 .. submitted
  /\ cancelled \cap (resting \cup {taker}) = {}

\* The loop holds on to no order that has left the book, except one that was cancelled
\* under it, and such an order has put its level out of step.
LateAreCancelled ==
  /\ Late \subseteq cancelled
  /\ \A o \in Late : <<ord[o].side, ord[o].price>> \in torn

\* The loop walks a level from older orders to younger ones.
LoopGoesForward == stage \in {"fill", "volume", "remove"} /\ nxt # Nil => curr < nxt

(* The loop of ProcessOrder, which reads Head and Next without ob.mu, goes *)
(* forward, and what it holds that is not in the book was cancelled under  *)
(* it: no order that was filled, or never rested, can be traded with.      *)
LoopInv == CancelledAreGone /\ LateAreCancelled /\ LoopGoesForward

(* At every moment, and not only between two calls, TotalVolume of a level *)
(* that no cancellation has torn is what its orders have left; while the   *)
(* loop is between "maker.Filled +=" and "TotalVolume -= fillAmount" it is *)
(* that plus the fill, and what the loop has read is what it overwrites.   *)
VolumesTracked ==
  \A s \in Sides : \A p \in tiers[s] :
    <<s, p>> \notin torn =>
      IF stage = "volume" /\ s = MakerSide /\ p = tier
      THEN level[s][p].volume = vol /\ vol = Owed(s, p) + fill
      ELSE level[s][p].volume = Owed(s, p)
-----------------------------------------------------------------------------
(* What the loop has in hand, in terms of the pointers it holds.           *)
LEMMA LateFacts ==
  /\ \A o \in Late : o \in Orders /\ o \notin resting /\ Remaining(o) > 0 /\ (o = curr \/ o = nxt)
  /\ Late # {} => taker # Nil /\ Remaining(taker) > 0 /\ stage \in {"pick", "fill", "volume", "remove"}
  BY DEF Late

(* RemoveMaker takes the filled maker out of the book, and nothing else.   *)
LEMMA RemoveMakerRemoves ==
  ASSUME EngineInv, RemoveMaker PROVE resting' = resting \ {curr} /\ curr \in 1 .. submitted
<1>1. curr \in 1 .. submitted /\ ord[curr].id = curr /\ curr \in Ids /\ curr \in Orders
  BY RemainingFacts DEF EngineInv, MakerIsOldest, IsMaker, SubmittedOrders, Ids, RemoveMaker
<1>2. CASE index[curr] # Nil
  <2>1. CancelOrder(curr) /\ index[curr] = curr
    BY <1>1, <1>2, CancelFacts DEF RemoveMaker
  <2> QED
    BY <1>1, <2>1, CancelOrderRemoves
<1>3. CASE index[curr] = Nil
  <2>1. UNCHANGED listVars /\ curr \notin resting
    BY <1>1, <1>3 DEF RemoveMaker, EngineInv, BookInv, IndexIsExact, Nil, Orders
  <2> QED
    BY <1>1, <2>1 DEF listVars
<1> QED
  BY <1>2, <1>3

(* An order the loop finds by Head or Next rests at that moment.           *)
LEMMA ReadHeadFinds ==
  ASSUME EngineInv, ReadHead
  PROVE  stage' \in {"pick", "best"} /\ (stage' = "pick" => curr' \in resting)
<1>1. tier \in Prices /\ MakerSide \in Sides
  BY TakerFacts DEF EngineInv, TakerIsYoungest, SweepsBestTier, ReadHead
<1>2. IsOldest(curr', Queue(MakerSide, tier)) /\ stage' = LoopOn(curr')
  BY <1>1 DEF EngineInv, BookInv, QueuesAreFIFO, ReadHead
<1> QED
  BY <1>2 DEF LoopOn, IsOldest, Queue

LEMMA PickMakerFinds ==
  ASSUME EngineInv, PickMaker, nxt' # Nil PROVE nxt' \in resting /\ curr < nxt'
<1>1. /\ tier \in Prices /\ MakerSide \in Sides /\ IsMaker(curr) /\ curr \in Orders
      /\ nxt' = next[curr]
  BY TakerFacts, RemainingFacts
  DEF EngineInv, TakerIsYoungest, SweepsBestTier, MakerIsOldest, IsMaker, PickMaker
<1>2. curr \in Queue(MakerSide, tier)
  BY <1>1 DEF EngineInv, BookInv, RemovedOrdersAreUnlinked, IsMaker, Queue
<1>3. IsOldest(nxt', {x \in Queue(MakerSide, tier) : curr < x})
  BY <1>1, <1>2 DEF EngineInv, BookInv, QueuesAreFIFO
<1> QED
  BY <1>3 DEF IsOldest, Queue

(* The fill of RecordTrade, and what it leaves of the orders.              *)
LEMMA RecordTradeFacts ==
  ASSUME EngineInv, RecordTrade
  PROVE  /\ taker \in 1 .. submitted /\ taker \in Orders /\ taker \notin resting /\ taker # Nil
         /\ IsMaker(curr) /\ curr \in 1 .. submitted /\ curr \in Orders /\ curr # taker
         /\ nxt # Nil => nxt \in 1 .. submitted /\ nxt # taker /\ nxt # curr /\ IsMaker(nxt)
         /\ Remaining(curr) > 0 /\ Remaining(taker) > 0
         /\ fill \in Nat /\ fill > 0 /\ fill = FillAmount(taker, curr)
         /\ fill <= Remaining(curr) /\ fill <= Remaining(taker)
         /\ Remaining(taker)' = Remaining(taker) - fill
         /\ Remaining(curr)' = Remaining(curr) - fill
         /\ \A o \in Orders : o # taker /\ o # curr => filled'[o] = filled[o] /\ Remaining(o)' = Remaining(o)
<1>1. /\ taker \in 1 .. submitted /\ taker \in Orders /\ taker \notin resting /\ taker # Nil
      /\ IsMaker(curr) /\ curr \in 1 .. submitted /\ curr \in Orders
      /\ Remaining(curr) > 0 /\ Remaining(taker) > 0
      /\ ord[taker].side # MakerSide
  BY TakerFacts, RemainingFacts DEF EngineInv, RecordTrade, TakerIsYoungest, MakerIsOldest, IsMaker
<1>2. curr # taker /\ (nxt # Nil => nxt \in 1 .. submitted /\ nxt # taker /\ nxt # curr /\ IsMaker(nxt))
  BY <1>1 DEF EngineInv, NextIsOldest, IsMaker, RecordTrade
<1>3. /\ fill \in Nat /\ fill > 0 /\ fill = FillAmount(taker, curr)
      /\ fill <= Remaining(curr) /\ fill <= Remaining(taker)
  BY <1>1, RemainingFacts, MinOfTwo DEF EngineInv, FillExhausts, FillAmount, RecordTrade
<1>4. /\ filled'[taker] = filled[taker] + fill /\ filled'[curr] = filled[curr] + fill
      /\ \A o \in Orders : o # taker /\ o # curr => filled'[o] = filled[o]
  <2>1. filled \in [Orders -> Nat]
    BY DEF EngineInv, BookInv, BookTypeOK
  <2>2. filled' = [filled EXCEPT ![taker] = @ + fill, ![curr] = @ + fill]
    BY DEF RecordTrade
  <2> QED
    BY <1>1, <1>2, <2>1, <2>2
<1>5. ord' = ord
  BY DEF RecordTrade
<1>6. ASSUME NEW o \in {taker, curr} PROVE Remaining(o)' = Remaining(o) - fill
  <2>1. filled[o] \in Nat /\ ord[o].amount \in Nat /\ Remaining(o) = ord[o].amount - filled[o]
    BY <1>1, RemainingFacts
  <2>2. filled'[o] = filled[o] + fill
    BY <1>4
  <2> QED
    BY <1>3, <1>5, <2>1, <2>2 DEF Remaining
<1>7. \A o \in Orders : o # taker /\ o # curr => Remaining(o)' = Remaining(o)
  BY <1>4, <1>5 DEF Remaining
<1>8. taker' = taker /\ curr' = curr
  BY DEF RecordTrade
<1>9. Remaining(taker)' = Remaining(taker) - fill /\ Remaining(curr)' = Remaining(curr) - fill
  BY <1>6, <1>8 DEF Remaining
<1> QED
  BY <1>1, <1>2, <1>3, <1>4, <1>7, <1>9
-----------------------------------------------------------------------------
(* How the orders in hand change, step by step: only a cancellation under   *)
(* the loop adds one, a trade uses one up, and a taker that is exhausted   *)
(* lets go of all.                                                         *)
LEMMA TradeUsesUp ==
  ASSUME EngineInv, RecordTrade
  PROVE  /\ Late' = IF fill = Remaining(taker) THEN {} ELSE Late \ {curr}
         /\ curr \in resting \cup Late
<1>1. /\ stage = "fill" /\ stage' = "volume" /\ resting' = resting
      /\ taker' = taker /\ curr' = curr /\ nxt' = nxt
  BY DEF RecordTrade, listVars
<1>2. curr \in resting \cup Late
  BY <1>1, RecordTradeFacts DEF Late
<1>3. CASE fill = Remaining(taker)
  <2>1. Remaining(taker)' = 0
    BY <1>3, RecordTradeFacts, RemainingFacts
  <2>2. ~(Remaining(taker)' > 0)
    BY <2>1
  <2>3. \A o \in Late' : Remaining(taker)' > 0
    BY <1>1 DEF Late
  <2> QED
    BY <1>2, <1>3, <2>2, <2>3
<1>4. CASE fill # Remaining(taker)
  <2>1. Remaining(taker)' > 0 /\ taker' # Nil
    BY <1>1, <1>4, RecordTradeFacts, RemainingFacts
  <2>2. /\ nxt # curr
        /\ \A o \in Orders : o = nxt => Remaining(o)' = Remaining(o)
    <3>1. curr \in 1 .. submitted /\ (nxt # Nil => nxt \in 1 .. submitted /\ nxt # taker /\ nxt # curr)
      BY RecordTradeFacts
    <3>2. \A o \in Orders : o # taker /\ o # curr => Remaining(o)' = Remaining(o)
      BY RecordTradeFacts
    <3> QED
      BY <3>1, <3>2 DEF Nil, Orders
  <2>3. \A o \in Orders \ resting : o \in Late' <=> Remaining(o)' > 0 /\ o = nxt
    <3>1. \A o \in Orders \ resting :
            o \in Late' <=> /\ taker' # Nil /\ Remaining(taker)' > 0 /\ Remaining(o)' > 0
                            /\ \/ o = curr' /\ stage' \in {"pick", "fill"}
                               \/ o = nxt' /\ stage' \in {"fill", "volume", "remove"}
      BY <1>1 DEF Late
    <3> QED
      BY <1>1, <2>1, <3>1
  <2>4. \A o \in Orders \ resting : o \in Late <=> Remaining(o) > 0 /\ (o = curr \/ o = nxt)
    BY <1>1, RecordTradeFacts DEF Late
  <2>5. Late' \subseteq Orders \ resting /\ Late \subseteq Orders \ resting
    BY <1>1 DEF Late
  <2>6. ASSUME NEW o \in Orders \ resting PROVE o \in Late' <=> o \in Late \ {curr}
    <3>1. o # Nil
      BY DEF Nil, Orders
    <3>2. o \in Late' <=> Remaining(o)' > 0 /\ o = nxt
      BY <2>3
    <3>3. o \in Late <=> Remaining(o) > 0 /\ (o = curr \/ o = nxt)
      BY <2>4
    <3> QED
      BY <2>2, <3>1, <3>2, <3>3
  <2> QED
    BY <1>2, <1>4, <2>5, <2>6
<1> QED
  BY <1>3, <1>4

LEMMA RemoveKeepsLate == ASSUME EngineInv, RemoveMaker PROVE Late' = Late
<1>1. /\ resting' = resting \ {curr} /\ curr \in 1 .. submitted /\ Remaining(curr) = 0
      /\ nxt # Nil => nxt # curr
      /\ stage = "remove" /\ UNCHANGED <<ord, filled, taker, nxt>>
  BY RemoveMakerRemoves DEF EngineInv, FillExhausts, NextIsOldest, RemoveMaker
<1>2. /\ curr' = nxt /\ stage' = LoopOn(nxt)
      /\ \A o : Remaining(o)' = Remaining(o)
  BY DEF RemoveMaker, Advance, Remaining
<1>3. \A o : o \in Late <=> o \in Orders \ resting /\ taker # Nil /\ Remaining(taker) > 0 /\ Remaining(o) > 0 /\ o = nxt
  BY <1>1 DEF Late
<1>4. \A o : o \in Late' <=> /\ o \in Orders \ resting' /\ taker # Nil /\ Remaining(taker) > 0 /\ Remaining(o) > 0
                             /\ o = nxt /\ stage' = "pick"
  BY <1>1, <1>2 DEF Late, LoopOn
<1>5. ASSUME NEW o PROVE o \in Late' <=> o \in Late
  BY <1>1, <1>2, <1>3, <1>4 DEF LoopOn, Orders, Nil
<1> QED
  BY <1>5

LEMMA LoopKeepsLate ==
  ASSUME EngineInv, SelectLevel \/ StopMatching \/ ReadHead \/ PickMaker \/ WriteVolume \/ RemoveMaker
  PROVE  Late' = Late
<1>1. CASE SelectLevel \/ StopMatching
  BY <1>1 DEF SelectLevel, StopMatching, Late
<1>2. CASE ReadHead
  <2>1. /\ stage = "head" /\ UNCHANGED resting
        /\ stage' \in {"pick", "best"} /\ (stage' = "pick" => curr' \in resting)
    BY <1>2, ReadHeadFinds DEF ReadHead, listVars
  <2> QED
    BY <2>1 DEF Late
<1>3. CASE PickMaker
  <2>1. /\ stage = "pick" /\ stage' = "fill" /\ UNCHANGED <<resting, curr, taker, ord, filled>>
        /\ nxt' # Nil => nxt' \in resting
    BY <1>3, PickMakerFinds DEF PickMaker, listVars
  <2>2. nxt' \notin Orders \ resting
    BY <2>1 DEF Nil, Orders
  <2>3. \A o : Remaining(o)' = Remaining(o)
    BY <2>1 DEF Remaining
  <2> QED
    BY <2>1, <2>2, <2>3 DEF Late
<1>4. CASE WriteVolume
  <2>1. /\ stage = "volume" /\ UNCHANGED <<resting, nxt, taker, ord, filled>>
        /\ curr \in 1 .. submitted
    BY <1>4 DEF WriteVolume, EngineInv, MakerIsOldest, IsMaker
  <2>2. \A o : Remaining(o)' = Remaining(o)
    BY <2>1 DEF Remaining
  <2>3. \/ stage' = "remove"
        \/ stage' = "best" /\ Remaining(taker) = 0
    <3>1. IsFilled(curr) <=> Remaining(curr) = 0
      BY <2>1, RemainingFacts
    <3> QED
      BY <1>4, <3>1 DEF WriteVolume, Advance, LoopOn, EngineInv, FillExhausts
  <2> QED
    BY <2>1, <2>2, <2>3 DEF Late
<1>5. CASE RemoveMaker
  BY <1>5, RemoveKeepsLate
<1> QED
  BY <1>1, <1>2, <1>3, <1>4, <1>5

LEMMA QuietSteps ==
  ASSUME EngineInv, Rest \/ (\E d \in Requests : Submit(d)) PROVE Late = {} /\ Late' = {}
<1>1. CASE Rest
  BY <1>1 DEF Rest, Late
<1>2. CASE \E d \in Requests : Submit(d)
  BY <1>2 DEF Submit, Late
<1> QED
  BY <1>1, <1>2

LEMMA CancelAddsLate ==
  ASSUME EngineInv, NEW id \in Ids, Cancel(id)
  PROVE  /\ index[id] = id /\ id \in resting /\ id \in Orders /\ resting' = resting \ {id}
         /\ Late' = Late \/ Late' = Late \cup {id}
         /\ id \in Late' => /\ taker # Nil /\ Remaining(taker) > 0 /\ Remaining(id) > 0
                            /\ \/ id = curr /\ stage \in {"pick", "fill"}
                               \/ id = nxt /\ stage \in {"fill", "volume", "remove"}
<1>1. index[id] = id /\ id \in resting /\ id \in Orders /\ resting' = resting \ {id}
  BY CancelFacts, CancelOrderRemoves DEF Cancel
<1>2. /\ UNCHANGED <<taker, stage, curr, nxt>>
      /\ \A o : Remaining(o)' = Remaining(o)
  BY DEF Cancel, loopVars, Remaining
<1>3. \A o : o # id => (o \in Late' <=> o \in Late)
  BY <1>1, <1>2 DEF Late
<1>4. id \notin Late
  BY <1>1 DEF Late
<1>5. id \in Late' => /\ taker # Nil /\ Remaining(taker) > 0 /\ Remaining(id) > 0
                      /\ \/ id = curr /\ stage \in {"pick", "fill"}
                         \/ id = nxt /\ stage \in {"fill", "volume", "remove"}
  BY <1>2 DEF Late
<1> QED
  BY <1>1, <1>3, <1>4, <1>5
-----------------------------------------------------------------------------
(* Every step keeps LoopInv.                                               *)
LEMMA LoopStepInv == ASSUME EngineInv, LoopInv, [Next]_vars PROVE LoopInv'
<1> USE DEF LoopInv
<1>1. CancelledAreGone'
  <2>1. ASSUME NEW d \in Requests, Submit(d) PROVE CancelledAreGone'
    BY <2>1, BookAssumption
    DEF Submit, EngineInv, SubmittedOrders, TakerIsYoungest, CancelledAreGone, BookInv, BookTypeOK,
        RestingOrdersLive, listVars
  <2>2. CASE SelectLevel \/ StopMatching \/ ReadHead \/ PickMaker \/ RecordTrade \/ WriteVolume
    BY <2>2 DEF SelectLevel, StopMatching, ReadHead, PickMaker, RecordTrade, WriteVolume, CancelledAreGone, listVars
  <2>3. CASE RemoveMaker
    BY <2>3, RemoveMakerRemoves DEF RemoveMaker, CancelledAreGone
  <2>4. CASE Rest
    <3>1. taker \in Orders /\ 0 \notin 1 .. submitted
      BY <2>4 DEF Rest, EngineInv, TakerIsYoungest, Nil
    <3>2. resting' \subseteq resting \cup {taker}
      BY <2>4, <3>1, AddOrderRests DEF Rest, listVars
    <3> QED
      BY <2>4, <3>1, <3>2 DEF Rest, CancelledAreGone, Nil
  <2>5. ASSUME NEW id \in Ids, Cancel(id) PROVE CancelledAreGone'
    <3>1. index[id] = id /\ id \in resting /\ resting' = resting \ {id}
      BY <2>5, CancelAddsLate
    <3>2. id \in 1 .. submitted /\ id # taker
      BY <3>1 DEF EngineInv, TakerIsYoungest, RestingOrdersLive, BookInv, BookTypeOK, Orders, Nil
    <3> QED
      BY <2>5, <3>1, <3>2 DEF Cancel, CancelledAreGone
  <2>6. CASE Exhausted \/ UNCHANGED vars
    BY <2>6 DEF Exhausted, vars, listVars, CancelledAreGone
  <2> QED
    BY <2>1, <2>2, <2>3, <2>4, <2>5, <2>6 DEF Next, ProcessOrder
<1>2. LateAreCancelled'
  <2>1. CASE (\E d \in Requests : Submit(d)) \/ Rest
    BY <2>1, QuietSteps DEF LateAreCancelled
  <2>2. CASE SelectLevel \/ StopMatching \/ ReadHead \/ PickMaker \/ RecordTrade \/ WriteVolume \/ RemoveMaker
    <3>1. Late' \subseteq Late
      BY <2>2, LoopKeepsLate, TradeUsesUp
    <3>2. UNCHANGED <<ord, cancelled, torn>>
      BY <2>2 DEF SelectLevel, StopMatching, ReadHead, PickMaker, RecordTrade, WriteVolume, RemoveMaker
    <3> QED
      BY <3>1, <3>2 DEF LateAreCancelled
  <2>3. ASSUME NEW id \in Ids, Cancel(id) PROVE LateAreCancelled'
    <3>1. index[id] = id /\ Late' \subseteq Late \cup {id}
      BY <2>3, CancelAddsLate
    <3>2. ord' = ord /\ cancelled' = cancelled \cup {id} /\ torn' = torn \cup Tears(id)
      BY <2>3, <3>1 DEF Cancel
    <3>3. id \in Late' => <<ord[id].side, ord[id].price>> \in Tears(id)
      BY DEF Tears
    <3> QED
      BY <3>1, <3>2, <3>3 DEF LateAreCancelled
  <2>4. CASE Exhausted \/ UNCHANGED vars
    <3>1. UNCHANGED vars
      BY <2>4 DEF Exhausted
    <3>2. Late' = Late
      BY <3>1 DEF vars, listVars, loopVars, Late, Remaining
    <3> QED
      BY <3>1, <3>2 DEF vars, LateAreCancelled
  <2> QED
    BY <2>1, <2>2, <2>3, <2>4 DEF Next, ProcessOrder
<1>3. LoopGoesForward'
  <2>1. CASE PickMaker
    BY <2>1, PickMakerFinds DEF PickMaker, LoopGoesForward
  <2>2. CASE RecordTrade \/ WriteVolume
    BY <2>2 DEF RecordTrade, WriteVolume, Advance, LoopOn, LoopGoesForward
  <2>3. CASE SelectLevel \/ StopMatching \/ ReadHead \/ RemoveMaker \/ Rest \/ (\E d \in Requests : Submit(d))
    BY <2>3 DEF SelectLevel, StopMatching, ReadHead, RemoveMaker, Advance, LoopOn, Rest, Submit, LoopGoesForward
  <2>4. CASE (\E id \in Ids : Cancel(id)) \/ Exhausted \/ UNCHANGED vars
    BY <2>4 DEF Cancel, Exhausted, vars, loopVars, LoopGoesForward
  <2> QED
    BY <2>1, <2>2, <2>3, <2>4 DEF Next, ProcessOrder
<1> QED
  BY <1>1, <1>2, <1>3

(* The loop never holds an order outside the book, unless it was cancelled *)
(* while the loop had it in hand; what was cancelled never comes back.     *)
THEOREM LoopHoldsWhatRests == ASSUME ReuseIds = FALSE PROVE Spec => []LoopInv
<1>1. Init => LoopInv
  BY DEF Init, BookInit, LoopInv, CancelledAreGone, LateAreCancelled, LoopGoesForward, Late
<1>2. EngineInv /\ LoopInv /\ [Next]_vars => LoopInv'
  BY LoopStepInv
<1> QED
  BY <1>1, <1>2, EngineCorrect, PTL DEF Spec

LEMMA StepTradesOnceMore ==
  ASSUME EngineInv, LoopInv, [Next]_vars
  PROVE  \A o \in cancelled : /\ o \in Late' => o \in Late
                              /\ filled'[o] # filled[o] => o \in Late \ Late'
<1> USE DEF LoopInv
<1>1. CASE RecordTrade
  <2>1. /\ Late' = IF fill = Remaining(taker) THEN {} ELSE Late \ {curr}
        /\ curr \in resting \cup Late
    BY <1>1, TradeUsesUp
  <2>2. \A o \in Orders : o # taker /\ o # curr => filled'[o] = filled[o]
    BY <1>1, RecordTradeFacts
  <2>3. \A o \in cancelled : o \in Orders /\ o # taker /\ o \notin resting
    BY RemainingFacts DEF CancelledAreGone
  <2> QED
    BY <2>1, <2>2, <2>3
<1>2. CASE SelectLevel \/ StopMatching \/ ReadHead \/ PickMaker \/ WriteVolume \/ RemoveMaker
  <2>1. Late' = Late
    BY <1>2, LoopKeepsLate
  <2>2. filled' = filled
    BY <1>2 DEF SelectLevel, StopMatching, ReadHead, PickMaker, WriteVolume, RemoveMaker
  <2> QED
    BY <2>1, <2>2
<1>3. CASE Rest \/ (\E d \in Requests : Submit(d))
  <2>1. Late' = {}
    BY <1>3, QuietSteps
  <2>2. filled' = filled
    BY <1>3 DEF Rest, Submit
  <2> QED
    BY <2>1, <2>2
<1>4. ASSUME NEW id \in Ids, Cancel(id)
      PROVE  \A o \in cancelled : o \in Late' => o \in Late
  <2>1. id \in resting /\ Late' \subseteq Late \cup {id}
    BY <1>4, CancelAddsLate
  <2> QED
    BY <2>1 DEF CancelledAreGone
<1>5. CASE \E id \in Ids : Cancel(id)
  BY <1>4, <1>5 DEF Cancel
<1>6. CASE Exhausted \/ UNCHANGED vars
  <2>1. UNCHANGED vars
    BY <1>6 DEF Exhausted
  <2> QED
    BY <2>1 DEF vars, listVars, loopVars, Late, Remaining
<1> QED
  BY <1>1, <1>2, <1>3, <1>5, <1>6 DEF Next, ProcessOrder

(* After CancelOrder has handed an order back it is filled at most once,   *)
(* and only if the running ProcessOrder had it in hand at the time.        *)
THEOREM CancelledTradeOnceMore == ASSUME ReuseIds = FALSE PROVE Spec => CancelledTradesOnceMore
<1>1. EngineInv /\ LoopInv /\ [Next]_vars
        => [\A o \in cancelled : /\ o \in Late' => o \in Late
                                 /\ filled'[o] # filled[o] => o \in Late \ Late']_vars
  BY StepTradesOnceMore
<1> QED
  BY <1>1, EngineCorrect, LoopHoldsWhatRests, PTL DEF Spec, CancelledTradesOnceMore
-----------------------------------------------------------------------------
(* The sides and prices of what rests.                                     *)
LEMMA RestingFacts ==
  ASSUME EngineInv, NEW r \in resting
  PROVE  ord[r].side \in Sides /\ ord[r].price \in Prices /\ ord[r].price \in Int /\ r \in 1 .. submitted
<1>1. ord[r] \in Details /\ ord[r].price \in Prices /\ r \in 1 .. submitted
  BY DEF EngineInv, BookInv, BookTypeOK, RestingOrdersOK, RestingOrdersLive, Orders
<1> QED
  BY <1>1, BookAssumption DEF Details

(* While a level is swept, its makers match, and its candidates come before *)
(* what else rests.                                                        *)
LEMMA SweepFacts ==
  ASSUME EngineInv, LoopInv, stage \in {"pick", "fill", "volume", "remove"}
  PROVE  /\ taker # 0 /\ taker \in 1 .. submitted /\ tier \in Int
         /\ \A r : IsMaker(r) => Promise!Matches(taker, r)
         /\ \A q \in resting : /\ Promise!Matches(taker, q)
                               => /\ ord[q].side = MakerSide
                                  /\ ord[q].price \in Int
                                  /\ ~Ahead(MakerSide, ord[q].price, tier)
                                  /\ ord[q].price = tier => q \in Queue(MakerSide, tier)
         /\ Late \subseteq {curr, nxt} \ {Nil}
         /\ curr \in Late => stage \in {"pick", "fill"} \/ curr = nxt
         /\ nxt \in Late => stage \in {"fill", "volume", "remove"} \/ curr = nxt
<1>1. /\ taker # 0 /\ taker \in 1 .. submitted /\ ord[taker] \in Details
      /\ MakerSide # ord[taker].side /\ ord[taker].side \in Sides
      /\ Crosses(taker, tier) /\ tier \in Prices
  BY TakerFacts DEF EngineInv, TakerIsYoungest, SweepsBestTier, Nil
<1>2. ASSUME NEW r, IsMaker(r) PROVE Promise!Matches(taker, r)
  BY <1>1, <1>2 DEF Promise!Matches, Promise!Better, Crosses, Ahead, IsMaker, MakerSide, Opposite, Details, Kinds
<1>3. ASSUME NEW q \in resting, Promise!Matches(taker, q)
      PROVE  /\ ord[q].side = MakerSide
             /\ ord[q].price \in Int
             /\ ~Ahead(MakerSide, ord[q].price, tier)
             /\ ord[q].price = tier => q \in Queue(MakerSide, tier)
  <2>1. ord[q].side \in Sides /\ ord[q].side # ord[taker].side
    BY <1>3, RestingFacts DEF Promise!Matches
  <2>2. ord[q].side = MakerSide
    BY <1>1, <2>1 DEF MakerSide, Opposite, Sides
  <2> QED
    BY <2>2, RestingFacts DEF EngineInv, SweepsBestTier, Queue
<1>4. Late \subseteq {curr, nxt} \ {Nil}
  BY DEF Late, Nil, Orders
<1>5. /\ curr \in Late => stage \in {"pick", "fill"} \/ curr = nxt
      /\ nxt \in Late => stage \in {"fill", "volume", "remove"} \/ curr = nxt
  BY DEF Late
<1>6. tier \in Int
  BY <1>1, BookAssumption
<1> QED
  BY <1>1, <1>2, <1>3, <1>4, <1>5, <1>6

(* The maker the loop is about to fill comes first, and the one it goes on *)
(* to comes right after it.                                                *)
LEMMA CurrPrecedes ==
  ASSUME EngineInv, LoopInv, stage \in {"pick", "fill"},
         NEW q \in Promise!Candidates(taker) \ {curr}
  PROVE  Promise!Precedes(curr, q)
<1>1. IsMaker(curr) /\ ord[curr].side = MakerSide /\ ord[curr].price = tier /\ tier \in Int
  BY SweepFacts DEF EngineInv, MakerIsOldest, IsMaker
<1>2. CASE q \in resting
  <2>1. /\ ord[q].price \in Int /\ ~Ahead(MakerSide, ord[q].price, tier)
        /\ ord[q].price = tier => q \in Queue(MakerSide, tier)
    BY <1>2, SweepFacts DEF Promise!Candidates
  <2>2. ord[q].price = tier => curr < q
    BY <2>1 DEF EngineInv, MakerIsOldest
  <2> QED
    BY <1>1, <2>1, <2>2 DEF Promise!Precedes, Promise!Better, Ahead
<1>3. CASE q \in Late
  <2>1. q = nxt /\ nxt # Nil /\ stage = "fill"
    BY <1>3, SweepFacts
  <2>2. IsMaker(nxt) /\ curr < nxt
    BY <2>1 DEF EngineInv, NextIsOldest, LoopInv, LoopGoesForward
  <2> QED
    BY <1>1, <2>1, <2>2 DEF IsMaker, Promise!Precedes
<1> QED
  BY <1>2, <1>3 DEF Promise!Candidates

LEMMA NxtPrecedes ==
  ASSUME EngineInv, LoopInv, stage \in {"fill", "volume", "remove"}, nxt # Nil,
         NEW q \in Promise!Candidates(taker) \ {curr, nxt}
  PROVE  Promise!Precedes(nxt, q)
<1>1. /\ IsMaker(nxt) /\ ord[nxt].side = MakerSide /\ ord[nxt].price = tier /\ tier \in Int
      /\ nxt \in Nat
  BY SweepFacts DEF EngineInv, NextIsOldest, IsMaker
<1>2. q \in resting
  BY SweepFacts DEF Promise!Candidates
<1>3. /\ ord[q].price \in Int /\ ~Ahead(MakerSide, ord[q].price, tier)
      /\ ord[q].price = tier => q \in Queue(MakerSide, tier)
  BY <1>2, SweepFacts DEF Promise!Candidates
<1>4. q \in Nat
  BY <1>2, RestingFacts
<1>5. ord[q].price = tier => nxt < q
  BY <1>1, <1>3, <1>4 DEF EngineInv, NextIsOldest
<1> QED
  BY <1>1, <1>3, <1>5 DEF Promise!Precedes, Promise!Better, Ahead

(* A fill is a trade of the abstract book: the maker rests or has just     *)
(* been withdrawn from under the loop, and precedes all others.            *)
LEMMA RecordTradeTrades == ASSUME EngineInv, LoopInv, RecordTrade PROVE Promise!Trade
<1>1. /\ taker # 0 /\ stage = "fill" /\ curr \in 1 .. submitted /\ taker \in 1 .. submitted
      /\ Promise!Left(taker) = Remaining(taker) /\ Remaining(taker) > 0
      /\ Promise!Left(curr) = Remaining(curr) /\ Remaining(curr) > 0
      /\ Remaining(taker) \in Nat /\ Remaining(curr) \in Nat
  BY RecordTradeFacts, RemainingFacts DEF Promise!Left, RecordTrade, Nil
<1> DEFINE amount == IF Promise!Left(taker) < Promise!Left(curr) THEN Promise!Left(taker) ELSE Promise!Left(curr)
<1>2. fill = amount
  BY <1>1, RecordTradeFacts, MinOfTwo DEF FillAmount
<1>3. curr \in Promise!Candidates(taker)
  BY <1>1, TradeUsesUp, RecordTradeFacts, SweepFacts DEF Promise!Candidates
<1>4. \A q \in Promise!Candidates(taker) \ {curr} : Promise!Precedes(curr, q)
  BY <1>1, CurrPrecedes
<1>5. Late' = IF amount = Promise!Left(taker) THEN {} ELSE Late \ {curr}
  BY <1>1, <1>2, TradeUsesUp
<1>6. filled' = [filled EXCEPT ![taker] = @ + amount, ![curr] = @ + amount]
  BY <1>2 DEF RecordTrade
<1>7. trades' = Promise!Record(trades, [maker |-> curr, taker |-> taker, price |-> ord[curr].price,
                                        amount |-> amount])
  BY <1>2 DEF RecordTrade, Promise!Record, Record
<1>8. UNCHANGED <<ord, resting, submitted, taker>>
  BY DEF RecordTrade, listVars
<1> HIDE DEF amount
<1>9. \E r \in Promise!Candidates(taker) :
        LET a == IF Promise!Left(taker) < Promise!Left(r) THEN Promise!Left(taker) ELSE Promise!Left(r)
        IN  /\ Promise!Left(r) > 0
            /\ \A q \in Promise!Candidates(taker) \ {r} : Promise!Precedes(r, q)
            /\ filled' = [filled EXCEPT ![taker] = @ + a, ![r] = @ + a]
            /\ trades' = Promise!Record(trades, [maker |-> r, taker |-> taker, price |-> ord[r].price,
                                                 amount |-> a])
            /\ Late' = IF a = Promise!Left(taker) THEN {} ELSE Late \ {r}
  <2> WITNESS curr \in Promise!Candidates(taker)
  <2> QED
    BY <1>1, <1>4, <1>5, <1>6, <1>7 DEF amount
<1> QED
  BY <1>1, <1>8, <1>9 DEF Promise!Trade

(* Taking a filled maker out of its level; nothing when it was cancelled.  *)
LEMMA RemoveMakerRemoved ==
  ASSUME EngineInv, RemoveMaker PROVE Promise!Remove \/ UNCHANGED Promise!ptVars
<1>1. resting' = resting \ {curr} /\ curr \in 1 .. submitted /\ Remaining(curr) = 0 /\ taker # 0
  BY RemoveMakerRemoves DEF EngineInv, FillExhausts, TakerIsYoungest, RemoveMaker, Nil
<1>2. Promise!Left(curr) = 0
  BY <1>1, RemainingFacts DEF Promise!Left
<1>3. Late' = Late /\ UNCHANGED <<ord, filled, submitted, taker, trades>>
  BY RemoveKeepsLate DEF RemoveMaker
<1>4. CASE curr \in resting
  BY <1>1, <1>2, <1>3, <1>4 DEF Promise!Remove
<1>5. CASE curr \notin resting
  BY <1>1, <1>3, <1>5 DEF Promise!ptVars
<1> QED
  BY <1>4, <1>5

(* The end of ProcessOrder: the taker is exhausted or reaches nothing, and *)
(* what is left of it rests.                                               *)
LEMMA RestFinishes == ASSUME EngineInv, Rest PROVE Promise!Finish
<1> USE DEF Rest
<1>1. /\ taker # 0 /\ taker \in 1 .. submitted /\ taker \in Orders /\ taker \notin resting
      /\ ord[taker] \in Details /\ ord[taker].side \in Sides
      /\ ord[taker].kind = "LIMIT" => ord[taker].price \in Prices
  BY TakerFacts DEF EngineInv, TakerIsYoungest, Nil
<1>2. Promise!Left(taker) = Remaining(taker) /\ Remaining(taker) \in Nat
  BY <1>1, RemainingFacts DEF Promise!Left
<1>3. \A o \in resting : Promise!Left(o) > 0
  <2> SUFFICES ASSUME NEW o \in resting PROVE Promise!Left(o) > 0
    OBVIOUS
  <2>1. o \in 1 .. submitted /\ Remaining(o) > 0
    BY RestingFacts DEF EngineInv, RestingOrdersLive
  <2> QED
    BY <2>1, RemainingFacts DEF Promise!Left
<1>4. Late = {} /\ Late' = {}
  BY QuietSteps
<1>5. ASSUME Remaining(taker) > 0 PROVE Promise!Candidates(taker) = {}
  <2> SUFFICES ASSUME NEW r \in resting PROVE ~Promise!Matches(taker, r)
    BY <1>4 DEF Promise!Candidates
  <2>1. CASE ord[r].side = ord[taker].side
    BY <2>1 DEF Promise!Matches
  <2>2. CASE ord[r].side # ord[taker].side
    <3>1. ord[r].side = MakerSide
      BY <2>2, <1>1, RestingFacts DEF MakerSide, Opposite, Sides
    <3>2. ~Crosses(taker, ord[r].price)
      BY <3>1, <1>5 DEF EngineInv, RestsUncrossed
    <3> QED
      BY <3>1, <3>2, <1>1 DEF Crosses, Ahead, Promise!Matches, Promise!Better, MakerSide
  <2> QED
    BY <2>1, <2>2
<1>6. ord[taker].kind = "LIMIT" => ord[taker].price \in Int
  BY <1>1, BookAssumption
<1>7. resting' = IF Remaining(taker) > 0 /\ ord[taker].kind = "LIMIT" /\ ord[taker].price > 0
                 THEN resting \cup {taker} ELSE resting
  BY <1>6 DEF AddOrder, Accepts, listVars
<1>8. Promise!Left(taker) = 0 \/ Promise!Candidates(taker) = {}
  BY <1>2, <1>5
<1> QED
  BY <1>1, <1>2, <1>3, <1>4, <1>7, <1>8 DEF Promise!Finish, Nil

(* CancelOrder, at any moment, withdraws an order that rests; it stays in  *)
(* the hands of the match when it comes first, or right after the first.   *)
LEMMA CancelWithdraws ==
  ASSUME EngineInv, LoopInv, NEW id \in Ids, Cancel(id)
  PROVE  \E o \in resting : Promise!Withdraw(o)
<1>1. /\ id \in resting /\ resting' = resting \ {id}
      /\ UNCHANGED <<ord, filled, submitted, taker, trades>>
      /\ Late' = Late \/ (id \in Late' /\ Late' = Late \cup {id})
  BY CancelAddsLate DEF Cancel
<1>2. ASSUME id \in Late' PROVE Promise!InHand(id)
  <2>1. /\ taker # 0 /\ Remaining(taker) > 0 /\ Remaining(id) > 0
        /\ \/ id = curr /\ stage \in {"pick", "fill"}
           \/ id = nxt /\ stage \in {"fill", "volume", "remove"}
    BY <1>2, CancelAddsLate DEF Nil
  <2>2. taker \in 1 .. submitted /\ id \in 1 .. submitted /\ id # Nil
    BY <1>1, <2>1, SweepFacts, RestingFacts DEF Nil
  <2>3. Promise!Left(taker) > 0 /\ Promise!Left(id) > 0
    BY <2>1, <2>2, RemainingFacts DEF Promise!Left
  <2>4. IsMaker(id) /\ id \in Promise!Candidates(taker)
    <3>1. IsMaker(id)
      BY <2>1, <2>2 DEF EngineInv, MakerIsOldest, NextIsOldest
    <3> QED
      BY <1>1, <2>1, <3>1, SweepFacts DEF Promise!Candidates
  <2>5. CASE id = curr /\ stage \in {"pick", "fill"}
    <3>1. \A q \in Promise!Candidates(taker) \ {id} : Promise!Precedes(id, q)
      BY <2>5, CurrPrecedes
    <3> QED
      BY <2>1, <2>3, <2>4, <3>1 DEF Promise!InHand
  <2>6. CASE id = nxt /\ stage \in {"fill", "volume", "remove"}
    <3>1. \A q \in Promise!Candidates(taker) \ {curr, id} : Promise!Precedes(id, q)
      BY <2>2, <2>6, NxtPrecedes
    <3>2. ord[curr].price = ord[id].price
      BY <2>4, <2>6 DEF EngineInv, MakerIsOldest, IsMaker
    <3>3. CASE curr \in Promise!Candidates(taker)
      BY <2>1, <2>3, <2>4, <3>1, <3>2, <3>3 DEF Promise!InHand
    <3>4. CASE curr \notin Promise!Candidates(taker)
      BY <2>1, <2>3, <2>4, <3>1, <3>4 DEF Promise!InHand
    <3> QED
      BY <3>3, <3>4
  <2> QED
    BY <2>1, <2>5, <2>6
<1>3. Promise!Withdraw(id)
  BY <1>1, <1>2 DEF Promise!Withdraw
<1> QED
  BY <1>1, <1>3

(* A new order does not touch the book.                                    *)
LEMMA SubmitSubmits ==
  ASSUME EngineInv, NEW d \in Requests, Submit(d) PROVE Promise!Submit(d)
<1>1. Late' = Late
  BY QuietSteps
<1> QED
  BY <1>1 DEF Submit, Promise!Submit, listVars, Nil

(* Every step of the engine is a step of PriceTimeMatching or changes      *)
(* nothing it sees.                                                        *)
LEMMA StepImplementsPriceTime ==
  ASSUME EngineInv, LoopInv, [Next]_vars PROVE [Promise!Next]_(Promise!ptVars)
<1>1. CASE \E d \in Requests : Submit(d)
  BY <1>1, SubmitSubmits DEF Requests, Promise!Next
<1>2. CASE SelectLevel \/ StopMatching \/ ReadHead \/ PickMaker \/ WriteVolume
  <2>1. Late' = Late
    BY <1>2, LoopKeepsLate
  <2> QED
    BY <1>2, <2>1 DEF SelectLevel, StopMatching, ReadHead, PickMaker, WriteVolume, listVars, Promise!ptVars
<1>3. CASE RecordTrade \/ Rest
  BY <1>3, RecordTradeTrades, RestFinishes DEF Promise!Next
<1>4. CASE RemoveMaker
  BY <1>4, RemoveMakerRemoved DEF Promise!Next
<1>5. CASE \E id \in Ids : Cancel(id)
  BY <1>5, CancelWithdraws DEF Promise!Next
<1>6. CASE Exhausted \/ UNCHANGED vars
  <2>1. UNCHANGED vars
    BY <1>6 DEF Exhausted
  <2>2. Late' = Late
    BY <2>1 DEF vars, listVars, loopVars, Late, Remaining
  <2> QED
    BY <2>1, <2>2 DEF vars, listVars, Promise!ptVars
<1> QED
  BY <1>1, <1>2, <1>3, <1>4, <1>5, <1>6 DEF Next, ProcessOrder

(* The safety part of ImplementsPriceTime, for every size: whatever the    *)
(* list walk, the ladders and the index do, and whatever is cancelled      *)
(* between any two of their steps, callers of ProcessOrder and CancelOrder *)
(* see price-time matching and nothing else.                               *)
THEOREM EngineImplementsPriceTime == ASSUME ReuseIds = FALSE PROVE Spec => Promise!Spec
<1>1. Init => Promise!Init
  BY DEF Init, BookInit, Promise!Init, Orders, Nil, Late
<1>2. EngineInv /\ LoopInv /\ [Next]_vars => [Promise!Next]_(Promise!ptVars)
  BY StepImplementsPriceTime
<1> QED
  BY <1>1, <1>2, EngineCorrect, LoopHoldsWhatRests, PTL DEF Spec, Promise!Spec
-----------------------------------------------------------------------------
(* A step that changes no level and no queue, and fills nothing that rests, *)
(* while the loop is not at the volume of a level.                         *)
LEMMA VolumesKept ==
  ASSUME EngineInv, VolumesTracked, stage # "volume", stage' # "volume",
         UNCHANGED <<level, resting, tiers>>,
         torn' = torn \/ torn' = {l \in torn : l[2] \in tiers[l[1]]},
         \A o \in resting : ord'[o] = ord[o] /\ filled'[o] = filled[o]
  PROVE  VolumesTracked'
<1> SUFFICES ASSUME NEW s \in Sides, NEW p \in tiers[s], <<s, p>> \notin torn'
             PROVE  level'[s][p].volume = Owed(s, p)'
  BY DEF VolumesTracked
<1>1. Queue(s, p)' = Queue(s, p)
  BY DEF Queue
<1>2. \A o \in Queue(s, p) : Remaining(o)' = Remaining(o)
  BY DEF Queue, Remaining
<1>3. Owed(s, p)' = Owed(s, p)
  BY <1>1, <1>2, OwedUnchanged DEF EngineInv, BookInv
<1>4. <<s, p>> \notin torn
  OBVIOUS
<1> QED
  BY <1>3, <1>4 DEF VolumesTracked

(* A fill takes its amount off what the maker's level has left, when the   *)
(* maker still rests there; the taker is in no level.                      *)
LEMMA RecordTradeVolumes ==
  ASSUME EngineInv, LoopInv, VolumesTracked, RecordTrade PROVE VolumesTracked'
<1>1. /\ taker \in Orders /\ taker \notin resting /\ tier \in Prices /\ MakerSide \in Sides
      /\ IsMaker(curr) /\ curr \in Orders
      /\ fill \in Nat /\ Remaining(curr) \in Nat /\ fill <= Remaining(curr)
      /\ Remaining(curr)' = Remaining(curr) - fill
      /\ \A o \in Orders : o # taker /\ o # curr => Remaining(o)' = Remaining(o)
  BY TakerFacts, RecordTradeFacts, RemainingFacts DEF EngineInv, SweepsBestTier, RecordTrade
<1>2. /\ stage = "fill" /\ stage' = "volume" /\ vol' = level[MakerSide][tier].volume
      /\ UNCHANGED <<ord, level, tiers, resting, curr, taker, tier, fill, torn>>
  BY DEF RecordTrade, listVars
<1>3. /\ \A s, p : Queue(s, p)' = Queue(s, p) /\ Queue(s, p) \subseteq resting
      /\ MakerSide' = MakerSide /\ resting \subseteq Orders
      /\ \A s, p : curr \in Queue(s, p) => s = MakerSide /\ p = tier
  BY <1>1, <1>2 DEF Queue, IsMaker, MakerSide, EngineInv, BookInv, BookTypeOK
<1>4. ASSUME NEW s \in Sides, NEW p \in Prices, s # MakerSide \/ p # tier
      PROVE  Owed(s, p)' = Owed(s, p)
  <2>1. \A o \in Queue(s, p) : o \in Orders /\ o # curr /\ o # taker
    BY <1>1, <1>3, <1>4
  <2> QED
    BY <1>1, <1>3, <2>1, OwedUnchanged DEF EngineInv, BookInv
<1>5. <<MakerSide, tier>> \notin torn => curr \in Queue(MakerSide, tier)
  <2>1. curr \in resting \cup Late
    BY TradeUsesUp
  <2>2. curr \in Late => <<MakerSide, tier>> \in torn
    BY <1>1 DEF LoopInv, LateAreCancelled, IsMaker
  <2> QED
    BY <1>1, <2>1, <2>2 DEF Queue, IsMaker
<1>6. ASSUME curr \in Queue(MakerSide, tier) PROVE Owed(MakerSide, tier) = Owed(MakerSide, tier)' + fill
  <2> DEFINE Q == Queue(MakerSide, tier)
             f == RemainingOf
  <2>1. Q \subseteq Orders /\ IsFiniteSet(Q) /\ BookTypeOK
    BY QueuesAreFinite DEF EngineInv, BookInv
  <2>2. \A o \in Orders : f[o] = Remaining(o) /\ f[o] \in Int
    BY <2>1, OwedFacts
  <2>3. \A o \in Orders : f'[o] = Remaining(o)'
    BY DEF RemainingOf
  <2>4. \A o \in Q : o # curr => f'[o] = f[o]
    BY <1>1, <1>3, <2>1, <2>2, <2>3
  <2>5. f'[curr] = Remaining(curr) - fill /\ f[curr] = Remaining(curr) /\ curr \in Q
    <3>1. f'[curr] = Remaining(curr)'
      BY <1>1, <1>2, <2>3 DEF Remaining
    <3> QED
      BY <1>1, <1>6, <2>2, <3>1
  <2> HIDE DEF Q, f
  <2>6. \A o \in Q : f[o] \in Int /\ f'[o] \in Int
    BY <1>1, <2>1, <2>2, <2>4, <2>5
  <2>7. SumFunctionOnSet(f', Q) = SumFunctionOnSet(f, Q) + (f'[curr] - f[curr])
    BY <2>1, <2>4, <2>5, <2>6, SumChange
  <2>8. SumFunctionOnSet(f, Q) \in Int
    BY <2>1, <2>6, SumInt
  <2>9. Owed(MakerSide, tier)' = SumFunctionOnSet(f', Q) /\ Owed(MakerSide, tier) = SumFunctionOnSet(f, Q)
    BY <1>2, <1>3 DEF Owed, Q, f
  <2> QED
    BY <1>1, <2>5, <2>7, <2>8, <2>9
<1> SUFFICES ASSUME NEW s \in Sides, NEW p \in tiers[s], <<s, p>> \notin torn
             PROVE  IF s = MakerSide /\ p = tier
                    THEN level[s][p].volume = vol' /\ vol' = Owed(s, p)' + fill
                    ELSE level[s][p].volume = Owed(s, p)'
  BY <1>2, <1>3 DEF VolumesTracked
<1>7. p \in Prices /\ level[s][p].volume = Owed(s, p)
  BY <1>2 DEF VolumesTracked, EngineInv, BookInv, BookTypeOK
<1>8. CASE s = MakerSide /\ p = tier
  <2>1. Owed(s, p)' = Owed(MakerSide, tier)'
    BY <1>2, <1>3, <1>8 DEF Owed
  <2> QED
    BY <1>2, <1>5, <1>6, <1>7, <1>8, <2>1
<1>9. CASE s # MakerSide \/ p # tier
  BY <1>4, <1>7, <1>9
<1> QED
  BY <1>8, <1>9

(* The write of TotalVolume makes up for the fill.                         *)
LEMMA WriteVolumeVolumes ==
  ASSUME EngineInv, VolumesTracked, WriteVolume PROVE VolumesTracked'
<1>1. /\ tier \in Prices /\ MakerSide \in Sides /\ stage = "volume" /\ stage' # "volume" /\ fill \in Nat
      /\ UNCHANGED <<ord, filled, resting, tiers, torn>> /\ BookTypeOK
  BY TakerFacts DEF EngineInv, WriteVolume, TakerIsYoungest, SweepsBestTier, Advance, LoopOn, BookInv, FillExhausts
<1>2. \A s \in Sides, p \in Prices :
        level'[s][p].volume = IF s = MakerSide /\ p = tier THEN vol - fill ELSE level[s][p].volume
  <2> DEFINE L == [head : Orders \cup {Nil}, tail : Orders \cup {Nil}, volume : Int, count : Nat]
             new == [level[MakerSide][tier] EXCEPT !.volume = vol - fill]
  <2>1. level \in [Sides -> [Prices -> L]] /\ level[MakerSide][tier] \in L
    BY <1>1 DEF BookTypeOK
  <2>2. new.volume = vol - fill /\ level' = [level EXCEPT ![MakerSide][tier] = new]
    BY <1>1, <2>1 DEF WriteVolume
  <2> HIDE DEF L, new
  <2> QED
    BY <1>1, <2>1, <2>2
<1>3. \A s \in Sides, p \in Prices : Owed(s, p)' = Owed(s, p) /\ Owed(s, p) \in Nat
  <2>1. RemainingOf' = RemainingOf /\ \A s, p : Queue(s, p)' = Queue(s, p)
    BY <1>1 DEF RemainingOf, Remaining, Queue
  <2>2. \A s \in Sides, p \in Prices : Owed(s, p)' = Owed(s, p)
    BY <2>1 DEF Owed
  <2>3. \A s \in Sides, p \in Prices : Owed(s, p) \in Nat
    BY <1>1, OwedFacts
  <2> QED
    BY <2>2, <2>3
<1> SUFFICES ASSUME NEW s \in Sides, NEW p \in tiers[s], <<s, p>> \notin torn
             PROVE  level'[s][p].volume = Owed(s, p)'
  BY <1>1 DEF VolumesTracked
<1>4. /\ p \in Prices
      /\ IF s = MakerSide /\ p = tier THEN vol = Owed(s, p) + fill ELSE level[s][p].volume = Owed(s, p)
  BY <1>1 DEF VolumesTracked, BookTypeOK
<1> QED
  BY <1>1, <1>2, <1>3, <1>4

(* CancelOrder adds no level.                                              *)
LEMMA TiersShrink ==
  ASSUME EngineInv, NEW id, CancelOrder(id)
  PROVE  \A s \in Sides : tiers'[s] \subseteq tiers[s] /\ tiers[s] \subseteq Prices
<1>1. tiers \in [Sides -> SUBSET Prices]
  BY DEF EngineInv, BookInv, BookTypeOK
<1>2. tiers' = tiers \/ \E s, p : tiers' = [tiers EXCEPT ![s] = @ \ {p}]
  BY DEF CancelOrder
<1> QED
  BY <1>1, <1>2

(* A cancellation touches one level, and its volume stays right unless the *)
(* loop is between the read and the write of it.                           *)
LEMMA CancelVolumes ==
  ASSUME EngineInv, LoopInv, VolumesTracked, NEW id \in Ids, Cancel(id) PROVE VolumesTracked'
<1>1. /\ index[id] = id /\ id \in resting /\ id \in Orders /\ resting' = resting \ {id}
      /\ ord[id].side \in Sides /\ ord[id].price \in Prices
  BY CancelAddsLate, RestingFacts
<1>2. /\ UNCHANGED <<ord, filled, taker, stage, tier, fill, vol>> /\ CancelOrder(id)
      /\ torn' = torn \cup Tears(id) /\ index[id] # Nil
      /\ MakerSide' = MakerSide
  BY <1>1 DEF Cancel, loopVars, MakerSide
<1>3. \A s \in Sides : tiers'[s] \subseteq tiers[s] /\ tiers[s] \subseteq Prices
  BY <1>2, TiersShrink
<1> SUFFICES ASSUME NEW s \in Sides, NEW p \in tiers'[s], <<s, p>> \notin torn'
             PROVE  IF stage = "volume" /\ s = MakerSide /\ p = tier
                    THEN level'[s][p].volume = vol /\ vol = Owed(s, p)' + fill
                    ELSE level'[s][p].volume = Owed(s, p)'
  BY <1>2 DEF VolumesTracked
<1>4. p \in Prices /\ p \in tiers[s] /\ <<s, p>> \notin torn
  BY <1>2, <1>3
<1>5. CASE stage = "volume" /\ s = MakerSide /\ p = tier
  <2>1. level[s][p].volume = vol /\ vol = Owed(s, p) + fill
    BY <1>4, <1>5 DEF VolumesTracked
  <2>2. ~(ord[id].side = s /\ ord[id].price = p)
    BY <1>2, <1>5 DEF Tears
  <2>3. Queue(s, p)' = Queue(s, p)
    BY <1>1, <1>2, <2>2 DEF Queue
  <2>4. \A o \in Queue(s, p) : Remaining(o)' = Remaining(o)
    BY <1>2 DEF Remaining
  <2>5. Owed(s, p)' = Owed(s, p)
    BY <2>3, <2>4, OwedUnchanged DEF EngineInv, BookInv
  <2>6. level'[s][p] = level[s][p]
    <3>1. level' = [level EXCEPT ![ord[id].side][ord[id].price]
                       = WithoutOrder(level[ord[id].side][ord[id].price], id)]
      BY <1>1, <1>2 DEF CancelOrder, LevelRemove
    <3>2. \E L : level \in [Sides -> [Prices -> L]]
      BY DEF EngineInv, BookInv, BookTypeOK
    <3> HIDE DEF WithoutOrder
    <3> QED
      BY <1>1, <1>4, <2>2, <3>1, <3>2
  <2> QED
    BY <1>5, <2>1, <2>5, <2>6
<1>6. CASE ~(stage = "volume" /\ s = MakerSide /\ p = tier)
  <2>1. VolumeIsOwed(s, p)
    BY <1>4, <1>6 DEF VolumesTracked, VolumeIsOwed
  <2>2. VolumeIsOwed(s, p)'
    BY <1>2, <1>4, <2>1, CancelOrderVolumes DEF EngineInv
  <2> QED
    BY <1>6, <2>2 DEF VolumeIsOwed
<1> QED
  BY <1>5, <1>6

(* The maker taken out leaves with nothing left.                           *)
LEMMA RemoveMakerVolumes ==
  ASSUME EngineInv, VolumesTracked, RemoveMaker PROVE VolumesTracked'
<1>1. /\ stage = "remove" /\ stage' # "volume" /\ UNCHANGED <<ord, filled, torn>>
      /\ curr \in 1 .. submitted /\ ord[curr].id = curr /\ curr \in Ids
  BY RemoveMakerRemoves, RemainingFacts DEF RemoveMaker, Advance, LoopOn, EngineInv, SubmittedOrders, Ids
<1>2. CASE index[curr] = Nil
  <2>1. UNCHANGED listVars
    BY <1>1, <1>2 DEF RemoveMaker
  <2> QED
    BY <1>1, <2>1, VolumesKept DEF listVars
<1>3. CASE index[curr] # Nil
  <2>1. CancelOrder(curr)
    BY <1>1, <1>3 DEF RemoveMaker
  <2>2. \A s \in Sides : tiers'[s] \subseteq tiers[s] /\ tiers[s] \subseteq Prices
    BY <2>1, TiersShrink
  <2> SUFFICES ASSUME NEW s \in Sides, NEW p \in tiers'[s], <<s, p>> \notin torn
               PROVE  VolumeIsOwed(s, p)'
    BY <1>1 DEF VolumesTracked, VolumeIsOwed
  <2>3. p \in Prices /\ VolumeIsOwed(s, p)
    BY <1>1, <2>2 DEF VolumesTracked, VolumeIsOwed
  <2> QED
    BY <1>1, <1>3, <2>1, <2>3, CancelOrderVolumes DEF EngineInv
<1> QED
  BY <1>2, <1>3

(* What is left of the taker is added to its own level.                    *)
LEMMA RestVolumes == ASSUME EngineInv, VolumesTracked, Rest PROVE VolumesTracked'
<1>1. /\ taker # Nil /\ stage = "rest" /\ stage' = "idle" /\ UNCHANGED <<ord, filled>>
      /\ torn' = {l \in torn : l[2] \in tiers[l[1]]}
  BY DEF Rest, EngineInv, TakerIsYoungest
<1>2. CASE Remaining(taker) > 0 /\ ord[taker].kind = "LIMIT"
  <2>1. AddOrder(taker)
    BY <1>2 DEF Rest
  <2> SUFFICES ASSUME NEW s \in Sides, NEW p \in tiers'[s], <<s, p>> \notin torn'
               PROVE  VolumeIsOwed(s, p)'
    BY <1>1 DEF VolumesTracked, VolumeIsOwed
  <2>2. p \in tiers[s] => VolumeIsOwed(s, p)
    <3>1. p \in tiers[s] => <<s, p>> \notin torn
      BY <1>1
    <3> QED
      BY <1>1, <3>1 DEF VolumesTracked, VolumeIsOwed
  <2>3. p \in Prices
    <3>1. BookInv'
      BY RestInv DEF EngineInv
    <3> QED
      BY <3>1 DEF BookInv, BookTypeOK
  <2> QED
    BY <1>1, <1>2, <2>1, <2>2, <2>3, TakerFacts, AddOrderVolumes DEF EngineInv
<1>3. CASE ~(Remaining(taker) > 0 /\ ord[taker].kind = "LIMIT")
  <2>1. UNCHANGED listVars
    BY <1>3 DEF Rest
  <2> QED
    BY <1>1, <2>1, VolumesKept DEF listVars
<1> QED
  BY <1>2, <1>3

(* Every step keeps track of the volumes.                                  *)
LEMMA VolumesStepInv ==
  ASSUME EngineInv, LoopInv, VolumesTracked, [Next]_vars PROVE VolumesTracked'
<1>1. ASSUME NEW d \in Requests, Submit(d) PROVE VolumesTracked'
  <2>1. /\ stage = "idle" /\ stage' = "best" /\ UNCHANGED <<level, resting, tiers, torn, filled>>
        /\ \A x \in resting : ord'[x] = ord[x]
    BY <1>1 DEF Submit, listVars, EngineInv, TakerIsYoungest, RestingOrdersLive, BookInv, BookTypeOK, SubmittedOrders
  <2> QED
    BY <2>1, VolumesKept
<1>2. CASE SelectLevel \/ StopMatching \/ ReadHead \/ PickMaker
  <2>1. /\ stage # "volume" /\ stage' # "volume"
        /\ UNCHANGED <<ord, filled, level, resting, tiers, torn>>
    BY <1>2 DEF SelectLevel, StopMatching, ReadHead, PickMaker, LoopOn, listVars
  <2> QED
    BY <2>1, VolumesKept
<1>3. CASE RecordTrade \/ WriteVolume \/ RemoveMaker \/ Rest
  BY <1>3, RecordTradeVolumes, WriteVolumeVolumes, RemoveMakerVolumes, RestVolumes
<1>4. CASE \E id \in Ids : Cancel(id)
  BY <1>4, CancelVolumes
<1>5. CASE Exhausted \/ UNCHANGED vars
  <2>1. UNCHANGED <<ord, filled, level, tiers, torn, resting, stage, vol, tier, taker, fill>>
    BY <1>5 DEF Exhausted, vars, loopVars, listVars
  <2>2. RemainingOf' = RemainingOf /\ (\A s, p : Queue(s, p)' = Queue(s, p)) /\ MakerSide' = MakerSide
    BY <2>1 DEF RemainingOf, Remaining, Queue, MakerSide
  <2>3. \A s, p : Owed(s, p)' = Owed(s, p)
    BY <2>2 DEF Owed
  <2> QED
    BY <2>1, <2>2, <2>3 DEF VolumesTracked
<1> QED
  BY <1>1, <1>2, <1>3, <1>4, <1>5 DEF Next, ProcessOrder

(* The loop writes TotalVolume without ob.mu.  It loses track of a level   *)
(* only where a cancellation of the level falls between its read and its   *)
(* write, or unlinks an order the loop has in hand (torn); every other     *)
(* level is followed exactly, at every step.                               *)
THEOREM VolumesStayTracked == ASSUME ReuseIds = FALSE PROVE Spec => []VolumesTracked
<1>1. Init => VolumesTracked
  BY DEF Init, BookInit, VolumesTracked
<1>2. EngineInv /\ LoopInv /\ VolumesTracked /\ [Next]_vars => VolumesTracked'
  BY VolumesStepInv
<1> QED
  BY <1>1, <1>2, EngineCorrect, LoopHoldsWhatRests, PTL DEF Spec

(* The L2 depth GetDepth returns between two calls of ProcessOrder is      *)
(* exact at every level that no cancellation has torn: Append, Remove and  *)
(* the loop's unlocked "TotalVolume -= fillAmount" agree there, and the    *)
(* clamp of Remove at zero is never reached.                               *)
THEOREM DepthStaysExact == ASSUME ReuseIds = FALSE PROVE Spec => []DepthIsExact
<1>1. EngineInv /\ VolumesTracked => DepthIsExact
  <2> SUFFICES ASSUME EngineInv, VolumesTracked, taker = Nil,
                      NEW s \in Sides, NEW i \in 1 .. MaxOrders, i \in DOMAIN Depth(s, MaxOrders),
                      <<s, Depth(s, MaxOrders)[i].price>> \notin torn
               PROVE  Depth(s, MaxOrders)[i].volume = Owed(s, Depth(s, MaxOrders)[i].price)
    BY DEF DepthIsExact, Owed, RemainingOf
  <2> DEFINE n == Min({MaxOrders, Len(ladder[s])})
             p == ladder[s][i]
  <2>1. /\ ladder[s] \in Seq(Prices) /\ Len(ladder[s]) \in Nat /\ MaxOrders \in Nat
        /\ ToSet(ladder[s]) = tiers[s] /\ stage = "idle"
    BY BookAssumption DEF EngineInv, TakerIsYoungest, BookInv, BookTypeOK, LaddersMatchQueues
  <2>2. n \in Nat /\ n <= Len(ladder[s])
    BY <2>1, MinOfTwo
  <2>3. i \in 1 .. n
    BY DEF Depth
  <2> HIDE DEF n
  <2>4. p \in tiers[s]
    BY <2>1, <2>2, <2>3 DEF ToSet
  <2>5. Depth(s, MaxOrders)[i].price = p /\ Depth(s, MaxOrders)[i].volume = level[s][p].volume
    BY <2>3 DEF Depth, n
  <2> QED
    BY <2>1, <2>4, <2>5 DEF VolumesTracked
<1> QED
  BY <1>1, EngineCorrect, VolumesStayTracked, PTL
=============================================================================
