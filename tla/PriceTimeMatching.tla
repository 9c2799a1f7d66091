------------------------- MODULE PriceTimeMatching -------------------------
(***************************************************************************)
(* What the matching engine promises its callers, without queues, ladders, *)
(* indexes or locks: incoming orders are taken one at a time; each trades  *)
(* with the resting order that comes first in price-time priority until it *)
(* is filled or nothing crosses; what is left of a limit order rests; a    *)
(* resting order can be withdrawn at any moment, and then trades at most   *)
(* once more: when the running match had it in hand already, as the order  *)
(* to trade with next or as the one after it (late).                       *)
(***************************************************************************)
EXTENDS Integers, Sequences

CONSTANTS MaxOrders, Prices, Amounts, MaxTrades, Blank, Details

VARIABLES
  ord,        \* the details of every order
  filled,     \* how much of every order has traded
  resting,    \* the orders a taker may trade with
  submitted,  \* how many orders have come in
  late,       \* the withdrawn orders the running match may still trade with
  taker,      \* the order being matched, 0 when there is none
  trades      \* the trades, oldest first

ptVars == <<ord, filled, resting, late, submitted, taker, trades>>

Left(o) == ord[o].amount - filled[o]
Better(s, p, q) == IF s = "BUY" THEN p > q ELSE p < q

\* o and r can trade: opposite sides, and o is a market order or takes r's price.
Matches(o, r) ==
  /\ ord[o].side # ord[r].side
  /\ \/ ord[o].kind = "MARKET"
     \/ ~Better(ord[r].side, ord[o].price, ord[r].price)

\* Price-time priority: a better price, or the same price and an older order.
Precedes(r, q) ==
  \/ Better(ord[r].side, ord[r].price, ord[q].price)
  \/ ord[r].price = ord[q].price /\ r < q

\* A filled maker is among them until it is taken out of the book.
Candidates(o) == {r \in resting \cup late : Matches(o, r)}

\* The tape keeps the first MaxTrades trades.
Record(tape, t) == IF Len(tape) < MaxTrades THEN Append(tape, t) ELSE tape

Init ==
  /\ ord = [o \in 1 .. MaxOrders |-> Blank]
  /\ filled = [o \in 1 .. MaxOrders |-> 0]
  /\ resting = {}
  /\ late = {}
  /\ submitted = 0
  /\ taker = 0
  /\ trades = <<>>

Submit(d) ==
  /\ taker = 0
  /\ submitted < MaxOrders
  /\ submitted' = submitted + 1
  /\ taker' = submitted + 1
  /\ ord' = [ord EXCEPT ![submitted + 1] = d]
  /\ UNCHANGED <<filled, resting, late, trades>>

Trade ==
  /\ taker # 0
  /\ Left(taker) > 0
  /\ \E r \in Candidates(taker) :
       LET amount == IF Left(taker) < Left(r) THEN Left(taker) ELSE Left(r)
       IN  /\ Left(r) > 0
           /\ \A q \in Candidates(taker) \ {r} : Precedes(r, q)
           /\ filled' = [filled EXCEPT ![taker] = @ + amount, ![r] = @ + amount]
           /\ trades' = Record(trades, [maker |-> r, taker |-> taker,
                                        price |-> ord[r].price, amount |-> amount])
           /\ late' = IF amount = Left(taker) THEN {} ELSE late \ {r}
  /\ UNCHANGED <<ord, resting, submitted, taker>>

\* The running match takes a filled maker out of the book.
Remove ==
  /\ taker # 0
  /\ \E r \in resting : Left(r) = 0 /\ resting' = resting \ {r}
  /\ UNCHANGED <<ord, filled, late, submitted, taker, trades>>

\* A limit order without a positive price never rests.
Finish ==
  /\ taker # 0
  /\ Left(taker) = 0 \/ Candidates(taker) = {}
  /\ \A q \in resting : Left(q) > 0
  /\ resting' = IF Left(taker) > 0 /\ ord[taker].kind = "LIMIT" /\ ord[taker].price > 0
                THEN resting \cup {taker} ELSE resting
  /\ taker' = 0
  /\ UNCHANGED <<ord, filled, late, submitted, trades>>

\* The match may have o in hand: it comes first, or right after an order at its price.
InHand(o) ==
  /\ taker # 0 /\ Left(taker) > 0 /\ Left(o) > 0
  /\ o \in Candidates(taker)
  /\ \E p \in Candidates(taker) :
       /\ ord[p].price = ord[o].price
       /\ \A q \in Candidates(taker) \ {o, p} : Precedes(o, q)

\* A filled order may be withdrawn too, before the match has taken it out.
Withdraw(o) ==
  /\ o \in resting
  /\ resting' = resting \ {o}
  /\ UNCHANGED late \/ (InHand(o) /\ late' = late \cup {o})
  /\ UNCHANGED <<ord, filled, submitted, taker, trades>>

Next ==
  \/ \E d \in Details : Submit(d)
  \/ Trade
  \/ Remove
  \/ Finish
  \/ \E o \in resting : Withdraw(o)

Spec == Init /\ [][Next]_ptVars

\* The engine works on an order it has taken until it is done with it.
FairSpec == Spec /\ WF_ptVars(Trade \/ Remove \/ Finish)
=============================================================================
