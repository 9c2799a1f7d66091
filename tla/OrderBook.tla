----------------------------- MODULE OrderBook -----------------------------
(***************************************************************************)
(* Package orderbook: the price ladders of one trading pair, the FIFO      *)
(* queue of resting orders at every price, and the index of orders by ID.  *)
(*                                                                         *)
(* Orders are the *Order objects, numbered in the order in which they      *)
(* enter ProcessOrder; Nil is the nil pointer.  An order's ID is a value   *)
(* of its own, because the server generates IDs that may collide.          *)
(* Amounts and prices are integers (units of the smallest step): the       *)
(* rounding of float64 is not part of this module.                         *)
(*                                                                         *)
(* The operators whose body has primes are the methods of OrderBook; each  *)
(* runs with ob.mu held, so each is one step of whoever calls it.          *)
(***************************************************************************)
EXTENDS Integers, Sequences, FiniteSets, SequencesExt

CONSTANTS
  MaxOrders,   \* bound: the number of orders that enter the engine
  Prices,      \* the limit prices that appear, zero or negative ones included
  Amounts      \* the order sizes that appear

ASSUME BookAssumption ==
  /\ MaxOrders \in Nat
  /\ Prices \subseteq Int
  /\ Amounts \subseteq Nat \ {0}   \* handlePlaceOrder rejects amounts <= 0

Orders == 1 .. MaxOrders
Nil == 0
Ids == Orders                      \* the k-th order's own ID is k
Sides == {"BUY", "SELL"}
Kinds == {"LIMIT", "MARKET"}

\* What NewOrder fixes for the life of an order.
Details == [id : Ids, side : Sides, kind : Kinds,
            price : Prices \cup {0}, amount : Amounts]
Blank == [id |-> Nil, side |-> "BUY", kind |-> "LIMIT", price |-> 0, amount |-> 0]

VARIABLES
  ord,      \* the details of every order, Blank before it is submitted
  filled,   \* Order.Filled
  next,     \* Order.Next
  prev,     \* Order.Prev
  level,    \* the *LimitLevel objects: level[side][price]
  tiers,    \* the keys of the maps bids and asks
  ladder,   \* bidPrices and askPrices
  index,    \* orderIndex
  resting   \* history: the orders appended to a level and not removed since

listVars == <<next, prev, level, tiers, ladder, index, resting>>

Remaining(o) == IF filled[o] > ord[o].amount THEN 0 ELSE ord[o].amount - filled[o]

IsFilledStrict(o) == filled[o] > ord[o].amount          \* mutant
IsFilled(o) == filled[o] >= ord[o].amount

\* The orders linked at one price of one side.
Queue(s, p) == {o \in resting : ord[o].side = s /\ ord[o].price = p}

\* The order of a ladder: bids descending, asks ascending.
Ahead(s, p, q) == IF s = "BUY" THEN p > q ELSE p < q
BestPrice(s) == ladder[s][1]

NewLimitLevel == [head |-> Nil, tail |-> Nil, volume |-> 0, count |-> 0]
IsEmpty(l) == l.head = Nil \/ l.count <= 0

BookInit ==
  /\ ord = [o \in Orders |-> Blank]
  /\ filled = [o \in Orders |-> 0]
  /\ next = [o \in Orders |-> Nil]
  /\ prev = [o \in Orders |-> Nil]
  /\ level = [s \in Sides |-> [p \in Prices |-> NewLimitLevel]]
  /\ tiers = [s \in Sides |-> {}]
  /\ ladder = [s \in Sides |-> <<>>]
  /\ index = [i \in Ids |-> Nil]
  /\ resting = {}
-----------------------------------------------------------------------------
(* LimitLevel.Append: link o behind the tail of level l.                   *)
LevelAppendUncounted(l, o) ==                           \* mutant: no OrderCount++
  /\ prev' = [prev EXCEPT ![o] = l.tail]
  /\ next' = [x \in Orders |-> IF x = o THEN Nil ELSE IF x = l.tail THEN o ELSE next[x]]
  /\ level' = [level EXCEPT ![ord[o].side][ord[o].price] =
                 [l EXCEPT !.head = IF l.tail = Nil THEN o ELSE @, !.tail = o,
                           !.volume = @ + Remaining(o)]]
LevelAppendWhole(l, o) ==                               \* mutant: TotalVolume += Amount
  /\ prev' = [prev EXCEPT ![o] = l.tail]
  /\ next' = [x \in Orders |-> IF x = o THEN Nil ELSE IF x = l.tail THEN o ELSE next[x]]
  /\ level' = [level EXCEPT ![ord[o].side][ord[o].price] =
                 [head   |-> IF l.tail = Nil THEN o ELSE l.head,
                  tail   |-> o,
                  volume |-> l.volume + ord[o].amount,
                  count  |-> l.count + 1]]
LevelAppend(l, o) ==
  /\ prev' = [prev EXCEPT ![o] = l.tail]
  /\ next' = [x \in Orders |-> IF x = o THEN Nil ELSE IF x = l.tail THEN o ELSE next[x]]
  /\ level' = [level EXCEPT ![ord[o].side][ord[o].price] =
                 [head   |-> IF l.tail = Nil THEN o ELSE l.head,
                  tail   |-> o,
                  volume |-> l.volume + Remaining(o),
                  count  |-> l.count + 1]]

(* LimitLevel.Remove: what is left of level l without o.                   *)
WithoutOrderKeepsVolume(l, o) ==                        \* mutant
  [head   |-> IF prev[o] = Nil THEN next[o] ELSE l.head,
   tail   |-> IF next[o] = Nil THEN prev[o] ELSE l.tail,
   volume |-> l.volume,
   count  |-> l.count - 1]
WithoutOrder(l, o) ==
  [head   |-> IF prev[o] = Nil THEN next[o] ELSE l.head,
   tail   |-> IF next[o] = Nil THEN prev[o] ELSE l.tail,
   volume |-> IF l.volume < Remaining(o) THEN 0 ELSE l.volume - Remaining(o),
   count  |-> l.count - 1]

LevelRemoveKeepsNext(l, o) ==                           \* mutant: o.Prev still leads to o
  /\ next' = [next EXCEPT ![o] = Nil]
  /\ prev' = [x \in Orders |-> IF x = o THEN Nil ELSE IF x = next[o] THEN prev[o] ELSE prev[x]]
  /\ level' = [level EXCEPT ![ord[o].side][ord[o].price] = WithoutOrder(l, o)]
LevelRemove(l, o) ==
  /\ next' = [x \in Orders |-> IF x = o THEN Nil ELSE IF x = prev[o] THEN next[o] ELSE next[x]]
  /\ prev' = [x \in Orders |-> IF x = o THEN Nil ELSE IF x = next[o] THEN prev[o] ELSE prev[x]]
  /\ level' = [level EXCEPT ![ord[o].side][ord[o].price] = WithoutOrder(l, o)]

\* sort.Slice: the elements of l in the order of the ladder.
SortSlice(s, l) ==
  CHOOSE q \in {[i \in DOMAIN l |-> l[f[i]]] : f \in Bijection(DOMAIN l, DOMAIN l)} :
    \A i, j \in DOMAIN l : i < j => ~Ahead(s, q[j], q[i])

AddPriceUnsorted(s, p) == ladder' = [ladder EXCEPT ![s] = Append(@, p)]   \* mutant
AddPrice(s, p) == ladder' = [ladder EXCEPT ![s] = SortSlice(s, Append(@, p))]

\* removeBidPrice and removeAskPrice: cut the first occurrence out.
RemovePrice(s, p) == ladder' = [ladder EXCEPT ![s] = RemoveFirst(@, p)]

(* OrderBook.AddOrder; an order the book refuses leaves it unchanged.      *)
Accepts(o) == ~(ord[o].price <= 0 /\ ord[o].kind = "LIMIT") /\ Remaining(o) > 0

AddOrder(o) ==
  LET s == ord[o].side
      p == ord[o].price
  IN  \/ /\ ~Accepts(o)
         /\ UNCHANGED listVars
      \/ /\ Accepts(o)
         /\ index' = [index EXCEPT ![ord[o].id] = o]
         /\ resting' = resting \cup {o}
         /\ \/ /\ p \in tiers[s]
               /\ LevelAppend(level[s][p], o)
               /\ UNCHANGED <<tiers, ladder>>
            \/ /\ p \notin tiers[s]
               /\ tiers' = [tiers EXCEPT ![s] = @ \cup {p}]
               /\ AddPrice(s, p)
               /\ LevelAppend(NewLimitLevel, o)

\* delete(ob.orderIndex, orderID)
UnindexNothing(id) == UNCHANGED index                   \* mutant
Unindex(id) == index' = [index EXCEPT ![id] = Nil]

(* OrderBook.CancelOrder of an ID the index holds; it returns index[id].   *)
CancelOrder(id) ==
  LET o == index[id]
      s == ord[o].side
      p == ord[o].price
  IN  /\ Unindex(id)
      /\ resting' = resting \ {o}
      /\ LevelRemove(level[s][p], o)
      /\ \/ /\ IsEmpty(WithoutOrder(level[s][p], o))
            /\ tiers' = [tiers EXCEPT ![s] = @ \ {p}]
            /\ RemovePrice(s, p)
         \/ /\ ~IsEmpty(WithoutOrder(level[s][p], o))
            /\ UNCHANGED <<tiers, ladder>>

\* OrderBook.GetDepth, one side: the first maxLevels tiers of the ladder.
Depth(s, maxLevels) ==
  [i \in 1 .. Min({maxLevels, Len(ladder[s])}) |->
     [price  |-> ladder[s][i],
      volume |-> level[s][ladder[s][i]].volume,
      orders |-> level[s][ladder[s][i]].count]]
-----------------------------------------------------------------------------
BookTypeOK ==
  /\ ord \in [Orders -> Details \cup {Blank}]
  /\ filled \in [Orders -> Nat]
  /\ next \in [Orders -> Orders \cup {Nil}]
  /\ prev \in [Orders -> Orders \cup {Nil}]
  /\ level \in [Sides -> [Prices -> [head : Orders \cup {Nil}, tail : Orders \cup {Nil},
                                     volume : Int, count : Nat]]]
  /\ tiers \in [Sides -> SUBSET Prices]
  /\ ladder \in [Sides -> Seq(Prices)]
  /\ index \in [Ids -> Orders \cup {Nil}]
  /\ resting \subseteq Orders

\* x is the oldest (newest) order of S, Nil when S has none.
IsOldest(x, S) == IF S = {} THEN x = Nil ELSE x \in S /\ \A y \in S : x <= y
IsNewest(x, S) == IF S = {} THEN x = Nil ELSE x \in S /\ \A y \in S : y <= x

(* The pointers of every level spell out its resting orders in the order   *)
(* of their arrival, forwards and backwards, whatever is cancelled or      *)
(* matched in between: LimitLevel.Append and Remove keep the doubly-linked *)
(* list whole.                                                             *)
QueuesAreFIFO ==
  \A s \in Sides, p \in Prices :
    LET Q == Queue(s, p)
    IN  /\ IsOldest(level[s][p].head, Q)
        /\ IsNewest(level[s][p].tail, Q)
        /\ \A o \in Q : /\ IsOldest(next[o], {x \in Q : o < x})
                        /\ IsNewest(prev[o], {x \in Q : x < o})

(* The map of levels, the sorted price slice and the queues agree: a price *)
(* is listed exactly when an order rests there, best price first, and the  *)
(* level counts its orders.                                                *)
LaddersMatchQueues ==
  \A s \in Sides :
    /\ tiers[s] = {p \in Prices : Queue(s, p) # {}}
    /\ ToSet(ladder[s]) = tiers[s]
    /\ \A i, j \in 1 .. Len(ladder[s]) : i < j => Ahead(s, ladder[s][i], ladder[s][j])
    /\ \A p \in tiers[s] : level[s][p].count = Cardinality(Queue(s, p))

(* A resting order can always be found, and so cancelled, by its ID, and   *)
(* the index holds nothing else.                                           *)
IndexIsExact ==
  /\ \A o \in resting : index[ord[o].id] = o
  /\ \A id \in Ids : index[id] # Nil => index[id] \in resting /\ ord[index[id]].id = id
=============================================================================
