----------------------------- MODULE MCExchange -----------------------------
(***************************************************************************)
(* Instances of Exchange: the requests that come, and the endowments.      *)
(***************************************************************************)
EXTENDS SettlementProofs

Rq(s, k, p, a) == [side |-> s, kind |-> k, price |-> p, amount |-> a]

MCUsers == {"demo-user", "bot-market-maker"}
\* The demo user can fund some of its orders, not all of them.
MCFunds == [u \in Users |-> [c \in Currencies |-> IF u = Demo THEN 3 ELSE 9]]
MCCredit == [c \in Currencies |-> IF c = "USDT" THEN 5 ELSE 2]

\* Both sides, both kinds, sizes that fill each other wholly and in part.
MixedRequests == {Rq("BUY", "LIMIT", 1, 2), Rq("SELL", "LIMIT", 1, 1), Rq("SELL", "LIMIT", 2, 2),
                  Rq("BUY", "MARKET", 0, 2), Rq("SELL", "MARKET", 0, 1)}
\* Fewer of them: market orders meet the user's asks and the seed, the bot's bid meets both.
SettledRequests == {Rq("SELL", "LIMIT", 1, 1), Rq("BUY", "MARKET", 0, 2)}
\* A limit order without a price: the terminal sends null for an empty field.
PricelessRequests == {Rq("BUY", "LIMIT", 1, 1), Rq("BUY", "LIMIT", 1, 2), Rq("SELL", "LIMIT", 0, 2),
                      Rq("SELL", "LIMIT", 1, 1), Rq("BUY", "MARKET", 0, 2)}
\* The user's market orders meet its asks and the bot's, wholly or in part; one of its
\* bids has a negative price.
AskRequests == {Rq("SELL", "LIMIT", 2, 2), Rq("BUY", "MARKET", 0, 1), Rq("BUY", "LIMIT", -1, 1)}
BotOrders == {Rq("SELL", "LIMIT", 2, 1), Rq("BUY", "LIMIT", 2, 1)}
CrossingRequests == {Rq("BUY", "LIMIT", 1, 2), Rq("SELL", "LIMIT", 1, 1), Rq("SELL", "LIMIT", 0, 2),
                     Rq("BUY", "MARKET", 0, 2), Rq("BUY", "LIMIT", -1, 1)}

\* A negative price passes the checks of a request.
MCPrices == {-1, 1, 2}
NoRequests == {}
SeedAsks == {Rq("SELL", "LIMIT", 2, 1)}
SeedBoth == {Rq("BUY", "LIMIT", 1, 1), Rq("SELL", "LIMIT", 2, 1)}
BuyPulse == {Rq("BUY", "LIMIT", 2, 2)}
Pulses == {Rq("BUY", "LIMIT", 2, 2), Rq("SELL", "LIMIT", 1, 1)}
=============================================================================
