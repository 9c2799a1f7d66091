------------------------------ MODULE Terminal ------------------------------
(***************************************************************************)
(* The browser terminal of handleTerminalUI against the server's live      *)
(* updates: the snapshots that handlers and the market maker take and      *)
(* broadcast, the terminal's socket with its retries, the answers of fetch *)
(* that race with it, and the process that stops and is started again.     *)
(*                                                                         *)
(* What the live topics send is watched piece by piece, one in a           *)
(* behaviour: the depth of the book; how far the listed orders are filled, *)
(* which also decides which of them are listed; or the entries of          *)
(* userOrders and orderHistory with a balance beside them, any one field   *)
(* of the account.  Instead of its contents every part has a version, how  *)
(* often it has changed.  MaxVersion stands for every later version too,   *)
(* so that nobody ever has to stop changing anything.                      *)
(*                                                                         *)
(* The hub is taken at its word (Feed): a message is sent when Run takes   *)
(* it, and reaches a registered connection in order unless the connection  *)
(* is cut.                                                                 *)
(***************************************************************************)
EXTENDS Integers, Sequences, FiniteSets

CONSTANTS
  Handlers,    \* goroutines of POST and DELETE requests
  MaxVersion,  \* bound: the versions that are told apart
  MaxLosses,   \* bound: how often the connection is lost
  MaxFetches,  \* bound: the fetches under way at a time
  SendCap      \* messages under way to a browser before the hub drops it

ASSUME TerminalAssumption ==
  /\ MaxVersion \in Nat \ {0} /\ SendCap \in Nat \ {0}
  /\ MaxFetches \in Nat \ {0} /\ MaxLosses \in Nat

Versions == 0 .. MaxVersion
Bot == "bot"
Goroutines == Handlers \cup {Bot}

VARIABLES
  watched,  \* what is watched: "book", "fills", "entries"
  running,  \* is the server process running?
  state,    \* the version of every part in the server
  busy,     \* the goroutines that are about to broadcast
  view,     \* what they have read for it so far
  served,   \* the server's end of the terminal's connection
  wire,     \* the messages sent to it that the browser has not read
  link,     \* the browser's end: "waiting" for its timer, "connecting", "open"
  fetches,  \* the fetches under way: what the server has read for them so far
  shown,    \* the version of every part on the screen
  losses    \* how often the connection has been lost

serverVars == <<watched, running, state>>
senderVars == <<busy, view>>
linkVars == <<served, link, losses>>
vars == <<serverVars, senderVars, linkVars, wire, fetches, shown>>

\* The parts a message reads, in this order.  GetDepth holds ob.mu.  The lists of orders
\* are copied under s.mu, without those the engine, which does not need s.mu, has filled.
\* The account is a pointer: its fields are read one by one, without a lock, when the
\* message is marshalled.
BalanceFirst ==                                      \* mutant
  IF watched = "entries" THEN <<"balance", "orders">> ELSE <<watched>>
Reads == IF watched = "entries" THEN <<"orders", "balance">> ELSE <<watched>>
Parts == IF watched = "entries" THEN {"orders", "balance"} ELSE {watched}

\* f with x mapped to v, too.
With(f, x, v) == [y \in DOMAIN f \cup {x} |-> IF y = x THEN v ELSE f[y]]

\* A snapshot maps the parts read so far to their versions.
Snapshots == UNION {[ps -> Versions] : ps \in SUBSET Parts}
Nothing == [p \in {} |-> 0]
Complete(s) == DOMAIN s = Parts
ReadOn(s) ==
  LET p == Reads[Cardinality(DOMAIN s) + 1]
  IN  With(s, p, state[p])

\* The page is loaded: it fetches, and calls connectWS.
Init ==
  /\ watched \in {"book", "fills", "entries"}
  /\ running = TRUE
  /\ state = [p \in Parts |-> 0]
  /\ busy = {}
  /\ view = [g \in Goroutines |-> Nothing]
  /\ served = "none"
  /\ wire = <<>>
  /\ link = "connecting"
  /\ fetches = [i \in {1} |-> Nothing]
  /\ shown = [p \in Parts |-> 0]
  /\ losses = 0
-----------------------------------------------------------------------------
Later(v) == IF v < MaxVersion THEN v + 1 ELSE v

\* What the work of a goroutine may change.  Before a handler adds an order to userOrders
\* or orderHistory or takes it out, it is through with its funds: what it locks, pays or
\* unlocks is in the balance by then, so its turn at the funds counts as a change of it.
\* Fills keep no order with these: the engine makes them before anybody settles.
Changes == {ps \in SUBSET Parts : "orders" \in ps => "balance" \in ps}

Change(ps) ==
  /\ state' = [p \in Parts |-> IF p \in ps THEN Later(state[p]) ELSE state[p]]
  /\ UNCHANGED <<watched, running>>

(* A handler has done its work and goes on to its broadcasts; an engine    *)
(* error after trades answers without any.                                 *)
Handle(h) ==
  /\ running /\ h \notin busy
  /\ \E ps \in Changes :
       /\ Change(ps)
       /\ \/ busy' = busy \cup {h}
          \/ ps # {} /\ UNCHANGED busy
  /\ UNCHANGED <<view, linkVars, wire, fetches, shown>>

(* The market maker: at every tick an order with a positive price, so that *)
(* ProcessOrder returns no error; it broadcasts whether it traded or not.  *)
TradesOnly == busy                                   \* mutant: no broadcast but of its trades
AfterTick == busy \cup {Bot}

Tick ==
  /\ running /\ Bot \notin busy
  /\ \E ps \in Changes : Change(ps)
  /\ busy' = AfterTick
  /\ UNCHANGED <<view, linkVars, wire, fetches, shown>>

Lose == losses < MaxLosses /\ losses' = losses + 1

(* broadcastOrderBookUpdate, broadcastAccountUpdate: take a snapshot, then *)
(* send it.  The hub drops a client that does not keep up; after the last  *)
(* loss the browser is taken to keep up.                                   *)
TakeSnapshot(g) ==
  /\ g \in busy /\ ~Complete(view[g])
  /\ view' = [view EXCEPT ![g] = ReadOn(@)]
  /\ UNCHANGED <<serverVars, busy, linkVars, wire, fetches, shown>>

Send(g) ==
  /\ g \in busy /\ Complete(view[g])
  /\ \/ /\ served # "registered"
        /\ UNCHANGED <<wire, served, losses>>
     \/ /\ served = "registered" /\ Len(wire) < SendCap
        /\ wire' = Append(wire, view[g])
        /\ UNCHANGED <<served, losses>>
     \/ /\ served = "registered" /\ Len(wire) >= SendCap
        /\ Lose
        /\ served' = "dropped"
        /\ UNCHANGED wire
  /\ view' = [view EXCEPT ![g] = Nothing]
  /\ busy' = busy \ {g}
  /\ UNCHANGED <<serverVars, link, fetches, shown>>
-----------------------------------------------------------------------------
(* The connection.  ServeWS answers the upgrade before it registers with   *)
(* the hub, so the browser may find the socket open before that.           *)
Upgrade ==
  /\ running /\ link = "connecting" /\ served = "none"
  /\ served' = "upgraded"
  /\ UNCHANGED <<serverVars, senderVars, link, losses, wire, fetches, shown>>

Register ==
  /\ served = "upgraded"
  /\ served' = "registered"
  /\ UNCHANGED <<serverVars, senderVars, link, losses, wire, fetches, shown>>

(* ws.onopen fetches again what the page fetched when it was loaded.       *)
Unused == (1 .. MaxFetches) \ DOMAIN fetches

OnOpen ==
  /\ link = "connecting" /\ served # "none"
  /\ Unused # {}
  /\ link' = "open"
  /\ fetches' = With(fetches, CHOOSE i \in Unused : TRUE, Nothing)
  /\ UNCHANGED <<serverVars, senderVars, served, losses, wire, shown>>

\* renderOrderBook, renderAccount: what was shown before is gone.
Render(s) == shown' = s

\* ws.onmessage
OnMessage ==
  /\ link = "open" /\ wire # <<>>
  /\ Render(Head(wire))
  /\ wire' = Tail(wire)
  /\ UNCHANGED <<serverVars, senderVars, linkVars, fetches>>

(* ws.onclose, when the server has dropped the client, when it is gone, or *)
(* when the network fails: what is under way is lost, and a timer is set.  *)
GiveUp == "closed"                                   \* mutant: no setTimeout
OnceClosed == "waiting"

Close ==
  /\ link \in {"connecting", "open"}
  /\ link' = OnceClosed
  /\ served' = "none"
  /\ wire' = <<>>
  /\ UNCHANGED <<serverVars, senderVars, fetches, shown>>

OnClose ==
  /\ served = "dropped" \/ (served = "none" /\ ~running)
  /\ Close
  /\ UNCHANGED losses
NetworkFails == Close /\ Lose

\* The timer calls connectWS.
Retry ==
  /\ link = "waiting"
  /\ link' = "connecting"
  /\ UNCHANGED <<serverVars, senderVars, served, losses, wire, fetches, shown>>
-----------------------------------------------------------------------------
(* fetch: handleGetOrderBook and handleGetAccount read what a broadcast    *)
(* reads; the answer arrives later, or the fetch fails: nobody tries again.*)
FetchRead(i) ==
  /\ running /\ ~Complete(fetches[i])
  /\ fetches' = [fetches EXCEPT ![i] = ReadOn(@)]
  /\ UNCHANGED <<serverVars, senderVars, linkVars, wire, shown>>

FetchEnds(i) ==
  /\ \/ Complete(fetches[i]) /\ Render(fetches[i])
     \/ UNCHANGED shown
  /\ fetches' = [j \in DOMAIN fetches \ {i} |-> fetches[j]]
  /\ UNCHANGED <<serverVars, senderVars, linkVars, wire>>

(* main: on a signal Shutdown closes the listener, ListenAndServe returns, *)
(* and main with it, without waiting for anybody: goroutines, requests     *)
(* that are being answered, and all that is in memory are gone.            *)
Stop ==
  /\ running /\ Lose
  /\ running' = FALSE
  /\ busy' = {}
  /\ view' = [g \in Goroutines |-> Nothing]
  /\ served' = IF served = "none" THEN "none" ELSE "dropped"
  /\ fetches' = [i \in {j \in DOMAIN fetches : fetches[j] = Nothing \/ Complete(fetches[j])} |-> fetches[i]]
  /\ UNCHANGED <<watched, state, link, wire, shown>>

\* A new process begins with other contents in every part.
Start ==
  /\ ~running
  /\ running' = TRUE
  /\ state' = [p \in Parts |-> Later(state[p])]
  /\ UNCHANGED <<watched, senderVars, linkVars, wire, fetches, shown>>
-----------------------------------------------------------------------------
Broadcast(g) == TakeSnapshot(g) \/ Send(g)
Browser == OnOpen \/ OnMessage \/ OnClose \/ Retry
Fetching == \E i \in DOMAIN fetches : FetchRead(i) \/ FetchEnds(i)

Next ==
  \/ \E h \in Handlers : Handle(h)
  \/ Tick
  \/ \E g \in Goroutines : Broadcast(g)
  \/ Upgrade \/ Register
  \/ Browser \/ NetworkFails \/ Fetching
  \/ Stop \/ Start

Spec == Init /\ [][Next]_vars

\* The ticker ticks and goroutines run; those that wait to send are queued, so
\* none is passed over for ever; the browser reads what arrives, its timer fires,
\* a fetch ends, and somebody starts the server again.
FairSpec ==
  /\ Spec
  /\ SF_vars(Tick \/ Broadcast(Bot))
  /\ \A h \in Handlers : SF_vars(Broadcast(h))
  /\ WF_vars(Upgrade \/ Register)
  /\ WF_vars(Browser)
  /\ WF_vars(Fetching)
  /\ WF_vars(Start)
-----------------------------------------------------------------------------
TypeOK ==
  /\ watched \in {"book", "fills", "entries"}
  /\ running \in BOOLEAN
  /\ state \in [Parts -> Versions]
  /\ busy \subseteq Goroutines
  /\ view \in [Goroutines -> Snapshots]
  /\ served \in {"none", "upgraded", "registered", "dropped"}
  /\ wire \in Seq(Snapshots) /\ Len(wire) <= SendCap
  /\ link \in {"waiting", "connecting", "open"}
  /\ DOMAIN fetches \subseteq 1 .. MaxFetches
  /\ fetches \in [DOMAIN fetches -> Snapshots]
  /\ shown \in [Parts -> Versions]
  /\ losses \in 0 .. MaxLosses

(* Nobody holds a lock over all of the account that is sent.  Still the    *)
(* entries shown as active orders and history are never ahead of a balance *)
(* beside them: whatever was locked, paid or unlocked before an entry was  *)
(* made or taken out is in the balance shown.  This is about the entries   *)
(* and not about the filter over them: an order that somebody else fills   *)
(* is left out from the fill on, before its trade is settled.              *)
OrdersShownWithTheirFunds ==
  watched = "entries" => shown["orders"] <= shown["balance"]

(* README: "Real-time WebSocket Streaming Engine ... without polling".     *)
(* Snapshots are overtaken by each other and by the answers of fetch, lost *)
(* with a connection, a process or a request that ends early, and missed   *)
(* between the upgrade and the registration.  Still, whatever the server   *)
(* comes to hold: from some time on the terminal shows it, or something    *)
(* later, for good.                                                        *)
TerminalCatchesUp ==
  \A p \in {"book", "fills", "orders", "balance"}, v \in Versions \ {0} :
    []((p \in Parts /\ state[p] >= v) => <>[](p \in Parts /\ shown[p] >= v))
=============================================================================
