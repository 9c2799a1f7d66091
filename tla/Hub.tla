-------------------------------- MODULE Hub ---------------------------------
(***************************************************************************)
(* Package websocket: the hub's event loop (Run), the goroutines that call *)
(* BroadcastJSON, and for every connection ServeWS, readPump and writePump.*)
(*                                                                         *)
(* register and unregister are unbuffered channels: their send and their   *)
(* receive are one step, taken when Run is at its select.  Channels that   *)
(* are buffered keep their order; a message is the number of its place in  *)
(* the broadcast channel, so the channel holds dispatched+1 .. accepted.   *)
(* The network and the browser (external) may close a connection at any    *)
(* moment, and a browser may stop reading without closing it.              *)
(***************************************************************************)
EXTENDS Integers, Sequences, FiniteSets

CONSTANTS
  Clients,       \* the connections, each a Client object of its own
  Stalled,       \* those whose browser may stop reading for good
  Publishers,    \* the goroutines that call BroadcastJSON
  BroadcastCap,  \* capacity of Hub.broadcast (256 in the code)
  SendCap,       \* capacity of Client.send (256 in the code)
  MaxMessages    \* bound: calls of BroadcastJSON

ASSUME HubAssumption ==
  /\ Stalled \subseteq Clients
  /\ BroadcastCap \in Nat \ {0} /\ SendCap \in Nat \ {0}
  /\ MaxMessages \in Nat

VARIABLES
  clients,     \* Hub.clients
  calls,       \* how many calls of BroadcastJSON have begun
  sending,     \* the goroutines at "h.broadcast <- bytes"
  accepted,    \* how many messages the broadcast channel has taken
  dispatched,  \* how many Run has received from it
  targets,     \* the clients that Run's loop over the last one has still to serve
  serve,       \* where ServeWS is
  reader,      \* where readPump is
  writer,      \* where writePump is
  outgoing,    \* the message writePump is writing, 0 when none
  open,        \* is the connection open?
  send,        \* the buffer of Client.send
  closed,      \* has Client.send been closed?
  panicked,    \* has a goroutine sent on, or closed, a closed channel?
  since,       \* history: dispatched when the client was registered, -1 before
  delivered    \* history: what the client's browser has received

hubVars == <<clients, accepted, dispatched, targets, panicked, since>>
publisherVars == <<calls, sending>>
pumpVars == <<serve, reader, writer, outgoing, open, delivered>>
chanVars == <<send, closed>>
vars == <<hubVars, publisherVars, pumpVars, chanVars>>

Init ==
  /\ clients = {}
  /\ calls = 0
  /\ sending = {}
  /\ accepted = 0
  /\ dispatched = 0
  /\ targets = {}
  /\ serve = [c \in Clients |-> "none"]
  /\ reader = [c \in Clients |-> "off"]
  /\ writer = [c \in Clients |-> "off"]
  /\ outgoing = [c \in Clients |-> 0]
  /\ open = [c \in Clients |-> FALSE]
  /\ send = [c \in Clients |-> <<>>]
  /\ closed = [c \in Clients |-> FALSE]
  /\ panicked = FALSE
  /\ since = [c \in Clients |-> -1]
  /\ delivered = [c \in Clients |-> <<>>]
-----------------------------------------------------------------------------
(* BroadcastJSON: the send blocks while the channel is full.               *)
Broadcast(p) ==
  /\ p \notin sending
  /\ calls < MaxMessages
  /\ calls' = calls + 1
  /\ sending' = sending \cup {p}
  /\ UNCHANGED <<hubVars, pumpVars, chanVars>>

Accept(p) ==
  /\ p \in sending
  /\ accepted - dispatched < BroadcastCap
  /\ accepted' = accepted + 1
  /\ sending' = sending \ {p}
  /\ UNCHANGED <<clients, dispatched, targets, panicked, since, calls, pumpVars, chanVars>>
-----------------------------------------------------------------------------
(* Run.  It is at its select when it has no client left to serve.          *)
AtSelect == targets = {}

Register(c) ==
  /\ AtSelect
  /\ serve[c] = "registering"
  /\ clients' = clients \cup {c}
  /\ since' = [since EXCEPT ![c] = dispatched]
  /\ serve' = [serve EXCEPT ![c] = "starting"]
  /\ UNCHANGED <<accepted, dispatched, targets, panicked, publisherVars,
                 reader, writer, outgoing, open, delivered, chanVars>>

\* close(client.send): closing a closed channel panics.
CloseSend(c) ==
  /\ closed' = [closed EXCEPT ![c] = TRUE]
  /\ panicked' = (panicked \/ closed[c])

\* Is c still to be removed when it unregisters?
KnownAlways(c) == TRUE                                  \* mutant: no "if ok"
Known(c) == c \in clients

Unregister(c) ==
  /\ AtSelect
  /\ reader[c] = "leaving"
  /\ \/ Known(c) /\ clients' = clients \ {c} /\ CloseSend(c)
     \/ ~Known(c) /\ UNCHANGED <<clients, closed, panicked>>
  /\ reader' = [reader EXCEPT ![c] = "closing"]
  /\ UNCHANGED <<accepted, dispatched, targets, since, publisherVars,
                 serve, writer, outgoing, open, delivered, send>>

TakeMessage ==
  /\ AtSelect
  /\ dispatched < accepted
  /\ dispatched' = dispatched + 1
  /\ targets' = clients
  /\ UNCHANGED <<clients, accepted, panicked, since, publisherVars, pumpVars, chanVars>>

(* One turn of "for client := range h.clients": a send that would block    *)
(* drops the client instead.                                               *)
FitsOneMore(c) == Len(send[c]) <= SendCap               \* mutant
Fits(c) == Len(send[c]) < SendCap

DropMessage(c) == UNCHANGED <<clients, chanVars, panicked>>   \* mutant: keeps the client
WaitForRoom(c) == FALSE                                 \* mutant: the send blocks
DropClient(c) ==
  /\ CloseSend(c)
  /\ clients' = clients \ {c}
  /\ UNCHANGED send

Serve(c) ==
  /\ c \in targets
  /\ \/ /\ Fits(c)
        /\ send' = [send EXCEPT ![c] = Append(@, dispatched)]
        /\ panicked' = (panicked \/ closed[c])
        /\ UNCHANGED <<clients, closed>>
     \/ /\ ~Fits(c)
        /\ DropClient(c)
  /\ targets' = targets \ {c}
  /\ UNCHANGED <<accepted, dispatched, since, publisherVars, pumpVars>>
-----------------------------------------------------------------------------
(* ServeWS upgrades the connection, waits for the hub, starts the pumps.   *)
Upgrade(c) ==
  /\ serve[c] = "none"
  /\ serve' = [serve EXCEPT ![c] = "registering"]
  /\ open' = [open EXCEPT ![c] = TRUE]
  /\ UNCHANGED <<hubVars, publisherVars, reader, writer, outgoing, delivered, chanVars>>

StartPumps(c) ==
  /\ serve[c] = "starting"
  /\ serve' = [serve EXCEPT ![c] = "done"]
  /\ writer' = [writer EXCEPT ![c] = "ready"]
  /\ reader' = [reader EXCEPT ![c] = "reading"]
  /\ UNCHANGED <<hubVars, publisherVars, outgoing, open, delivered, chanVars>>

(* readPump reads until the connection fails, unregisters, and closes it.  *)
ReadFails(c) ==
  /\ reader[c] = "reading"
  /\ ~open[c]
  /\ reader' = [reader EXCEPT ![c] = "leaving"]
  /\ UNCHANGED <<hubVars, publisherVars, serve, writer, outgoing, open, delivered, chanVars>>

ReaderCloses(c) ==
  /\ reader[c] = "closing"
  /\ reader' = [reader EXCEPT ![c] = "done"]
  /\ open' = [open EXCEPT ![c] = FALSE]
  /\ UNCHANGED <<hubVars, publisherVars, serve, writer, outgoing, delivered, chanVars>>

(* writePump ranges over send: what is buffered when it is closed is still *)
(* written; then, or when a write fails, the connection is closed.         *)
WriteNext(c) ==
  /\ writer[c] = "ready"
  /\ send[c] # <<>>
  /\ outgoing' = [outgoing EXCEPT ![c] = Head(send[c])]
  /\ send' = [send EXCEPT ![c] = Tail(@)]
  /\ writer' = [writer EXCEPT ![c] = "writing"]
  /\ UNCHANGED <<hubVars, publisherVars, serve, reader, open, delivered, closed>>

WriteDone(c) ==
  /\ writer[c] = "writing"
  /\ open[c]
  /\ delivered' = [delivered EXCEPT ![c] = Append(@, outgoing[c])]
  /\ outgoing' = [outgoing EXCEPT ![c] = 0]
  /\ writer' = [writer EXCEPT ![c] = "ready"]
  /\ UNCHANGED <<hubVars, publisherVars, serve, reader, open, chanVars>>

WriterEnds(c) ==
  /\ \/ writer[c] = "writing" /\ ~open[c]
     \/ writer[c] = "ready" /\ send[c] = <<>> /\ closed[c]
  /\ writer' = [writer EXCEPT ![c] = "done"]
  /\ outgoing' = [outgoing EXCEPT ![c] = 0]
  /\ open' = [open EXCEPT ![c] = FALSE]
  /\ UNCHANGED <<hubVars, publisherVars, serve, reader, delivered, chanVars>>

(* External: the browser or the network ends the connection.               *)
Disconnect(c) ==
  /\ open[c]
  /\ open' = [open EXCEPT ![c] = FALSE]
  /\ UNCHANGED <<hubVars, publisherVars, serve, reader, writer, outgoing, delivered, chanVars>>
-----------------------------------------------------------------------------
Run == TakeMessage \/ \E c \in Clients : Register(c) \/ Unregister(c) \/ Serve(c)
Connection(c) ==
  \/ Upgrade(c) \/ StartPumps(c) \/ ReadFails(c) \/ ReaderCloses(c)
  \/ WriteNext(c) \/ WriteDone(c) \/ WriterEnds(c) \/ Disconnect(c)

Next ==
  \/ Run
  \/ \E p \in Publishers : Broadcast(p) \/ Accept(p)
  \/ \E c \in Clients : Connection(c)

Spec == Init /\ [][Next]_vars

\* The goroutines of the server run; a write to a browser that reads ends.
FairSpec ==
  /\ Spec
  /\ WF_vars(Run)
  /\ \A p \in Publishers : WF_vars(Accept(p))
  /\ \A c \in Clients : /\ WF_vars(StartPumps(c))
                       /\ WF_vars(ReadFails(c) \/ ReaderCloses(c))
                       /\ WF_vars(WriteNext(c) \/ WriterEnds(c))
  /\ \A c \in Clients \ Stalled : WF_vars(WriteDone(c))
-----------------------------------------------------------------------------
TypeOK ==
  /\ clients \subseteq Clients
  /\ calls \in 0 .. MaxMessages
  /\ sending \subseteq Publishers
  /\ accepted \in 0 .. calls
  /\ dispatched \in 0 .. accepted
  /\ accepted - dispatched <= BroadcastCap
  /\ targets \subseteq clients
  /\ serve \in [Clients -> {"none", "registering", "starting", "done"}]
  /\ reader \in [Clients -> {"off", "reading", "leaving", "closing", "done"}]
  /\ writer \in [Clients -> {"off", "ready", "writing", "done"}]
  /\ outgoing \in [Clients -> 0 .. dispatched]
  /\ open \in [Clients -> BOOLEAN]
  /\ send \in [Clients -> Seq(1 .. dispatched)]
  /\ \A c \in Clients : Len(send[c]) <= SendCap
  /\ closed \in [Clients -> BOOLEAN]
  /\ panicked \in BOOLEAN
  /\ since \in [Clients -> -1 .. dispatched]
  /\ delivered \in [Clients -> Seq(1 .. dispatched)]

(* However a slow client that is dropped, a failing write and readPump's   *)
(* unregister race, no channel is closed twice and nothing is sent on a    *)
(* closed channel: either would panic and take the server down.            *)
NoPanic == ~panicked

FeedPromise == INSTANCE Feed WITH log <- dispatched, joined <- since, received <- delivered

(* Every browser sees a contiguous part of the stream in order, whatever   *)
(* registers, leaves, fails or is dropped: the hub never leaves a gap in   *)
(* what a connection receives, it cuts the connection instead.             *)
ImplementsFeed == FeedPromise!Spec

(* BroadcastJSON returns although browsers stop reading: the handlers and  *)
(* the market maker are never held up by a client.                         *)
BroadcastReturns == \A p \in Publishers : p \in sending ~> p \notin sending

(* A browser that keeps reading gets every message sent after it was       *)
(* registered, or loses its connection and so learns that it missed some.  *)
MessagesArriveOrCut ==
  \A c \in Clients \ Stalled, m \in 1 .. MaxMessages :
    since[c] >= 0 /\ since[c] < m /\ m <= dispatched ~>
      ~open[c] \/ \E i \in DOMAIN delivered[c] : delivered[c][i] = m
=============================================================================
