----------------------------- MODULE HubProofs -----------------------------
(***************************************************************************)
(* The hub never panics and never leaves a gap in what a browser receives, *)
(* for any number of connections and publishers, any capacities and any    *)
(* number of messages.                                                     *)
(*                                                                         *)
(* Neither is inductive.  NoPanic needs to know that send is open as long  *)
(* as the client is in the map, and that a client registers once.  That a  *)
(* browser receives a contiguous part of the stream follows from where its *)
(* messages are on their way: delivered, then the one being written, then  *)
(* the buffer are consecutive, and for a client in the map they end at the *)
(* message Run has dispatched last.                                        *)
(***************************************************************************)
EXTENDS Hub, TLAPS, FiniteSetTheorems, SequenceTheorems

\* Every call of BroadcastJSON has been accepted or is being sent.
CallsCounted ==
  /\ IsFiniteSet(sending)
  /\ calls = accepted + Cardinality(sending)

\* The loop over the clients runs on behalf of a message.
LoopHasMessage == targets # {} => dispatched > 0

\* Before the hub has taken c nothing has happened to it, and it is taken once.
Joined(c) ==
  IF serve[c] \in {"none", "registering"}
  THEN /\ c \notin clients /\ ~closed[c]
       /\ since[c] = -1 /\ send[c] = <<>> /\ delivered[c] = <<>>
  ELSE since[c] >= 0

PumpsFollow(c) ==
  /\ reader[c] # "off" \/ writer[c] # "off" => serve[c] = "done"
  /\ outgoing[c] # 0 <=> writer[c] = "writing"

\* How many messages writePump has taken out of send.
Taken(c) == Len(delivered[c]) + IF writer[c] = "writing" THEN 1 ELSE 0

NoGap(c) ==
  since[c] >= 0 /\ writer[c] # "done" =>
    /\ writer[c] = "writing" => outgoing[c] = since[c] + Taken(c)
    /\ \A i \in 1 .. Len(send[c]) : send[c][i] = since[c] + Taken(c) + i
    /\ c \in clients =>
         since[c] + Taken(c) + Len(send[c]) = dispatched - IF c \in targets THEN 1 ELSE 0

ClientOK(c) ==
  /\ c \in clients => ~closed[c]
  /\ Joined(c)
  /\ PumpsFollow(c)
  /\ NoGap(c)

(* The inductive invariant: what Hub.clients, the channels and the pumps   *)
(* say of one another between any two steps.                               *)
HubInv ==
  /\ TypeOK
  /\ CallsCounted
  /\ LoopHasMessage
  /\ ~panicked
  /\ \A c \in Clients : ClientOK(c)
-----------------------------------------------------------------------------
LEMMA HubInitInv == Init => HubInv
<1> SUFFICES ASSUME Init PROVE HubInv
  OBVIOUS
<1>1. TypeOK
  <2>1. /\ send \in [Clients -> Seq(1 .. dispatched)]
        /\ delivered \in [Clients -> Seq(1 .. dispatched)]
        /\ \A c \in Clients : send[c] = <<>>
    BY EmptySeq DEF Init
  <2>2. \A c \in Clients : Len(send[c]) <= SendCap
    BY <2>1, EmptySeq, HubAssumption
  <2>3. /\ serve \in [Clients -> {"none", "registering", "starting", "done"}]
        /\ reader \in [Clients -> {"off", "reading", "leaving", "closing", "done"}]
        /\ writer \in [Clients -> {"off", "ready", "writing", "done"}]
        /\ open \in [Clients -> BOOLEAN] /\ closed \in [Clients -> BOOLEAN]
        /\ panicked \in BOOLEAN
        /\ clients \subseteq Clients /\ sending \subseteq Publishers /\ targets \subseteq clients
    BY DEF Init
  <2>4. /\ outgoing \in [Clients -> 0 .. dispatched]
        /\ since \in [Clients -> -1 .. dispatched]
        /\ calls \in 0 .. MaxMessages /\ accepted \in 0 .. calls /\ dispatched \in 0 .. accepted
        /\ accepted - dispatched <= BroadcastCap
    BY HubAssumption DEF Init
  <2> QED
    BY <2>1, <2>2, <2>3, <2>4 DEF TypeOK
<1>2. CallsCounted
  BY FS_EmptySet DEF Init, CallsCounted
<1>3. LoopHasMessage /\ ~panicked
  BY DEF Init, LoopHasMessage
<1>4. ASSUME NEW c \in Clients PROVE ClientOK(c)
  BY <1>4 DEF Init, ClientOK, Joined, PumpsFollow, NoGap
<1> QED
  BY <1>1, <1>2, <1>3, <1>4 DEF HubInv

\* A client nothing has been done to.
Untouched(c) ==
  /\ c \in clients' <=> c \in clients
  /\ c \in targets' <=> c \in targets
  /\ dispatched' = dispatched
  /\ serve'[c] = serve[c] /\ reader'[c] = reader[c] /\ writer'[c] = writer[c]
  /\ outgoing'[c] = outgoing[c] /\ send'[c] = send[c] /\ closed'[c] = closed[c]
  /\ since'[c] = since[c] /\ delivered'[c] = delivered[c]

(* What holds of a client a step does not touch still holds after it.      *)
LEMMA UntouchedOK ==
  ASSUME NEW c, ClientOK(c), Untouched(c)
  PROVE  ClientOK(c)'
BY DEF ClientOK, Untouched, Joined, PumpsFollow, NoGap, Taken

(* BroadcastJSON: calls, accepted and the senders stay in step.            *)
LEMMA PublisherInv ==
  ASSUME HubInv, NEW p \in Publishers, Broadcast(p) \/ Accept(p)
  PROVE  HubInv'
<1> USE DEF HubInv
<1>1. IsFiniteSet(sending) /\ Cardinality(sending) \in Nat
  BY FS_CardinalityType DEF CallsCounted
<1>2. calls \in Nat /\ accepted \in Nat /\ dispatched \in Nat /\ calls <= MaxMessages /\ MaxMessages \in Nat
  BY HubAssumption DEF TypeOK
<1>3. CallsCounted'
  <2>1. CASE Broadcast(p)
    <3>1. Cardinality(sending \cup {p}) = Cardinality(sending) + 1 /\ IsFiniteSet(sending \cup {p})
      BY <1>1, <2>1, FS_AddElement DEF Broadcast
    <3> QED
      BY <3>1, <1>1, <1>2, <2>1 DEF Broadcast, CallsCounted, hubVars
  <2>2. CASE Accept(p)
    <3>1. Cardinality(sending \ {p}) = Cardinality(sending) - 1 /\ IsFiniteSet(sending \ {p})
      BY <1>1, <2>2, FS_RemoveElement DEF Accept
    <3> QED
      BY <3>1, <1>1, <1>2, <2>2 DEF Accept, CallsCounted
  <2> QED
    BY <2>1, <2>2
<1>4. CASE Broadcast(p)
  <2>1. TypeOK'
    BY <1>4, <1>2 DEF TypeOK, Broadcast, hubVars, pumpVars, chanVars
  <2>2. ASSUME NEW c \in Clients PROVE ClientOK(c)'
    BY <1>4, UntouchedOK DEF Broadcast, hubVars, pumpVars, chanVars, Untouched
  <2> QED
    BY <2>1, <2>2, <1>3, <1>4 DEF Broadcast, hubVars, LoopHasMessage
<1>5. CASE Accept(p)
  <2>1. accepted < calls
    <3>1. Cardinality(sending) # 0
      BY <1>1, <1>5, FS_EmptySet DEF Accept
    <3> QED
      BY <3>1, <1>1, <1>2 DEF CallsCounted
  <2>2. TypeOK'
    BY <1>5, <1>2, <2>1, HubAssumption DEF TypeOK, Accept, pumpVars, chanVars
  <2>3. ASSUME NEW c \in Clients PROVE ClientOK(c)'
    BY <1>5, UntouchedOK DEF Accept, pumpVars, chanVars, Untouched
  <2> QED
    BY <2>2, <2>3, <1>3, <1>5 DEF Accept, LoopHasMessage
<1> QED
  BY <1>4, <1>5
-----------------------------------------------------------------------------

(* A client is taken into the map once, at the end of the stream so far.   *)
LEMMA RegisterInv ==
  ASSUME HubInv, NEW c \in Clients, Register(c)
  PROVE  HubInv'
<1> USE DEF HubInv
<1>1. TypeOK'
  BY DEF TypeOK, Register, publisherVars, chanVars, AtSelect
<1>2. CallsCounted' /\ LoopHasMessage' /\ ~panicked'
  BY DEF CallsCounted, LoopHasMessage, Register, publisherVars, chanVars, AtSelect
<1>3. ClientOK(c)'
  <2>1. since[c] = -1 /\ ~closed[c] /\ send[c] = <<>> /\ delivered[c] = <<>> /\ writer[c] = "off"
    BY DEF TypeOK, ClientOK, Joined, PumpsFollow, Register
  <2>2. send[c]' = <<>> /\ delivered[c]' = <<>> /\ writer[c]' = "off" /\ c \notin targets'
    BY <2>1 DEF Register, chanVars, AtSelect
  <2>3. since[c]' = dispatched /\ dispatched' = dispatched /\ dispatched \in Nat
    BY DEF TypeOK, Register
  <2>4. Joined(c)'
    BY <2>3 DEF Joined, Register, TypeOK
  <2>5. NoGap(c)'
    BY <2>2, <2>3, EmptySeq DEF NoGap, Taken
  <2> QED
    BY <2>1, <2>4, <2>5 DEF ClientOK, PumpsFollow, TypeOK, Register, chanVars
<1>4. ASSUME NEW d \in Clients \ {c} PROVE ClientOK(d)'
  BY <1>4, UntouchedOK DEF TypeOK, Untouched, Register, publisherVars, chanVars, AtSelect
<1> QED
  BY <1>1, <1>2, <1>3, <1>4

(* ServeWS has upgraded the connection and waits for the hub.              *)
LEMMA UpgradeInv ==
  ASSUME HubInv, NEW c \in Clients, Upgrade(c)
  PROVE  HubInv'
<1> USE DEF HubInv
<1>1. TypeOK'
  BY DEF TypeOK, Upgrade, hubVars, publisherVars, chanVars
<1>2. CallsCounted' /\ LoopHasMessage' /\ ~panicked'
  BY DEF CallsCounted, LoopHasMessage, Upgrade, hubVars, publisherVars, chanVars
<1>3. ClientOK(c)'
  BY DEF TypeOK, ClientOK, Joined, PumpsFollow, NoGap, Taken, Upgrade, hubVars, publisherVars, chanVars
<1>4. ASSUME NEW d \in Clients \ {c} PROVE ClientOK(d)'
  BY <1>4, UntouchedOK DEF TypeOK, Untouched, Upgrade, hubVars, publisherVars, chanVars
<1> QED
  BY <1>1, <1>2, <1>3, <1>4

(* The pumps start when the client is registered.                          *)
LEMMA StartPumpsInv ==
  ASSUME HubInv, NEW c \in Clients, StartPumps(c)
  PROVE  HubInv'
<1> USE DEF HubInv
<1>1. TypeOK'
  BY DEF TypeOK, StartPumps, hubVars, publisherVars, chanVars
<1>2. CallsCounted' /\ LoopHasMessage' /\ ~panicked'
  BY DEF CallsCounted, LoopHasMessage, StartPumps, hubVars, publisherVars, chanVars
<1>3. ClientOK(c)'
  BY DEF TypeOK, ClientOK, Joined, PumpsFollow, NoGap, Taken, StartPumps, hubVars, publisherVars, chanVars
<1>4. ASSUME NEW d \in Clients \ {c} PROVE ClientOK(d)'
  BY <1>4, UntouchedOK DEF TypeOK, Untouched, StartPumps, hubVars, publisherVars, chanVars
<1> QED
  BY <1>1, <1>2, <1>3, <1>4

(* readPump notices that the connection is closed.                         *)
LEMMA ReadFailsInv ==
  ASSUME HubInv, NEW c \in Clients, ReadFails(c)
  PROVE  HubInv'
<1> USE DEF HubInv
<1>1. TypeOK'
  BY DEF TypeOK, ReadFails, hubVars, publisherVars, chanVars
<1>2. CallsCounted' /\ LoopHasMessage' /\ ~panicked'
  BY DEF CallsCounted, LoopHasMessage, ReadFails, hubVars, publisherVars, chanVars
<1>3. ClientOK(c)'
  BY DEF TypeOK, ClientOK, Joined, PumpsFollow, NoGap, Taken, ReadFails, hubVars, publisherVars, chanVars
<1>4. ASSUME NEW d \in Clients \ {c} PROVE ClientOK(d)'
  BY <1>4, UntouchedOK DEF TypeOK, Untouched, ReadFails, hubVars, publisherVars, chanVars
<1> QED
  BY <1>1, <1>2, <1>3, <1>4

(* readPump closes the connection.                                         *)
LEMMA ReaderClosesInv ==
  ASSUME HubInv, NEW c \in Clients, ReaderCloses(c)
  PROVE  HubInv'
<1> USE DEF HubInv
<1>1. TypeOK'
  BY DEF TypeOK, ReaderCloses, hubVars, publisherVars, chanVars
<1>2. CallsCounted' /\ LoopHasMessage' /\ ~panicked'
  BY DEF CallsCounted, LoopHasMessage, ReaderCloses, hubVars, publisherVars, chanVars
<1>3. ClientOK(c)'
  BY DEF TypeOK, ClientOK, Joined, PumpsFollow, NoGap, Taken, ReaderCloses, hubVars, publisherVars, chanVars
<1>4. ASSUME NEW d \in Clients \ {c} PROVE ClientOK(d)'
  BY <1>4, UntouchedOK DEF TypeOK, Untouched, ReaderCloses, hubVars, publisherVars, chanVars
<1> QED
  BY <1>1, <1>2, <1>3, <1>4

(* writePump ends; what is left in send reaches nobody.                    *)
LEMMA WriterEndsInv ==
  ASSUME HubInv, NEW c \in Clients, WriterEnds(c)
  PROVE  HubInv'
<1> USE DEF HubInv
<1>1. TypeOK'
  BY DEF TypeOK, WriterEnds, hubVars, publisherVars, chanVars
<1>2. CallsCounted' /\ LoopHasMessage' /\ ~panicked'
  BY DEF CallsCounted, LoopHasMessage, WriterEnds, hubVars, publisherVars, chanVars
<1>3. ClientOK(c)'
  BY DEF TypeOK, ClientOK, Joined, PumpsFollow, NoGap, Taken, WriterEnds, hubVars, publisherVars, chanVars
<1>4. ASSUME NEW d \in Clients \ {c} PROVE ClientOK(d)'
  BY <1>4, UntouchedOK DEF TypeOK, Untouched, WriterEnds, hubVars, publisherVars, chanVars
<1> QED
  BY <1>1, <1>2, <1>3, <1>4

(* The browser or the network closes the connection.                       *)
LEMMA DisconnectInv ==
  ASSUME HubInv, NEW c \in Clients, Disconnect(c)
  PROVE  HubInv'
<1> USE DEF HubInv
<1>1. TypeOK'
  BY DEF TypeOK, Disconnect, hubVars, publisherVars, chanVars
<1>2. CallsCounted' /\ LoopHasMessage' /\ ~panicked'
  BY DEF CallsCounted, LoopHasMessage, Disconnect, hubVars, publisherVars, chanVars
<1>3. ClientOK(c)'
  BY DEF TypeOK, ClientOK, Joined, PumpsFollow, NoGap, Taken, Disconnect, hubVars, publisherVars, chanVars
<1>4. ASSUME NEW d \in Clients \ {c} PROVE ClientOK(d)'
  BY <1>4, UntouchedOK DEF TypeOK, Untouched, Disconnect, hubVars, publisherVars, chanVars
<1> QED
  BY <1>1, <1>2, <1>3, <1>4

(* writePump takes the oldest message out of send.                         *)
LEMMA WriteNextInv ==
  ASSUME HubInv, NEW c \in Clients, WriteNext(c)
  PROVE  HubInv'
<1> USE DEF HubInv
<1>1. TypeOK'
  <2>1. send[c] \in Seq(1 .. dispatched) /\ send[c] # <<>> /\ Len(send[c]) <= SendCap
    BY DEF TypeOK, WriteNext
  <2>2. /\ Head(send[c]) \in 1 .. dispatched
        /\ Tail(send[c]) \in Seq(1 .. dispatched) /\ Len(Tail(send[c])) = Len(send[c]) - 1
    BY <2>1, HeadTailProperties
  <2>3. Len(send[c]) \in Nat
    BY <2>1, LenProperties
  <2>4. send' \in [Clients -> Seq(1 .. dispatched)] /\ outgoing' \in [Clients -> 0 .. dispatched]
    BY <2>2 DEF TypeOK, WriteNext
  <2>5. \A d \in Clients : Len(send'[d]) <= SendCap
    BY <2>1, <2>2, <2>3, HubAssumption DEF TypeOK, WriteNext
  <2> QED
    BY <2>4, <2>5 DEF TypeOK, WriteNext, hubVars, publisherVars
<1>2. CallsCounted' /\ LoopHasMessage' /\ ~panicked'
  BY DEF CallsCounted, LoopHasMessage, WriteNext, hubVars, publisherVars
<1>3. ClientOK(c)'
  <2> DEFINE s == send[c]
  <2>1. s \in Seq(1 .. dispatched) /\ s # <<>> /\ dispatched \in Nat
    BY DEF TypeOK, WriteNext
  <2>2. /\ Head(s) = s[1] /\ Head(s) \in 1 .. dispatched
        /\ Len(Tail(s)) = Len(s) - 1 /\ \A i \in 1 .. Len(Tail(s)) : Tail(s)[i] = s[i + 1]
    BY <2>1, HeadTailProperties
  <2>3. Len(s) \in Nat \ {0}
    BY <2>1, EmptySeq
  <2>4. /\ send[c]' = Tail(s) /\ outgoing[c]' = Head(s)
        /\ writer[c] = "ready" /\ writer[c]' = "writing"
        /\ delivered[c]' = delivered[c] /\ since[c]' = since[c]
        /\ dispatched' = dispatched /\ targets' = targets /\ clients' = clients
    BY DEF TypeOK, WriteNext, hubVars
  <2>5. Len(delivered[c]) \in Nat /\ since[c] \in Int
    BY LenProperties DEF TypeOK
  <2>6. Taken(c) = Len(delivered[c]) /\ Taken(c)' = Len(delivered[c]) + 1
    BY <2>4, <2>5 DEF Taken
  <2> HIDE DEF s
  <2>7. ASSUME since[c] >= 0 PROVE NoGap(c)'
    <3>1. /\ \A i \in 1 .. Len(s) : s[i] = since[c] + Taken(c) + i
          /\ c \in clients => since[c] + Taken(c) + Len(s) = dispatched - IF c \in targets THEN 1 ELSE 0
      BY <2>4, <2>7 DEF ClientOK, NoGap, s
    <3>2. Head(s) = since[c] + Taken(c)'
      BY <3>1, <2>2, <2>3, <2>5, <2>6
    <3>3. ASSUME NEW i \in 1 .. Len(Tail(s)) PROVE Tail(s)[i] = since[c] + Taken(c)' + i
      <4>1. i + 1 \in 1 .. Len(s) /\ i \in Nat /\ Tail(s)[i] = s[i + 1]
        BY <2>2, <2>3
      <4>2. s[i + 1] = since[c] + Taken(c) + (i + 1)
        BY <3>1, <4>1
      <4>3. since[c] + Taken(c) + (i + 1) = since[c] + Taken(c)' + i
        BY <4>1, <2>5, <2>6
      <4> QED
        BY <4>1, <4>2, <4>3
    <3>4. c \in clients =>
            since[c] + Taken(c)' + Len(Tail(s)) = dispatched - IF c \in targets THEN 1 ELSE 0
      BY <3>1, <2>2, <2>3, <2>5, <2>6
    <3> QED
      BY <3>2, <3>3, <3>4, <2>4 DEF NoGap
  <2>8. NoGap(c)'
    BY <2>7, <2>4 DEF NoGap
  <2>9. PumpsFollow(c)' /\ Joined(c)'
    BY <2>1, <2>2, <2>4 DEF ClientOK, PumpsFollow, Joined, TypeOK, WriteNext, hubVars
  <2> QED
    BY <2>4, <2>8, <2>9 DEF ClientOK, WriteNext
<1>4. ASSUME NEW d \in Clients \ {c} PROVE ClientOK(d)'
  BY <1>4, UntouchedOK DEF TypeOK, Untouched, WriteNext, hubVars, publisherVars
<1> QED
  BY <1>1, <1>2, <1>3, <1>4

(* A message reaches the browser: the one after those it has received.     *)
LEMMA WriteDoneInv ==
  ASSUME HubInv, NEW c \in Clients, WriteDone(c)
  PROVE  HubInv'
<1> USE DEF HubInv
<1>1. TypeOK'
  <2>1. outgoing[c] \in 1 .. dispatched /\ delivered[c] \in Seq(1 .. dispatched)
    BY DEF TypeOK, ClientOK, PumpsFollow, WriteDone
  <2>2. Append(delivered[c], outgoing[c]) \in Seq(1 .. dispatched)
    BY <2>1, AppendProperties
  <2> QED
    BY <2>2 DEF TypeOK, WriteDone, hubVars, publisherVars, chanVars
<1>2. CallsCounted' /\ LoopHasMessage' /\ ~panicked'
  BY DEF CallsCounted, LoopHasMessage, WriteDone, hubVars, publisherVars, chanVars
<1>3. ClientOK(c)'
  <2>1. /\ outgoing[c] \in 1 .. dispatched /\ delivered[c] \in Seq(1 .. dispatched)
        /\ writer[c] = "writing" /\ writer[c]' = "ready" /\ outgoing[c]' = 0
        /\ delivered[c]' = Append(delivered[c], outgoing[c])
        /\ send' = send /\ closed' = closed /\ since' = since /\ serve' = serve
        /\ dispatched' = dispatched /\ targets' = targets /\ clients' = clients
    BY DEF TypeOK, ClientOK, PumpsFollow, WriteDone, hubVars, chanVars
  <2>2. Len(delivered[c]') = Len(delivered[c]) + 1 /\ Len(delivered[c]) \in Nat
    BY <2>1, AppendProperties, LenProperties
  <2>3. Taken(c)' = Taken(c)
    BY <2>1, <2>2 DEF Taken
  <2>4. NoGap(c)'
    BY <2>1, <2>3 DEF ClientOK, NoGap
  <2>5. PumpsFollow(c)' /\ Joined(c)'
    BY <2>1 DEF ClientOK, PumpsFollow, Joined, WriteDone
  <2> QED
    BY <2>1, <2>4, <2>5 DEF ClientOK
<1>4. ASSUME NEW d \in Clients \ {c} PROVE ClientOK(d)'
  BY <1>4, UntouchedOK DEF TypeOK, Untouched, WriteDone, hubVars, publisherVars, chanVars
<1> QED
  BY <1>1, <1>2, <1>3, <1>4

(* The hub takes the client out of the map and closes send, unless it has  *)
(* dropped the client before.                                              *)
LEMMA UnregisterInv ==
  ASSUME HubInv, NEW c \in Clients, Unregister(c)
  PROVE  HubInv'
<1> USE DEF HubInv
<1>1. TypeOK'
  BY DEF TypeOK, Unregister, publisherVars, AtSelect, Known, CloseSend
<1>2. CallsCounted' /\ LoopHasMessage' /\ ~panicked'
  <2>1. ~panicked /\ (c \in clients => ~closed[c])
    BY DEF ClientOK
  <2>2. ~panicked'
    BY <2>1, Zenon DEF Unregister, Known, CloseSend
  <2>3. CallsCounted' /\ LoopHasMessage'
    BY DEF CallsCounted, LoopHasMessage, Unregister, publisherVars
  <2> QED
    BY <2>2, <2>3
<1>3. ClientOK(c)'
  BY DEF TypeOK, ClientOK, Joined, PumpsFollow, NoGap, Taken, Unregister, publisherVars, AtSelect, Known, CloseSend
<1>4. ASSUME NEW d \in Clients \ {c} PROVE ClientOK(d)'
  BY <1>4, UntouchedOK DEF TypeOK, Untouched, Unregister, publisherVars, AtSelect, Known, CloseSend
<1> QED
  BY <1>1, <1>2, <1>3, <1>4

(* One turn of the loop over the clients: the client stays and its buffer  *)
(* ends at the message dispatched last, or it is dropped and send is closed.*)
LEMMA ServeInv ==
  ASSUME HubInv, NEW c \in Clients, Serve(c)
  PROVE  HubInv'
<1> USE DEF HubInv
<1>1. TypeOK'
  <2>1. /\ c \in clients /\ c \in Clients /\ clients' \subseteq clients /\ targets' = targets \ {c}
        /\ send[c] \in Seq(1 .. dispatched) /\ dispatched \in 1 .. dispatched
    BY DEF TypeOK, Serve, DropClient, LoopHasMessage
  <2>2. /\ Append(send[c], dispatched) \in Seq(1 .. dispatched)
        /\ Len(Append(send[c], dispatched)) = Len(send[c]) + 1 /\ Len(send[c]) \in Nat
    BY <2>1, AppendProperties, LenProperties
  <2>3. CASE Fits(c) /\ send' = [send EXCEPT ![c] = Append(@, dispatched)] /\ UNCHANGED <<clients, closed>>
    <3>1. send' \in [Clients -> Seq(1 .. dispatched)]
      BY <2>2, <2>3 DEF TypeOK
    <3>2. \A d \in Clients : Len(send'[d]) <= SendCap
      BY <2>2, <2>3, HubAssumption DEF TypeOK, Fits
    <3> QED
      BY <2>1, <2>3, <3>1, <3>2 DEF TypeOK, Serve, publisherVars, pumpVars
  <2>4. CASE DropClient(c)
    BY <2>1, <2>4 DEF TypeOK, Serve, DropClient, CloseSend, publisherVars, pumpVars
  <2> QED
    BY <2>3, <2>4 DEF Serve
<1>2. CallsCounted' /\ LoopHasMessage' /\ ~panicked'
  <2>1. ~panicked /\ ~closed[c]
    BY DEF ClientOK, TypeOK, Serve
  <2>2. ~panicked'
    BY <2>1, Zenon DEF Serve, DropClient, CloseSend
  <2>3. CallsCounted' /\ LoopHasMessage'
    BY DEF CallsCounted, LoopHasMessage, Serve, publisherVars
  <2> QED
    BY <2>2, <2>3
<1>3. ClientOK(c)'
  <2>1. /\ c \in targets /\ c \in clients /\ send[c] \in Seq(1 .. dispatched) /\ dispatched \in 1 .. dispatched
        /\ targets' = targets \ {c} /\ dispatched' = dispatched /\ since' = since
        /\ serve' = serve /\ reader' = reader /\ writer' = writer
        /\ outgoing' = outgoing /\ delivered' = delivered
    BY DEF TypeOK, Serve, LoopHasMessage, pumpVars
  <2>2. serve[c] \notin {"none", "registering"} /\ since[c] >= 0 /\ ~closed[c]
    BY <2>1 DEF ClientOK, Joined
  <2>3. PumpsFollow(c)' /\ Joined(c)' /\ Taken(c)' = Taken(c)
    BY <2>1, <2>2 DEF ClientOK, PumpsFollow, Joined, Taken
  <2>4. CASE send' = [send EXCEPT ![c] = Append(@, dispatched)] /\ UNCHANGED <<clients, closed>>
    <3> DEFINE s == send[c]
    <3>1. /\ Len(Append(s, dispatched)) = Len(s) + 1 /\ Len(s) \in Nat
          /\ \A i \in 1 .. Len(s) : Append(s, dispatched)[i] = s[i]
          /\ Append(s, dispatched)[Len(s) + 1] = dispatched
      BY <2>1, AppendProperties, LenProperties
    <3>2. send[c]' = Append(s, dispatched)
      BY <2>4 DEF TypeOK
    <3>3. Taken(c) \in Nat /\ since[c] \in Nat
      BY <2>2, LenProperties DEF TypeOK, Taken
    <3> HIDE DEF s
    <3>4. ASSUME writer[c] # "done" PROVE NoGap(c)'
      <4>1. /\ writer[c] = "writing" => outgoing[c] = since[c] + Taken(c)
            /\ \A i \in 1 .. Len(s) : s[i] = since[c] + Taken(c) + i
            /\ since[c] + Taken(c) + Len(s) = dispatched - 1
        BY <2>1, <2>2, <3>4 DEF ClientOK, NoGap, s
      <4>2. since[c] + Taken(c) + Len(Append(s, dispatched)) = dispatched
        BY <4>1, <3>1, <3>3, <2>1
      <4>3. ASSUME NEW i \in 1 .. Len(Append(s, dispatched))
            PROVE  Append(s, dispatched)[i] = since[c] + Taken(c) + i
        <5>1. CASE i \in 1 .. Len(s)
          BY <5>1, <4>1, <3>1
        <5>2. CASE i = Len(Append(s, dispatched))
          <6>1. Append(s, dispatched)[i] = dispatched
            BY <5>2, <3>1
          <6> QED
            BY <6>1, <5>2, <4>2
        <5> QED
          BY <5>1, <5>2, <3>1
      <4> QED
        BY <4>1, <4>2, <4>3, <3>2, <2>1, <2>3 DEF NoGap
    <3>5. NoGap(c)'
      BY <3>4, <2>1 DEF NoGap
    <3> QED
      BY <3>5, <2>2, <2>3, <2>4 DEF ClientOK
  <2>5. CASE DropClient(c)
    <3>1. c \notin clients' /\ send' = send
      BY <2>5 DEF DropClient
    <3>2. NoGap(c)'
      BY <3>1, <2>1, <2>3 DEF ClientOK, NoGap
    <3> QED
      BY <3>1, <3>2, <2>3 DEF ClientOK
  <2> QED
    BY <2>4, <2>5 DEF Serve
<1>4. ASSUME NEW d \in Clients \ {c} PROVE ClientOK(d)'
  BY <1>4, UntouchedOK DEF TypeOK, Untouched, Serve, publisherVars, pumpVars, Fits, DropClient, CloseSend
<1> QED
  BY <1>1, <1>2, <1>3, <1>4
-----------------------------------------------------------------------------
(* Run receives a message: every client in the map is one behind until the *)
(* loop has come to it.                                                    *)
LEMMA TakeMessageInv ==
  ASSUME HubInv, TakeMessage
  PROVE  HubInv'
<1> USE DEF HubInv
<1>1. /\ dispatched \in Nat /\ dispatched' = dispatched + 1 /\ targets = {} /\ targets' = clients
      /\ clients' = clients /\ accepted' = accepted /\ dispatched < accepted
  BY DEF TypeOK, TakeMessage, AtSelect
<1>2. TypeOK'
  <2>1. 1 .. dispatched \subseteq 1 .. dispatched'
    BY <1>1
  <2>2. Seq(1 .. dispatched) \subseteq Seq(1 .. dispatched')
    BY <2>1, SeqMonotonic
  <2>3. send' \in [Clients -> Seq(1 .. dispatched')] /\ delivered' \in [Clients -> Seq(1 .. dispatched')]
    BY <2>2 DEF TypeOK, TakeMessage, pumpVars, chanVars
  <2>4. outgoing' \in [Clients -> 0 .. dispatched'] /\ since' \in [Clients -> -1 .. dispatched']
    BY <1>1 DEF TypeOK, TakeMessage, pumpVars
  <2>5. dispatched' \in 0 .. accepted' /\ accepted' - dispatched' <= BroadcastCap
    BY <1>1, HubAssumption DEF TypeOK, TakeMessage
  <2> QED
    BY <2>3, <2>4, <2>5, <1>1 DEF TypeOK, TakeMessage, publisherVars, pumpVars, chanVars
<1>3. CallsCounted' /\ LoopHasMessage' /\ ~panicked'
  BY <1>1 DEF CallsCounted, LoopHasMessage, TakeMessage, publisherVars
<1>4. ASSUME NEW c \in Clients PROVE ClientOK(c)'
  <2>1. Taken(c)' = Taken(c)
    BY DEF Taken, TakeMessage, pumpVars
  <2>2. NoGap(c)'
    BY <1>1, <2>1 DEF ClientOK, NoGap, TakeMessage, pumpVars, chanVars
  <2> QED
    BY <2>2, <1>1 DEF ClientOK, Joined, PumpsFollow, TakeMessage, pumpVars, chanVars
<1> QED
  BY <1>2, <1>3, <1>4

(* Every step keeps the invariant.                                         *)
LEMMA HubNextInv ==
  ASSUME HubInv, [Next]_vars
  PROVE  HubInv'
<1>1. CASE Run
  BY <1>1, TakeMessageInv, RegisterInv, UnregisterInv, ServeInv DEF Run
<1>2. CASE \E p \in Publishers : Broadcast(p) \/ Accept(p)
  BY <1>2, PublisherInv
<1>3. CASE \E c \in Clients : Connection(c)
  BY <1>3, UpgradeInv, StartPumpsInv, ReadFailsInv, ReaderClosesInv, WriteNextInv, WriteDoneInv,
     WriterEndsInv, DisconnectInv DEF Connection
<1>4. CASE UNCHANGED vars
  <2> USE <1>4 DEF HubInv, vars, hubVars, publisherVars, pumpVars, chanVars
  <2>1. TypeOK' /\ CallsCounted' /\ LoopHasMessage' /\ ~panicked'
    BY DEF TypeOK, CallsCounted, LoopHasMessage
  <2>2. ASSUME NEW c \in Clients PROVE ClientOK(c)'
    BY UntouchedOK DEF Untouched
  <2> QED
    BY <2>1, <2>2
<1> QED
  BY <1>1, <1>2, <1>3, <1>4 DEF Next

(* HubInv holds in every behaviour, whatever connects, stalls, fails or    *)
(* leaves.                                                                 *)
THEOREM HubCorrect == Spec => []HubInv
  BY HubInitInv, HubNextInv, PTL DEF Spec

(* Type correctness of the hub.                                            *)
THEOREM HubTypeOK == Spec => []TypeOK
<1>1. HubInv => TypeOK
  BY DEF HubInv
<1> QED
  BY <1>1, HubCorrect, PTL

(* No goroutine sends on a closed channel or closes one twice, so neither  *)
(* Run nor a pump takes the server down.                                   *)
THEOREM HubNeverPanics == Spec => []NoPanic
<1>1. HubInv => NoPanic
  BY DEF HubInv, NoPanic
<1> QED
  BY <1>1, HubCorrect, PTL
-----------------------------------------------------------------------------
(* A step of the hub is a step of Feed, or changes nothing Feed sees.      *)
LEMMA StepImplementsFeed ==
  ASSUME HubInv, [Next]_vars
  PROVE  [FeedPromise!Next]_(FeedPromise!feedVars)
<1> SUFFICES ASSUME Next PROVE [FeedPromise!Next]_(FeedPromise!feedVars)
  BY DEF vars, hubVars, pumpVars, FeedPromise!feedVars
<1>1. CASE TakeMessage
  BY <1>1 DEF TakeMessage, pumpVars, FeedPromise!Next, FeedPromise!Publish
<1>2. ASSUME NEW c \in Clients, Register(c) PROVE FeedPromise!Join(c)
  BY <1>2 DEF HubInv, ClientOK, Joined, Register, FeedPromise!Join
<1>3. ASSUME NEW c \in Clients, WriteDone(c) PROVE FeedPromise!Receive(c)
  <2>1. /\ writer[c] = "writing" /\ outgoing[c] \in 1 .. dispatched /\ serve[c] = "done"
        /\ delivered[c] \in Seq(1 .. dispatched) /\ since[c] \in Int
    BY <1>3 DEF HubInv, TypeOK, ClientOK, PumpsFollow, WriteDone
  <2>2. since[c] >= 0
    BY <2>1 DEF HubInv, ClientOK, Joined
  <2>3. outgoing[c] = since[c] + Len(delivered[c]) + 1
    <3>1. Len(delivered[c]) \in Nat
      BY <2>1, LenProperties
    <3>2. outgoing[c] = since[c] + (Len(delivered[c]) + 1)
      BY <2>1, <2>2 DEF HubInv, ClientOK, NoGap, Taken
    <3> QED
      BY <3>1, <3>2, <2>1
  <2> QED
    BY <1>3, <2>1, <2>2, <2>3 DEF WriteDone, hubVars, FeedPromise!Receive
<1>4. ASSUME NEW c \in Clients, Unregister(c) \/ Serve(c) PROVE UNCHANGED FeedPromise!feedVars
  BY <1>4 DEF Unregister, Serve, pumpVars, FeedPromise!feedVars
<1>5. ASSUME NEW p \in Publishers, Broadcast(p) \/ Accept(p) PROVE UNCHANGED FeedPromise!feedVars
  BY <1>5 DEF Broadcast, Accept, hubVars, pumpVars, FeedPromise!feedVars
<1>6. ASSUME NEW c \in Clients, Connection(c), ~WriteDone(c) PROVE UNCHANGED FeedPromise!feedVars
  BY <1>6 DEF Connection, Upgrade, StartPumps, ReadFails, ReaderCloses, WriteNext, WriterEnds, Disconnect,
              hubVars, pumpVars, FeedPromise!feedVars
<1> QED
  BY <1>1, <1>2, <1>3, <1>4, <1>5, <1>6 DEF Next, Run, FeedPromise!Next

(* The hub implements Feed: every browser receives a contiguous part of    *)
(* the stream, in order and each message once.                             *)
THEOREM HubImplementsFeed == Spec => ImplementsFeed
<1>1. Init => FeedPromise!Init
  BY DEF Init, FeedPromise!Init
<1> QED
  BY <1>1, StepImplementsFeed, HubCorrect, PTL DEF Spec, ImplementsFeed, FeedPromise!Spec
=============================================================================
