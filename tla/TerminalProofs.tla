--------------------------- MODULE TerminalProofs ---------------------------
(***************************************************************************)
(* What a terminal shows of the entries of the account is not ahead of     *)
(* their funds, for any number of goroutines, changes, losses and fetches, *)
(* and whatever overtakes what.                                            *)
(*                                                                         *)
(* The argument is the order of two reads.  A snapshot reads the entries   *)
(* of the lists first and the balances later; in the server no balance is  *)
(* ever behind the entries, so by the time it is read it is not behind     *)
(* what was read of them.  SnapshotOK says this of every snapshot wherever *)
(* it is: half taken, on the wire or in an answer.                         *)
(***************************************************************************)
EXTENDS Terminal, TLAPS, FiniteSetTheorems, SequenceTheorems

\* A snapshot reads the orders first; what it has read of them is no newer than
\* the server's lists, nor than what it has read of the balances.
SnapshotOK(s) ==
  /\ s \in Snapshots
  /\ watched = "entries" =>
       /\ "balance" \in DOMAIN s => "orders" \in DOMAIN s /\ s["orders"] <= s["balance"]
       /\ "orders" \in DOMAIN s => s["orders"] <= state["orders"]

(* The inductive invariant: every snapshot under way is sound, those on    *)
(* the wire are complete, and in the server the lists of orders are never  *)
(* ahead of the funds.                                                     *)
TerminalInv ==
  /\ TypeOK
  /\ watched = "entries" => state["orders"] <= state["balance"]
  /\ \A g \in Goroutines : SnapshotOK(view[g])
  /\ \A i \in DOMAIN wire : SnapshotOK(wire[i]) /\ Complete(wire[i])
  /\ \A i \in DOMAIN fetches : SnapshotOK(fetches[i])
  /\ OrdersShownWithTheirFunds
-----------------------------------------------------------------------------
(* What is watched and the parts of their messages.                         *)
LEMMA PartsOfTopic ==
  ASSUME TypeOK
  PROVE  \/ watched # "entries" /\ Parts = {watched} /\ Reads = <<watched>>
         \/ watched = "entries" /\ Parts = {"orders", "balance"} /\ Reads = <<"orders", "balance">>
BY DEF TypeOK, Parts, Reads

(* Reading on: the orders come first, and the balances, which are not      *)
(* behind the orders in the server, are not behind what was read of those. *)
LEMMA ReadOnOK ==
  ASSUME TypeOK, watched = "entries" => state["orders"] <= state["balance"],
         NEW s, SnapshotOK(s), ~Complete(s)
  PROVE  SnapshotOK(ReadOn(s))
<1>1. s \in [DOMAIN s -> Versions] /\ DOMAIN s \subseteq Parts /\ DOMAIN s # Parts
  BY DEF SnapshotOK, Snapshots, Complete
<1>2. state \in [Parts -> Versions] /\ Versions \subseteq Int
  BY DEF TypeOK, Versions
<1>3. ASSUME NEW p \in Parts, ReadOn(s) = With(s, p, state[p]) PROVE ReadOn(s) \in Snapshots
  <2>1. ReadOn(s) \in [{p} \cup DOMAIN s -> Versions]
    BY <1>1, <1>2, <1>3 DEF With
  <2> QED
    BY <2>1, <1>1, <1>3 DEF Snapshots
<1>4. Cardinality({}) = 0 /\ Cardinality({"orders"}) = 1
  BY FS_EmptySet, FS_Singleton
<1>5. CASE watched # "entries"
  <2>1. Parts = {watched} /\ Reads = <<watched>> /\ DOMAIN s = {}
    BY <1>1, <1>5, PartsOfTopic
  <2>2. ReadOn(s) = With(s, watched, state[watched])
    BY <2>1, <1>4 DEF ReadOn
  <2> QED
    BY <2>1, <2>2, <1>3, <1>5 DEF SnapshotOK
<1>6. CASE watched = "entries"
  <2>1. /\ Parts = {"orders", "balance"} /\ Reads = <<"orders", "balance">>
        /\ DOMAIN s = {} \/ DOMAIN s = {"orders"}
    BY <1>1, <1>6, PartsOfTopic DEF SnapshotOK
  <2>2. CASE DOMAIN s = {}
    <3>1. ReadOn(s) = With(s, "orders", state["orders"])
      BY <2>1, <2>2, <1>4 DEF ReadOn
    <3>2. DOMAIN ReadOn(s) = {"orders"} /\ ReadOn(s)["orders"] = state["orders"]
      BY <3>1, <2>2 DEF With
    <3>3. state["orders"] \in Int
      BY <2>1, <1>2
    <3> QED
      BY <3>1, <3>2, <3>3, <2>1, <1>3 DEF SnapshotOK
  <2>3. CASE DOMAIN s = {"orders"}
    <3>1. ReadOn(s) = With(s, "balance", state["balance"])
      BY <2>1, <2>3, <1>4 DEF ReadOn
    <3>2. /\ DOMAIN ReadOn(s) = {"orders", "balance"}
          /\ ReadOn(s)["orders"] = s["orders"] /\ ReadOn(s)["balance"] = state["balance"]
      BY <3>1, <2>3 DEF With
    <3>3. s["orders"] <= state["orders"] /\ s["orders"] \in Int
      BY <2>3, <1>1, <1>2, <1>6 DEF SnapshotOK
    <3>4. state["orders"] \in Int /\ state["balance"] \in Int
      BY <2>1, <1>2
    <3> QED
      BY <3>1, <3>2, <3>3, <3>4, <2>1, <1>3, <1>6 DEF SnapshotOK
  <2> QED
    BY <2>1, <2>2, <2>3
<1> QED
  BY <1>5, <1>6 DEF TypeOK

(* A snapshot of nothing is sound.                                         *)
LEMMA NothingOK == SnapshotOK(Nothing)
<1>1. DOMAIN Nothing = {} /\ Nothing \in [{} -> Versions] /\ {} \in SUBSET Parts
  BY DEF Nothing
<1> QED
  BY <1>1 DEF SnapshotOK, Snapshots

(* A complete sound snapshot is sound contents of the screen.              *)
LEMMA RenderOK ==
  ASSUME TypeOK, NEW s, SnapshotOK(s), Complete(s)
  PROVE  /\ s \in [Parts -> Versions]
         /\ watched = "entries" => s["orders"] <= s["balance"]
BY PartsOfTopic DEF SnapshotOK, Snapshots, Complete

(* The server changes: what was read of it stays no newer than it.         *)
LEMMA ChangeOK ==
  ASSUME TypeOK, watched' = watched, NEW PS \in SUBSET Parts,
         watched = "entries" => state["orders"] <= state["balance"],
         "orders" \in PS => "balance" \in PS,
         state' = [p \in Parts |-> IF p \in PS THEN Later(state[p]) ELSE state[p]]
  PROVE  /\ state' \in [Parts -> Versions]
         /\ watched = "entries" => state'["orders"] <= state'["balance"]
         /\ \A s : SnapshotOK(s) => SnapshotOK(s)'
<1>1. ASSUME NEW v \in Versions PROVE Later(v) \in Versions /\ v <= Later(v)
  BY TerminalAssumption DEF Later, Versions
<1>2. ASSUME NEW v \in Versions, NEW w \in Versions, v <= w PROVE Later(v) <= Later(w) /\ v <= Later(w)
  BY <1>2, TerminalAssumption DEF Later, Versions
<1>3. state \in [Parts -> Versions] /\ Versions \subseteq Int /\ Parts' = Parts /\ Snapshots' = Snapshots
  BY DEF TypeOK, Versions, Parts, Snapshots
<1>4. state' \in [Parts -> Versions] /\ \A p \in Parts : state[p] <= state'[p]
  <2>1. ASSUME NEW p \in Parts
        PROVE  /\ state'[p] = IF p \in PS THEN Later(state[p]) ELSE state[p]
               /\ state[p] \in Versions /\ Later(state[p]) \in Versions /\ state[p] <= Later(state[p])
    BY <1>1, <1>3
  <2>2. ASSUME NEW p \in Parts PROVE state'[p] \in Versions /\ state[p] <= state'[p]
    <3>1. CASE p \in PS
      BY <2>1, <3>1
    <3>2. CASE p \notin PS
      BY <2>1, <3>2, TerminalAssumption DEF Versions
    <3> QED
      BY <3>1, <3>2
  <2> QED
    BY <2>2
<1>5. ASSUME watched = "entries" PROVE state'["orders"] <= state'["balance"]
  <2>1. Parts = {"orders", "balance"}
    BY <1>5, PartsOfTopic
  <2>2. state["orders"] \in Versions /\ state["balance"] \in Versions /\ state["orders"] <= state["balance"]
    BY <2>1, <1>3, <1>5
  <2>3. /\ state'["orders"] \in {state["orders"], Later(state["orders"])}
        /\ state'["balance"] = IF "balance" \in PS THEN Later(state["balance"]) ELSE state["balance"]
        /\ "balance" \notin PS => state'["orders"] = state["orders"]
    BY <2>1
  <2> QED
    BY <2>2, <2>3, <1>2
<1>6. ASSUME NEW s, SnapshotOK(s) PROVE SnapshotOK(s)'
  <2>1. s \in Snapshots' /\ s \in [DOMAIN s -> Versions] /\ DOMAIN s \subseteq Parts
    BY <1>3, <1>6 DEF SnapshotOK, Snapshots
  <2>2. ASSUME watched = "entries", "orders" \in DOMAIN s PROVE s["orders"] <= state'["orders"]
    BY <2>1, <2>2, <1>3, <1>4, <1>6 DEF SnapshotOK
  <2> QED
    BY <2>1, <2>2, <1>6 DEF SnapshotOK
<1> QED
  BY <1>4, <1>5, <1>6
-----------------------------------------------------------------------------
(* The page is loaded and shows nothing yet.                               *)
LEMMA TerminalInitInv == Init => TerminalInv
<1> SUFFICES ASSUME Init PROVE TerminalInv
  OBVIOUS
<1>1. 0 \in Versions /\ 0 <= 0
  BY TerminalAssumption DEF Versions
<1>2. state \in [Parts -> Versions] /\ shown \in [Parts -> Versions] /\ \A p \in Parts : state[p] = 0 /\ shown[p] = 0
  BY <1>1 DEF Init
<1>3. watched = "entries" => /\ state["orders"] <= state["balance"]
                                  /\ shown["orders"] <= shown["balance"]
  BY <1>1, <1>2 DEF Parts
<1>4. Nothing \in Snapshots
  BY NothingOK DEF SnapshotOK
<1>5. wire \in Seq(Snapshots) /\ Len(wire) = 0 /\ DOMAIN wire = {}
  BY EmptySeq DEF Init
<1>6. TypeOK
  BY <1>2, <1>4, <1>5, TerminalAssumption DEF Init, TypeOK
<1> QED
  BY <1>2, <1>3, <1>5, <1>6, NothingOK DEF Init, TerminalInv, OrdersShownWithTheirFunds

(* The server changes; nothing under way does.                             *)
LEMMA ServerStepInv ==
  ASSUME TerminalInv, watched' = watched, running' \in BOOLEAN, busy' \subseteq Goroutines,
         NEW PS \in SUBSET Parts, "orders" \in PS => "balance" \in PS,
         state' = [p \in Parts |-> IF p \in PS THEN Later(state[p]) ELSE state[p]],
         UNCHANGED <<view, linkVars, wire, fetches, shown>>
  PROVE  TerminalInv'
<1>1. /\ state' \in [Parts -> Versions]
      /\ watched = "entries" => state'["orders"] <= state'["balance"]
      /\ \A s : SnapshotOK(s) => SnapshotOK(s)'
  BY ChangeOK DEF TerminalInv
<1>2. Parts' = Parts /\ Snapshots' = Snapshots
  BY DEF Parts, Snapshots
<1>3. TypeOK'
  BY <1>1, <1>2 DEF TerminalInv, TypeOK, linkVars
<1>4. ASSUME NEW g \in Goroutines PROVE SnapshotOK(view[g])'
  BY <1>1 DEF TerminalInv, SnapshotOK
<1>5. ASSUME NEW i \in DOMAIN wire' PROVE SnapshotOK(wire[i])' /\ Complete(wire[i])'
  BY <1>1, <1>2 DEF TerminalInv, SnapshotOK, Complete
<1>6. ASSUME NEW i \in DOMAIN fetches' PROVE SnapshotOK(fetches[i])'
  BY <1>1 DEF TerminalInv, SnapshotOK
<1> QED
  BY <1>1, <1>3, <1>4, <1>5, <1>6 DEF TerminalInv, OrdersShownWithTheirFunds

(* Handlers and the market maker do their work; a new process begins.      *)
LEMMA WorkInv ==
  ASSUME TerminalInv, Tick \/ Start \/ \E h \in Handlers : Handle(h)
  PROVE  TerminalInv'
<1>1. busy \subseteq Goroutines /\ running \in BOOLEAN
  BY DEF TerminalInv, TypeOK
<1>2. CASE Tick
  <2>1. PICK PS \in Changes : Change(PS)
    BY <1>2 DEF Tick
  <2> QED
    BY <1>1, <1>2, <2>1, ServerStepInv DEF Tick, AfterTick, Changes, Change, Goroutines
<1>3. CASE Start
  <2>1. Parts \in SUBSET Parts /\ state' = [p \in Parts |-> IF p \in Parts THEN Later(state[p]) ELSE state[p]]
    BY <1>3 DEF Start
  <2>2. "orders" \in Parts => "balance" \in Parts
    BY DEF Parts, TerminalInv, TypeOK
  <2> QED
    BY <1>1, <1>3, <2>1, <2>2, ServerStepInv DEF Start, senderVars
<1>4. ASSUME NEW h \in Handlers, Handle(h) PROVE TerminalInv'
  <2>1. PICK PS \in Changes : Change(PS)
    BY <1>4 DEF Handle
  <2>2. busy' \subseteq Goroutines
    BY <1>1, <1>4 DEF Handle, Goroutines
  <2> QED
    BY <1>1, <1>4, <2>1, <2>2, ServerStepInv DEF Handle, Changes, Change
<1> QED
  BY <1>2, <1>3, <1>4

\* What a step that leaves the server as it is has to keep.
LEMMA QuietStepInv ==
  ASSUME TerminalInv, UNCHANGED <<watched, state>>, TypeOK',
         \A g \in Goroutines : SnapshotOK(view'[g]),
         \A i \in DOMAIN wire' : SnapshotOK(wire'[i]) /\ Complete(wire'[i]),
         \A i \in DOMAIN fetches' : SnapshotOK(fetches'[i]),
         watched = "entries" => shown'["orders"] <= shown'["balance"]
  PROVE  TerminalInv'
BY DEF TerminalInv, SnapshotOK, Complete, Snapshots, Parts, OrdersShownWithTheirFunds

\* The facts of the invariant that every quiet step uses.
LEMMA TerminalFacts ==
  ASSUME TerminalInv
  PROVE  /\ TypeOK
         /\ watched = "entries" => state["orders"] <= state["balance"]
         /\ watched = "entries" => shown["orders"] <= shown["balance"]
         /\ \A g \in Goroutines : SnapshotOK(view[g])
         /\ \A i \in DOMAIN wire : SnapshotOK(wire[i]) /\ Complete(wire[i])
         /\ \A i \in DOMAIN fetches : SnapshotOK(fetches[i])
         /\ \A s : SnapshotOK(s) => s \in Snapshots
BY DEF TerminalInv, OrdersShownWithTheirFunds, SnapshotOK

(* The sets that depend only on what is watched.                           *)
LEMMA SameTopic ==
  ASSUME watched' = watched
  PROVE  Parts' = Parts /\ Snapshots' = Snapshots
BY DEF Parts, Snapshots

(* A broadcaster reads on, or sends its complete snapshot.                 *)
LEMMA BroadcastInv ==
  ASSUME TerminalInv, NEW g \in Goroutines, Broadcast(g)
  PROVE  TerminalInv'
<1> USE TerminalFacts
<1>1. view \in [Goroutines -> Snapshots] /\ wire \in Seq(Snapshots) /\ Len(wire) <= SendCap
  BY DEF TypeOK
<1>2. CASE TakeSnapshot(g)
  <2>1. SnapshotOK(ReadOn(view[g])) /\ ReadOn(view[g]) \in Snapshots
    <3>1. ~Complete(view[g]) /\ SnapshotOK(view[g])
      BY <1>2 DEF TakeSnapshot
    <3> QED
      BY <3>1, ReadOnOK
  <2>2. view' = [view EXCEPT ![g] = ReadOn(view[g])]
    BY <1>2 DEF TakeSnapshot
  <2>3. \A h \in Goroutines : SnapshotOK(view'[h])
    BY <1>1, <2>1, <2>2
  <2>4. view' \in [Goroutines -> Snapshots]
    BY <1>1, <2>1, <2>2
  <2>5. UNCHANGED <<watched, running, state, busy, served, link, losses, wire, fetches, shown>>
    BY <1>2 DEF TakeSnapshot, serverVars, linkVars
  <2>6. TypeOK'
    BY <2>4, <2>5, SameTopic DEF TypeOK
  <2> QED
    BY <2>3, <2>5, <2>6, QuietStepInv
<1>3. CASE Send(g)
  <2>1. Complete(view[g]) /\ SnapshotOK(view[g]) /\ view[g] \in Snapshots
    BY <1>3 DEF Send
  <2>2. view' = [view EXCEPT ![g] = Nothing] /\ UNCHANGED <<watched, running, state, link, fetches, shown>>
    BY <1>3 DEF Send, serverVars
  <2>3. \A h \in Goroutines : SnapshotOK(view'[h])
    BY <1>1, <2>2, NothingOK
  <2>4. view' \in [Goroutines -> Snapshots]
    BY <1>1, <2>2, NothingOK
  <2>5. busy' \subseteq Goroutines
    BY <1>3 DEF Send, TypeOK
  <2>6. /\ wire' \in Seq(Snapshots) /\ Len(wire') <= SendCap
        /\ \A i \in DOMAIN wire' : SnapshotOK(wire'[i]) /\ Complete(wire'[i])
    <3>1. CASE wire' = wire
      BY <1>1, <3>1
    <3>2. CASE Len(wire) < SendCap /\ wire' = Append(wire, view[g])
      <4>1. wire' \in Seq(Snapshots) /\ Len(wire') = Len(wire) + 1
        BY <1>1, <2>1, <3>2, AppendProperties
      <4>2. Len(wire) \in Nat /\ SendCap \in Nat
        BY <1>1, LenProperties, TerminalAssumption
      <4>3. ASSUME NEW i \in DOMAIN wire' PROVE SnapshotOK(wire'[i]) /\ Complete(wire'[i])
        <5>1. i \in 1 .. Len(wire) + 1 /\ DOMAIN wire = 1 .. Len(wire)
          BY <1>1, <4>1, <4>3, LenProperties
        <5>2. CASE i = Len(wire) + 1
          <6>1. wire'[i] = view[g]
            BY <1>1, <2>1, <3>2, <5>2, AppendProperties
          <6> QED
            BY <2>1, <6>1
        <5>3. CASE i # Len(wire) + 1
          <6>1. i \in 1 .. Len(wire)
            BY <4>2, <5>1, <5>3
          <6>2. wire'[i] = wire[i]
            BY <1>1, <2>1, <3>2, <6>1, AppendProperties
          <6> QED
            BY <5>1, <6>1, <6>2
        <5> QED
          BY <5>2, <5>3
      <4> QED
        BY <3>2, <4>1, <4>2, <4>3
    <3> QED
      BY <1>3, <3>1, <3>2 DEF Send
  <2>7. served' \in {"none", "upgraded", "registered", "dropped"} /\ losses' \in 0 .. MaxLosses
    BY <1>3, TerminalAssumption DEF Send, Lose, TypeOK
  <2>8. TypeOK'
    BY <2>2, <2>4, <2>5, <2>6, <2>7, SameTopic DEF TypeOK
  <2> QED
    BY <2>2, <2>3, <2>6, <2>8, QuietStepInv
<1> QED
  BY <1>2, <1>3 DEF Broadcast

(* The connection is made, waited for, lost, or its server end dropped:    *)
(* what is on the wire stays, or is gone.                                  *)
LEMMA ConnectionInv ==
  ASSUME TerminalInv, Upgrade \/ Register \/ Retry \/ OnClose \/ NetworkFails
  PROVE  TerminalInv'
<1> USE TerminalFacts
<1>1. UNCHANGED <<watched, running, state, busy, view, fetches, shown>>
  BY DEF Upgrade, Register, Retry, OnClose, NetworkFails, Close, serverVars, senderVars
<1>2. served' \in {"none", "upgraded", "registered", "dropped"} /\ link' \in {"waiting", "connecting", "open"}
  BY DEF Upgrade, Register, Retry, OnClose, NetworkFails, Close, OnceClosed, TypeOK
<1>3. losses' \in 0 .. MaxLosses
  BY TerminalAssumption DEF Upgrade, Register, Retry, OnClose, NetworkFails, Lose, TypeOK
<1>4. wire' = wire \/ wire' = <<>>
  BY DEF Upgrade, Register, Retry, OnClose, NetworkFails, Close
<1>5. /\ wire' \in Seq(Snapshots) /\ Len(wire') <= SendCap
      /\ \A i \in DOMAIN wire' : SnapshotOK(wire'[i]) /\ Complete(wire'[i])
  <2>1. CASE wire' = wire
    BY <2>1 DEF TypeOK
  <2>2. CASE wire' = <<>>
    <3>1. wire' \in Seq(Snapshots) /\ Len(wire') = 0 /\ DOMAIN wire' = {}
      BY <2>2, EmptySeq
    <3> QED
      BY <3>1, TerminalAssumption
  <2> QED
    BY <1>4, <2>1, <2>2
<1>6. TypeOK'
  BY <1>1, <1>2, <1>3, <1>5, SameTopic DEF TypeOK
<1> QED
  BY <1>1, <1>5, <1>6, QuietStepInv

(* The socket opens: one more fetch, of which nothing is read yet.         *)
LEMMA OnOpenInv ==
  ASSUME TerminalInv, OnOpen
  PROVE  TerminalInv'
<1> USE TerminalFacts
<1>1. PICK i \in Unused : fetches' = With(fetches, i, Nothing)
  BY DEF OnOpen
<1>2. DOMAIN fetches' = DOMAIN fetches \cup {i}
  BY <1>1 DEF With
<1>3. \A j \in DOMAIN fetches' : fetches'[j] = IF j = i THEN Nothing ELSE fetches[j]
  BY <1>1, <1>2 DEF With
<1>4. \A j \in DOMAIN fetches' : SnapshotOK(fetches'[j])
  BY <1>2, <1>3, NothingOK
<1>5. fetches' \in [DOMAIN fetches' -> Snapshots]
  <2>1. fetches' = [j \in DOMAIN fetches' |-> fetches'[j]]
    BY <1>1, <1>2 DEF With
  <2>2. \A j \in DOMAIN fetches' : fetches'[j] \in Snapshots
    BY <1>4
  <2> QED
    BY <2>1, <2>2
<1>6. UNCHANGED <<watched, running, state, busy, view, served, losses, wire, shown>> /\ link' = "open"
  BY DEF OnOpen, serverVars, senderVars
<1>7. DOMAIN fetches' \subseteq 1 .. MaxFetches
  BY <1>1, <1>2 DEF Unused, TypeOK
<1>8. TypeOK'
  BY <1>5, <1>6, <1>7, SameTopic DEF TypeOK
<1> QED
  BY <1>4, <1>6, <1>8, QuietStepInv

(* A message arrives: it was sound and complete, so what is shown is sound.*)
LEMMA OnMessageInv ==
  ASSUME TerminalInv, OnMessage
  PROVE  TerminalInv'
<1> USE TerminalFacts
<1>1. wire \in Seq(Snapshots) /\ wire # <<>> /\ Len(wire) <= SendCap /\ DOMAIN wire = 1 .. Len(wire)
  BY LenProperties DEF OnMessage, TypeOK
<1>2. Len(wire) \in Nat /\ Len(wire) # 0 /\ SendCap \in Nat
  BY <1>1, EmptySeq, LenProperties, TerminalAssumption
<1>3. Head(wire) = wire[1] /\ 1 \in DOMAIN wire
  BY <1>1, <1>2, HeadTailProperties
<1>4. /\ shown' = wire[1] /\ wire' = Tail(wire)
      /\ UNCHANGED <<watched, running, state, busy, view, served, link, losses, fetches>>
  BY <1>3 DEF OnMessage, Render, serverVars, senderVars, linkVars
<1>5. SnapshotOK(wire[1]) /\ Complete(wire[1])
  BY <1>3
<1>6. shown' \in [Parts -> Versions] /\ (watched = "entries" => shown'["orders"] <= shown'["balance"])
  BY <1>4, <1>5, RenderOK
<1>7. wire' \in Seq(Snapshots) /\ Len(wire') = Len(wire) - 1 /\ \A j \in 1 .. Len(wire') : wire'[j] = wire[j + 1]
  BY <1>1, <1>4, HeadTailProperties
<1>8. Len(wire') <= SendCap
  BY <1>1, <1>2, <1>7
<1>9. \A i \in DOMAIN wire' : SnapshotOK(wire'[i]) /\ Complete(wire'[i])
  <2>1. DOMAIN wire' = 1 .. Len(wire')
    BY <1>7, LenProperties
  <2>2. \A j \in 1 .. Len(wire') : j + 1 \in DOMAIN wire
    BY <1>1, <1>2, <1>7
  <2> QED
    BY <1>7, <2>1, <2>2
<1>10. TypeOK'
  BY <1>4, <1>6, <1>7, <1>8, SameTopic DEF TypeOK
<1> QED
  BY <1>4, <1>6, <1>9, <1>10, QuietStepInv

(* A fetch is read on, answered, or fails.                                 *)
LEMMA FetchingInv ==
  ASSUME TerminalInv, Fetching
  PROVE  TerminalInv'
<1> USE TerminalFacts
<1>1. fetches \in [DOMAIN fetches -> Snapshots] /\ DOMAIN fetches \subseteq 1 .. MaxFetches
  BY DEF TypeOK
<1>2. ASSUME NEW i \in DOMAIN fetches, FetchRead(i) PROVE TerminalInv'
  <2>1. SnapshotOK(ReadOn(fetches[i])) /\ ReadOn(fetches[i]) \in Snapshots
    <3>1. ~Complete(fetches[i]) /\ SnapshotOK(fetches[i])
      BY <1>2 DEF FetchRead
    <3> QED
      BY <3>1, ReadOnOK
  <2>2. fetches' = [fetches EXCEPT ![i] = ReadOn(fetches[i])]
    BY <1>2 DEF FetchRead
  <2>3. DOMAIN fetches' = DOMAIN fetches /\ fetches' \in [DOMAIN fetches -> Snapshots]
    BY <1>1, <2>1, <2>2
  <2>4. \A j \in DOMAIN fetches' : SnapshotOK(fetches'[j])
    BY <1>1, <2>1, <2>2, <2>3
  <2>5. UNCHANGED <<watched, running, state, busy, view, served, link, losses, wire, shown>>
    BY <1>2 DEF FetchRead, serverVars, senderVars, linkVars
  <2>6. TypeOK'
    BY <1>1, <2>3, <2>5, SameTopic DEF TypeOK
  <2> QED
    BY <2>4, <2>5, <2>6, QuietStepInv
<1>3. ASSUME NEW i \in DOMAIN fetches, FetchEnds(i) PROVE TerminalInv'
  <2>1. shown' \in [Parts -> Versions] /\ (watched = "entries" => shown'["orders"] <= shown'["balance"])
    <3>1. CASE Complete(fetches[i]) /\ shown' = fetches[i]
      BY <3>1, RenderOK
    <3>2. CASE shown' = shown
      BY <3>2 DEF TypeOK
    <3> QED
      BY <1>3, <3>1, <3>2 DEF FetchEnds, Render
  <2>2. fetches' = [j \in DOMAIN fetches \ {i} |-> fetches[j]]
    BY <1>3 DEF FetchEnds
  <2>3. DOMAIN fetches' = DOMAIN fetches \ {i} /\ fetches' \in [DOMAIN fetches' -> Snapshots]
    BY <1>1, <2>2
  <2>4. \A j \in DOMAIN fetches' : SnapshotOK(fetches'[j])
    BY <2>2, <2>3
  <2>5. UNCHANGED <<watched, running, state, busy, view, served, link, losses, wire>>
    BY <1>3 DEF FetchEnds, serverVars, senderVars, linkVars
  <2>6. TypeOK'
    BY <1>1, <2>1, <2>3, <2>5, SameTopic DEF TypeOK
  <2> QED
    BY <2>1, <2>4, <2>5, <2>6, QuietStepInv
<1> QED
  BY <1>2, <1>3 DEF Fetching

(* The process stops: what its goroutines had read is gone with them.      *)
LEMMA StopInv ==
  ASSUME TerminalInv, Stop
  PROVE  TerminalInv'
<1> USE TerminalFacts
<1>1. view' = [g \in Goroutines |-> Nothing] /\ UNCHANGED <<watched, state, link, wire, shown>>
  BY DEF Stop
<1>2. view' \in [Goroutines -> Snapshots] /\ \A g \in Goroutines : SnapshotOK(view'[g])
  BY <1>1, NothingOK
<1>3. PICK kept \in SUBSET DOMAIN fetches : fetches' = [i \in kept |-> fetches[i]]
  BY DEF Stop
<1>4. DOMAIN fetches' = kept /\ fetches' \in [DOMAIN fetches' -> Snapshots]
  BY <1>3 DEF TypeOK
<1>5. \A i \in DOMAIN fetches' : SnapshotOK(fetches'[i])
  BY <1>3, <1>4
<1>6. /\ running' \in BOOLEAN /\ busy' \subseteq Goroutines
      /\ served' \in {"none", "upgraded", "registered", "dropped"} /\ losses' \in 0 .. MaxLosses
  <2>1. running' = FALSE /\ busy' = {} /\ served' \in {"none", "dropped"}
    BY DEF Stop
  <2>2. losses < MaxLosses /\ losses' = losses + 1
    BY DEF Stop, Lose
  <2>3. losses \in 0 .. MaxLosses
    BY DEF TypeOK
  <2>4. losses' \in 0 .. MaxLosses
    BY <2>2, <2>3, TerminalAssumption
  <2> QED
    BY <2>1, <2>4
<1>7. TypeOK'
  BY <1>1, <1>2, <1>3, <1>4, <1>6, SameTopic DEF TypeOK
<1> QED
  BY <1>1, <1>2, <1>5, <1>7, QuietStepInv

(* Every step keeps the invariant.                                         *)
LEMMA TerminalNextInv ==
  ASSUME TerminalInv, [Next]_vars
  PROVE  TerminalInv'
<1>1. CASE Next
  BY <1>1, WorkInv, BroadcastInv, ConnectionInv, OnOpenInv, OnMessageInv, FetchingInv, StopInv
     DEF Next, Browser
<1>2. CASE UNCHANGED vars
  <2>1. TypeOK'
    BY <1>2, SameTopic DEF TerminalInv, TypeOK, vars, serverVars, senderVars, linkVars
  <2>2. UNCHANGED <<watched, state, view, wire, fetches, shown>>
    BY <1>2 DEF vars, serverVars, senderVars
  <2> QED
    BY <2>1, <2>2, TerminalFacts, QuietStepInv
<1> QED
  BY <1>1, <1>2
-----------------------------------------------------------------------------
(* Every snapshot under way and on the screen is sound, for any number of  *)
(* handlers, versions, losses and fetches (main.go:248-312, 340-390).      *)
THEOREM TerminalCorrect == Spec => []TerminalInv
<1>1. Init => TerminalInv
  BY TerminalInitInv
<1>2. TerminalInv /\ [Next]_vars => TerminalInv'
  BY TerminalNextInv
<1> QED
  BY <1>1, <1>2, PTL DEF Spec

(* The types of the terminal's state, the bounds on what is under way      *)
(* included.                                                               *)
THEOREM TerminalTypeOK == Spec => []TypeOK
<1>1. TerminalInv => TypeOK
  BY DEF TerminalInv
<1> QED
  BY <1>1, TerminalCorrect, PTL

(* The entries of the active orders and the history on the screen          *)
(* (main.go:340-372) are never newer than a balance shown beside them,     *)
(* although no lock is held over both.  Which entries the filter leaves    *)
(* out as filled is not part of this: those may be ahead of their funds.   *)
THEOREM OrdersStayShownWithTheirFunds == Spec => []OrdersShownWithTheirFunds
<1>1. TerminalInv => OrdersShownWithTheirFunds
  BY DEF TerminalInv
<1> QED
  BY <1>1, TerminalCorrect, PTL
=============================================================================
