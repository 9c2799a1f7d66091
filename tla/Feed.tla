-------------------------------- MODULE Feed --------------------------------
(***************************************************************************)
(* What a subscriber of the live feed is promised: from the moment it has  *)
(* joined, the messages of the log, each once, in order and without a gap, *)
(* for as long as it is served.                                            *)
(***************************************************************************)
EXTENDS Integers, Sequences

CONSTANT Clients

VARIABLES
  log,       \* how many messages have been sent out; they are numbered from 1
  joined,    \* joined[c]: the last message sent before c joined, -1 before that
  received   \* what c has received

feedVars == <<log, joined, received>>

Init ==
  /\ log = 0
  /\ joined = [c \in Clients |-> -1]
  /\ received = [c \in Clients |-> <<>>]

Publish ==
  /\ log' = log + 1
  /\ UNCHANGED <<joined, received>>

Join(c) ==
  /\ joined[c] = -1
  /\ joined' = [joined EXCEPT ![c] = log]
  /\ UNCHANGED <<log, received>>

Receive(c) ==
  LET m == joined[c] + Len(received[c]) + 1
  IN  /\ joined[c] >= 0
      /\ m <= log
      /\ received' = [received EXCEPT ![c] = Append(@, m)]
      /\ UNCHANGED <<log, joined>>

Next == Publish \/ \E c \in Clients : Join(c) \/ Receive(c)

Spec == Init /\ [][Next]_feedVars
=============================================================================
