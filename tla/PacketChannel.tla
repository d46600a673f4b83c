----------------------------- MODULE PacketChannel -----------------------------
(***************************************************************************)
(* What splitting and joining promise: a channel of whole packets that may  *)
(* lose them or let them overtake one another.  A packet arrives once, as   *)
(* it was sent, unless the network has lost a part of it; then it is given  *)
(* up.                                                                      *)
(***************************************************************************)
EXTENDS Naturals

CONSTANT Sizes  \* of packets

VARIABLES
  sent,       \* number of packets sent
  arriving,   \* the packets on their way
  damaged,    \* packets of which the network has lost a part
  delivered   \* the packet that has just arrived, if one has

Packet(n, size) == [i \in 1 .. size |-> <<n, i>>]

\* The network may lose a part of the packets of lossy only; of packets that
\* are not on their way any more, losses may be forgotten.
DamagesOnly(lossy) ==
  /\ damaged' \subseteq damaged \cup lossy
  /\ damaged \cap arriving' \subseteq damaged'

Send ==
  /\ sent' = sent + 1
  /\ \/ arriving' = arriving \cup {sent + 1}
     \/ arriving' = arriving /\ sent + 1 \in damaged'
  /\ DamagesOnly({sent + 1})
  /\ delivered' = <<>>

Lose(n) ==
  /\ n \in damaged'
  /\ arriving' \in {arriving, arriving \ {n}}
  /\ DamagesOnly({n})
  /\ delivered' = <<>>
  /\ UNCHANGED sent

\* A part of a packet arrives, the last one of a packet that lost another.
GiveUp(n) ==
  /\ n \in damaged
  /\ arriving' = arriving \ {n}
  /\ delivered' = <<>>
  /\ UNCHANGED <<sent, damaged>>

Deliver(n) ==
  /\ n \notin damaged
  /\ arriving' = arriving \ {n}
  /\ \E size \in Sizes : delivered' = Packet(n, size)
  /\ UNCHANGED <<sent, damaged>>

Wait == delivered' = <<>> /\ UNCHANGED <<sent, arriving, damaged>>

Init == sent = 0 /\ arriving = {} /\ damaged = {} /\ delivered = <<>>

Next == Send \/ Wait \/ \E n \in arriving : Lose(n) \/ GiveUp(n) \/ Deliver(n)

Spec == Init /\ [][Next]_<<sent, arriving, damaged, delivered>>
=============================================================================
