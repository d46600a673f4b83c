------------------------------ MODULE ToxNetwork ------------------------------
(***************************************************************************)
(* The transport that libToxTun takes from toxcore.  toxcore is a library   *)
(* outside the repository: it is modelled from the way Connection::sendToTox*)
(* and ToxTunCore::toxPacketCallback use it.                                *)
(*                                                                         *)
(* Between two friends there are two kinds of custom packets.  Packets with *)
(* an identifier from 160 to 191 are lossless: they arrive once and in the  *)
(* order they were sent, as long as the friend stays online.  Packets with  *)
(* an identifier from 200 to 254 are lossy: they arrive in any order        *)
(* relative to everything else, or never.                                   *)
(***************************************************************************)
EXTENDS Integers, Sequences, FiniteSets

CONSTANTS
  Node,      \* the Tox users that run libToxTun, all friends of one another
  NSubnets,  \* number of subnets 192.168.x.0/24; 256 in the code
  MaxLossy,  \* bound on the lossy packets in flight on a link
  MaxBacklog,\* a node sends Data while fewer lossless packets wait for it
  Env        \* the kinds of environment behaviour a run includes

EnvKinds ==
  { "SendFailure",    \* tox_friend_send_*_packet may return false
    "TunFailure",     \* opening the tun device may fail
    "AddressFailure", \* giving the tun device its address may fail
    "LookupFailure",  \* listing the addresses in use may fail
    "LinkLoss",       \* a friend goes offline and what is in flight is lost
    "Kill",           \* a ToxTunCore is destroyed while its tox runs on
    "Crash",          \* the process of a node may be killed
    "Restart",        \* a process that has died is started again
    "NoCallback",     \* the application may run without a callback
    "CarelessUser" }  \* acceptConnection may be called in any state

ASSUME NodeAssumption == Node # {}
ASSUME NSubnetsAssumption == NSubnets \in Nat \ {0}
ASSUME MaxLossyAssumption == MaxLossy \in Nat
ASSUME MaxBacklogAssumption == MaxBacklog \in Nat
ASSUME EnvAssumption == Env \subseteq EnvKinds

-----------------------------------------------------------------------------
\* A link <<p, q>> is what node p keeps for its friend q, and the direction
\* in which p sends to q.
Link == {l \in Node \X Node : l[1] # l[2]}
Peer(l) == <<l[2], l[1]>>

Subnet == 0 .. NSubnets - 1
NoSubnet == -1

\* Data::PacketId, the lossless part.  Data packets are lossy and carry
\* nothing the properties depend on: they are only counted.
PacketId ==
  { "ConnectionRequest", "ConnectionAccept", "ConnectionReject",
    "ConnectionClose", "ConnectionReset",
    "IpProposal", "IpAccept", "IpReject" }

Packet == [id : PacketId, subnet : Subnet \cup {NoSubnet}]

\* Data::fromPacketId and Data::fromIpPostfix.  The postfix of a proposal is
\* always 2, so a proposal carries its subnet only.
FromPacketId(id) == [id |-> id, subnet |-> NoSubnet]
FromIpPostfix(s) == [id |-> "IpProposal", subnet |-> s]

VARIABLES
  lossless,  \* lossless[l]: packets from l[1] to l[2], in the order sent
  lossy      \* lossy[l]: number of Data packets in flight from l[1] to l[2]

netVars == <<lossless, lossy>>

\* What sending packet m puts on the wire: m itself, or nothing when toxcore
\* refuses it and sendToTox throws.
Transmission(m) == {<<m>>} \cup (IF "SendFailure" \in Env THEN {<<>>} ELSE {})

\* The packet at the head of the queue towards l[1].
Arrives(l, id) ==
  /\ lossless[Peer(l)] # <<>>
  /\ Head(lossless[Peer(l)]).id = id

\* l[1] sends the packets of the sequence out.
Send(l, out) ==
  /\ lossless' = [lossless EXCEPT ![l] = @ \o out]
  /\ UNCHANGED lossy

\* l[1] consumes the packet at the head of its queue and sends out.
Answer(l, out) ==
  /\ lossless' = [lossless EXCEPT ![Peer(l)] = Tail(@), ![l] = @ \o out]
  /\ UNCHANGED lossy

\* A lossy packet to l[1] arrives and l[1] sends out.
AnswerLossy(l, out) ==
  /\ lossy[Peer(l)] > 0
  /\ lossy' = [lossy EXCEPT ![Peer(l)] = @ - 1]
  /\ lossless' = [lossless EXCEPT ![l] = @ \o out]

\* Everything in flight between the ends of the links in S is gone.
Flush(S) ==
  /\ lossless' = [l \in Link |-> IF l \in S THEN <<>> ELSE lossless[l]]
  /\ lossy' = [l \in Link |-> IF l \in S THEN 0 ELSE lossy[l]]

NetTypeOK ==
  /\ lossless \in [Link -> Seq(Packet)]
  /\ lossy \in [Link -> 0 .. MaxLossy]

NetInit ==
  /\ lossless = [l \in Link |-> <<>>]
  /\ lossy = [l \in Link |-> 0]
=============================================================================
