------------------------- MODULE ToxTunPairing_proofs -------------------------
(***************************************************************************)
(* What the two ends of a connection have in common, as long as toxcore     *)
(* delivers what it takes and no ToxTunCore is replaced: proofs for every   *)
(* number of friends, subnets and calls, and every bound.                   *)
(***************************************************************************)
EXTENDS ToxTunCore_proofs

\* No lossless packet is refused or lost, and none meets another ToxTunCore
\* than the one it was sent to.  Everything else may fail.
Delivering == Env \cap {"SendFailure", "LinkLoss", "Kill", "Restart"} = {}

-----------------------------------------------------------------------------
(* Queues.                                                                 *)

\* A packet that ends an established connection is in q.
Ending(q) == \E i \in 1 .. Len(q) : q[i].id # "ConnectionRequest"

\* A packet that ends a negotiation is in q, and no IpAccept follows it.
Refusing(q) ==
  \E i \in 1 .. Len(q) :
    /\ q[i].id \notin {"ConnectionRequest", "IpAccept"}
    /\ \A j \in i .. Len(q) : q[j].id # "IpAccept"

\* The packet sent last.
Latest(q) == q[Len(q)]

LEMMA AppendFacts ==
  ASSUME NEW q \in Seq(Packet), NEW m \in Packet
  PROVE  /\ q \o <<m>> # <<>>
         /\ q \o <<m>> \in Seq(Packet)
         /\ Len(q \o <<m>>) = Len(q) + 1
         /\ \A i \in 1 .. Len(q) : (q \o <<m>>)[i] = q[i]
         /\ Latest(q \o <<m>>) = m
  BY DEF Latest

LEMMA AppendEnding ==
  ASSUME NEW q \in Seq(Packet), NEW m \in Packet,
         Ending(q) \/ m.id # "ConnectionRequest"
  PROVE  Ending(q \o <<m>>)
<1>1. CASE m.id # "ConnectionRequest"
  BY <1>1, AppendFacts DEF Ending, Latest
<1>2. CASE Ending(q)
  BY <1>2, AppendFacts DEF Ending
<1> QED
  BY <1>1, <1>2

LEMMA AppendRefusing ==
  ASSUME NEW q \in Seq(Packet), NEW m \in Packet, m.id # "IpAccept",
         Refusing(q) \/ m.id # "ConnectionRequest"
  PROVE  Refusing(q \o <<m>>)
<1> DEFINE r == q \o <<m>>
<1>1. Len(r) = Len(q) + 1 /\ r[Len(r)] = m /\ \A i \in 1 .. Len(q) : r[i] = q[i]
  BY AppendFacts DEF Latest
<1> HIDE DEF r
<1>2. CASE m.id # "ConnectionRequest"
  BY <1>1, <1>2 DEF Refusing
<1>3. CASE Refusing(q)
  <2>1. PICK i \in 1 .. Len(q) :
          /\ q[i].id \notin {"ConnectionRequest", "IpAccept"}
          /\ \A j \in i .. Len(q) : q[j].id # "IpAccept"
    BY <1>3 DEF Refusing
  <2>2. \A j \in i .. Len(r) : r[j].id # "IpAccept"
    BY <1>1, <2>1
  <2> QED
    BY <1>1, <2>1, <2>2 DEF Refusing
<1> QED
  BY <1>2, <1>3 DEF r

LEMMA TailFacts ==
  ASSUME NEW q \in Seq(Packet), q # <<>>
  PROVE  /\ Tail(q) \in Seq(Packet)
         /\ Len(Tail(q)) = Len(q) - 1
         /\ \A i \in 1 .. Len(Tail(q)) : Tail(q)[i] = q[i + 1]
         /\ Head(q) = q[1]
         /\ Tail(q) = <<>> => Head(q) = Latest(q)
         /\ Tail(q) # <<>> => Latest(Tail(q)) = Latest(q)
  BY DEF Latest

LEMMA TailEnding ==
  ASSUME NEW q \in Seq(Packet), q # <<>>, Ending(q), Head(q).id = "ConnectionRequest"
  PROVE  Ending(Tail(q))
<1>1. PICK i \in 1 .. Len(q) : q[i].id # "ConnectionRequest"
  BY DEF Ending
<1>2. i - 1 \in 1 .. Len(Tail(q)) /\ Tail(q)[i - 1] = q[i]
  BY <1>1, TailFacts
<1> QED
  BY <1>1, <1>2 DEF Ending

LEMMA TailRefusing ==
  ASSUME NEW q \in Seq(Packet), q # <<>>, Refusing(q),
         Head(q).id \in {"ConnectionRequest", "IpAccept"}
  PROVE  Refusing(Tail(q))
<1>1. PICK i \in 1 .. Len(q) :
        /\ q[i].id \notin {"ConnectionRequest", "IpAccept"}
        /\ \A j \in i .. Len(q) : q[j].id # "IpAccept"
  BY DEF Refusing
<1>2. i - 1 \in 1 .. Len(Tail(q)) /\ Tail(q)[i - 1] = q[i]
  BY <1>1, TailFacts
<1>3. \A j \in i - 1 .. Len(Tail(q)) : Tail(q)[j].id # "IpAccept"
  BY <1>1, <1>2, TailFacts
<1> QED
  BY <1>1, <1>2, <1>3 DEF Refusing

LEMMA RefusingEnding ==
  ASSUME NEW q \in Seq(Packet), Refusing(q)
  PROVE  Ending(q)
  BY DEF Refusing, Ending


-----------------------------------------------------------------------------
(* What a step of l does to the queues and to the connection l: one of the  *)
(* seven effects below, or none.                                           *)

Only(l, s) ==
  /\ state' = [state EXCEPT ![l] = s]
  /\ \A k \in Link \ {l} : subnet'[k] = subnet[k] /\ addr'[k] = addr[k]

Sends(l, m) == lossless' = [lossless EXCEPT ![l] = @ \o <<m>>]

Incoming(l) == Head(lossless[Peer(l)])

Takes(l) ==
  /\ lossless[Peer(l)] # <<>>
  /\ lossless' = [lossless EXCEPT ![Peer(l)] = Tail(@)]

Answers(l, m) ==
  /\ lossless[Peer(l)] # <<>>
  /\ lossless' = [lossless EXCEPT ![Peer(l)] = Tail(@), ![l] = @ \o <<m>>]

\* A call, or the answer to a Data packet.
Speaks(l) ==
  \E m \in Packet, s \in {NoConnection, "OwnRequestPending", "ExpectingIpPacket"} :
    /\ Sends(l, m)
    /\ Only(l, s)
    /\ m.id # "IpAccept"
    /\ m.id = "ConnectionRequest" => state[l] # "Connected"

\* A request, which may create a connection but never changes one.
Hears(l) ==
  /\ Takes(l)
  /\ Incoming(l).id = "ConnectionRequest"
  /\ \/ UNCHANGED connVars
     \/ state[l] = NoConnection /\ Only(l, "FriendsRequestPending")

\* The end of a connection without an answer.
Ends(l) ==
  /\ Takes(l)
  /\ Incoming(l).id \in {"ConnectionClose", "ConnectionReset", "ConnectionReject"}
  /\ Only(l, NoConnection)

Establishes(l) ==
  /\ Takes(l)
  /\ Incoming(l).id = "IpAccept"
  /\ state[l] = "ExpectingIpConfirmation"
  /\ Only(l, "Connected")
  /\ addr'[l] = Address(subnet[l], 1) \/ "AddressFailure" \in Env

Refuses(l) ==
  \E m \in Packet, s \in {NoConnection, "ExpectingIpPacket"} :
    /\ Answers(l, m)
    /\ m.id \in {"ConnectionReset", "IpReject"}
    /\ Only(l, s)

Proposes(l) ==
  \E s \in Subnet :
    /\ Answers(l, FromIpPostfix(s))
    /\ Only(l, "ExpectingIpConfirmation")
    /\ subnet'[l] = s

Consents(l) ==
  /\ Answers(l, FromPacketId("IpAccept"))
  /\ Incoming(l).id = "IpProposal"
  /\ Only(l, "Connected")
  /\ addr'[l] = Address(Incoming(l).subnet, 2) \/ "AddressFailure" \in Env

Effect(l) ==
  \/ Speaks(l) \/ Hears(l) \/ Ends(l) \/ Establishes(l)
  \/ Refuses(l) \/ Proposes(l) \/ Consents(l)

NoEffect == UNCHANGED <<lossless, connVars>>

LEMMA DeliveredPackets ==
  ASSUME Delivering, NEW m
  PROVE  Transmission(m) = {<<m>>}
  BY DEF Delivering, Transmission

LEMMA DeliveredReset ==
  ASSUME Delivering
  PROVE  ResetPackets = {<<FromPacketId("ConnectionReset")>>}
  BY DeliveredPackets DEF ResetPackets

LEMMA TakeNothing ==
  ASSUME Typed, NEW l \in Link, lossless[Peer(l)] # <<>>, Answer(l, <<>>)
  PROVE  Takes(l)
<1>1. lossless[l] \in Seq(Packet) /\ Peer(l) \in Link /\ Peer(l) # l
  BY LinkFacts DEF Typed, NetTypeOK
<1>2. lossless[l] \o <<>> = lossless[l]
  BY <1>1, ConcatEmptySeq
<1> QED
  BY <1>1, <1>2 DEF Takes, Answer, Typed, NetTypeOK

LEMMA ConstructOnly ==
  ASSUME Typed, NEW l \in Link, NEW s, Construct(l, s)
  PROVE  Only(l, s)
  BY DEF Construct, Only, Typed, ConnVarsTypeOK

LEMMA DeleteOnly ==
  ASSUME Typed, NEW l \in Link, DeleteConnection(l)
  PROVE  Only(l, NoConnection)
  BY ConstructOnly DEF DeleteConnection

LEMMA UnchangedOnly ==
  ASSUME Typed, NEW l \in Link, UNCHANGED connVars
  PROVE  Only(l, state[l])
  BY DEF Only, Typed, ConnVarsTypeOK, connVars

LEMMA ResetPacketFacts ==
  /\ \A id \in PacketId : FromPacketId(id) \in Packet /\ FromPacketId(id).id = id
  /\ \A s \in Subnet : /\ FromIpPostfix(s) \in Packet
                       /\ FromIpPostfix(s).id = "IpProposal"
                       /\ FromIpPostfix(s).subnet = s
  BY PacketFacts DEF FromPacketId, FromIpPostfix

LEMMA UnexpectedRefuses ==
  ASSUME Typed, Delivering, NEW l \in Link, lossless[Peer(l)] # <<>>, Unexpected(l)
  PROVE  Refuses(l)
<1>1. Answers(l, FromPacketId("ConnectionReset"))
  BY DeliveredReset DEF Unexpected, Answer, Answers
<1>2. Only(l, NoConnection)
  BY DeleteOnly DEF Unexpected, ResetAndDelete
<1> QED
  BY <1>1, <1>2, ResetPacketFacts DEF Refuses, PacketId

LEMMA StrayRefuses ==
  ASSUME Typed, Delivering, NEW l \in Link, lossless[Peer(l)] # <<>>,
         state[l] = NoConnection, \E out \in ResetPackets : Answer(l, out),
         UNCHANGED connVars
  PROVE  Refuses(l)
<1>1. Answers(l, FromPacketId("ConnectionReset"))
  BY DeliveredReset DEF Answer, Answers
<1>2. Only(l, NoConnection)
  BY UnchangedOnly
<1> QED
  BY <1>1, <1>2, ResetPacketFacts DEF Refuses, PacketId

LEMMA SendIpEffect ==
  ASSUME Typed, Delivering, NEW l \in Link, lossless[Peer(l)] # <<>>, SendIp(l)
  PROVE  Refuses(l) \/ Proposes(l)
<1>1. PICK s \in NextSubnets(l) :
        \/ /\ s < NSubnets
           /\ Answer(l, <<FromIpPostfix(s)>>)
           /\ state' = [state EXCEPT ![l] = "ExpectingIpConfirmation"]
           /\ subnet' = [subnet EXCEPT ![l] = s]
           /\ UNCHANGED addr
        \/ Unexpected(l)
  BY DEF SendIp
<1>2. CASE Unexpected(l)
  BY <1>2, UnexpectedRefuses
<1>3. CASE /\ s < NSubnets
           /\ Answer(l, <<FromIpPostfix(s)>>)
           /\ state' = [state EXCEPT ![l] = "ExpectingIpConfirmation"]
           /\ subnet' = [subnet EXCEPT ![l] = s]
           /\ UNCHANGED addr
  <2>1. s \in Subnet
    BY <1>3, NSubnetsAssumption DEF Typed, ConnVarsTypeOK, NextSubnets, Subnet, NoSubnet
  <2>2. Answers(l, FromIpPostfix(s))
    BY <1>3 DEF Answer, Answers
  <2>3. Only(l, "ExpectingIpConfirmation") /\ subnet'[l] = s
    BY <1>3 DEF Only, Typed, ConnVarsTypeOK
  <2> QED
    BY <2>1, <2>2, <2>3 DEF Proposes
<1> QED
  BY <1>1, <1>2, <1>3

LEMMA SetIpOnly ==
  ASSUME Typed, NEW l \in Link, NEW s, NEW postfix, SetIp(l, s, postfix)
  PROVE  /\ Only(l, "Connected")
         /\ addr'[l] = Address(s, postfix) \/ "AddressFailure" \in Env
  BY DEF SetIp, Only, Typed, ConnVarsTypeOK

LEMMA AnswerIpProposalEffect ==
  ASSUME Typed, Delivering, NEW l \in Link, Arrives(l, "IpProposal"),
         state[l] = "ExpectingIpPacket", AnswerIpProposal(l)
  PROVE  Refuses(l) \/ Consents(l)
<1> DEFINE s == Head(lossless[Peer(l)]).subnet
<1>1. lossless[Peer(l)] # <<>>
  BY ArrivesFacts
<1>2. Transmission(FromPacketId("IpAccept")) = {<<FromPacketId("IpAccept")>>}
      /\ Transmission(FromPacketId("IpReject")) = {<<FromPacketId("IpReject")>>}
  BY DeliveredPackets
<1>3. CASE Answer(l, <<FromPacketId("IpAccept")>>) /\ SetIp(l, s, 2)
  <2>1. Only(l, "Connected") /\ (addr'[l] = Address(s, 2) \/ "AddressFailure" \in Env)
    BY <1>3, SetIpOnly
  <2> QED
    BY <1>1, <1>3, <2>1 DEF Consents, Answer, Answers, Incoming, Arrives
<1>4. CASE Answer(l, <<FromPacketId("IpReject")>>) /\ UNCHANGED connVars
  <2>1. Only(l, "ExpectingIpPacket")
    BY <1>4, UnchangedOnly
  <2> QED
    BY <1>1, <1>4, <2>1, ResetPacketFacts DEF Refuses, Answer, Answers, PacketId
<1> QED
  BY <1>2, <1>3, <1>4 DEF AnswerIpProposal

\* Connection::handleData and ToxTunCore::handleData.
LEMMA ReceiveLosslessEffect ==
  ASSUME Typed, Delivering, NEW l \in Link, ReceiveLossless(l)
  PROVE  Effect(l)
<1> USE DEF Effect
<1>1. CASE HandleConnectionAccepted(l)
  BY <1>1, ArrivesFacts, SendIpEffect, UnexpectedRefuses DEF HandleConnectionAccepted
<1>2. CASE HandleConnectionRejected(l)
  <2>1. lossless[Peer(l)] # <<>>
    BY <1>2, ArrivesFacts DEF HandleConnectionRejected
  <2>2. CASE Unexpected(l)
    BY <2>1, <2>2, UnexpectedRefuses
  <2>3. CASE DeleteConnection(l) /\ Answer(l, <<>>)
    BY <1>2, <2>1, <2>3, TakeNothing, DeleteOnly
    DEF HandleConnectionRejected, Arrives, Ends, Incoming
  <2> QED
    BY <1>2, <2>2, <2>3 DEF HandleConnectionRejected
<1>3. CASE HandleConnectionClosed(l)
  <2>1. lossless[Peer(l)] # <<>>
    BY <1>3, ArrivesFacts DEF HandleConnectionClosed
  <2>2. CASE Unexpected(l)
    BY <2>1, <2>2, UnexpectedRefuses
  <2>3. CASE DeleteConnection(l) /\ Answer(l, <<>>)
    BY <1>3, <2>1, <2>3, TakeNothing, DeleteOnly
    DEF HandleConnectionClosed, Arrives, Ends, Incoming
  <2> QED
    BY <1>3, <2>2, <2>3 DEF HandleConnectionClosed
<1>4. CASE HandleConnectionReset(l)
  BY <1>4, ArrivesFacts, TakeNothing, DeleteOnly
  DEF HandleConnectionReset, Arrives, Ends, Incoming
<1>5. CASE HandleIpProposal(l)
  BY <1>5, ArrivesFacts, AnswerIpProposalEffect, UnexpectedRefuses DEF HandleIpProposal
<1>6. CASE HandleIpAccepted(l)
  <2>1. lossless[Peer(l)] # <<>>
    BY <1>6, ArrivesFacts DEF HandleIpAccepted
  <2>2. CASE Unexpected(l)
    BY <2>1, <2>2, UnexpectedRefuses
  <2>3. CASE /\ state[l] = "ExpectingIpConfirmation"
             /\ SetIp(l, subnet[l], 1)
             /\ Answer(l, <<>>)
    BY <1>6, <2>1, <2>3, TakeNothing, SetIpOnly
    DEF HandleIpAccepted, Arrives, Establishes, Incoming
  <2> QED
    BY <1>6, <2>2, <2>3 DEF HandleIpAccepted
<1>7. CASE HandleIpRejected(l)
  BY <1>7, ArrivesFacts, SendIpEffect, UnexpectedRefuses DEF HandleIpRejected
<1>8. CASE IgnoreConnectionRequest(l)
  BY <1>8, ArrivesFacts, TakeNothing DEF IgnoreConnectionRequest, Arrives, Hears, Incoming
<1>9. CASE HandleConnectionRequest(l)
  <2>1. lossless[Peer(l)] # <<>> /\ Incoming(l).id = "ConnectionRequest"
    BY <1>9 DEF HandleConnectionRequest, Arrives, Incoming
  <2>2. CASE Answer(l, <<>>) /\ UNCHANGED connVars
    BY <2>1, <2>2, TakeNothing DEF Hears
  <2>3. CASE Answer(l, <<>>) /\ Construct(l, "FriendsRequestPending")
    BY <1>9, <2>1, <2>3, TakeNothing, ConstructOnly DEF Hears, HandleConnectionRequest
  <2>4. CASE (\E out \in ResetPackets : Answer(l, out)) /\ UNCHANGED connVars
    BY <1>9, <2>1, <2>4, StrayRefuses DEF HandleConnectionRequest
  <2> QED
    BY <1>9, <2>2, <2>3, <2>4 DEF HandleConnectionRequest
<1>10. CASE IgnoreStrayReset(l)
  <2>1. Only(l, NoConnection)
    BY <1>10, UnchangedOnly DEF IgnoreStrayReset
  <2> QED
    BY <1>10, <2>1, ArrivesFacts, TakeNothing DEF IgnoreStrayReset, Arrives, Ends, Incoming
<1>11. CASE ResetStrayPacket(l)
  BY <1>11, ArrivesFacts, StrayRefuses DEF ResetStrayPacket
<1> QED
  BY <1>1, <1>2, <1>3, <1>4, <1>5, <1>6, <1>7, <1>8, <1>9, <1>10, <1>11
  DEF ReceiveLossless, HandleData

\* Data packets, calls, and what changes no connection.
LEMMA SpeaksReset ==
  ASSUME Typed, NEW l \in Link, Sends(l, FromPacketId("ConnectionReset")),
         Only(l, NoConnection)
  PROVE  Speaks(l)
<1>1. "ConnectionReset" \in PacketId
  BY DEF PacketId
<1> QED
  BY <1>1, ResetPacketFacts DEF Speaks

LEMMA ReceiveLossyEffect ==
  ASSUME Typed, Delivering, NEW l \in Link, ReceiveLossy(l)
  PROVE  Effect(l) \/ NoEffect
<1>1. CASE ResetStrayData(l)
  <2>1. Sends(l, FromPacketId("ConnectionReset"))
    BY <1>1, DeliveredReset DEF ResetStrayData, AnswerLossy, Sends
  <2>2. Only(l, NoConnection)
    BY <1>1, UnchangedOnly DEF ResetStrayData
  <2> QED
    BY <2>1, <2>2, SpeaksReset DEF Effect
<1>2. CASE SendToTun(l) /\ state[l] = "Connected"
  <2>1. lossless[l] \o <<>> = lossless[l]
    BY ConcatEmptySeq DEF Typed, NetTypeOK
  <2> QED
    BY <1>2, <2>1 DEF SendToTun, AnswerLossy, NoEffect, Typed, NetTypeOK
<1>3. CASE SendToTun(l) /\ state[l] # "Connected"
  <2>1. Sends(l, FromPacketId("ConnectionReset"))
    BY <1>3, DeliveredReset DEF SendToTun, AnswerLossy, Sends
  <2>2. Only(l, NoConnection)
    BY <1>3, DeleteOnly DEF SendToTun
  <2> QED
    BY <2>1, <2>2, SpeaksReset DEF Effect
<1> QED
  BY <1>1, <1>2, <1>3 DEF ReceiveLossy

LEMMA DestroyEffect ==
  ASSUME Typed, Delivering, NEW l \in Link, state[l] # NoConnection, Destroy(l)
  PROVE  Speaks(l)
<1>1. PICK m \in Farewell(state[l]) : Send(l, <<m>>)
  BY DeliveredPackets DEF Destroy
<1>2. /\ m \in Packet
      /\ m.id \in {"ConnectionReject", "ConnectionClose", "ConnectionReset"}
  <2>1. m \in {FromPacketId(id) :
                id \in {"ConnectionReject", "ConnectionClose", "ConnectionReset"}}
    BY <1>1 DEF Farewell, NoConnection, Typed, ConnVarsTypeOK, State
  <2> QED
    BY <2>1, ResetPacketFacts DEF PacketId
<1>3. Sends(l, m)
  BY <1>1 DEF Send, Sends
<1>4. Only(l, NoConnection)
  BY DeleteOnly DEF Destroy
<1> QED
  BY <1>2, <1>3, <1>4 DEF Speaks

LEMMA CallEffect ==
  ASSUME Typed, Delivering, NEW l \in Link,
         \/ SendConnectionRequest(l)
         \/ AcceptConnection(l)
         \/ AcceptUnexpected(l)
         \/ EraseConnection(l)
  PROVE  Effect(l)
<1>1. CASE SendConnectionRequest(l)
  <2>1. Only(l, "OwnRequestPending")
    BY <1>1, ConstructOnly DEF SendConnectionRequest
  <2>2. Sends(l, FromPacketId("ConnectionRequest")) /\ state[l] = NoConnection
    BY <1>1 DEF SendConnectionRequest, Send, Sends
  <2> QED
    BY <2>1, <2>2, ResetPacketFacts DEF Effect, Speaks, PacketId, NoConnection
<1>2. CASE AcceptConnection(l)
  <2>1. CASE Send(l, <<FromPacketId("ConnectionAccept")>>) /\ Become(l, "ExpectingIpPacket")
    <3>1. Only(l, "ExpectingIpPacket") /\ Sends(l, FromPacketId("ConnectionAccept"))
      BY <2>1 DEF Become, Only, Send, Sends, Typed, ConnVarsTypeOK
    <3> QED
      BY <3>1, ResetPacketFacts DEF Effect, Speaks, PacketId
  <2>2. <<>> \notin Transmission(FromPacketId("ConnectionAccept"))
    BY DeliveredPackets
  <2> QED
    BY <1>2, <2>1, <2>2 DEF AcceptConnection
<1>3. CASE AcceptUnexpected(l)
  BY <1>3, DestroyEffect DEF AcceptUnexpected, Effect
<1>4. CASE EraseConnection(l)
  BY <1>4, DestroyEffect DEF EraseConnection, Effect
<1> QED
  BY <1>1, <1>2, <1>3, <1>4

\* While no ToxTunCore is destroyed, a process runs or is dead.
NoShutdown == \A p \in Node : process[p] # "Shutdown"

\* Every step has at most one of the effects, on one link.
LEMMA NextEffect ==
  ASSUME Typed, Delivering, NoShutdown, [Next]_vars
  PROVE  NoEffect \/ \E l \in Link : Effect(l)
<1>1. ASSUME NEW l \in Link, ReceiveLossless(l) PROVE Effect(l)
  BY <1>1, ReceiveLosslessEffect
<1>2. ASSUME NEW l \in Link, ReceiveLossy(l) PROVE Effect(l) \/ NoEffect
  BY <1>2, ReceiveLossyEffect
<1>3. ASSUME NEW l \in Link, IterateConnection(l) PROVE NoEffect
  BY <1>3 DEF IterateConnection, Iterate, NoEffect
<1>4. ASSUME NEW l \in Link,
             \/ SendConnectionRequest(l)
             \/ AcceptConnection(l)
             \/ AcceptUnexpected(l)
             \/ EraseConnection(l)
      PROVE  Effect(l)
  BY <1>4, CallEffect
<1>5. ASSUME NEW l \in Link, DropUnheard(l) PROVE FALSE
  BY <1>5, LinkFacts DEF DropUnheard, NoShutdown
<1>6. ASSUME NEW l \in Link, LoseLossy(l) PROVE NoEffect
  BY <1>6 DEF LoseLossy, NoEffect
<1>7. ASSUME NEW l \in Link, LoseLink(l) PROVE FALSE
  BY <1>7 DEF LoseLink, Delivering
<1>8. ASSUME NEW p \in Node, NEW b \in BOOLEAN, SetCallback(p, b) PROVE NoEffect
  BY <1>8 DEF SetCallback, netVars, NoEffect
<1>9. ASSUME NEW p \in Node, Shutdown(p) PROVE FALSE
  BY <1>9 DEF Shutdown, Delivering
<1>10. ASSUME NEW p \in Node, Crash(p) PROVE NoEffect
  BY <1>10 DEF Crash, netVars, NoEffect
<1>11. ASSUME NEW p \in Node, Start(p) PROVE FALSE
  BY <1>11 DEF Start, Delivering, NoShutdown
<1>12. CASE UNCHANGED vars
  BY <1>12 DEF vars, netVars, NoEffect
<1> QED
  BY <1>1, <1>2, <1>3, <1>4, <1>5, <1>6, <1>7, <1>8, <1>9, <1>10, <1>11, <1>12
  DEF Next, RejectConnection, CloseConnection

-----------------------------------------------------------------------------
(* The inductive invariant.                                                *)

\* The proposal of a node that waits for its answer is the last packet it has
\* sent, until it is taken.
ProposalWaits(l) ==
  state[l] = "ExpectingIpConfirmation" =>
    lossless[l] = <<>> \/ Latest(lossless[l]) = FromIpPostfix(subnet[l])

\* When it is taken and the friend is not Connected, the refusal is on its way.
RefusalFollows(l) ==
  /\ state[l] = "ExpectingIpConfirmation"
  /\ lossless[l] = <<>>
  /\ state[Peer(l)] # "Connected"
  => Refusing(lossless[Peer(l)])

\* A node is Connected while its friend is going to be, or is, or while the
\* end of its connection is on its way.
ConnectionFollows(l) ==
  state[l] = "Connected" =>
    \/ Ending(lossless[Peer(l)])
    \/ lossless[l] # <<>> /\ Latest(lossless[l]).id \in {"IpAccept", "IpProposal"}
    \/ lossless[l] = <<>> /\ state[Peer(l)] = "Connected"

Follows(l) == ProposalWaits(l) /\ RefusalFollows(l) /\ ConnectionFollows(l)

LEMMA PeerFacts ==
  ASSUME NEW l \in Link
  PROVE  Peer(l) \in Link /\ Peer(l) # l /\ Peer(Peer(l)) = l
  BY DEF Link, Peer

LEMMA OnlyFacts ==
  ASSUME Typed, NEW l \in Link, NEW s, Only(l, s)
  PROVE  /\ state'[l] = s
         /\ state'[Peer(l)] = state[Peer(l)]
         /\ subnet'[Peer(l)] = subnet[Peer(l)]
         /\ addr'[Peer(l)] = addr[Peer(l)]
  BY PeerFacts DEF Only, Typed, ConnVarsTypeOK

LEMMA QueueType ==
  ASSUME Typed, NEW l \in Link
  PROVE  lossless[l] \in Seq(Packet) /\ lossless[Peer(l)] \in Seq(Packet)
  BY PeerFacts DEF Typed, NetTypeOK

LEMMA SendsQueues ==
  ASSUME Typed, NEW l \in Link, NEW m, Sends(l, m)
  PROVE  /\ lossless'[l] = lossless[l] \o <<m>>
         /\ lossless'[Peer(l)] = lossless[Peer(l)]
  BY PeerFacts DEF Sends, Typed, NetTypeOK

LEMMA TakesQueues ==
  ASSUME Typed, NEW l \in Link, Takes(l)
  PROVE  /\ lossless'[l] = lossless[l]
         /\ lossless'[Peer(l)] = Tail(lossless[Peer(l)])
         /\ lossless[Peer(l)] # <<>>
  BY PeerFacts DEF Takes, Typed, NetTypeOK

LEMMA AnswersQueues ==
  ASSUME Typed, NEW l \in Link, NEW m, Answers(l, m)
  PROVE  /\ lossless'[l] = lossless[l] \o <<m>>
         /\ lossless'[Peer(l)] = Tail(lossless[Peer(l)])
         /\ lossless[Peer(l)] # <<>>
  BY PeerFacts DEF Answers, Typed, NetTypeOK

\* The end that does not act keeps its proposal at the end of its queue.
LEMMA WaitingAfterTake ==
  ASSUME Typed, NEW l \in Link, lossless[Peer(l)] # <<>>,
         ProposalWaits(Peer(l)),
         state'[Peer(l)] = state[Peer(l)], subnet'[Peer(l)] = subnet[Peer(l)],
         lossless'[Peer(l)] = Tail(lossless[Peer(l)])
  PROVE  /\ ProposalWaits(Peer(l))'
         /\ state[Peer(l)] = "ExpectingIpConfirmation" /\ lossless'[Peer(l)] = <<>>
              => Incoming(l) = FromIpPostfix(subnet[Peer(l)])
  BY QueueType, TailFacts DEF ProposalWaits, Incoming

\* It keeps following when l takes neither its proposal nor its consent.
LEMMA FollowsAfterTake ==
  ASSUME Typed, NEW l \in Link, Takes(l), Follows(Peer(l)),
         state'[Peer(l)] = state[Peer(l)], subnet'[Peer(l)] = subnet[Peer(l)],
         Incoming(l).id # "IpProposal",
         Incoming(l).id # "IpAccept" \/ state'[l] = "Connected"
  PROVE  Follows(Peer(l))'
<1> DEFINE k == Peer(l)
<1>1. /\ lossless'[l] = lossless[l]
      /\ lossless'[k] = Tail(lossless[k])
      /\ lossless[k] # <<>>
      /\ lossless[k] \in Seq(Packet)
      /\ Peer(k) = l
  BY TakesQueues, QueueType, PeerFacts
<1>2. /\ ProposalWaits(k)'
      /\ ~(state[k] = "ExpectingIpConfirmation" /\ lossless'[k] = <<>>)
  <2>1. /\ ProposalWaits(k)'
        /\ state[k] = "ExpectingIpConfirmation" /\ lossless'[k] = <<>>
             => Incoming(l) = FromIpPostfix(subnet[k])
    BY <1>1, WaitingAfterTake DEF Follows
  <2>2. FromIpPostfix(subnet[k]).id = "IpProposal"
    BY DEF FromIpPostfix
  <2> QED
    BY <2>1, <2>2
<1>3. RefusalFollows(k)'
  BY <1>2 DEF RefusalFollows
<1>4. ConnectionFollows(k)'
  <2>1. CASE Ending(lossless[l])
    BY <1>1, <2>1 DEF ConnectionFollows, Ending
  <2>2. CASE Latest(lossless[k]).id \in {"IpAccept", "IpProposal"}
    <3>1. CASE lossless'[k] = <<>>
      BY <1>1, <2>2, <3>1, TailFacts DEF ConnectionFollows, Incoming
    <3>2. CASE lossless'[k] # <<>>
      BY <1>1, <2>2, <3>2, TailFacts DEF ConnectionFollows
    <3> QED
      BY <3>1, <3>2
  <2> QED
    BY <1>1, <2>1, <2>2 DEF Follows, ConnectionFollows
<1> QED
  BY <1>2, <1>3, <1>4 DEF Follows

LEMMA SpeaksFollows ==
  ASSUME Typed, NEW l \in Link, Speaks(l), Follows(l), Follows(Peer(l))
  PROVE  Follows(l)' /\ Follows(Peer(l))'
<1> DEFINE k == Peer(l)
<1>1. PICK m \in Packet, s \in {NoConnection, "OwnRequestPending", "ExpectingIpPacket"} :
        /\ Sends(l, m)
        /\ Only(l, s)
        /\ m.id # "IpAccept"
        /\ m.id = "ConnectionRequest" => state[l] # "Connected"
  BY DEF Speaks
<1>2. /\ lossless'[l] = lossless[l] \o <<m>>
      /\ lossless'[k] = lossless[k]
      /\ lossless[l] \in Seq(Packet)
      /\ Peer(k) = l
      /\ state'[l] = s
      /\ state'[k] = state[k] /\ subnet'[k] = subnet[k]
  BY <1>1, SendsQueues, QueueType, PeerFacts, OnlyFacts
<1>3. Follows(l)'
  BY <1>2 DEF Follows, ProposalWaits, RefusalFollows, ConnectionFollows, NoConnection
<1>4. ProposalWaits(k)'
  BY <1>2 DEF Follows, ProposalWaits
<1>5. RefusalFollows(k)'
  BY <1>1, <1>2, AppendRefusing DEF Follows, RefusalFollows
<1>6. ConnectionFollows(k)'
  BY <1>1, <1>2, AppendEnding DEF Follows, ConnectionFollows
<1> QED
  BY <1>3, <1>4, <1>5, <1>6 DEF Follows

LEMMA HearsFollows ==
  ASSUME Typed, NEW l \in Link, Hears(l), Follows(l), Follows(Peer(l))
  PROVE  Follows(l)' /\ Follows(Peer(l))'
<1> DEFINE k == Peer(l)
<1>1. /\ lossless'[l] = lossless[l]
      /\ lossless'[k] = Tail(lossless[k])
      /\ lossless[k] # <<>>
      /\ lossless[k] \in Seq(Packet)
      /\ Peer(k) = l
      /\ state'[k] = state[k] /\ subnet'[k] = subnet[k]
      /\ \/ state'[l] = state[l] /\ subnet'[l] = subnet[l]
         \/ state'[l] = "FriendsRequestPending"
  BY TakesQueues, QueueType, PeerFacts, OnlyFacts DEF Hears, connVars
<1>2. Follows(k)'
  BY <1>1, FollowsAfterTake DEF Hears
<1>3. ProposalWaits(l)'
  BY <1>1 DEF Follows, ProposalWaits
<1>4. RefusalFollows(l)'
  BY <1>1, TailRefusing DEF Hears, Incoming, Follows, RefusalFollows
<1>5. ConnectionFollows(l)'
  BY <1>1, TailEnding DEF Hears, Incoming, Follows, ConnectionFollows
<1> QED
  BY <1>2, <1>3, <1>4, <1>5 DEF Follows

LEMMA EndsFollows ==
  ASSUME Typed, NEW l \in Link, Ends(l), Follows(l), Follows(Peer(l))
  PROVE  Follows(l)' /\ Follows(Peer(l))'
<1>1. /\ state'[l] = NoConnection
      /\ state'[Peer(l)] = state[Peer(l)] /\ subnet'[Peer(l)] = subnet[Peer(l)]
  BY OnlyFacts DEF Ends
<1>2. Follows(l)'
  BY <1>1 DEF Follows, ProposalWaits, RefusalFollows, ConnectionFollows, NoConnection
<1>3. Follows(Peer(l))'
  BY <1>1, FollowsAfterTake DEF Ends
<1> QED
  BY <1>2, <1>3

\* An IpAccept that is taken for the answer to this proposal although it
\* answers an earlier one is followed by the refusal of this one.
LEMMA EstablishesFollows ==
  ASSUME Typed, NEW l \in Link, Establishes(l), Follows(l), Follows(Peer(l))
  PROVE  Follows(l)' /\ Follows(Peer(l))'
<1> DEFINE k == Peer(l)
<1>1. /\ lossless'[l] = lossless[l]
      /\ lossless'[k] = Tail(lossless[k])
      /\ lossless[k] # <<>>
      /\ lossless[k] \in Seq(Packet) /\ Tail(lossless[k]) \in Seq(Packet)
      /\ Head(lossless[k]).id = "IpAccept"
      /\ state[l] = "ExpectingIpConfirmation"
      /\ state'[l] = "Connected"
      /\ state'[k] = state[k] /\ subnet'[k] = subnet[k]
  BY TakesQueues, QueueType, TailFacts, OnlyFacts DEF Establishes, Incoming
<1>2. Follows(k)'
  BY <1>1, FollowsAfterTake DEF Establishes
<1>3. ProposalWaits(l)' /\ RefusalFollows(l)'
  BY <1>1 DEF ProposalWaits, RefusalFollows
<1>4. ConnectionFollows(l)'
  <2>1. CASE lossless[l] # <<>>
    BY <1>1, <2>1 DEF Follows, ProposalWaits, ConnectionFollows, FromIpPostfix
  <2>2. CASE lossless[l] = <<>> /\ state[k] # "Connected"
    BY <1>1, <2>2, TailRefusing, RefusingEnding
    DEF Follows, RefusalFollows, ConnectionFollows
  <2> QED
    BY <1>1, <2>1, <2>2 DEF ConnectionFollows
<1> QED
  BY <1>2, <1>3, <1>4 DEF Follows

\* What an answer that ends a connection or a negotiation means to the friend.
LEMMA AnswersFollow ==
  ASSUME Typed, NEW l \in Link, NEW m \in Packet, NEW s, Answers(l, m), Only(l, s),
         Follows(Peer(l)), m.id # "ConnectionRequest",
         m.id # "IpAccept" \/ s = "Connected"
  PROVE  Follows(Peer(l))'
<1> DEFINE k == Peer(l)
<1>1. /\ lossless'[l] = lossless[l] \o <<m>>
      /\ lossless'[k] = Tail(lossless[k])
      /\ lossless[k] # <<>>
      /\ lossless[l] \in Seq(Packet)
      /\ Peer(k) = l
      /\ state'[l] = s
      /\ state'[k] = state[k] /\ subnet'[k] = subnet[k]
  BY AnswersQueues, QueueType, PeerFacts, OnlyFacts
<1>2. ProposalWaits(k)'
  BY <1>1, WaitingAfterTake DEF Follows
<1>3. RefusalFollows(k)'
  BY <1>1, AppendRefusing DEF RefusalFollows
<1>4. ConnectionFollows(k)'
  BY <1>1, AppendEnding DEF ConnectionFollows
<1> QED
  BY <1>2, <1>3, <1>4 DEF Follows

LEMMA RefusesFollows ==
  ASSUME Typed, NEW l \in Link, Refuses(l), Follows(l), Follows(Peer(l))
  PROVE  Follows(l)' /\ Follows(Peer(l))'
<1>1. PICK m \in Packet, s \in {NoConnection, "ExpectingIpPacket"} :
        /\ Answers(l, m)
        /\ m.id \in {"ConnectionReset", "IpReject"}
        /\ Only(l, s)
  BY DEF Refuses
<1>2. Follows(Peer(l))'
  BY <1>1, AnswersFollow
<1>3. state'[l] \in {NoConnection, "ExpectingIpPacket"}
  BY <1>1, OnlyFacts
<1>4. Follows(l)'
  BY <1>3 DEF Follows, ProposalWaits, RefusalFollows, ConnectionFollows, NoConnection
<1> QED
  BY <1>2, <1>4

LEMMA ProposesFollows ==
  ASSUME Typed, NEW l \in Link, Proposes(l), Follows(l), Follows(Peer(l))
  PROVE  Follows(l)' /\ Follows(Peer(l))'
<1>1. PICK s \in Subnet :
        /\ Answers(l, FromIpPostfix(s))
        /\ Only(l, "ExpectingIpConfirmation")
        /\ subnet'[l] = s
  BY DEF Proposes
<1>2. FromIpPostfix(s) \in Packet /\ FromIpPostfix(s).id = "IpProposal"
  BY ResetPacketFacts
<1>3. Follows(Peer(l))'
  BY <1>1, <1>2, AnswersFollow
<1>4. /\ lossless'[l] # <<>>
      /\ Latest(lossless'[l]) = FromIpPostfix(subnet'[l])
      /\ state'[l] = "ExpectingIpConfirmation"
  <2>1. lossless'[l] = lossless[l] \o <<FromIpPostfix(s)>> /\ lossless[l] \in Seq(Packet)
    BY <1>1, AnswersQueues, QueueType
  <2>2. lossless'[l] # <<>> /\ Latest(lossless'[l]) = FromIpPostfix(s)
    BY <1>2, <2>1, AppendFacts
  <2> QED
    BY <1>1, <2>2, OnlyFacts
<1>5. Follows(l)'
  BY <1>4 DEF Follows, ProposalWaits, RefusalFollows, ConnectionFollows
<1> QED
  BY <1>3, <1>5

LEMMA ConsentsFollows ==
  ASSUME Typed, NEW l \in Link, Consents(l), Follows(l), Follows(Peer(l))
  PROVE  Follows(l)' /\ Follows(Peer(l))'
<1> DEFINE m == FromPacketId("IpAccept")
<1>1. m \in Packet /\ m.id = "IpAccept"
  BY ResetPacketFacts DEF PacketId
<1>2. Answers(l, m) /\ Only(l, "Connected")
  BY DEF Consents
<1> HIDE DEF m
<1>3. Follows(Peer(l))'
  BY <1>1, <1>2, AnswersFollow
<1>4. /\ lossless'[l] # <<>>
      /\ Latest(lossless'[l]) = m
      /\ state'[l] = "Connected"
  <2>1. lossless'[l] = lossless[l] \o <<m>> /\ lossless[l] \in Seq(Packet)
    BY <1>2, AnswersQueues, QueueType
  <2>2. lossless'[l] # <<>> /\ Latest(lossless'[l]) = m
    BY <1>1, <2>1, AppendFacts
  <2> QED
    BY <1>2, <2>2, OnlyFacts
<1>5. Follows(l)'
  BY <1>1, <1>4 DEF Follows, ProposalWaits, RefusalFollows, ConnectionFollows
<1> QED
  BY <1>3, <1>5

\* What a step of l does to other links: nothing.
LEMMA EffectIsLocal ==
  ASSUME Typed, NEW l \in Link, Effect(l), NEW k \in Link, k # l, k # Peer(l)
  PROVE  /\ lossless'[k] = lossless[k]
         /\ lossless'[Peer(k)] = lossless[Peer(k)]
         /\ state'[k] = state[k] /\ subnet'[k] = subnet[k] /\ addr'[k] = addr[k]
         /\ state'[Peer(k)] = state[Peer(k)]
         /\ subnet'[Peer(k)] = subnet[Peer(k)]
         /\ addr'[Peer(k)] = addr[Peer(k)]
<1>1. Peer(k) \in Link /\ Peer(k) # l /\ Peer(k) # Peer(l) /\ Peer(l) \in Link
  BY PeerFacts
<1>2. ASSUME NEW j \in Link \ {l, Peer(l)}
      PROVE  /\ lossless'[j] = lossless[j]
             /\ state'[j] = state[j] /\ subnet'[j] = subnet[j] /\ addr'[j] = addr[j]
  <2>1. lossless'[j] = lossless[j]
    BY <1>1 DEF Effect, Speaks, Hears, Ends, Establishes, Refuses, Proposes, Consents,
                Sends, Takes, Answers, Typed, NetTypeOK
  <2>2. UNCHANGED connVars \/ \E s : Only(l, s)
    BY DEF Effect, Speaks, Hears, Ends, Establishes, Refuses, Proposes, Consents
  <2>3. state'[j] = state[j] /\ subnet'[j] = subnet[j] /\ addr'[j] = addr[j]
    BY <2>2 DEF Only, connVars, Typed, ConnVarsTypeOK
  <2> QED
    BY <2>1, <2>3
<1> QED
  BY <1>1, <1>2

AllFollow == \A l \in Link : Follows(l)

LEMMA NextFollows ==
  ASSUME Typed, Delivering, NoShutdown, AllFollow, [Next]_vars
  PROVE  AllFollow'
<1>1. CASE NoEffect
  BY <1>1 DEF NoEffect, connVars, AllFollow, Follows, ProposalWaits, RefusalFollows,
              ConnectionFollows
<1>2. ASSUME NEW l \in Link, Effect(l)
      PROVE  AllFollow'
  <2>1. Follows(l) /\ Follows(Peer(l))
    BY PeerFacts DEF AllFollow
  <2>2. Follows(l)' /\ Follows(Peer(l))'
    BY <1>2, <2>1, SpeaksFollows, HearsFollows, EndsFollows, EstablishesFollows,
       RefusesFollows, ProposesFollows, ConsentsFollows
    DEF Effect
  <2>3. ASSUME NEW k \in Link, k # l, k # Peer(l)
        PROVE  Follows(k)'
    <3>1. Follows(k)
      BY DEF AllFollow
    <3> QED
      BY <1>2, <2>3, <3>1, EffectIsLocal
      DEF Follows, ProposalWaits, RefusalFollows, ConnectionFollows
  <2> QED
    BY <2>2, <2>3 DEF AllFollow
<1> QED
  BY <1>1, <1>2, NextEffect

-----------------------------------------------------------------------------
(* Processes.                                                              *)

\* What an action does to the processes, unless a ToxTunCore is destroyed:
\* they end, or start again.
KeepsRunning == \A p \in Node : process'[p] \in {process[p], "Dead", "Running"}

LEMMA ConnectionKeepsRunning ==
  ASSUME Typed, NEW l \in Link,
         \/ TellNothing
         \/ \E n : Tell(l, n) \/ Learn(l, n)
         \/ SetIpOnDeleted(l)
         \/ SendToTun(l)
  PROVE  KeepsRunning
<1>1. l[1] \in Node /\ process \in [Node -> {"Running", "Shutdown", "Dead"}]
  BY LinkFacts DEF Typed, UserVarsTypeOK
<1>2. CASE TellNothing
  BY <1>2 DEF TellNothing, userVars, KeepsRunning
<1>3. ASSUME NEW n, Tell(l, n)
      PROVE  KeepsRunning
  BY <1>1, <1>3 DEF Tell, KeepsRunning
<1>4. ASSUME NEW n, Learn(l, n)
      PROVE  KeepsRunning
  BY <1>4 DEF Learn, KeepsRunning
<1>5. CASE SetIpOnDeleted(l)
  BY <1>1, <1>3, <1>5 DEF SetIpOnDeleted, KeepsRunning
<1>6. CASE SendToTun(l)
  BY <1>1, <1>6 DEF SendToTun, TellNothing, userVars, KeepsRunning
<1> QED
  BY <1>2, <1>3, <1>4, <1>5, <1>6

LEMMA NextKeepsRunning ==
  ASSUME Typed, "Kill" \notin Env, [Next]_vars
  PROVE  KeepsRunning
<1>1. ASSUME NEW l \in Link, ReceiveLossless(l) PROVE KeepsRunning
  <2>1. TellNothing \/ (\E n : Tell(l, n)) \/ SetIpOnDeleted(l)
    BY <1>1
    DEF ReceiveLossless, HandleData, HandleConnectionAccepted, HandleConnectionRejected,
        HandleConnectionClosed, HandleConnectionReset, HandleIpProposal, AnswerIpProposal,
        HandleIpAccepted, HandleIpRejected, IgnoreConnectionRequest, SendIp, SetIp,
        Unexpected, ResetAndDelete, HandleConnectionRequest, IgnoreStrayReset,
        ResetStrayPacket
  <2> QED
    BY <2>1, ConnectionKeepsRunning
<1>2. ASSUME NEW l \in Link, ReceiveLossy(l) PROVE KeepsRunning
  BY <1>2, ConnectionKeepsRunning DEF ReceiveLossy, ResetStrayData
<1>3. ASSUME NEW l \in Link,
             \/ SendConnectionRequest(l)
             \/ AcceptConnection(l)
             \/ AcceptUnexpected(l)
             \/ EraseConnection(l)
      PROVE  KeepsRunning
  <2>1. TellNothing \/ \E n : Tell(l, n) \/ Learn(l, n)
    BY <1>3 DEF SendConnectionRequest, AcceptConnection, AcceptUnexpected, EraseConnection,
                ResetAndDelete
  <2> QED
    BY <2>1, ConnectionKeepsRunning
<1>4. ASSUME NEW l \in Link,
             IterateConnection(l) \/ DropUnheard(l) \/ LoseLossy(l) \/ LoseLink(l)
      PROVE  KeepsRunning
  BY <1>4 DEF IterateConnection, Iterate, DropUnheard, LoseLossy, LoseLink, TellNothing,
              userVars, KeepsRunning
<1>5. ASSUME NEW p \in Node,
             (\E b \in BOOLEAN : SetCallback(p, b)) \/ Shutdown(p) \/ Crash(p) \/ Start(p)
      PROVE  KeepsRunning
  BY <1>5 DEF SetCallback, Shutdown, Crash, Start, userVars, KeepsRunning, Typed,
              UserVarsTypeOK
<1>6. CASE UNCHANGED vars
  BY <1>6 DEF vars, userVars, KeepsRunning
<1> QED
  BY <1>1, <1>2, <1>3, <1>4, <1>5, <1>6 DEF Next, RejectConnection, CloseConnection

\* The inductive invariant holds of every behaviour in which packets are
\* delivered.
LEMMA AlwaysFollows ==
  ASSUME Delivering
  PROVE  Spec => [](TypeOK /\ NoShutdown /\ AllFollow)
<1>1. Init => NoShutdown /\ AllFollow
  BY DEF Init, NetInit, ConnInit, NoShutdown, AllFollow, Follows, ProposalWaits,
         RefusalFollows, ConnectionFollows, NoConnection
<1>2. TypeOK /\ NoShutdown /\ [Next]_vars => NoShutdown'
  BY TypeOKParts, NextKeepsRunning DEF Delivering, NoShutdown, KeepsRunning
<1>3. TypeOK /\ NoShutdown /\ AllFollow /\ [Next]_vars => AllFollow'
  BY TypeOKParts, NextFollows
<1> QED
  BY <1>1, <1>2, <1>3, TypeCorrect, PTL DEF Spec

\* No node stays Connected alone: whatever two friends call and whenever, and
\* whatever devices, lookups and processes fail, once the packets between them
\* are handled both are Connected or none is (resetAndDeleteConnection answers
\* what is unexpected, ~Connection tells the friend).
THEOREM ConnectionsArePaired ==
  ASSUME Delivering
  PROVE  Spec => []ConnectionIsPaired
<1>1. AllFollow => ConnectionIsPaired
  BY DEF AllFollow, Follows, ConnectionFollows, ConnectionIsPaired, Quiet, Ending
<1> QED
  BY <1>1, AlwaysFollows, PTL

-----------------------------------------------------------------------------
(* Agreement on the subnet.                                                *)

\* The friend of a node that waits for this consent has its address in the
\* subnet the node proposed.
ConsentIsMeant(l) ==
  /\ state[l] = "Connected"
  /\ state[Peer(l)] = "ExpectingIpConfirmation"
  /\ lossless[Peer(l)] = <<>>
  /\ lossless[l] # <<>>
  /\ Latest(lossless[l]).id = "IpAccept"
  => addr[l] = Address(subnet[Peer(l)], 2)

SettledAddresses(l) ==
  Quiet(l) /\ state[l] = "Connected" /\ state[Peer(l)] = "Connected" =>
    /\ addr[l].subnet = addr[Peer(l)].subnet
    /\ {addr[l].postfix, addr[Peer(l)].postfix} = {1, 2}

Agrees(l) == ConsentIsMeant(l) /\ SettledAddresses(l)

\* Where l does not become Connected or wait for a consent, or has just sent a
\* packet, there is little to agree on.
LEMMA NothingSettled ==
  ASSUME NEW l \in Link, state'[l] \notin {"Connected", "ExpectingIpConfirmation"}
  PROVE  Agrees(l)' /\ Agrees(Peer(l))'
  BY PeerFacts DEF Agrees, ConsentIsMeant, SettledAddresses

LEMMA SpeaksAgrees ==
  ASSUME Typed, NEW l \in Link, Speaks(l) \/ Ends(l) \/ Refuses(l)
  PROVE  Agrees(l)' /\ Agrees(Peer(l))'
<1>1. state'[l] \in {NoConnection, "OwnRequestPending", "ExpectingIpPacket"}
  BY OnlyFacts DEF Speaks, Ends, Refuses
<1> QED
  BY <1>1, NothingSettled DEF NoConnection

LEMMA ProposesAgrees ==
  ASSUME Typed, NEW l \in Link, Proposes(l)
  PROVE  Agrees(l)' /\ Agrees(Peer(l))'
<1>1. PICK s \in Subnet :
        /\ Answers(l, FromIpPostfix(s))
        /\ Only(l, "ExpectingIpConfirmation")
  BY DEF Proposes
<1>2. state'[l] = "ExpectingIpConfirmation" /\ Peer(Peer(l)) = l
  BY <1>1, OnlyFacts, PeerFacts
<1>3. lossless'[l] = lossless[l] \o <<FromIpPostfix(s)>> /\ lossless[l] \in Seq(Packet)
  BY <1>1, AnswersQueues, QueueType
<1>4. lossless'[l] # <<>>
  BY <1>3, ResetPacketFacts, AppendFacts
<1> QED
  BY <1>2, <1>4 DEF Agrees, ConsentIsMeant, SettledAddresses

LEMMA ConsentsAgrees ==
  ASSUME Typed, "AddressFailure" \notin Env, NEW l \in Link, Consents(l), Follows(Peer(l))
  PROVE  Agrees(l)' /\ Agrees(Peer(l))'
<1> DEFINE k == Peer(l)
           m == FromPacketId("IpAccept")
<1>1. m \in Packet
  BY ResetPacketFacts DEF PacketId
<1>2. Answers(l, m) /\ Only(l, "Connected")
  BY DEF Consents
<1>3. addr'[l] = Address(Incoming(l).subnet, 2)
  BY DEF Consents
<1> HIDE DEF m
<1>4. /\ lossless'[l] = lossless[l] \o <<m>> /\ lossless[l] \in Seq(Packet)
      /\ lossless'[k] = Tail(lossless[k]) /\ lossless[k] # <<>>
      /\ state'[l] = "Connected" /\ state'[k] = state[k] /\ subnet'[k] = subnet[k]
      /\ Peer(k) = l
  BY <1>2, AnswersQueues, QueueType, OnlyFacts, PeerFacts
<1>5. lossless'[l] # <<>>
  BY <1>1, <1>4, AppendFacts
<1>6. state[k] = "ExpectingIpConfirmation" /\ lossless'[k] = <<>>
        => Incoming(l) = FromIpPostfix(subnet[k])
  BY <1>4, WaitingAfterTake DEF Follows
<1>7. FromIpPostfix(subnet[k]).subnet = subnet[k]
  BY DEF FromIpPostfix
<1>8. ConsentIsMeant(l)'
  BY <1>3, <1>4, <1>6, <1>7 DEF ConsentIsMeant
<1> QED
  BY <1>4, <1>5, <1>8 DEF Agrees, ConsentIsMeant, SettledAddresses, Quiet

LEMMA HearsAgrees ==
  ASSUME Typed, NEW l \in Link, Hears(l), Follows(Peer(l)), Agrees(l), Agrees(Peer(l))
  PROVE  Agrees(l)' /\ Agrees(Peer(l))'
<1> DEFINE k == Peer(l)
<1>1. CASE state'[l] = "FriendsRequestPending"
  BY <1>1, NothingSettled
<1>2. CASE UNCHANGED connVars
  <2>1. /\ state' = state /\ subnet' = subnet /\ addr' = addr
        /\ lossless'[l] = lossless[l]
        /\ lossless'[k] = Tail(lossless[k]) /\ lossless[k] # <<>>
        /\ lossless[k] \in Seq(Packet)
        /\ Head(lossless[k]).id = "ConnectionRequest"
        /\ Peer(k) = l
    BY <1>2, TakesQueues, QueueType, PeerFacts DEF Hears, Incoming, connVars
  <2>2. ~(state[k] = "ExpectingIpConfirmation" /\ lossless'[k] = <<>>)
    <3>1. state[k] = "ExpectingIpConfirmation" /\ lossless'[k] = <<>>
            => Incoming(l) = FromIpPostfix(subnet[k])
      BY <2>1, WaitingAfterTake DEF Follows
    <3> QED
      BY <2>1, <3>1 DEF Incoming, FromIpPostfix
  <2>3. ConsentIsMeant(l)'
    BY <2>1, <2>2 DEF ConsentIsMeant
  <2>4. ConsentIsMeant(k)'
    BY <2>1, TailFacts DEF Agrees, ConsentIsMeant
  <2>5. ~(lossless[l] = <<>> /\ lossless'[k] = <<>> /\ state[k] = "Connected")
    BY <2>1, TailFacts DEF Follows, ConnectionFollows, Ending
  <2> QED
    BY <2>1, <2>3, <2>4, <2>5 DEF Agrees, SettledAddresses, Quiet
<1> QED
  BY <1>1, <1>2, OnlyFacts DEF Hears

LEMMA EstablishesAgrees ==
  ASSUME Typed, "AddressFailure" \notin Env, NEW l \in Link, Establishes(l),
         Follows(Peer(l)), Agrees(Peer(l))
  PROVE  Agrees(l)' /\ Agrees(Peer(l))'
<1> DEFINE k == Peer(l)
<1>1. /\ lossless'[l] = lossless[l]
      /\ lossless'[k] = Tail(lossless[k]) /\ lossless[k] # <<>>
      /\ lossless[k] \in Seq(Packet)
      /\ Head(lossless[k]).id = "IpAccept"
      /\ state[l] = "ExpectingIpConfirmation" /\ state'[l] = "Connected"
      /\ state'[k] = state[k] /\ subnet'[k] = subnet[k] /\ addr'[k] = addr[k]
      /\ addr'[l] = Address(subnet[l], 1)
      /\ Peer(k) = l
  BY TakesQueues, QueueType, OnlyFacts, PeerFacts DEF Establishes, Incoming
<1>2. ~(state[k] = "ExpectingIpConfirmation" /\ lossless'[k] = <<>>)
  <2>1. state[k] = "ExpectingIpConfirmation" /\ lossless'[k] = <<>>
          => Incoming(l) = FromIpPostfix(subnet[k])
    BY <1>1, WaitingAfterTake DEF Follows
  <2> QED
    BY <1>1, <2>1 DEF Incoming, FromIpPostfix
<1>3. ConsentIsMeant(l)' /\ ConsentIsMeant(k)'
  BY <1>1, <1>2 DEF ConsentIsMeant
<1>4. ASSUME lossless[l] = <<>>, lossless'[k] = <<>>, state[k] = "Connected"
      PROVE  addr[k] = Address(subnet[l], 2)
  BY <1>1, <1>4, TailFacts DEF Agrees, ConsentIsMeant
<1>5. SettledAddresses(l)' /\ SettledAddresses(k)'
  BY <1>1, <1>4 DEF SettledAddresses, Quiet, Address
<1> QED
  BY <1>3, <1>5 DEF Agrees

AllAgree == \A l \in Link : Agrees(l)

LEMMA NextAgrees ==
  ASSUME Typed, Delivering, "AddressFailure" \notin Env, NoShutdown, AllFollow, AllAgree,
         [Next]_vars
  PROVE  AllAgree'
<1>1. CASE NoEffect
  BY <1>1 DEF NoEffect, connVars, AllAgree, Agrees, ConsentIsMeant, SettledAddresses, Quiet
<1>2. ASSUME NEW l \in Link, Effect(l)
      PROVE  AllAgree'
  <2>1. Follows(Peer(l)) /\ Agrees(l) /\ Agrees(Peer(l))
    BY PeerFacts DEF AllFollow, AllAgree
  <2>2. Agrees(l)' /\ Agrees(Peer(l))'
    BY <1>2, <2>1, SpeaksAgrees, HearsAgrees, EstablishesAgrees, ProposesAgrees,
       ConsentsAgrees
    DEF Effect
  <2>3. ASSUME NEW k \in Link, k # l, k # Peer(l)
        PROVE  Agrees(k)'
    <3>1. Agrees(k)
      BY DEF AllAgree
    <3> QED
      BY <1>2, <2>3, <3>1, EffectIsLocal
      DEF Agrees, ConsentIsMeant, SettledAddresses, Quiet
  <2> QED
    BY <2>2, <2>3 DEF AllAgree
<1> QED
  BY <1>1, <1>2, NextEffect

\* Where packets are delivered and devices take their addresses, friends that
\* are both Connected are in one subnet, as .1 and .2, once the packets between
\* them are handled: the IpAccept that handleIpAccepted took last answers the
\* proposal of this connection and not an earlier one.
THEOREM SubnetsAgree ==
  ASSUME Delivering, "AddressFailure" \notin Env
  PROVE  Spec => []SettledSubnetAgreement
<1>1. Init => AllAgree
  BY DEF Init, NetInit, ConnInit, AllAgree, Agrees, ConsentIsMeant, SettledAddresses,
         NoConnection
<1>2. TypeOK /\ NoShutdown /\ AllFollow /\ AllAgree /\ [Next]_vars => AllAgree'
  BY TypeOKParts, NextAgrees
<1>3. AllAgree => SettledSubnetAgreement
  BY DEF AllAgree, Agrees, SettledAddresses, SettledSubnetAgreement, EndsAgree
<1> QED
  BY <1>1, <1>2, <1>3, AlwaysFollows, PTL DEF Spec

\* The subnet two Connected friends share is then unused on both ends, although
\* each of them has looked at its own addresses only.
THEOREM SharedSubnetIsUnused ==
  ASSUME Delivering, "AddressFailure" \notin Env
  PROVE  Spec => []UnusedOnBothEnds
<1>1. TypeOK /\ UnusedOnOwnEnd /\ SettledSubnetAgreement => UnusedOnBothEnds
  <2> SUFFICES ASSUME TypeOK, UnusedOnOwnEnd, SettledSubnetAgreement,
                      "LookupFailure" \notin Env, NEW l \in Link, BothRun(l), Quiet(l),
                      state[l] = "Connected", state[Peer(l)] = "Connected"
               PROVE  addr[l].subnet \notin hostSubnets[l[1]] \cup hostSubnets[l[2]]
    BY DEF UnusedOnBothEnds
  <2>1. Peer(l) \in Link /\ Peer(l)[1] = l[2] /\ l[1] \in Node /\ l[2] \in Node
    BY LinkFacts DEF Peer
  <2>2. ASSUME NEW k \in Link, k[1] \in Node
        PROVE  addr[k].subnet \notin hostSubnets[k[1]]
    <3>1. CASE addr[k] = NoAddress
      BY <2>2, <3>1, NSubnetsAssumption, TypeOKParts DEF NoAddress, NoSubnet, Rest, Subnet
    <3>2. CASE addr[k] # NoAddress
      BY <3>2 DEF UnusedOnOwnEnd
    <3> QED
      BY <3>1, <3>2
  <2>3. addr[l].subnet = addr[Peer(l)].subnet
    BY DEF SettledSubnetAgreement, EndsAgree
  <2> QED
    BY <2>1, <2>2, <2>3
<1> QED
  BY <1>1, TypeCorrect, AddressesAreUnused, SubnetsAgree, PTL

=============================================================================
