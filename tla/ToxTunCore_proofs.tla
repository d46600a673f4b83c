--------------------------- MODULE ToxTunCore_proofs ---------------------------
(***************************************************************************)
(* What holds of the connection protocol for every number of friends, every *)
(* number of subnets, every bound and every kind of failure.                *)
(***************************************************************************)
EXTENDS ToxTunProperties, SequenceTheorems, TLAPS

-----------------------------------------------------------------------------
(* Links and packets.                                                      *)

\* The two directions between two friends are two links.
LEMMA LinkFacts ==
  ASSUME NEW l \in Link
  PROVE  /\ Peer(l) \in Link
         /\ Peer(l) # l
         /\ l[1] \in Node
         /\ l[2] \in Node
  BY DEF Link, Peer

\* The packets the code builds are packets.
LEMMA PacketFacts ==
  /\ \A id \in PacketId : FromPacketId(id) \in Packet
  /\ \A s \in Subnet : FromIpPostfix(s) \in Packet
  BY DEF PacketId, Packet, FromPacketId, FromIpPostfix, NoSubnet

\* What sendToTox puts on the wire is a sequence of packets.
LEMMA TransmissionType ==
  ASSUME NEW m \in Packet, NEW out \in Transmission(m)
  PROVE  out \in Seq(Packet)
<1>1. out = <<m>> \/ out = <<>>
  BY DEF Transmission
<1>2. <<m>> \in Seq(Packet) /\ <<>> \in Seq(Packet)
  OBVIOUS
<1> QED
  BY <1>1, <1>2

\* The reset packet, sent or not.
LEMMA ResetType ==
  ASSUME NEW out \in ResetPackets
  PROVE  out \in Seq(Packet)
<1>1. FromPacketId("ConnectionReset") \in Packet
  BY PacketFacts DEF PacketId
<1> QED
  BY <1>1, TransmissionType DEF ResetPackets

-----------------------------------------------------------------------------
(* Type correctness of the network.                                        *)

LEMMA SendType ==
  ASSUME NetTypeOK, NEW l \in Link, NEW out \in Seq(Packet), Send(l, out)
  PROVE  NetTypeOK'
<1>1. lossless[l] \o out \in Seq(Packet)
  BY ConcatProperties DEF NetTypeOK
<1> QED
  BY <1>1 DEF NetTypeOK, Send

LEMMA AnswerQueues ==
  ASSUME NetTypeOK, NEW l \in Link, NEW out \in Seq(Packet),
         lossless[Peer(l)] # <<>>,
         lossless' = [lossless EXCEPT ![Peer(l)] = Tail(@), ![l] = @ \o out]
  PROVE  lossless' \in [Link -> Seq(Packet)]
<1>1. lossless[l] \o out \in Seq(Packet)
  BY ConcatProperties DEF NetTypeOK
<1>2. Tail(lossless[Peer(l)]) \in Seq(Packet)
  BY LinkFacts, HeadTailProperties DEF NetTypeOK
<1> QED
  BY <1>1, <1>2, LinkFacts DEF NetTypeOK

LEMMA AnswerType ==
  ASSUME NetTypeOK, NEW l \in Link, NEW out \in Seq(Packet),
         lossless[Peer(l)] # <<>>, Answer(l, out)
  PROVE  NetTypeOK'
  BY AnswerQueues DEF NetTypeOK, Answer

LEMMA AnswerLossyType ==
  ASSUME NetTypeOK, NEW l \in Link, NEW out \in Seq(Packet), AnswerLossy(l, out)
  PROVE  NetTypeOK'
<1>1. lossless[l] \o out \in Seq(Packet)
  BY ConcatProperties DEF NetTypeOK
<1>2. lossy[Peer(l)] - 1 \in 0 .. MaxLossy
  BY LinkFacts, MaxLossyAssumption DEF NetTypeOK, AnswerLossy
<1> QED
  BY <1>1, <1>2 DEF NetTypeOK, AnswerLossy

LEMMA FlushType ==
  ASSUME NetTypeOK, NEW S, Flush(S)
  PROVE  NetTypeOK'
  BY MaxLossyAssumption DEF NetTypeOK, Flush

-----------------------------------------------------------------------------
(* Type correctness of a connection and of what its user knows.            *)

LEMMA TellType ==
  ASSUME UserVarsTypeOK, NEW l \in Link, NEW n \in Notification, Tell(l, n)
  PROVE  UserVarsTypeOK'
  BY LinkFacts DEF UserVarsTypeOK, Tell

LEMMA LearnType ==
  ASSUME UserVarsTypeOK, NEW l \in Link, NEW n \in Notification, Learn(l, n)
  PROVE  UserVarsTypeOK'
  BY DEF UserVarsTypeOK, Learn

LEMMA TellNothingType ==
  ASSUME UserVarsTypeOK, TellNothing
  PROVE  UserVarsTypeOK'
  BY DEF UserVarsTypeOK, TellNothing, userVars

LEMMA BecomeType ==
  ASSUME ConnVarsTypeOK, NEW l \in Link, NEW s \in State, Become(l, s)
  PROVE  ConnVarsTypeOK'
  BY DEF ConnVarsTypeOK, Become

LEMMA ConstructType ==
  ASSUME ConnVarsTypeOK, NEW l \in Link, NEW s \in State \cup {NoConnection},
         Construct(l, s)
  PROVE  ConnVarsTypeOK'
  BY DEF ConnVarsTypeOK, Construct, NoSubnet, NoAddress

LEMMA DeleteType ==
  ASSUME ConnVarsTypeOK, NEW l \in Link, DeleteConnection(l)
  PROVE  ConnVarsTypeOK'
  BY ConstructType DEF DeleteConnection

\* Every handler has this shape: it consumes a packet, sends packets and
\* leaves the connection and its user in states of their types.
Typed == NetTypeOK /\ ConnVarsTypeOK /\ UserVarsTypeOK

LEMMA UnexpectedType ==
  ASSUME Typed, NEW l \in Link, lossless[Peer(l)] # <<>>, Unexpected(l)
  PROVE  Typed'
<1>1. NetTypeOK'
  BY ResetType, AnswerType DEF Typed, Unexpected
<1>2. ConnVarsTypeOK'
  BY DeleteType DEF Typed, Unexpected, ResetAndDelete
<1>3. UserVarsTypeOK'
  BY TellType DEF Typed, Unexpected, ResetAndDelete, Notification
<1> QED
  BY <1>1, <1>2, <1>3 DEF Typed

LEMMA SetIpType ==
  ASSUME ConnVarsTypeOK, UserVarsTypeOK, NEW l \in Link,
         NEW s \in Subnet \cup {NoSubnet}, NEW postfix \in 0 .. 2, SetIp(l, s, postfix)
  PROVE  ConnVarsTypeOK' /\ UserVarsTypeOK'
<1>1. ConnVarsTypeOK'
  BY DEF ConnVarsTypeOK, SetIp, Address, State
<1>2. UserVarsTypeOK'
  BY TellType DEF SetIp, Notification
<1> QED
  BY <1>1, <1>2

LEMMA SetIpOnDeletedType ==
  ASSUME ConnVarsTypeOK, UserVarsTypeOK, NEW l \in Link, SetIpOnDeleted(l)
  PROVE  ConnVarsTypeOK' /\ UserVarsTypeOK'
<1>1. ConnVarsTypeOK'
  BY DeleteType DEF SetIpOnDeleted
<1>2. CASE Tell(l, "Disconnected")
  BY <1>1, <1>2, TellType DEF Notification
<1>3. CASE ~Tell(l, "Disconnected")
  BY <1>1, <1>3, LinkFacts DEF SetIpOnDeleted, UserVarsTypeOK, Notification
<1> QED
  BY <1>2, <1>3

\* A proposal is of a subnet that exists: NextSubnets ends at NSubnets, and
\* sendIp gives up there.
LEMMA SendIpType ==
  ASSUME Typed, NEW l \in Link, lossless[Peer(l)] # <<>>, SendIp(l)
  PROVE  Typed'
<1>1. PICK s \in NextSubnets(l) :
        \/ /\ s < NSubnets
           /\ Answer(l, <<FromIpPostfix(s)>>)
           /\ state' = [state EXCEPT ![l] = "ExpectingIpConfirmation"]
           /\ subnet' = [subnet EXCEPT ![l] = s]
           /\ UNCHANGED addr
           /\ TellNothing
        \/ Unexpected(l)
  BY DEF SendIp
<1>2. CASE Unexpected(l)
  BY <1>2, UnexpectedType
<1>3. CASE /\ s < NSubnets
           /\ Answer(l, <<FromIpPostfix(s)>>)
           /\ state' = [state EXCEPT ![l] = "ExpectingIpConfirmation"]
           /\ subnet' = [subnet EXCEPT ![l] = s]
           /\ UNCHANGED addr
           /\ TellNothing
  <2>1. s \in Subnet
    BY <1>3, NSubnetsAssumption DEF Typed, ConnVarsTypeOK, NextSubnets, Subnet, NoSubnet
  <2>2. <<FromIpPostfix(s)>> \in Seq(Packet)
    BY <2>1, PacketFacts
  <2>3. NetTypeOK'
    BY <1>3, <2>2, AnswerType DEF Typed
  <2>4. ConnVarsTypeOK'
    BY <1>3, <2>1 DEF Typed, ConnVarsTypeOK, State
  <2>5. UserVarsTypeOK'
    BY <1>3, TellNothingType DEF Typed
  <2> QED
    BY <2>3, <2>4, <2>5 DEF Typed
<1> QED
  BY <1>1, <1>2, <1>3

\* A packet that arrives is the head of a queue that is not empty.
LEMMA ArrivesFacts ==
  ASSUME Typed, NEW l \in Link, NEW id, Arrives(l, id)
  PROVE  lossless[Peer(l)] # <<>> /\ Head(lossless[Peer(l)]) \in Packet
<1>1. lossless[Peer(l)] # <<>>
  BY DEF Arrives
<1>2. lossless[Peer(l)] \in Seq(Packet)
  BY LinkFacts DEF Typed, NetTypeOK
<1> QED
  BY <1>1, <1>2, HeadTailProperties

\* Consuming a packet without an answer.
LEMMA ConsumeType ==
  ASSUME Typed, NEW l \in Link, lossless[Peer(l)] # <<>>, Answer(l, <<>>)
  PROVE  NetTypeOK'
  BY AnswerType, EmptySeq DEF Typed

LEMMA AnswerIpProposalType ==
  ASSUME Typed, NEW l \in Link, Arrives(l, "IpProposal"), AnswerIpProposal(l)
  PROVE  Typed'
<1> DEFINE s == Head(lossless[Peer(l)]).subnet
<1>1. /\ lossless[Peer(l)] # <<>>
      /\ s \in Subnet \cup {NoSubnet}
  BY ArrivesFacts DEF Packet
<1>2. /\ <<FromPacketId("IpAccept")>> \in Seq(Packet)
      /\ <<FromPacketId("IpReject")>> \in Seq(Packet)
  BY PacketFacts DEF PacketId
<1>3. CASE Answer(l, <<FromPacketId("IpAccept")>>) /\ SetIp(l, s, 2)
  <2>1. NetTypeOK'
    BY <1>1, <1>2, <1>3, AnswerType DEF Typed
  <2>2. ConnVarsTypeOK' /\ UserVarsTypeOK'
    BY <1>1, <1>3, SetIpType DEF Typed
  <2> QED
    BY <2>1, <2>2 DEF Typed
<1>4. CASE (\E out \in ResetPackets : Answer(l, out)) /\ SetIpOnDeleted(l)
  <2>1. NetTypeOK'
    BY <1>1, <1>4, ResetType, AnswerType DEF Typed
  <2> QED
    BY <1>4, <2>1, SetIpOnDeletedType DEF Typed
<1>5. CASE Answer(l, <<FromPacketId("IpReject")>>) /\ UNCHANGED connVars /\ TellNothing
  <2>1. NetTypeOK'
    BY <1>1, <1>2, <1>5, AnswerType DEF Typed
  <2> QED
    BY <1>5, <2>1, TellNothingType DEF Typed, ConnVarsTypeOK, connVars
<1>6. CASE Unexpected(l)
  BY <1>1, <1>6, UnexpectedType
<1> QED
  BY <1>3, <1>4, <1>5, <1>6 DEF AnswerIpProposal

\* Connection::handleData, one packet identifier per step.
LEMMA HandleDataType ==
  ASSUME Typed, NEW l \in Link, HandleData(l)
  PROVE  Typed'
<1>1. CASE HandleConnectionAccepted(l)
  BY <1>1, ArrivesFacts, SendIpType, UnexpectedType DEF HandleConnectionAccepted
<1>2. CASE HandleConnectionRejected(l)
  <2>1. lossless[Peer(l)] # <<>>
    BY <1>2, ArrivesFacts DEF HandleConnectionRejected
  <2>2. CASE Unexpected(l)
    BY <2>1, <2>2, UnexpectedType
  <2>3. CASE Tell(l, "Disconnected") /\ DeleteConnection(l) /\ Answer(l, <<>>)
    BY <2>1, <2>3, ConsumeType, TellType, DeleteType DEF Typed, Notification
  <2> QED
    BY <1>2, <2>2, <2>3 DEF HandleConnectionRejected
<1>3. CASE HandleConnectionClosed(l)
  <2>1. lossless[Peer(l)] # <<>>
    BY <1>3, ArrivesFacts DEF HandleConnectionClosed
  <2>2. CASE Unexpected(l)
    BY <2>1, <2>2, UnexpectedType
  <2>3. CASE Tell(l, "Disconnected") /\ DeleteConnection(l) /\ Answer(l, <<>>)
    BY <2>1, <2>3, ConsumeType, TellType, DeleteType DEF Typed, Notification
  <2> QED
    BY <1>3, <2>2, <2>3 DEF HandleConnectionClosed
<1>4. CASE HandleConnectionReset(l)
  <2>1. lossless[Peer(l)] # <<>>
    BY <1>4, ArrivesFacts DEF HandleConnectionReset
  <2> QED
    BY <1>4, <2>1, ConsumeType, TellType, DeleteType
    DEF HandleConnectionReset, Typed, Notification
<1>5. CASE HandleIpProposal(l)
  BY <1>5, ArrivesFacts, AnswerIpProposalType, UnexpectedType DEF HandleIpProposal
<1>6. CASE HandleIpAccepted(l)
  <2>1. lossless[Peer(l)] # <<>>
    BY <1>6, ArrivesFacts DEF HandleIpAccepted
  <2>2. CASE Unexpected(l)
    BY <2>1, <2>2, UnexpectedType
  <2>3. CASE SetIp(l, subnet[l], 1) /\ Answer(l, <<>>)
    <3>1. subnet[l] \in Subnet \cup {NoSubnet}
      BY DEF Typed, ConnVarsTypeOK
    <3> QED
      BY <2>1, <2>3, <3>1, ConsumeType, SetIpType DEF Typed
  <2> QED
    BY <1>6, <2>2, <2>3 DEF HandleIpAccepted
<1>7. CASE HandleIpRejected(l)
  BY <1>7, ArrivesFacts, SendIpType, UnexpectedType DEF HandleIpRejected
<1>8. CASE IgnoreConnectionRequest(l)
  BY <1>8, ArrivesFacts, ConsumeType, TellNothingType
  DEF IgnoreConnectionRequest, Typed, ConnVarsTypeOK, connVars
<1> QED
  BY <1>1, <1>2, <1>3, <1>4, <1>5, <1>6, <1>7, <1>8 DEF HandleData

\* ToxTunCore::handleData.
LEMMA ReceiveLosslessType ==
  ASSUME Typed, NEW l \in Link, ReceiveLossless(l)
  PROVE  Typed'
<1>1. CASE HandleData(l)
  BY <1>1, HandleDataType
<1>2. CASE HandleConnectionRequest(l)
  <2>1. lossless[Peer(l)] # <<>>
    BY <1>2, ArrivesFacts DEF HandleConnectionRequest
  <2>2. CASE Answer(l, <<>>) /\ UNCHANGED connVars /\ TellNothing
    BY <2>1, <2>2, ConsumeType, TellNothingType DEF Typed, ConnVarsTypeOK, connVars
  <2>3. CASE Answer(l, <<>>) /\ Construct(l, "FriendsRequestPending") /\ Tell(l, "Requested")
    BY <2>1, <2>3, ConsumeType, ConstructType, TellType DEF Typed, State, Notification
  <2>4. CASE (\E out \in ResetPackets : Answer(l, out)) /\ UNCHANGED connVars /\ TellNothing
    BY <2>1, <2>4, ResetType, AnswerType, TellNothingType DEF Typed, ConnVarsTypeOK, connVars
  <2> QED
    BY <1>2, <2>2, <2>3, <2>4 DEF HandleConnectionRequest
<1>3. CASE IgnoreStrayReset(l)
  BY <1>3, ArrivesFacts, ConsumeType, TellNothingType
  DEF IgnoreStrayReset, Typed, ConnVarsTypeOK, connVars
<1>4. CASE ResetStrayPacket(l)
  <2>1. lossless[Peer(l)] # <<>>
    BY <1>4, ArrivesFacts DEF ResetStrayPacket
  <2> QED
    BY <1>4, <2>1, ResetType, AnswerType, TellNothingType
    DEF ResetStrayPacket, Typed, ConnVarsTypeOK, connVars
<1> QED
  BY <1>1, <1>2, <1>3, <1>4 DEF ReceiveLossless

LEMMA ReceiveLossyType ==
  ASSUME Typed, NEW l \in Link, ReceiveLossy(l)
  PROVE  Typed'
<1>1. CASE ResetStrayData(l)
  BY <1>1, ResetType, AnswerLossyType, TellNothingType
  DEF ResetStrayData, Typed, ConnVarsTypeOK, connVars
<1>2. CASE SendToTun(l)
  <2>1. CASE AnswerLossy(l, <<>>) /\ UNCHANGED connVars /\ TellNothing
    BY <2>1, EmptySeq, AnswerLossyType, TellNothingType DEF Typed, ConnVarsTypeOK, connVars
  <2>2. CASE state[l] # "Connected"
    <3>1. NetTypeOK'
      BY <1>2, <2>2, ResetType, AnswerLossyType DEF Typed, SendToTun
    <3>2. ConnVarsTypeOK'
      BY <1>2, <2>2, DeleteType DEF Typed, SendToTun
    <3>3. notified' \in [Link -> Notification] /\ process' \in [Node -> {"Running", "Shutdown", "Dead"}]
      BY <1>2, <2>2, LinkFacts DEF Typed, SendToTun, UserVarsTypeOK, Notification
    <3> QED
      BY <3>1, <3>2, <3>3 DEF Typed, UserVarsTypeOK
  <2> QED
    BY <1>2, <2>1, <2>2 DEF SendToTun
<1> QED
  BY <1>1, <1>2 DEF ReceiveLossy

\* The packet ~Connection sends, in every state of a connection.
LEMMA FarewellType ==
  ASSUME NEW s \in State
  PROVE  \E m \in Packet : Farewell(s) = {m}
<1>1. \A id \in PacketId : FromPacketId(id) \in Packet
  BY PacketFacts
<1>2. CASE s = "FriendsRequestPending"
  <2>1. Farewell(s) = {FromPacketId("ConnectionReject")}
    BY <1>2 DEF Farewell, NoConnection
  <2> QED
    BY <1>1, <2>1 DEF PacketId
<1>3. CASE s = "Connected"
  <2>1. Farewell(s) = {FromPacketId("ConnectionClose")}
    BY <1>3 DEF Farewell, NoConnection
  <2> QED
    BY <1>1, <2>1 DEF PacketId
<1>4. CASE s \notin {"FriendsRequestPending", "Connected"}
  <2>1. Farewell(s) = {FromPacketId("ConnectionReset")}
    BY <1>4 DEF Farewell, State, NoConnection
  <2> QED
    BY <1>1, <2>1 DEF PacketId
<1> QED
  BY <1>2, <1>3, <1>4

LEMMA DestroyType ==
  ASSUME NetTypeOK, ConnVarsTypeOK, NEW l \in Link, state[l] # NoConnection, Destroy(l)
  PROVE  NetTypeOK' /\ ConnVarsTypeOK'
<1>1. state[l] \in State
  BY DEF ConnVarsTypeOK
<1>2. PICK m \in Farewell(state[l]) : \E out \in Transmission(m) : Send(l, out)
  BY DEF Destroy
<1>3. m \in Packet
  BY <1>1, <1>2, FarewellType
<1>4. NetTypeOK'
  BY <1>2, <1>3, TransmissionType, SendType
<1> QED
  BY <1>4, DeleteType DEF Destroy

\* The calls that concern one friend.
LEMMA CallType ==
  ASSUME Typed, NEW l \in Link,
         \/ SendConnectionRequest(l)
         \/ AcceptConnection(l)
         \/ AcceptUnexpected(l)
         \/ EraseConnection(l)
  PROVE  Typed'
<1>0. \A id \in PacketId : FromPacketId(id) \in Packet
  BY PacketFacts
<1>1. CASE SendConnectionRequest(l)
  <2>1. <<FromPacketId("ConnectionRequest")>> \in Seq(Packet)
    BY <1>0 DEF PacketId
  <2> QED
    BY <1>1, <2>1, SendType, ConstructType, LearnType
    DEF SendConnectionRequest, Typed, State, Notification
<1>2. CASE AcceptConnection(l)
  <2>1. <<FromPacketId("ConnectionAccept")>> \in Seq(Packet)
    BY <1>0 DEF PacketId
  <2>2. CASE /\ Send(l, <<FromPacketId("ConnectionAccept")>>)
             /\ Become(l, "ExpectingIpPacket")
             /\ Learn(l, "Answered")
    BY <2>1, <2>2, SendType, BecomeType, LearnType DEF Typed, State, Notification
  <2>3. CASE (\E out \in ResetPackets : Send(l, out)) /\ ResetAndDelete(l)
    BY <2>3, ResetType, SendType, TellType, DeleteType DEF Typed, ResetAndDelete, Notification
  <2> QED
    BY <1>2, <2>2, <2>3 DEF AcceptConnection
<1>3. CASE AcceptUnexpected(l)
  <2>1. NetTypeOK' /\ ConnVarsTypeOK'
    BY <1>3, DestroyType DEF AcceptUnexpected, Typed
  <2>2. UserVarsTypeOK'
    BY <1>3, TellType, TellNothingType DEF AcceptUnexpected, Typed, Notification
  <2> QED
    BY <2>1, <2>2 DEF Typed
<1>4. CASE EraseConnection(l)
  <2>1. NetTypeOK' /\ ConnVarsTypeOK'
    BY <1>4, DestroyType DEF EraseConnection, Typed
  <2>2. UserVarsTypeOK'
    BY <1>4, TellType, LearnType DEF EraseConnection, Typed, Notification
  <2> QED
    BY <2>1, <2>2 DEF Typed
<1> QED
  BY <1>1, <1>2, <1>3, <1>4

LEMMA ShutdownType ==
  ASSUME Typed, NEW p \in Node, Shutdown(p)
  PROVE  Typed'
<1> DEFINE open == {l \in LinksOf(p) : state[l] # NoConnection}
<1>1. PICK sent \in SUBSET open :
        lossless' = [l \in Link |->
          IF l \in sent
          THEN lossless[l] \o <<CHOOSE m \in Farewell(state[l]) : TRUE>>
          ELSE lossless[l]]
  BY DEF Shutdown
<1>2. ASSUME NEW l \in sent
      PROVE  <<CHOOSE m \in Farewell(state[l]) : TRUE>> \in Seq(Packet)
  <2>1. state[l] \in State
    BY <1>1 DEF Typed, ConnVarsTypeOK, LinksOf
  <2>2. PICK m \in Packet : Farewell(state[l]) = {m}
    BY <2>1, FarewellType
  <2> QED
    BY <2>2
<1>3. \A l \in sent :
        lossless[l] \o <<CHOOSE m \in Farewell(state[l]) : TRUE>> \in Seq(Packet)
  BY <1>1, <1>2, ConcatProperties DEF Typed, NetTypeOK, LinksOf
<1>4. NetTypeOK'
  BY <1>1, <1>3 DEF Typed, NetTypeOK, Shutdown
<1>5. ConnVarsTypeOK'
  BY DEF Typed, ConnVarsTypeOK, Shutdown, NoAddress, NoSubnet
<1>6. UserVarsTypeOK'
  BY DEF Typed, UserVarsTypeOK, Shutdown, Notification
<1> QED
  BY <1>4, <1>5, <1>6 DEF Typed

LEMMA StartType ==
  ASSUME Typed, NEW p \in Node, Start(p)
  PROVE  Typed'
<1>1. NetTypeOK'
  BY FlushType DEF Start, Typed, NetTypeOK, netVars
<1>2. ConnVarsTypeOK'
  BY DEF Typed, ConnVarsTypeOK, Start, NoAddress, NoSubnet
<1>3. UserVarsTypeOK'
  BY DEF Typed, UserVarsTypeOK, Start, Notification
<1> QED
  BY <1>1, <1>2, <1>3 DEF Typed

-----------------------------------------------------------------------------
(* The theorem.                                                            *)

LEMMA InitType == Init => TypeOK
<1> SUFFICES ASSUME Init
             PROVE  TypeOK
  OBVIOUS
<1>1. NetTypeOK
  BY MaxLossyAssumption, EmptySeq DEF Init, NetInit, NetTypeOK
<1>2. ConnVarsTypeOK
  BY DEF Init, ConnInit, ConnVarsTypeOK, NoAddress, NoSubnet
<1>3. UserVarsTypeOK
  BY DEF Init, ConnInit, UserVarsTypeOK, Notification
<1>4. callbackSet \in [Node -> BOOLEAN] /\ hostSubnets \in [Node -> SUBSET Subnet]
  <2>1. CallbackChoices \subseteq BOOLEAN
    BY DEF CallbackChoices
  <2> QED
    BY <2>1 DEF Init, ConnInit
<1> QED
  BY <1>1, <1>2, <1>3, <1>4, MaxCallsAssumption DEF Init, TypeOK, ConnTypeOK

\* What a step leaves of the types of the variables no handler touches.
Rest ==
  /\ callbackSet \in [Node -> BOOLEAN]
  /\ hostSubnets \in [Node -> SUBSET Subnet]
  /\ calls \in 0 .. MaxCalls

LEMMA TypeOKParts == TypeOK <=> Typed /\ Rest
  BY DEF TypeOK, ConnTypeOK, Typed, Rest

LEMMA CallRest ==
  ASSUME Rest, NEW p \in Node, Call(p)
  PROVE  Rest'
  BY MaxCallsAssumption DEF Rest, Call

LEMMA NextType == TypeOK /\ [Next]_vars => TypeOK'
<1> SUFFICES ASSUME Typed, Rest, [Next]_vars
             PROVE  Typed' /\ Rest'
  BY TypeOKParts, PTL
<1>1. CASE UNCHANGED vars
  BY <1>1 DEF vars, netVars, connVars, userVars, Typed, Rest, NetTypeOK, ConnVarsTypeOK,
              UserVarsTypeOK
<1>2. ASSUME NEW l \in Link, ReceiveLossless(l)
      PROVE  Typed' /\ Rest'
  BY <1>2, ReceiveLosslessType DEF ReceiveLossless, Rest
<1>3. ASSUME NEW l \in Link, ReceiveLossy(l)
      PROVE  Typed' /\ Rest'
  BY <1>3, ReceiveLossyType DEF ReceiveLossy, Rest
<1>4. ASSUME NEW l \in Link, IterateConnection(l)
      PROVE  Typed' /\ Rest'
  <2>1. NetTypeOK'
    BY <1>4, MaxLossyAssumption DEF IterateConnection, Iterate, Typed, NetTypeOK
  <2> QED
    BY <1>4, <2>1, TellNothingType
    DEF IterateConnection, Iterate, Typed, Rest, ConnVarsTypeOK, connVars
<1>5. ASSUME NEW l \in Link,
             \/ SendConnectionRequest(l)
             \/ AcceptConnection(l)
             \/ AcceptUnexpected(l)
             \/ EraseConnection(l)
      PROVE  Typed' /\ Rest'
  <2>1. Call(l[1])
    BY <1>5 DEF SendConnectionRequest, AcceptConnection, AcceptUnexpected, EraseConnection
  <2> QED
    BY <1>5, <2>1, CallType, CallRest, LinkFacts
<1>6. ASSUME NEW l \in Link, DropUnheard(l)
      PROVE  Typed' /\ Rest'
  BY <1>6, ConsumeType DEF DropUnheard, Typed, Rest, ConnVarsTypeOK, UserVarsTypeOK, connVars,
                           userVars
<1>7. ASSUME NEW l \in Link, LoseLossy(l)
      PROVE  Typed' /\ Rest'
  BY <1>7, MaxLossyAssumption
  DEF LoseLossy, Typed, Rest, NetTypeOK, ConnVarsTypeOK, UserVarsTypeOK, connVars, userVars
<1>8. ASSUME NEW l \in Link, LoseLink(l)
      PROVE  Typed' /\ Rest'
  BY <1>8, FlushType DEF LoseLink, Typed, Rest, ConnVarsTypeOK, UserVarsTypeOK, connVars,
                         userVars
<1>9. ASSUME NEW p \in Node, NEW b \in BOOLEAN, SetCallback(p, b)
      PROVE  Typed' /\ Rest'
  BY <1>9 DEF SetCallback, Typed, Rest, NetTypeOK, ConnVarsTypeOK, UserVarsTypeOK, netVars,
              connVars, userVars
<1>10. ASSUME NEW p \in Node, Shutdown(p)
       PROVE  Typed' /\ Rest'
  BY <1>10, ShutdownType, CallRest DEF Shutdown
<1>11. ASSUME NEW p \in Node, Crash(p)
       PROVE  Typed' /\ Rest'
  BY <1>11 DEF Crash, Typed, Rest, NetTypeOK, ConnVarsTypeOK, UserVarsTypeOK, netVars, connVars
<1>12. ASSUME NEW p \in Node, Start(p)
       PROVE  Typed' /\ Rest'
  <2>1. Rest'
    BY <1>12 DEF Start, Rest, CallbackChoices
  <2> QED
    BY <1>12, <2>1, StartType
<1> QED
  BY <1>1, <1>2, <1>3, <1>4, <1>5, <1>6, <1>7, <1>8, <1>9, <1>10, <1>11, <1>12
  DEF Next, RejectConnection, CloseConnection

\* The types of all variables, for every number of friends and subnets: in
\* particular every subnet proposed, remembered or set is below NSubnets.
THEOREM TypeCorrect == Spec => []TypeOK
  BY InitType, NextType, PTL DEF Spec

-----------------------------------------------------------------------------
(* What a user knows.  Informed says it of every link: when users are not   *)
(* careful, acceptConnection may erase a connection without an event, and    *)
(* then nothing is known until the next one is begun.                       *)

Careful == "CarelessUser" \notin Env

Informed(l) ==
  Running(l[1]) =>
    \/ notified[l] = Known(state[l])
    \/ state[l] = NoConnection /\ (~Careful \/ notified[l] = "Misled")

AllInformed == \A l \in Link : Informed(l)

\* A step that changes the connection l only and stops processes at most.
LEMMA LocalStep ==
  ASSUME Typed, AllInformed, NEW l \in Link, NEW s, NEW n,
         state' = [state EXCEPT ![l] = s],
         notified' = [notified EXCEPT ![l] = n],
         \A p \in Node : process'[p] = "Running" => process[p] = "Running",
         process'[l[1]] = "Running" =>
           n = Known(s) \/ (s = NoConnection /\ (~Careful \/ n = "Misled"))
  PROVE  AllInformed'
<1> SUFFICES ASSUME NEW k \in Link
             PROVE  Informed(k)'
  BY DEF AllInformed
<1>1. state'[l] = s /\ notified'[l] = n
  BY DEF Typed, ConnVarsTypeOK, UserVarsTypeOK
<1>2. CASE k = l
  BY <1>1, <1>2 DEF Informed, Running, Known
<1>3. CASE k # l
  <2>1. state'[k] = state[k] /\ notified'[k] = notified[k]
    BY <1>3 DEF Typed, ConnVarsTypeOK, UserVarsTypeOK
  <2>2. Informed(k) /\ k[1] \in Node
    BY LinkFacts DEF AllInformed
  <2> QED
    BY <2>1, <2>2 DEF Informed, Running, Known
<1> QED
  BY <1>2, <1>3

\* Steps that change neither a state nor what a user was told.
LEMMA SilentStep ==
  ASSUME AllInformed, state' = state, notified' = notified,
         \A p \in Node : process'[p] = "Running" => process[p] = "Running"
  PROVE  AllInformed'
<1> SUFFICES ASSUME NEW k \in Link
             PROVE  Informed(k)'
  BY DEF AllInformed
<1>1. Informed(k) /\ k[1] \in Node
  BY LinkFacts DEF AllInformed
<1> QED
  BY <1>1 DEF Informed, Running, Known

\* What ToxTunCore::callback does besides reporting the event.
LEMMA TellFacts ==
  ASSUME Typed, NEW l \in Link, NEW n, Tell(l, n)
  PROVE  /\ notified' = [notified EXCEPT ![l] = n]
         /\ \A p \in Node : process'[p] = "Running" => process[p] = "Running"
  BY LinkFacts DEF Tell, Typed, UserVarsTypeOK

\* A step that is reported, and whose report is the truth.
LEMMA ToldStep ==
  ASSUME Typed, AllInformed, NEW l \in Link, NEW s,
         state' = [state EXCEPT ![l] = s], Tell(l, Known(s))
  PROVE  AllInformed'
  BY TellFacts, LocalStep

LEMMA EndStep ==
  ASSUME Typed, AllInformed, NEW l \in Link, Tell(l, "Disconnected"), DeleteConnection(l)
  PROVE  AllInformed'
<1>1. state' = [state EXCEPT ![l] = NoConnection]
  BY DEF DeleteConnection, Construct
<1>2. Known(NoConnection) = "Disconnected"
  BY DEF Known, NoConnection
<1> QED
  BY <1>1, <1>2, ToldStep

LEMMA QuietStep ==
  ASSUME AllInformed, UNCHANGED connVars, TellNothing
  PROVE  AllInformed'
  BY SilentStep DEF connVars, TellNothing, userVars

LEMMA SetIpStep ==
  ASSUME Typed, AllInformed, NEW l \in Link, NEW s, NEW postfix, SetIp(l, s, postfix)
  PROVE  AllInformed'
<1>1. Known("Connected") = "Connected"
  BY DEF Known, NoConnection
<1> QED
  BY <1>1, ToldStep DEF SetIp

\* An acceptance is reported for a connection that is gone, if the process
\* goes on.
LEMMA SetIpOnDeletedStep ==
  ASSUME Typed, AllInformed, NEW l \in Link, SetIpOnDeleted(l)
  PROVE  AllInformed'
<1>1. CASE Tell(l, "Disconnected")
  BY <1>1, EndStep DEF SetIpOnDeleted
<1>2. CASE ~Tell(l, "Disconnected")
  <2>1. PICK n : /\ notified' = [notified EXCEPT ![l] = n]
                 /\ n = "Misled" \/ process' = [process EXCEPT ![l[1]] = "Dead"]
    BY <1>2 DEF SetIpOnDeleted
  <2>2. state' = [state EXCEPT ![l] = NoConnection]
    BY DEF SetIpOnDeleted, DeleteConnection, Construct
  <2>3. \A p \in Node : process'[p] = "Running" => process[p] = "Running"
    BY <1>2, LinkFacts DEF SetIpOnDeleted, Typed, UserVarsTypeOK
  <2>4. process'[l[1]] = "Running" => n = "Misled"
    BY <2>1, LinkFacts DEF Typed, UserVarsTypeOK
  <2> QED
    BY <2>1, <2>2, <2>3, <2>4, LocalStep
<1> QED
  BY <1>1, <1>2

\* A caller that proposes a subnet was told nothing new.
LEMMA SendIpStep ==
  ASSUME Typed, AllInformed, NEW l \in Link, Running(l[1]),
         state[l] \in {"OwnRequestPending", "ExpectingIpConfirmation"}, SendIp(l)
  PROVE  AllInformed'
<1>1. CASE Unexpected(l)
  BY <1>1, EndStep DEF Unexpected, ResetAndDelete
<1>2. CASE state' = [state EXCEPT ![l] = "ExpectingIpConfirmation"] /\ TellNothing
  <2>1. Informed(l)
    BY DEF AllInformed
  <2>2. notified[l] = Known("ExpectingIpConfirmation")
    BY <2>1 DEF Informed, Known, NoConnection
  <2>3. notified' = [notified EXCEPT ![l] = notified[l]]
    BY <1>2 DEF TellNothing, userVars, Typed, UserVarsTypeOK
  <2> QED
    BY <1>2, <2>2, <2>3, LocalStep DEF TellNothing, userVars
<1> QED
  BY <1>1, <1>2 DEF SendIp

LEMMA UnexpectedStep ==
  ASSUME Typed, AllInformed, NEW l \in Link, Unexpected(l)
  PROVE  AllInformed'
  BY EndStep DEF Unexpected, ResetAndDelete

\* Connection::handleData, one packet identifier per step.
LEMMA HandleDataStep ==
  ASSUME Typed, AllInformed, NEW l \in Link, Running(l[1]), HandleData(l)
  PROVE  AllInformed'
<1>1. CASE HandleConnectionAccepted(l)
  BY <1>1, SendIpStep, UnexpectedStep DEF HandleConnectionAccepted
<1>2. CASE HandleConnectionRejected(l)
  BY <1>2, EndStep, UnexpectedStep DEF HandleConnectionRejected
<1>3. CASE HandleConnectionClosed(l)
  BY <1>3, EndStep, UnexpectedStep DEF HandleConnectionClosed
<1>4. CASE HandleConnectionReset(l)
  BY <1>4, EndStep DEF HandleConnectionReset
<1>5. CASE HandleIpProposal(l)
  BY <1>5, SetIpStep, SetIpOnDeletedStep, QuietStep, UnexpectedStep
  DEF HandleIpProposal, AnswerIpProposal
<1>6. CASE HandleIpAccepted(l)
  BY <1>6, SetIpStep, UnexpectedStep DEF HandleIpAccepted
<1>7. CASE HandleIpRejected(l)
  BY <1>7, SendIpStep, UnexpectedStep DEF HandleIpRejected
<1>8. CASE IgnoreConnectionRequest(l)
  BY <1>8, QuietStep DEF IgnoreConnectionRequest
<1> QED
  BY <1>1, <1>2, <1>3, <1>4, <1>5, <1>6, <1>7, <1>8 DEF HandleData

LEMMA ReceiveLosslessStep ==
  ASSUME Typed, AllInformed, NEW l \in Link, ReceiveLossless(l)
  PROVE  AllInformed'
<1>1. CASE HandleData(l)
  BY <1>1, HandleDataStep DEF ReceiveLossless
<1>2. CASE Construct(l, "FriendsRequestPending") /\ Tell(l, "Requested")
  <2>1. Known("FriendsRequestPending") = "Requested"
    BY DEF Known, NoConnection
  <2> QED
    BY <1>2, <2>1, ToldStep DEF Construct
<1>3. CASE UNCHANGED connVars /\ TellNothing
  BY <1>3, QuietStep
<1> QED
  BY <1>1, <1>2, <1>3
  DEF ReceiveLossless, HandleConnectionRequest, IgnoreStrayReset, ResetStrayPacket

\* Data in a state other than Connected ends the connection with an event.
LEMMA ReceiveLossyStep ==
  ASSUME Typed, AllInformed, NEW l \in Link, ReceiveLossy(l)
  PROVE  AllInformed'
<1>1. CASE UNCHANGED connVars /\ TellNothing
  BY <1>1, QuietStep
<1>2. CASE SendToTun(l) /\ state[l] # "Connected"
  <2>1. /\ state' = [state EXCEPT ![l] = NoConnection]
        /\ notified' = [notified EXCEPT ![l] = "Disconnected"]
    BY <1>2 DEF SendToTun, DeleteConnection, Construct
  <2>2. \A p \in Node : process'[p] = "Running" => process[p] = "Running"
    BY <1>2, LinkFacts DEF SendToTun, Typed, UserVarsTypeOK
  <2>3. Known(NoConnection) = "Disconnected"
    BY DEF Known, NoConnection
  <2> QED
    BY <2>1, <2>2, <2>3, LocalStep
<1> QED
  BY <1>1, <1>2 DEF ReceiveLossy, SendToTun, ResetStrayData

\* What a user learns from the return of a call.
LEMMA LearnStep ==
  ASSUME Typed, AllInformed, NEW l \in Link, NEW s,
         state' = [state EXCEPT ![l] = s], Learn(l, Known(s))
  PROVE  AllInformed'
  BY LocalStep DEF Learn

LEMMA CallStep ==
  ASSUME Typed, AllInformed, NEW l \in Link,
         \/ SendConnectionRequest(l)
         \/ AcceptConnection(l)
         \/ AcceptUnexpected(l)
         \/ EraseConnection(l)
  PROVE  AllInformed'
<1>0. /\ Known("OwnRequestPending") = "Calling"
      /\ Known("ExpectingIpPacket") = "Answered"
      /\ Known(NoConnection) = "Disconnected"
  BY DEF Known, NoConnection
<1>1. CASE SendConnectionRequest(l)
  BY <1>0, <1>1, LearnStep DEF SendConnectionRequest, Construct
<1>2. CASE AcceptConnection(l)
  BY <1>0, <1>2, LearnStep, EndStep DEF AcceptConnection, Become, ResetAndDelete
<1>3. CASE AcceptUnexpected(l)
  <2>1. CASE Tell(l, "Disconnected")
    BY <1>3, <2>1, EndStep DEF AcceptUnexpected, Destroy
  <2>2. CASE TellNothing
    <3>1. state' = [state EXCEPT ![l] = NoConnection]
      BY <1>3 DEF AcceptUnexpected, Destroy, DeleteConnection, Construct
    <3>2. ~Careful
      BY <1>3 DEF AcceptUnexpected, Careful
    <3>3. notified' = [notified EXCEPT ![l] = notified[l]]
      BY <2>2 DEF TellNothing, userVars, Typed, UserVarsTypeOK
    <3> QED
      BY <2>2, <3>1, <3>2, <3>3, LocalStep DEF TellNothing, userVars
  <2> QED
    BY <1>3, <2>1, <2>2 DEF AcceptUnexpected
<1>4. CASE EraseConnection(l)
  <2>1. state' = [state EXCEPT ![l] = NoConnection]
    BY <1>4 DEF EraseConnection, Destroy, DeleteConnection, Construct
  <2> QED
    BY <1>0, <1>4, <2>1, LearnStep, ToldStep DEF EraseConnection
<1> QED
  BY <1>1, <1>2, <1>3, <1>4

LEMMA ShutdownStep ==
  ASSUME Typed, AllInformed, NEW p \in Node, Shutdown(p)
  PROVE  AllInformed'
<1> SUFFICES ASSUME NEW k \in Link
             PROVE  Informed(k)'
  BY DEF AllInformed
<1>1. Informed(k) /\ k[1] \in Node
  BY LinkFacts DEF AllInformed
<1>2. CASE k[1] = p
  <2>1. process'[p] # "Running"
    BY DEF Shutdown, Typed, UserVarsTypeOK
  <2> QED
    BY <1>2, <2>1 DEF Informed, Running
<1>3. CASE k[1] # p
  <2>1. /\ state'[k] = state[k]
        /\ notified'[k] = notified[k]
        /\ process'[k[1]] = process[k[1]]
    BY <1>1, <1>3 DEF Shutdown, Typed, UserVarsTypeOK
  <2> QED
    BY <1>1, <2>1 DEF Informed, Running, Known
<1> QED
  BY <1>2, <1>3

LEMMA StartStep ==
  ASSUME Typed, AllInformed, NEW p \in Node, Start(p)
  PROVE  AllInformed'
<1> SUFFICES ASSUME NEW k \in Link
             PROVE  Informed(k)'
  BY DEF AllInformed
<1>1. Informed(k) /\ k[1] \in Node
  BY LinkFacts DEF AllInformed
<1>2. CASE k[1] = p
  <2>1. state'[k] = NoConnection /\ notified'[k] = "Disconnected"
    BY <1>2 DEF Start
  <2> QED
    BY <2>1 DEF Informed, Known, NoConnection
<1>3. CASE k[1] # p
  <2>1. /\ state'[k] = state[k]
        /\ notified'[k] = notified[k]
        /\ process'[k[1]] = process[k[1]]
    BY <1>1, <1>3 DEF Start, Typed, UserVarsTypeOK
  <2> QED
    BY <1>1, <2>1 DEF Informed, Running, Known
<1> QED
  BY <1>2, <1>3

LEMMA NextInformed == TypeOK /\ AllInformed /\ [Next]_vars => AllInformed'
<1> SUFFICES ASSUME Typed, AllInformed, [Next]_vars
             PROVE  AllInformed'
  BY TypeOKParts
<1>1. CASE UNCHANGED vars
  BY <1>1, SilentStep DEF vars, connVars, userVars
<1>2. ASSUME NEW l \in Link, ReceiveLossless(l)
      PROVE  AllInformed'
  BY <1>2, ReceiveLosslessStep
<1>3. ASSUME NEW l \in Link, ReceiveLossy(l)
      PROVE  AllInformed'
  BY <1>3, ReceiveLossyStep
<1>4. ASSUME NEW l \in Link, IterateConnection(l)
      PROVE  AllInformed'
  BY <1>4, QuietStep DEF IterateConnection, Iterate
<1>5. ASSUME NEW l \in Link,
             \/ SendConnectionRequest(l)
             \/ AcceptConnection(l)
             \/ AcceptUnexpected(l)
             \/ EraseConnection(l)
      PROVE  AllInformed'
  BY <1>5, CallStep
<1>6. ASSUME NEW l \in Link, DropUnheard(l) \/ LoseLossy(l) \/ LoseLink(l)
      PROVE  AllInformed'
  BY <1>6, QuietStep DEF DropUnheard, LoseLossy, LoseLink, TellNothing
<1>7. ASSUME NEW p \in Node, NEW b \in BOOLEAN, SetCallback(p, b)
      PROVE  AllInformed'
  BY <1>7, QuietStep DEF SetCallback, TellNothing
<1>8. ASSUME NEW p \in Node, Shutdown(p)
      PROVE  AllInformed'
  BY <1>8, ShutdownStep
<1>9. ASSUME NEW p \in Node, Crash(p)
      PROVE  AllInformed'
  <2>1. \A q \in Node : process'[q] = "Running" => process[q] = "Running"
    BY <1>9 DEF Crash, Typed, UserVarsTypeOK
  <2> QED
    BY <1>9, <2>1, SilentStep DEF Crash, connVars
<1>10. ASSUME NEW p \in Node, Start(p)
       PROVE  AllInformed'
  BY <1>10, StartStep
<1> QED
  BY <1>1, <1>2, <1>3, <1>4, <1>5, <1>6, <1>7, <1>8, <1>9, <1>10
  DEF Next, RejectConnection, CloseConnection

LEMMA InitInformed == Init => AllInformed
  BY DEF Init, ConnInit, AllInformed, Informed, Known, NoConnection

\* The inductive invariant holds, whatever fails and whatever users do.
THEOREM AlwaysInformed == Spec => [](TypeOK /\ AllInformed)
  BY InitType, NextType, InitInformed, NextInformed, PTL DEF Spec

\* Where acceptConnection is called only for a request that is pending, the
\* events and the calls of a user tell the state of every connection, for any
\* number of friends and under every failure the model has.
THEOREM UsersAreInformed ==
  ASSUME Careful
  PROVE  Spec => []UserInformed
<1>1. AllInformed => UserInformed
  BY DEF AllInformed, Informed, UserInformed
<1> QED
  BY <1>1, AlwaysInformed, PTL

-----------------------------------------------------------------------------
(* Consent.                                                                *)

\* Every address is kept or removed.
NoNewAddress == \A k \in Link : addr'[k] \in {addr[k], NoAddress}

Consent ==
  \A k \in Link :
    addr'[k] \notin {addr[k], NoAddress} => notified[k] \in {"Calling", "Answered"}

LEMMA ConstructAddress ==
  ASSUME Typed, NEW l \in Link, NEW s, Construct(l, s)
  PROVE  NoNewAddress
  BY DEF Construct, NoNewAddress, Typed, ConnVarsTypeOK

LEMMA KeepAddress ==
  ASSUME UNCHANGED addr
  PROVE  NoNewAddress
  BY DEF NoNewAddress

LEMMA EndAddress ==
  ASSUME Typed, NEW l \in Link, ResetAndDelete(l) \/ Unexpected(l) \/ DeleteConnection(l)
  PROVE  NoNewAddress
  BY ConstructAddress DEF ResetAndDelete, Unexpected, DeleteConnection

LEMMA SetIpConsent ==
  ASSUME Typed, NEW l \in Link, NEW s, NEW postfix, SetIp(l, s, postfix),
         notified[l] \in {"Calling", "Answered"}
  PROVE  Consent
  BY DEF SetIp, Consent, Typed, ConnVarsTypeOK

LEMMA HandleDataConsent ==
  ASSUME Typed, AllInformed, NEW l \in Link, Running(l[1]), HandleData(l)
  PROVE  Consent
<1>0. NoNewAddress => Consent
  BY DEF NoNewAddress, Consent
<1>1. CASE HandleConnectionAccepted(l)
  BY <1>0, <1>1, EndAddress, KeepAddress DEF HandleConnectionAccepted, SendIp
<1>2. CASE HandleConnectionRejected(l)
  BY <1>0, <1>2, EndAddress DEF HandleConnectionRejected
<1>3. CASE HandleConnectionClosed(l)
  BY <1>0, <1>3, EndAddress DEF HandleConnectionClosed
<1>4. CASE HandleConnectionReset(l)
  BY <1>0, <1>4, EndAddress DEF HandleConnectionReset
<1>5. CASE HandleIpProposal(l)
  <2>1. CASE Unexpected(l) \/ DeleteConnection(l) \/ UNCHANGED connVars
    BY <1>0, <2>1, EndAddress, KeepAddress DEF connVars
  <2>2. CASE state[l] = "ExpectingIpPacket" /\ \E s : SetIp(l, s, 2)
    <3>1. notified[l] = "Answered"
      BY <2>2 DEF AllInformed, Informed, Known, NoConnection
    <3> QED
      BY <2>2, <3>1, SetIpConsent
  <2> QED
    BY <1>5, <2>1, <2>2 DEF HandleIpProposal, AnswerIpProposal, SetIpOnDeleted
<1>6. CASE HandleIpAccepted(l)
  <2>1. CASE Unexpected(l)
    BY <1>0, <2>1, EndAddress
  <2>2. CASE state[l] = "ExpectingIpConfirmation" /\ SetIp(l, subnet[l], 1)
    <3>1. notified[l] = "Calling"
      BY <2>2 DEF AllInformed, Informed, Known, NoConnection
    <3> QED
      BY <2>2, <3>1, SetIpConsent
  <2> QED
    BY <1>6, <2>1, <2>2 DEF HandleIpAccepted
<1>7. CASE HandleIpRejected(l)
  BY <1>0, <1>7, EndAddress, KeepAddress DEF HandleIpRejected, SendIp
<1>8. CASE IgnoreConnectionRequest(l)
  BY <1>0, <1>8, KeepAddress DEF IgnoreConnectionRequest, connVars
<1> QED
  BY <1>1, <1>2, <1>3, <1>4, <1>5, <1>6, <1>7, <1>8 DEF HandleData

LEMMA NextConsent == TypeOK /\ AllInformed /\ Next => Consent
<1> SUFFICES ASSUME Typed, AllInformed, Next
             PROVE  Consent
  BY TypeOKParts
<1>0. NoNewAddress => Consent
  BY DEF NoNewAddress, Consent
<1>1. ASSUME NEW l \in Link, ReceiveLossless(l)
      PROVE  Consent
  <2>1. CASE HandleData(l)
    BY <1>1, <2>1, HandleDataConsent DEF ReceiveLossless
  <2>2. CASE ~HandleData(l)
    BY <1>0, <1>1, <2>2, ConstructAddress, KeepAddress
    DEF ReceiveLossless, HandleConnectionRequest, IgnoreStrayReset, ResetStrayPacket, connVars
  <2> QED
    BY <2>1, <2>2
<1>2. ASSUME NEW l \in Link, ReceiveLossy(l)
      PROVE  Consent
  BY <1>0, <1>2, EndAddress, KeepAddress DEF ReceiveLossy, SendToTun, ResetStrayData, connVars
<1>3. ASSUME NEW l \in Link, IterateConnection(l)
      PROVE  Consent
  BY <1>0, <1>3, KeepAddress DEF IterateConnection, Iterate, connVars
<1>4. ASSUME NEW l \in Link, SendConnectionRequest(l)
      PROVE  Consent
  BY <1>0, <1>4, ConstructAddress DEF SendConnectionRequest
<1>5. ASSUME NEW l \in Link, AcceptConnection(l)
      PROVE  Consent
  BY <1>0, <1>5, EndAddress, KeepAddress DEF AcceptConnection, Become
<1>6. ASSUME NEW l \in Link, AcceptUnexpected(l) \/ EraseConnection(l)
      PROVE  Consent
  BY <1>0, <1>6, EndAddress DEF AcceptUnexpected, EraseConnection, Destroy
<1>7. ASSUME NEW l \in Link, DropUnheard(l) \/ LoseLossy(l) \/ LoseLink(l)
      PROVE  Consent
  BY <1>0, <1>7, KeepAddress DEF DropUnheard, LoseLossy, LoseLink, connVars
<1>8. ASSUME NEW p \in Node, NEW b \in BOOLEAN, SetCallback(p, b)
      PROVE  Consent
  BY <1>0, <1>8, KeepAddress DEF SetCallback, connVars
<1>9. ASSUME NEW p \in Node, Shutdown(p) \/ Start(p)
      PROVE  Consent
  BY <1>0, <1>9 DEF Shutdown, Start, NoNewAddress
<1>10. ASSUME NEW p \in Node, Crash(p)
       PROVE  Consent
  BY <1>0, <1>10, KeepAddress DEF Crash, connVars
<1> QED
  BY <1>1, <1>2, <1>3, <1>4, <1>5, <1>6, <1>7, <1>8, <1>9, <1>10
  DEF Next, RejectConnection, CloseConnection

\* No packet brings up the network of a user who did not ask for it, under
\* every failure and for careless users too.
THEOREM AddressesAreConsented == Spec => ConsentedAddress
<1>1. TypeOK /\ AllInformed /\ [Next]_vars
        => [\A l \in Link :
              addr'[l] \notin {addr[l], NoAddress} => notified[l] \in {"Calling", "Answered"}]_vars
  BY NextConsent DEF Consent
<1> QED
  BY <1>1, AlwaysInformed, PTL DEF Spec, ConsentedAddress

-----------------------------------------------------------------------------
(* Addresses in subnets that are not in use.                               *)

\* The strengthening: the subnet that waits for an answer was looked up too.
LookedUp(l) ==
  /\ addr[l] # NoAddress => addr[l].subnet \notin hostSubnets[l[1]]
  /\ state[l] = "ExpectingIpConfirmation" => subnet[l] \notin hostSubnets[l[1]]

AllLookedUp == \A l \in Link : LookedUp(l)

LEMMA KeepLookedUp ==
  ASSUME AllLookedUp, UNCHANGED <<connVars, hostSubnets>>
  PROVE  AllLookedUp'
  BY DEF AllLookedUp, LookedUp, connVars

LEMMA ConstructLookedUp ==
  ASSUME Typed, AllLookedUp, NEW l \in Link, NEW s, s # "ExpectingIpConfirmation",
         Construct(l, s), UNCHANGED hostSubnets
  PROVE  AllLookedUp'
  BY DEF Construct, AllLookedUp, LookedUp, Typed, ConnVarsTypeOK

LEMMA EndLookedUp ==
  ASSUME Typed, AllLookedUp, NEW l \in Link, UNCHANGED hostSubnets,
         ResetAndDelete(l) \/ Unexpected(l) \/ DeleteConnection(l)
  PROVE  AllLookedUp'
  BY ConstructLookedUp DEF ResetAndDelete, Unexpected, DeleteConnection, NoConnection

LEMMA SetIpLookedUp ==
  ASSUME Typed, AllLookedUp, NEW l \in Link, NEW s, NEW postfix,
         s \notin hostSubnets[l[1]], SetIp(l, s, postfix), UNCHANGED hostSubnets
  PROVE  AllLookedUp'
  BY DEF SetIp, Address, AllLookedUp, LookedUp, Typed, ConnVarsTypeOK

LEMMA SeenUnused ==
  ASSUME "LookupFailure" \notin Env, NEW l \in Link, NEW s, TRUE \in SeemsUnused(l[1], s)
  PROVE  s \notin hostSubnets[l[1]]
  BY DEF SeemsUnused, UsedSubnets

LEMMA SendIpLookedUp ==
  ASSUME Typed, AllLookedUp, "LookupFailure" \notin Env, NEW l \in Link,
         SendIp(l), UNCHANGED hostSubnets
  PROVE  AllLookedUp'
<1> PICK s \in NextSubnets(l) :
      \/ /\ s < NSubnets
         /\ Answer(l, <<FromIpPostfix(s)>>)
         /\ state' = [state EXCEPT ![l] = "ExpectingIpConfirmation"]
         /\ subnet' = [subnet EXCEPT ![l] = s]
         /\ UNCHANGED addr
         /\ TellNothing
      \/ Unexpected(l)
  BY DEF SendIp
<1>1. CASE Unexpected(l)
  BY <1>1, EndLookedUp
<1>2. CASE ~Unexpected(l)
  <2>1. s # NSubnets
    BY <1>2, NSubnetsAssumption DEF NextSubnets
  <2>2. s \notin hostSubnets[l[1]]
    BY <2>1, SeenUnused DEF NextSubnets
  <2> QED
    BY <1>2, <2>2 DEF AllLookedUp, LookedUp, Typed, ConnVarsTypeOK
<1> QED
  BY <1>1, <1>2

LEMMA HandleDataLookedUp ==
  ASSUME Typed, AllLookedUp, "LookupFailure" \notin Env, NEW l \in Link,
         HandleData(l), UNCHANGED hostSubnets
  PROVE  AllLookedUp'
<1>1. CASE HandleConnectionAccepted(l)
  BY <1>1, EndLookedUp, SendIpLookedUp DEF HandleConnectionAccepted
<1>2. CASE HandleConnectionRejected(l)
  BY <1>2, EndLookedUp DEF HandleConnectionRejected
<1>3. CASE HandleConnectionClosed(l)
  BY <1>3, EndLookedUp DEF HandleConnectionClosed
<1>4. CASE HandleConnectionReset(l)
  BY <1>4, EndLookedUp DEF HandleConnectionReset
<1>5. CASE HandleIpProposal(l)
  <2>1. CASE Unexpected(l) \/ DeleteConnection(l)
    BY <2>1, EndLookedUp
  <2>2. CASE UNCHANGED connVars
    BY <2>2, KeepLookedUp
  <2>3. CASE \E s : TRUE \in SeemsUnused(l[1], s) /\ SetIp(l, s, 2)
    BY <2>3, SeenUnused, SetIpLookedUp
  <2> QED
    BY <1>5, <2>1, <2>2, <2>3 DEF HandleIpProposal, AnswerIpProposal, SetIpOnDeleted
<1>6. CASE HandleIpAccepted(l)
  <2>1. CASE Unexpected(l)
    BY <2>1, EndLookedUp
  <2>2. CASE state[l] = "ExpectingIpConfirmation" /\ SetIp(l, subnet[l], 1)
    <3>1. subnet[l] \notin hostSubnets[l[1]]
      BY <2>2 DEF AllLookedUp, LookedUp
    <3> QED
      BY <2>2, <3>1, SetIpLookedUp
  <2> QED
    BY <1>6, <2>1, <2>2 DEF HandleIpAccepted
<1>7. CASE HandleIpRejected(l)
  BY <1>7, EndLookedUp, SendIpLookedUp DEF HandleIpRejected
<1>8. CASE IgnoreConnectionRequest(l)
  BY <1>8, KeepLookedUp DEF IgnoreConnectionRequest
<1> QED
  BY <1>1, <1>2, <1>3, <1>4, <1>5, <1>6, <1>7, <1>8 DEF HandleData

LEMMA NextLookedUp ==
  ASSUME TypeOK, AllLookedUp, "LookupFailure" \notin Env, [Next]_vars
  PROVE  AllLookedUp'
<1> USE TypeOKParts
<1>1. ASSUME NEW l \in Link, ReceiveLossless(l)
      PROVE  AllLookedUp'
  BY <1>1, HandleDataLookedUp, ConstructLookedUp, KeepLookedUp
  DEF ReceiveLossless, HandleConnectionRequest, IgnoreStrayReset, ResetStrayPacket
<1>2. ASSUME NEW l \in Link, ReceiveLossy(l)
      PROVE  AllLookedUp'
  BY <1>2, EndLookedUp, KeepLookedUp DEF ReceiveLossy, SendToTun, ResetStrayData
<1>3. ASSUME NEW l \in Link, IterateConnection(l)
      PROVE  AllLookedUp'
  BY <1>3, KeepLookedUp DEF IterateConnection, Iterate
<1>4. ASSUME NEW l \in Link, SendConnectionRequest(l)
      PROVE  AllLookedUp'
  BY <1>4, ConstructLookedUp DEF SendConnectionRequest, Call
<1>5. ASSUME NEW l \in Link, AcceptConnection(l)
      PROVE  AllLookedUp'
  <2>1. CASE ResetAndDelete(l)
    BY <1>5, <2>1, EndLookedUp DEF AcceptConnection, Call
  <2>2. CASE Become(l, "ExpectingIpPacket")
    BY <1>5, <2>2 DEF AcceptConnection, Call, Become, AllLookedUp, LookedUp, Typed,
                      ConnVarsTypeOK
  <2> QED
    BY <1>5, <2>1, <2>2 DEF AcceptConnection
<1>6. ASSUME NEW l \in Link, AcceptUnexpected(l) \/ EraseConnection(l)
      PROVE  AllLookedUp'
  BY <1>6, EndLookedUp DEF AcceptUnexpected, EraseConnection, Destroy, Call
<1>7. ASSUME NEW l \in Link, DropUnheard(l) \/ LoseLossy(l) \/ LoseLink(l)
      PROVE  AllLookedUp'
  BY <1>7, KeepLookedUp DEF DropUnheard, LoseLossy, LoseLink
<1>8. ASSUME NEW p \in Node, Crash(p) \/ \E b \in BOOLEAN : SetCallback(p, b)
      PROVE  AllLookedUp'
  BY <1>8, KeepLookedUp DEF Crash, SetCallback
<1>9. ASSUME NEW p \in Node, Shutdown(p) \/ Start(p)
      PROVE  AllLookedUp'
  BY <1>9 DEF Shutdown, Start, Call, AllLookedUp, LookedUp, NoConnection
<1>10. CASE UNCHANGED vars
  BY <1>10, KeepLookedUp DEF vars
<1> QED
  BY <1>1, <1>2, <1>3, <1>4, <1>5, <1>6, <1>7, <1>8, <1>9, <1>10
  DEF Next, RejectConnection, CloseConnection

\* Whatever the packets, a node's addresses are in subnets that nothing else
\* on it used, as long as it can list its addresses.
THEOREM AddressesAreUnused == Spec => []UnusedOnOwnEnd
<1>1. CASE "LookupFailure" \in Env
  <2>1. UnusedOnOwnEnd
    BY <1>1 DEF UnusedOnOwnEnd
  <2> QED
    BY <2>1, PTL
<1>2. CASE "LookupFailure" \notin Env
  <2>1. Init => AllLookedUp
    BY DEF Init, ConnInit, AllLookedUp, LookedUp, NoConnection
  <2>2. TypeOK /\ AllLookedUp /\ [Next]_vars => AllLookedUp'
    BY <1>2, NextLookedUp
  <2>3. AllLookedUp => UnusedOnOwnEnd
    BY DEF AllLookedUp, LookedUp, UnusedOnOwnEnd
  <2> QED
    BY <2>1, <2>2, <2>3, TypeCorrect, PTL DEF Spec
<1> QED
  BY <1>1, <1>2

-----------------------------------------------------------------------------
(* The protocol implements ConnectionLifecycle.                             *)

status == [l \in Link |-> GetConnectionState(l)]

LEMMA StatusFacts ==
  /\ StatusOf(NoConnection) = "Disconnected"
  /\ StatusOf("OwnRequestPending") = "RingingAtFriend"
  /\ StatusOf("ExpectingIpConfirmation") = "RingingAtFriend"
  /\ StatusOf("FriendsRequestPending") = "FriendIsRinging"
  /\ StatusOf("ExpectingIpPacket") = "FriendIsRinging"
  /\ StatusOf("Connected") = "Connected"
  /\ \A s \in State \cup {NoConnection} : StatusOf(s) \in Lifecycle!ConnectionState
  BY DEF StatusOf, NoConnection, State, Lifecycle!ConnectionState

LEMMA SameLink == Lifecycle!Link = Link
  BY DEF Link, Lifecycle!Link

LEMMA StatusType ==
  ASSUME Typed, NEW l \in Link
  PROVE  status[l] = StatusOf(state[l]) /\ status[l] \in Lifecycle!ConnectionState
  BY StatusFacts DEF status, GetConnectionState, Typed, ConnVarsTypeOK

\* A change of one connection is a change of one status.
LEMMA StatusStep ==
  ASSUME Typed, NEW l \in Link, NEW s, state' = [state EXCEPT ![l] = s]
  PROVE  status' = [status EXCEPT ![l] = StatusOf(s)]
<1>1. \A k \in Link : state'[k] = IF k = l THEN s ELSE state[k]
  BY DEF Typed, ConnVarsTypeOK
<1>2. status' = [k \in Link |-> StatusOf(state'[k])]
  BY DEF status, GetConnectionState
<1>3. status = [k \in Link |-> StatusOf(state[k])]
  BY DEF status, GetConnectionState
<1>4. \A k \in Link : status'[k] = IF k = l THEN StatusOf(s) ELSE status[k]
  BY <1>1, <1>2, <1>3
<1> QED
  BY <1>2, <1>3, <1>4

\* A change that getConnectionState does not show.
LEMMA HiddenStep ==
  ASSUME Typed, NEW l \in Link, NEW s, state' = [state EXCEPT ![l] = s],
         StatusOf(s) = StatusOf(state[l])
  PROVE  status' = status
<1>1. status' = [status EXCEPT ![l] = status[l]]
  BY StatusStep, StatusType
<1> QED
  BY <1>1 DEF status

LifecycleStep == Lifecycle!Next \/ status' = status

LEMMA KeepStatus ==
  ASSUME UNCHANGED state
  PROVE  LifecycleStep
  BY DEF LifecycleStep, status, GetConnectionState

LEMMA GoesStep ==
  ASSUME Typed, NEW l \in Link, NEW s, state' = [state EXCEPT ![l] = s],
         NEW from, status[l] \in from
  PROVE  Lifecycle!Goes(l, from, StatusOf(s))
  BY StatusStep DEF Lifecycle!Goes, status

LEMMA HangUpStep ==
  ASSUME Typed, NEW l \in Link,
         DeleteConnection(l) \/ ResetAndDelete(l) \/ Unexpected(l)
  PROVE  LifecycleStep
<1>1. state' = [state EXCEPT ![l] = NoConnection]
  BY DEF DeleteConnection, ResetAndDelete, Unexpected, Construct
<1>2. Lifecycle!HangUp(l)
  BY <1>1, GoesStep, StatusType, StatusFacts DEF Lifecycle!HangUp
<1> QED
  BY <1>2, SameLink DEF LifecycleStep, Lifecycle!Next

LEMMA EstablishStep ==
  ASSUME Typed, NEW l \in Link, NEW s, NEW postfix, SetIp(l, s, postfix),
         state[l] \in {"ExpectingIpPacket", "ExpectingIpConfirmation"}
  PROVE  LifecycleStep
<1>1. status[l] \in {"RingingAtFriend", "FriendIsRinging"}
  BY StatusType, StatusFacts
<1>2. Lifecycle!Establish(l)
  BY <1>1, GoesStep, StatusFacts DEF SetIp, Lifecycle!Establish
<1> QED
  BY <1>2, SameLink DEF LifecycleStep, Lifecycle!Next

LEMMA SendIpLifecycle ==
  ASSUME Typed, NEW l \in Link, SendIp(l),
         state[l] \in {"OwnRequestPending", "ExpectingIpConfirmation"}
  PROVE  LifecycleStep
<1>1. CASE Unexpected(l)
  BY <1>1, HangUpStep
<1>2. CASE state' = [state EXCEPT ![l] = "ExpectingIpConfirmation"]
  BY <1>2, HiddenStep, StatusFacts DEF LifecycleStep
<1> QED
  BY <1>1, <1>2 DEF SendIp

LEMMA HandleDataLifecycle ==
  ASSUME Typed, NEW l \in Link, HandleData(l)
  PROVE  LifecycleStep
<1>1. CASE HandleConnectionAccepted(l)
  BY <1>1, SendIpLifecycle, HangUpStep DEF HandleConnectionAccepted
<1>2. CASE HandleConnectionRejected(l)
  BY <1>2, HangUpStep DEF HandleConnectionRejected
<1>3. CASE HandleConnectionClosed(l)
  BY <1>3, HangUpStep DEF HandleConnectionClosed
<1>4. CASE HandleConnectionReset(l)
  BY <1>4, HangUpStep DEF HandleConnectionReset
<1>5. CASE HandleIpProposal(l)
  <2>1. CASE Unexpected(l) \/ DeleteConnection(l)
    BY <2>1, HangUpStep
  <2>2. CASE UNCHANGED connVars
    BY <2>2, KeepStatus DEF connVars
  <2>3. CASE state[l] = "ExpectingIpPacket" /\ \E s : SetIp(l, s, 2)
    BY <2>3, EstablishStep
  <2> QED
    BY <1>5, <2>1, <2>2, <2>3 DEF HandleIpProposal, AnswerIpProposal, SetIpOnDeleted
<1>6. CASE HandleIpAccepted(l)
  BY <1>6, EstablishStep, HangUpStep DEF HandleIpAccepted
<1>7. CASE HandleIpRejected(l)
  BY <1>7, SendIpLifecycle, HangUpStep DEF HandleIpRejected
<1>8. CASE IgnoreConnectionRequest(l)
  BY <1>8, KeepStatus DEF IgnoreConnectionRequest, connVars
<1> QED
  BY <1>1, <1>2, <1>3, <1>4, <1>5, <1>6, <1>7, <1>8 DEF HandleData

LEMMA NewConnectionStep ==
  ASSUME Typed, NEW l \in Link, state[l] = NoConnection,
         Construct(l, "OwnRequestPending") \/ Construct(l, "FriendsRequestPending")
  PROVE  LifecycleStep
<1>1. status[l] = "Disconnected"
  BY StatusType, StatusFacts
<1>2. CASE Construct(l, "OwnRequestPending")
  <2>0. state' = [state EXCEPT ![l] = "OwnRequestPending"]
    BY <1>2 DEF Construct
  <2>1. Lifecycle!Goes(l, {"Disconnected"}, "RingingAtFriend")
    BY <1>1, <2>0, StatusStep, StatusFacts DEF Lifecycle!Goes, status
  <2>2. Lifecycle!Dial(l)
    BY <2>1 DEF Lifecycle!Dial
  <2> QED
    BY <2>2, SameLink DEF LifecycleStep, Lifecycle!Next
<1>3. CASE Construct(l, "FriendsRequestPending")
  <2>0. state' = [state EXCEPT ![l] = "FriendsRequestPending"]
    BY <1>3 DEF Construct
  <2>1. Lifecycle!Goes(l, {"Disconnected"}, "FriendIsRinging")
    BY <1>1, <2>0, StatusStep, StatusFacts DEF Lifecycle!Goes, status
  <2>2. Lifecycle!Ring(l)
    BY <2>1 DEF Lifecycle!Ring
  <2> QED
    BY <2>2, SameLink DEF LifecycleStep, Lifecycle!Next
<1> QED
  BY <1>2, <1>3

LEMMA HangUpAllStep ==
  ASSUME Typed, NEW p \in Node, Shutdown(p) \/ Start(p)
  PROVE  LifecycleStep
<1>1. state' = [l \in Link |-> IF l[1] = p THEN NoConnection ELSE state[l]]
  BY DEF Shutdown, Start
<1>2. status' = [l \in Link |-> IF l[1] = p THEN "Disconnected" ELSE status[l]]
  BY <1>1, StatusFacts DEF status, GetConnectionState
<1>3. Lifecycle!HangUpAll(p)
  BY <1>2, SameLink DEF Lifecycle!HangUpAll, status
<1> QED
  BY <1>3 DEF LifecycleStep, Lifecycle!Next

LEMMA NextLifecycle == TypeOK /\ Next => LifecycleStep
<1> SUFFICES ASSUME Typed, Next
             PROVE  LifecycleStep
  BY TypeOKParts
<1>1. ASSUME NEW l \in Link, ReceiveLossless(l)
      PROVE  LifecycleStep
  <2>1. CASE HandleData(l)
    BY <2>1, HandleDataLifecycle
  <2>2. CASE ~HandleData(l)
    BY <1>1, <2>2, NewConnectionStep, KeepStatus
    DEF ReceiveLossless, HandleConnectionRequest, IgnoreStrayReset, ResetStrayPacket, connVars
  <2> QED
    BY <2>1, <2>2
<1>2. ASSUME NEW l \in Link, ReceiveLossy(l)
      PROVE  LifecycleStep
  BY <1>2, HangUpStep, KeepStatus DEF ReceiveLossy, SendToTun, ResetStrayData, connVars
<1>3. ASSUME NEW l \in Link, IterateConnection(l)
      PROVE  LifecycleStep
  BY <1>3, KeepStatus DEF IterateConnection, Iterate, connVars
<1>4. ASSUME NEW l \in Link, SendConnectionRequest(l)
      PROVE  LifecycleStep
  BY <1>4, NewConnectionStep DEF SendConnectionRequest
<1>5. ASSUME NEW l \in Link, AcceptConnection(l)
      PROVE  LifecycleStep
  <2>1. CASE ResetAndDelete(l)
    BY <2>1, HangUpStep
  <2>2. CASE Become(l, "ExpectingIpPacket")
    BY <1>5, <2>2, HiddenStep, StatusFacts DEF AcceptConnection, Become, LifecycleStep
  <2> QED
    BY <1>5, <2>1, <2>2 DEF AcceptConnection
<1>6. ASSUME NEW l \in Link, AcceptUnexpected(l) \/ EraseConnection(l)
      PROVE  LifecycleStep
  BY <1>6, HangUpStep DEF AcceptUnexpected, EraseConnection, Destroy
<1>7. ASSUME NEW l \in Link, DropUnheard(l) \/ LoseLossy(l) \/ LoseLink(l)
      PROVE  LifecycleStep
  BY <1>7, KeepStatus DEF DropUnheard, LoseLossy, LoseLink, connVars
<1>8. ASSUME NEW p \in Node, NEW b \in BOOLEAN, SetCallback(p, b)
      PROVE  LifecycleStep
  BY <1>8, KeepStatus DEF SetCallback, connVars
<1>9. ASSUME NEW p \in Node, Shutdown(p) \/ Start(p)
      PROVE  LifecycleStep
  BY <1>9, HangUpAllStep
<1>10. ASSUME NEW p \in Node, Crash(p)
       PROVE  LifecycleStep
  BY <1>10, KeepStatus DEF Crash, connVars
<1> QED
  BY <1>1, <1>2, <1>3, <1>4, <1>5, <1>6, <1>7, <1>8, <1>9, <1>10
  DEF Next, RejectConnection, CloseConnection

\* The protocol, with everything that can fail, shows the application nothing
\* but the life of connections ConnectionLifecycle describes.
THEOREM LifecycleIsImplemented == Spec => ImplementsLifecycle
<1>1. Init => Lifecycle!Init
  BY StatusFacts, SameLink DEF Init, ConnInit, Lifecycle!Init, GetConnectionState
<1>2. TypeOK /\ [Next]_vars => [Lifecycle!Next]_status
  <2> SUFFICES ASSUME TypeOK, [Next]_vars
               PROVE  LifecycleStep
    BY DEF LifecycleStep
  <2>1. CASE Next
    BY <2>1, NextLifecycle
  <2>2. CASE UNCHANGED vars
    BY <2>2, KeepStatus DEF vars, connVars
  <2> QED
    BY <2>1, <2>2
<1> QED
  BY <1>1, <1>2, TypeCorrect, PTL DEF Spec, ImplementsLifecycle, Lifecycle!Spec, status
=============================================================================
