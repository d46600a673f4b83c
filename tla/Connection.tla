------------------------------ MODULE Connection ------------------------------
(***************************************************************************)
(* Class Connection: what a node keeps for one friend, and the handlers of  *)
(* the packets that friend sends.  An action of this module is one handler  *)
(* with every call it makes; which of them runs is decided by ToxTunCore.   *)
(*                                                                         *)
(* A handler runs to its end before tox_iterate() returns, so it is atomic. *)
(* The state Deleting is set and left inside one handler: a Connection that *)
(* has been deleted is NoConnection here.                                   *)
(***************************************************************************)
EXTENDS ToxNetwork

VARIABLES
  state,        \* Connection::state, NoConnection where the map has no entry
  subnet,       \* Connection::subnet, the subnet last proposed, -1 for none
  addr,         \* the address given to Connection::tun
  notified,     \* what the user of l[1] has been told about l
  callbackSet,  \* whether ToxTunCore::callbackFunction is not nullptr
  process,      \* the process of a node
  hostSubnets   \* subnets in use on a node for reasons of its own

connVars == <<state, subnet, addr>>
userVars == <<notified, process>>

NoConnection == "NoConnection"
State ==
  { "OwnRequestPending", "FriendsRequestPending", "ExpectingIpPacket",
    "ExpectingIpConfirmation", "Connected" }

\* The user's knowledge: the last event the callback received, or the last
\* API call that took effect.  Misled is ConnectionAccepted, reported by a
\* Connection that had been deleted.
Notification ==
  {"Disconnected", "Calling", "Requested", "Answered", "Connected", "Misled"}

NoAddress == [subnet |-> NoSubnet, postfix |-> 0]
Address(s, p) == [subnet |-> s, postfix |-> p]

\* isAddrspaceUnused looks at every address of the host, the ones of its own
\* tun devices included.
UsedSubnets(p) ==
  hostSubnets[p] \cup
    {addr[l].subnet : l \in {k \in Link : k[1] = p /\ addr[k] # NoAddress}}

\* The answers isAddrspaceUnused may lead to: handleIpProposal and sendIp
\* assume an unused subnet when the addresses cannot be listed.
SeemsUnused(p, s) ==
  {s \notin UsedSubnets(p)} \cup (IF "LookupFailure" \in Env THEN {TRUE} ELSE {})

-----------------------------------------------------------------------------
\* ToxTunCore::callback.  Without a callback function it throws, and as every
\* caller is noexcept the process ends in std::terminate.
Tell(l, n) ==
  /\ notified' = [notified EXCEPT ![l] = n]
  /\ process' = [process EXCEPT ![l[1]] =
                   IF callbackSet[l[1]] THEN @ ELSE "Dead"]

TellNothing == UNCHANGED userVars

Become(l, s) ==
  /\ state' = [state EXCEPT ![l] = s]
  /\ UNCHANGED <<subnet, addr>>

\* A new Connection, whose tun device has no address yet.
Construct(l, s) ==
  /\ state' = [state EXCEPT ![l] = s]
  /\ subnet' = [subnet EXCEPT ![l] = NoSubnet]
  /\ addr' = [addr EXCEPT ![l] = NoAddress]

\* deleteConnection: state Deleting, then the entry of the map, the object
\* and its tun device go.
DeleteConnection(l) == Construct(l, NoConnection)

ResetPackets == Transmission(FromPacketId("ConnectionReset"))

\* Mutant: resetAndDeleteConnection reports no event.
ResetAndDeleteSilently(l) ==
  /\ TellNothing
  /\ DeleteConnection(l)

\* resetAndDeleteConnection, apart from the packet of ResetPackets it sends.
ResetAndDelete(l) ==
  /\ Tell(l, "Disconnected")
  /\ DeleteConnection(l)

\* What every handler does in a state it does not expect.
Unexpected(l) ==
  /\ \E out \in ResetPackets : Answer(l, out)
  /\ ResetAndDelete(l)

\* Tun::setIp reports no error: when the address cannot be set the user is
\* asked, in the log, to set it by hand.
SetIp(l, s, postfix) ==
  /\ state' = [state EXCEPT ![l] = "Connected"]
  /\ \/ addr' = [addr EXCEPT ![l] = Address(s, postfix)]
     \/ ("AddressFailure" \in Env /\ UNCHANGED addr)
  /\ Tell(l, "Connected")
  /\ UNCHANGED subnet

\* setIp after resetAndDeleteConnection has destroyed the object.  The build
\* either dies on the freed memory or gets as far as the callback, which
\* reports ConnectionAccepted.  Without a callback the process has already
\* ended in the reset.
SetIpOnDeleted(l) ==
  /\ DeleteConnection(l)
  /\ \/ /\ ~callbackSet[l[1]]
        /\ Tell(l, "Disconnected")
     \/ /\ callbackSet[l[1]]
        /\ \/ /\ notified' = [notified EXCEPT ![l] = "Misled"]
              /\ UNCHANGED process
           \/ /\ notified' = [notified EXCEPT ![l] = "Disconnected"]
              /\ process' = [process EXCEPT ![l[1]] = "Dead"]

-----------------------------------------------------------------------------
\* Mutant: the next subnet is proposed whether it is used or not.
NextSubnetOnly(l) == {subnet[l] + 1}

\* The subnets the loop of sendIp may stop at.  It counts up from the subnet
\* last proposed and stops at the first that seems unused, or at NSubnets
\* when there is none left.
NextSubnets(l) ==
  { s \in subnet[l] + 1 .. NSubnets :
      /\ \A t \in subnet[l] + 1 .. s - 1 : t \in UsedSubnets(l[1])
      /\ s = NSubnets \/ TRUE \in SeemsUnused(l[1], s) }

\* Mutant: the loop of sendIp does not stop at 256.
SendIpUnlimited(l) ==
  \E s \in NextSubnets(l) :
    /\ Answer(l, <<FromIpPostfix(s)>>)
    /\ state' = [state EXCEPT ![l] = "ExpectingIpConfirmation"]
    /\ subnet' = [subnet EXCEPT ![l] = s]
    /\ UNCHANGED addr
    /\ TellNothing

SendIp(l) ==
  \E s \in NextSubnets(l) :
    \/ /\ s < NSubnets
       /\ Answer(l, <<FromIpPostfix(s)>>)
       /\ state' = [state EXCEPT ![l] = "ExpectingIpConfirmation"]
       /\ subnet' = [subnet EXCEPT ![l] = s]
       /\ UNCHANGED addr
       /\ TellNothing
    \/ /\ s = NSubnets \/ <<>> \in Transmission(FromIpPostfix(s))
       /\ Unexpected(l)

HandleConnectionAccepted(l) ==
  /\ Arrives(l, "ConnectionAccept")
  /\ state[l] # NoConnection
  /\ \/ state[l] = "OwnRequestPending" /\ SendIp(l)
     \/ state[l] # "OwnRequestPending" /\ Unexpected(l)

HandleConnectionRejected(l) ==
  /\ Arrives(l, "ConnectionReject")
  /\ state[l] # NoConnection
  /\ \/ /\ state[l] = "OwnRequestPending"
        /\ Tell(l, "Disconnected")
        /\ DeleteConnection(l)
        /\ Answer(l, <<>>)
     \/ state[l] # "OwnRequestPending" /\ Unexpected(l)

\* Mutant: handleConnectionClosed keeps the connection.
HandleConnectionClosedKept(l) ==
  /\ Arrives(l, "ConnectionClose")
  /\ state[l] # NoConnection
  /\ Answer(l, <<>>)
  /\ UNCHANGED connVars
  /\ TellNothing

HandleConnectionClosed(l) ==
  /\ Arrives(l, "ConnectionClose")
  /\ state[l] # NoConnection
  /\ \/ /\ state[l] = "Connected"
        /\ Tell(l, "Disconnected")
        /\ DeleteConnection(l)
        /\ Answer(l, <<>>)
     \/ state[l] # "Connected" /\ Unexpected(l)

HandleConnectionReset(l) ==
  /\ Arrives(l, "ConnectionReset")
  /\ state[l] # NoConnection
  /\ Tell(l, "Disconnected")
  /\ DeleteConnection(l)
  /\ Answer(l, <<>>)

\* Mutant: the answer does not depend on whether the subnet is unused.
AnswerWithoutLooking(l) ==
  /\ Answer(l, <<FromPacketId("IpAccept")>>)
  /\ SetIp(l, Head(lossless[Peer(l)]).subnet, 2)

\* The part of handleIpProposal that follows its state check.
AnswerIpProposal(l) ==
  LET s == Head(lossless[Peer(l)]).subnet
  IN  \E unused \in SeemsUnused(l[1], s) :
        \/ /\ unused
           /\ Answer(l, <<FromPacketId("IpAccept")>>)
           /\ SetIp(l, s, 2)
        \/ /\ unused
           /\ <<>> \in Transmission(FromPacketId("IpAccept"))
           /\ \E out \in ResetPackets : Answer(l, out)
           /\ SetIpOnDeleted(l)
        \/ /\ ~unused
           /\ Answer(l, <<FromPacketId("IpReject")>>)
           /\ UNCHANGED connVars
           /\ TellNothing
        \/ /\ ~unused
           /\ <<>> \in Transmission(FromPacketId("IpReject"))
           /\ Unexpected(l)

\* Mutant: the state check of handleIpProposal is missing.
HandleIpProposalUnchecked(l) ==
  /\ Arrives(l, "IpProposal")
  /\ state[l] # NoConnection
  /\ AnswerIpProposal(l)

HandleIpProposal(l) ==
  /\ Arrives(l, "IpProposal")
  /\ state[l] # NoConnection
  /\ \/ state[l] = "ExpectingIpPacket" /\ AnswerIpProposal(l)
     \/ state[l] # "ExpectingIpPacket" /\ Unexpected(l)

\* Mutant: both ends take the address 192.168.x.2.
HandleIpAcceptedAsSecond(l) ==
  /\ Arrives(l, "IpAccept")
  /\ state[l] # NoConnection
  /\ \/ /\ state[l] = "ExpectingIpConfirmation"
        /\ SetIp(l, subnet[l], 2)
        /\ Answer(l, <<>>)
     \/ state[l] # "ExpectingIpConfirmation" /\ Unexpected(l)

HandleIpAccepted(l) ==
  /\ Arrives(l, "IpAccept")
  /\ state[l] # NoConnection
  /\ \/ /\ state[l] = "ExpectingIpConfirmation"
        /\ SetIp(l, subnet[l], 1)
        /\ Answer(l, <<>>)
     \/ state[l] # "ExpectingIpConfirmation" /\ Unexpected(l)

\* Mutant: handleIpRejected proposes no other subnet.
HandleIpRejectedIdle(l) ==
  /\ Arrives(l, "IpReject")
  /\ state[l] # NoConnection
  /\ Answer(l, <<>>)
  /\ UNCHANGED connVars
  /\ TellNothing

HandleIpRejected(l) ==
  /\ Arrives(l, "IpReject")
  /\ state[l] # NoConnection
  /\ \/ state[l] = "ExpectingIpConfirmation" /\ SendIp(l)
     \/ state[l] # "ExpectingIpConfirmation" /\ Unexpected(l)

\* Mutant: a request that crosses our own is taken as a new connection.
RingOnCrossedRequest(l) ==
  /\ Arrives(l, "ConnectionRequest")
  /\ state[l] # NoConnection
  /\ Answer(l, <<>>)
  /\ Construct(l, "FriendsRequestPending")
  /\ Tell(l, "Requested")

\* A request for which there is already a connection is only logged.
IgnoreConnectionRequest(l) ==
  /\ Arrives(l, "ConnectionRequest")
  /\ state[l] # NoConnection
  /\ Answer(l, <<>>)
  /\ UNCHANGED connVars
  /\ TellNothing

\* A Data packet: written to the tun device when Connected.  In any other
\* state the connection is reset and deleted, and then its tun device is
\* used: the build dies there, or the write fails and is forgotten.
SendToTun(l) ==
  /\ state[l] # NoConnection
  /\ \/ /\ state[l] = "Connected"
        /\ AnswerLossy(l, <<>>)
        /\ UNCHANGED connVars
        /\ TellNothing
     \/ /\ state[l] # "Connected"
        /\ \E out \in ResetPackets : AnswerLossy(l, out)
        /\ DeleteConnection(l)
        /\ notified' = [notified EXCEPT ![l] = "Disconnected"]
        /\ \E died \in {TRUE, ~callbackSet[l[1]]} :
             process' = [process EXCEPT ![l[1]] = IF died THEN "Dead" ELSE @]

\* getConnectionState, and Disconnected where there is no entry.
StatusOf(s) ==
  CASE s = "Connected" -> "Connected"
    [] s \in {"FriendsRequestPending", "ExpectingIpPacket"} -> "FriendIsRinging"
    [] s \in {"OwnRequestPending", "ExpectingIpConfirmation"} -> "RingingAtFriend"
    [] s = NoConnection -> "Disconnected"

GetConnectionState(l) == StatusOf(state[l])

HandleData(l) ==
  \/ HandleConnectionAccepted(l)
  \/ HandleConnectionRejected(l)
  \/ HandleConnectionClosed(l)
  \/ HandleConnectionReset(l)
  \/ HandleIpProposal(l)
  \/ HandleIpAccepted(l)
  \/ HandleIpRejected(l)
  \/ IgnoreConnectionRequest(l)

\* Connection::iterate: a frame read from the tun device goes to the friend.
\* A refused packet is dropped.  Every Data packet may be answered with a
\* reset, so MaxBacklog also bounds the queues.
Iterate(l) ==
  /\ state[l] = "Connected"
  /\ lossy[l] < MaxLossy
  /\ Len(lossless[Peer(l)]) < MaxBacklog
  /\ lossy' = [lossy EXCEPT ![l] = @ + 1]
  /\ UNCHANGED lossless
  /\ UNCHANGED connVars
  /\ TellNothing

-----------------------------------------------------------------------------
\* ~Connection: the packet it sends and whether it reports an event.
Farewell(s) ==
  CASE s = "FriendsRequestPending" -> {FromPacketId("ConnectionReject")}
    [] s = "Connected" -> {FromPacketId("ConnectionClose")}
    [] s = NoConnection -> {}
    [] OTHER -> {FromPacketId("ConnectionReset")}

TellsOnDestruction(s) ==
  s \in {"OwnRequestPending", "ExpectingIpPacket", "ExpectingIpConfirmation"}

\* erase of an entry of ToxTunCore::connections runs ~Connection.
Destroy(l) ==
  /\ \E m \in Farewell(state[l]) : \E out \in Transmission(m) : Send(l, out)
  /\ DeleteConnection(l)

ConnVarsTypeOK ==
  /\ state \in [Link -> State \cup {NoConnection}]
  /\ subnet \in [Link -> Subnet \cup {NoSubnet}]
  /\ addr \in [Link -> [subnet : Subnet \cup {NoSubnet}, postfix : 0 .. 2]]

UserVarsTypeOK ==
  /\ notified \in [Link -> Notification]
  /\ process \in [Node -> {"Running", "Shutdown", "Dead"}]

ConnTypeOK ==
  /\ ConnVarsTypeOK
  /\ UserVarsTypeOK
  /\ callbackSet \in [Node -> BOOLEAN]
  /\ hostSubnets \in [Node -> SUBSET Subnet]

CallbackChoices == IF "NoCallback" \in Env THEN BOOLEAN ELSE {TRUE}

ConnInit ==
  /\ state = [l \in Link |-> NoConnection]
  /\ subnet = [l \in Link |-> NoSubnet]
  /\ addr = [l \in Link |-> NoAddress]
  /\ notified = [l \in Link |-> "Disconnected"]
  /\ callbackSet \in [Node -> CallbackChoices]
  /\ process = [p \in Node |-> "Running"]
  /\ hostSubnets \in [Node -> SUBSET Subnet]
=============================================================================
