--------------------------- MODULE ToxTunProperties ---------------------------
(***************************************************************************)
(* What the connection protocol of ToxTunCore and Connection promises.      *)
(***************************************************************************)
EXTENDS ToxTunCore

\* Every variable has its type: in particular a subnet that is proposed or
\* remembered is one of 0 .. NSubnets - 1, although sendIp counts to NSubnets
\* before it gives up (Connection::sendIp).
TypeOK ==
  /\ NetTypeOK
  /\ ConnTypeOK
  /\ calls \in 0 .. MaxCalls

BothRun(l) == Running(l[1]) /\ Running(l[2])

\* No lossless packet is on its way between the ends of l.
Quiet(l) == lossless[l] = <<>> /\ lossless[Peer(l)] = <<>>

-----------------------------------------------------------------------------
(* What a user knows.                                                      *)

\* What the user of l[1] must have been told, or have done, for the
\* connection to be in state s.
Known(s) ==
  CASE s = NoConnection -> "Disconnected"
    [] s = "FriendsRequestPending" -> "Requested"
    [] s = "ExpectingIpPacket" -> "Answered"
    [] s \in {"OwnRequestPending", "ExpectingIpConfirmation"} -> "Calling"
    [] s = "Connected" -> "Connected"

\* The events reported by ToxTunCore::callback and the calls of the user
\* together tell exactly the state of every connection: no handler creates,
\* establishes or ends one without an event, and none reports what did not
\* happen, except the setIp of a Connection that handleIpProposal has deleted,
\* which misleads about that one connection until its next event or call.
UserInformed ==
  \A l \in Link : Running(l[1]) =>
    \/ notified[l] = Known(state[l])
    \/ notified[l] = "Misled" /\ state[l] = NoConnection

\* A user whose last event was ConnectionAccepted has a connection
\* (Connection::setIp sets the state and reports the event together).
NoPhantomConnection ==
  \A l \in Link :
    Running(l[1]) /\ notified[l] \in {"Connected", "Misled"} => state[l] = "Connected"

\* A tun device is given an address only when its user has asked for the
\* connection or accepted it, and has not been told since that it ended:
\* no packet of a friend, whenever it comes, brings up the network alone.
ConsentedAddress ==
  [][ \A l \in Link :
        addr'[l] \notin {addr[l], NoAddress} => notified[l] \in {"Calling", "Answered"}
    ]_vars

-----------------------------------------------------------------------------
(* What the two ends of a connection have in common.                       *)

\* Once all packets between two friends are handled, one is Connected only if
\* the other is: the resets that answer unexpected and stray packets clear
\* every half of a connection, those left by a canceled and repeated request
\* and by Data overtaking IpAccept included.
ConnectionIsPaired ==
  \A l \in Link :
    BothRun(l) /\ Quiet(l) /\ state[l] = "Connected"
      => state[Peer(l)] = "Connected"

\* The two ends have the addresses 192.168.x.1 and 192.168.x.2 for one x.
EndsAgree(l) ==
  BothRun(l) /\ state[l] = "Connected" /\ state[Peer(l)] = "Connected" =>
    /\ addr[l].subnet = addr[Peer(l)].subnet
    /\ {addr[l].postfix, addr[Peer(l)].postfix} = {1, 2}

\* Once all packets between the two are handled, friends that are both
\* Connected have addresses in one subnet (handleIpProposal and
\* handleIpAccepted set them).  A proposal left from an earlier connection may
\* be taken for one of the present connection meanwhile, but the proposal that
\* follows it is unexpected and resets both ends.
SettledSubnetAgreement == \A l \in Link : Quiet(l) => EndsAgree(l)

\* A node's addresses are in subnets that nothing else on the node uses
\* (sendIp and handleIpProposal look), also when the proposal that is accepted
\* was made for an earlier connection.
UnusedOnOwnEnd ==
  "LookupFailure" \notin Env =>
    \A l \in Link : addr[l] # NoAddress => addr[l].subnet \notin hostSubnets[l[1]]

\* Once the packets between two friends are handled, the subnet they share was
\* unused on both ends (README.md:10), as far as addresses of other programs
\* go: DistinctSubnets tells about those of other connections.
UnusedOnBothEnds ==
  "LookupFailure" \notin Env =>
    \A l \in Link :
      /\ BothRun(l) /\ Quiet(l)
      /\ state[l] = "Connected" /\ state[Peer(l)] = "Connected"
      => addr[l].subnet \notin hostSubnets[l[1]] \cup hostSubnets[l[2]]

\* The connections of a node are in different subnets (isAddrspaceUnused).
DistinctSubnets ==
  \A l, k \in Link :
    /\ l # k /\ l[1] = k[1] /\ Running(l[1])
    /\ state[l] = "Connected" /\ state[k] = "Connected"
    => addr[l].subnet # addr[k].subnet

-----------------------------------------------------------------------------
(* What happens in the end, when the processes run and handle packets.      *)

\* The negotiation of a subnet ends, in a connection or in none
\* (sendIp, handleIpRejected, handleIpProposal).
NegotiationEnds ==
  \A l \in Link :
    state[l] \in {"ExpectingIpPacket", "ExpectingIpConfirmation"}
      ~> \/ state[l] \notin {"ExpectingIpPacket", "ExpectingIpConfirmation"}
         \/ ~BothRun(l)

\* A node that is Connected sees its friend Connected too or loses the
\* connection: a Close, a Reset or an IpAccept settles it.
ConnectedTogether ==
  \A l \in Link :
    state[l] = "Connected"
      ~> \/ (state[l] = "Connected") = (state[Peer(l)] = "Connected")
         \/ ~BothRun(l)

\* Resets die out: the queues are empty again and again, however often
\* unexpected packets are answered with ConnectionReset (ToxTunCore::handleData
\* does not answer a stray reset).
ResetsDieOut == []<>(\A l \in Link : Running(l[1]) => lossless[Peer(l)] = <<>>)

-----------------------------------------------------------------------------
\* The protocol implements the life of connections that getConnectionState
\* shows the application.
Lifecycle ==
  INSTANCE ConnectionLifecycle
    WITH status <- [l \in Link |-> GetConnectionState(l)]

\* Whatever the packets, failures and calls, getConnectionState moves only as
\* ConnectionLifecycle allows, one connection at a time unless a whole
\* ToxTunCore ends.
ImplementsLifecycle == Lifecycle!Spec
=============================================================================
