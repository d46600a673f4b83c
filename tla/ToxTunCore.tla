------------------------------ MODULE ToxTunCore ------------------------------
(***************************************************************************)
(* Class ToxTunCore on every node: the map from friends to connections, the *)
(* dispatch of incoming packets, the API the application calls, and the     *)
(* life of the process.  With Connection and ToxNetwork this is the whole   *)
(* protocol by which two friends set up and tear down a virtual network.    *)
(*                                                                         *)
(* Calls that throw before they change anything (a second request, a tun    *)
(* device that cannot be opened, a request toxcore refuses) are stuttering  *)
(* steps and have no action.                                                *)
(***************************************************************************)
EXTENDS Connection

CONSTANT MaxCalls  \* bound on the number of API calls the users make

ASSUME MaxCallsAssumption == MaxCalls \in Nat

VARIABLE calls     \* the API calls made so far

vars == <<netVars, connVars, userVars, callbackSet, hostSubnets, calls>>

Running(p) == process[p] = "Running"
LinksOf(p) == {l \in Link : l[1] = p}

-----------------------------------------------------------------------------
(* Packets from a friend there is no connection for.                       *)

HandleConnectionRequest(l) ==
  /\ Arrives(l, "ConnectionRequest")
  /\ state[l] = NoConnection
  /\ \/ /\ ~callbackSet[l[1]]
        /\ Answer(l, <<>>)
        /\ UNCHANGED connVars
        /\ TellNothing
     \/ /\ callbackSet[l[1]]
        /\ Answer(l, <<>>)
        /\ Construct(l, "FriendsRequestPending")
        /\ Tell(l, "Requested")
     \/ /\ callbackSet[l[1]]
        /\ "TunFailure" \in Env
        /\ \E out \in ResetPackets : Answer(l, out)
        /\ UNCHANGED connVars
        /\ TellNothing

\* Mutant: a reset is answered like any other stray packet.
AnswerStrayReset(l) ==
  /\ Arrives(l, "ConnectionReset")
  /\ state[l] = NoConnection
  /\ \E out \in ResetPackets : Answer(l, out)
  /\ UNCHANGED connVars
  /\ TellNothing

IgnoreStrayReset(l) ==
  /\ Arrives(l, "ConnectionReset")
  /\ state[l] = NoConnection
  /\ Answer(l, <<>>)
  /\ UNCHANGED connVars
  /\ TellNothing

\* Mutant: stray packets are ignored.
IgnoreStrayPacket(l) ==
  /\ \E id \in PacketId \ {"ConnectionRequest", "ConnectionReset"} : Arrives(l, id)
  /\ state[l] = NoConnection
  /\ Answer(l, <<>>)
  /\ UNCHANGED connVars
  /\ TellNothing

ResetStrayPacket(l) ==
  /\ \E id \in PacketId \ {"ConnectionRequest", "ConnectionReset"} : Arrives(l, id)
  /\ state[l] = NoConnection
  /\ \E out \in ResetPackets : Answer(l, out)
  /\ UNCHANGED connVars
  /\ TellNothing

ResetStrayData(l) ==
  /\ state[l] = NoConnection
  /\ \E out \in ResetPackets : AnswerLossy(l, out)
  /\ UNCHANGED connVars
  /\ TellNothing

\* tox_iterate() delivers the next lossless packet to toxPacketCallback.
ReceiveLossless(l) ==
  /\ Running(l[1])
  /\ \/ HandleData(l)
     \/ HandleConnectionRequest(l)
     \/ IgnoreStrayReset(l)
     \/ ResetStrayPacket(l)
  /\ UNCHANGED <<callbackSet, hostSubnets, calls>>

ReceiveLossy(l) ==
  /\ Running(l[1])
  /\ SendToTun(l) \/ ResetStrayData(l)
  /\ UNCHANGED <<callbackSet, hostSubnets, calls>>

IterateConnection(l) ==
  /\ Running(l[1])
  /\ Iterate(l)
  /\ UNCHANGED <<callbackSet, hostSubnets, calls>>

-----------------------------------------------------------------------------
(* The API.                                                                *)

Call(p) ==
  /\ Running(p)
  /\ calls < MaxCalls
  /\ calls' = calls + 1
  /\ UNCHANGED <<callbackSet, hostSubnets>>

\* The user of l[1] learns n from the return of a call, not from an event.
Learn(l, n) ==
  /\ notified' = [notified EXCEPT ![l] = n]
  /\ UNCHANGED process

SendConnectionRequest(l) ==
  /\ Call(l[1])
  /\ state[l] = NoConnection
  /\ Send(l, <<FromPacketId("ConnectionRequest")>>)
  /\ Construct(l, "OwnRequestPending")
  /\ Learn(l, "Calling")

AcceptConnection(l) ==
  /\ Call(l[1])
  /\ state[l] = "FriendsRequestPending"
  /\ \/ /\ Send(l, <<FromPacketId("ConnectionAccept")>>)
        /\ Become(l, "ExpectingIpPacket")
        /\ Learn(l, "Answered")
     \/ /\ <<>> \in Transmission(FromPacketId("ConnectionAccept"))
        /\ \E out \in ResetPackets : Send(l, out)
        /\ ResetAndDelete(l)

\* In any other state acceptConnection throws and the connection is erased.
AcceptUnexpected(l) ==
  /\ "CarelessUser" \in Env
  /\ Call(l[1])
  /\ state[l] \notin {NoConnection, "FriendsRequestPending"}
  /\ Destroy(l)
  /\ IF TellsOnDestruction(state[l]) THEN Tell(l, "Disconnected") ELSE TellNothing

\* rejectConnection and closeConnection both erase the entry, in any state.
EraseConnection(l) ==
  /\ Call(l[1])
  /\ state[l] # NoConnection
  /\ Destroy(l)
  /\ IF TellsOnDestruction(state[l])
     THEN Tell(l, "Disconnected")
     ELSE Learn(l, "Disconnected")

RejectConnection(l) == EraseConnection(l)
CloseConnection(l) == EraseConnection(l)

SetCallback(p, b) ==
  /\ "NoCallback" \in Env
  /\ Running(p)
  /\ callbackSet[p] # b
  /\ callbackSet' = [callbackSet EXCEPT ![p] = b]
  /\ UNCHANGED <<netVars, connVars, userVars, hostSubnets, calls>>

\* ~ToxTunCore: the callbacks of tox are removed, then every connection is
\* destroyed.  It ends early when an event has no callback to go to.
Shutdown(p) ==
  /\ "Kill" \in Env
  /\ Call(p)
  /\ LET open  == {l \in LinksOf(p) : state[l] # NoConnection}
         fatal == ~callbackSet[p] /\ \E l \in open : TellsOnDestruction(state[l])
     IN  /\ \E sent \in SUBSET open :
              /\ fatal \/ "SendFailure" \in Env \/ sent = open
              /\ lossless' = [l \in Link |->
                   IF l \in sent
                   THEN lossless[l] \o <<CHOOSE m \in Farewell(state[l]) : TRUE>>
                   ELSE lossless[l]]
         /\ process' = [process EXCEPT ![p] = IF fatal THEN "Dead" ELSE "Shutdown"]
  /\ UNCHANGED lossy
  /\ state' = [l \in Link |-> IF l[1] = p THEN NoConnection ELSE state[l]]
  /\ subnet' = [l \in Link |-> IF l[1] = p THEN NoSubnet ELSE subnet[l]]
  /\ addr' = [l \in Link |-> IF l[1] = p THEN NoAddress ELSE addr[l]]
  /\ notified' = [l \in Link |-> IF l[1] = p THEN "Disconnected" ELSE notified[l]]

-----------------------------------------------------------------------------
(* The life of a process and of the network.                               *)

Crash(p) ==
  /\ "Crash" \in Env
  /\ Running(p)
  /\ process' = [process EXCEPT ![p] = "Dead"]
  /\ UNCHANGED <<netVars, connVars, notified, callbackSet, hostSubnets, calls>>

\* A new ToxTunCore, and the callback the application sets.  When the process
\* had died its tox instance is new too, and what was in flight is lost.
Start(p) ==
  /\ \/ process[p] = "Shutdown"
     \/ (process[p] = "Dead" /\ "Restart" \in Env)
  /\ process' = [process EXCEPT ![p] = "Running"]
  /\ state' = [l \in Link |-> IF l[1] = p THEN NoConnection ELSE state[l]]
  /\ subnet' = [l \in Link |-> IF l[1] = p THEN NoSubnet ELSE subnet[l]]
  /\ addr' = [l \in Link |-> IF l[1] = p THEN NoAddress ELSE addr[l]]
  /\ notified' = [l \in Link |-> IF l[1] = p THEN "Disconnected" ELSE notified[l]]
  /\ IF process[p] = "Dead" THEN Flush({l \in Link : p \in {l[1], l[2]}})
                            ELSE UNCHANGED netVars
  /\ \E b \in CallbackChoices : callbackSet' = [callbackSet EXCEPT ![p] = b]
  /\ UNCHANGED <<hostSubnets, calls>>

\* While there is no ToxTunCore, tox has no callback for custom packets.
DropUnheard(l) ==
  /\ process[l[1]] = "Shutdown"
  /\ lossless[Peer(l)] # <<>>
  /\ Answer(l, <<>>)
  /\ UNCHANGED <<connVars, userVars, callbackSet, hostSubnets, calls>>

LoseLossy(l) ==
  /\ lossy[l] > 0
  /\ lossy' = [lossy EXCEPT ![l] = @ - 1]
  /\ UNCHANGED <<lossless, connVars, userVars, callbackSet, hostSubnets, calls>>

LoseLink(l) ==
  /\ "LinkLoss" \in Env
  /\ \E k \in {l, Peer(l)} : lossless[k] # <<>> \/ lossy[k] > 0
  /\ Flush({l, Peer(l)})
  /\ UNCHANGED <<connVars, userVars, callbackSet, hostSubnets, calls>>

-----------------------------------------------------------------------------
Init ==
  /\ NetInit
  /\ ConnInit
  /\ calls = 0

Next ==
  \/ \E l \in Link :
       \/ ReceiveLossless(l)
       \/ ReceiveLossy(l)
       \/ IterateConnection(l)
       \/ SendConnectionRequest(l)
       \/ AcceptConnection(l)
       \/ AcceptUnexpected(l)
       \/ RejectConnection(l)
       \/ CloseConnection(l)
       \/ DropUnheard(l)
       \/ LoseLossy(l)
       \/ LoseLink(l)
  \/ \E p \in Node :
       \/ \E b \in BOOLEAN : SetCallback(p, b)
       \/ Shutdown(p)
       \/ Crash(p)
       \/ Start(p)

Spec == Init /\ [][Next]_vars

\* The application calls tox_iterate() in its main loop, so a packet that has
\* arrived is handled sooner or later.  Nothing obliges a user to call.
FairSpec == Spec /\ \A l \in Link : WF_vars(ReceiveLossless(l))
=============================================================================
