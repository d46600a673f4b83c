------------------------------- MODULE Callbacks -------------------------------
(***************************************************************************)
(* Calls the application makes from inside the callback of ToxTun.  One     *)
(* node, with the connections of its map as objects: a handler that reports *)
(* an event stays on the stack until the callback returns, and then goes on *)
(* with its object.  The friends send any packet at any time.               *)
(*                                                                         *)
(* A step runs from one point at which the application has control to the   *)
(* next: the main loop (the stack is empty) or a callback.  Packets are     *)
(* handled in the main loop only.  What a handler does without an event is  *)
(* in the module Connection; subnets, addresses and packets are left out.   *)
(***************************************************************************)
EXTENDS Integers, SequencesExt

CONSTANTS
  Friend,      \* friend numbers
  Self,        \* the node itself
  CallsIn,     \* the calls the callback may make, for each event
  Env,         \* what else the application may do
  MaxObjects   \* bound on the Connections constructed

Event ==
  {"ConnectionRequested", "ConnectionAccepted", "ConnectionRejected", "ConnectionClosed"}

Call == {"Send", "Accept", "Close"}

ASSUME SelfAssumption == Self \notin Friend
ASSUME CallsInAssumption == CallsIn \in [Event -> SUBSET Call]
ASSUME MaxObjectsAssumption == MaxObjects \in Nat
\* Calls in a callback that ~Connection makes.
ASSUME EnvAssumption == Env \subseteq {"CallsWhileErasing"}

VARIABLES
  entry,     \* ToxTunCore::connections: the object for each friend, 0 for none
  object,    \* the state of every Connection constructed so far
  stack,     \* the callbacks that run, the innermost last
  notified   \* what the last event or call has told the user

vars == <<entry, object, stack, notified>>

\* What the caller of the callback does after it returns: nothing; write
\* state Deleting and erase the entry, and then nothing, or go on with the
\* deleted Connection; or finish the destructor that erase has called, with
\* the entry taken out of the map before it or after it.
Continuation ==
  {"Nothing", "Delete", "DeleteThenWrite", "DeleteThenSetIp", "Unlinked", "Clear"}

Deletion == {"Delete", "DeleteThenWrite", "DeleteThenSetIp"}

\* What an event tells the user.
Told ==
  [ ConnectionRequested |-> "Requested", ConnectionAccepted |-> "Connected",
    ConnectionRejected |-> "Disconnected", ConnectionClosed |-> "Disconnected" ]

StateOf(f) == IF entry[f] = 0 THEN "NoConnection" ELSE object[entry[f]]

InMainLoop == stack = <<>>

\* The application has control in the main loop and in the innermost callback.
May(call) ==
  IF InMainLoop THEN TRUE
  ELSE /\ call \in CallsIn[Last(stack).event]
       /\ Last(stack).then \in {"Unlinked", "Clear"} => "CallsWhileErasing" \in Env

\* ToxTunCore::callback, called by a handler of the object o.
Report(event, f, o, then, frames) ==
  /\ stack' = Append(frames, [event |-> event, friend |-> f, object |-> o, then |-> then])
  /\ notified' = [notified EXCEPT ![f] = Told[event]]

Become(f, s) == object' = [object EXCEPT ![entry[f]] = s]

\* emplace of a new Connection.
Construct(f, s) ==
  /\ entry[f] = 0
  /\ Len(object) < MaxObjects
  /\ object' = Append(object, s)
  /\ entry' = [entry EXCEPT ![f] = Len(object) + 1]

\* erase of the entry f, when its Connection o is in state s: ~Connection
\* reports ConnectionClosed in the middle of the negotiation.  std::map may
\* unlink the entry before it destroys it; to erase its only entry it may also
\* destroy all its nodes and then reset the map.
Erase(f, o, s, frames) ==
  IF s \in {"OwnRequestPending", "ExpectingIpPacket", "ExpectingIpConfirmation"}
  THEN /\ \/ /\ entry' = [entry EXCEPT ![f] = 0]
             /\ Report("ConnectionClosed", f, o, "Unlinked", frames)
          \/ /\ \A g \in Friend \ {f} : entry[g] = 0
             /\ Report("ConnectionClosed", f, o, "Clear", frames)
             /\ UNCHANGED entry
       /\ UNCHANGED object
  ELSE /\ entry' = [entry EXCEPT ![f] = 0]
       /\ object' = [object EXCEPT ![o] = "Destroyed"]
       /\ stack' = frames
       /\ notified' = [notified EXCEPT ![f] = "Disconnected"]

-----------------------------------------------------------------------------
(* Packets.                                                                *)

ReportAndDelete(f, event) ==
  /\ Report(event, f, entry[f], "Delete", stack)
  /\ UNCHANGED entry

\* resetAndDeleteConnection, and handleConnectionClosed and
\* handleConnectionReset, which send no reset: in any state.
ResetAndDelete(f) == ReportAndDelete(f, "ConnectionClosed") /\ UNCHANGED object

\* A Data packet, in one piece or joined by handleFragment.  sendToTun goes on
\* after resetAndDeleteConnection, and so does handleFragment, for its log.
SendToTun(f) ==
  /\ StateOf(f) # "Connected"
  /\ Report("ConnectionClosed", f, entry[f], "DeleteThenWrite", stack)
  /\ UNCHANGED <<entry, object>>

\* handleIpProposal when IpAccept is refused: setIp follows the deletion.
RefusedIpAccept(f) ==
  /\ StateOf(f) = "ExpectingIpPacket"
  /\ Report("ConnectionClosed", f, entry[f], "DeleteThenSetIp", stack)
  /\ UNCHANGED <<entry, object>>

\* Mutant: the connection is not deleted after the event.
RejectedKept(f) ==
  /\ StateOf(f) = "OwnRequestPending"
  /\ Report("ConnectionRejected", f, entry[f], "Nothing", stack)
  /\ UNCHANGED <<entry, object>>

HandleConnectionRejected(f) ==
  /\ StateOf(f) = "OwnRequestPending"
  /\ ReportAndDelete(f, "ConnectionRejected")
  /\ UNCHANGED object

\* sendIp: a subnet is proposed, or there is none left or the packet is refused.
SendIp(f) ==
  /\ StateOf(f) \in {"OwnRequestPending", "ExpectingIpConfirmation"}
  /\ Become(f, "ExpectingIpConfirmation")
  /\ \/ UNCHANGED <<entry, stack, notified>>
     \/ ReportAndDelete(f, "ConnectionClosed")

\* Mutant: the state becomes Connected after the event.
SetIpLate(f) ==
  /\ StateOf(f) \in {"ExpectingIpPacket", "ExpectingIpConfirmation"}
  /\ Report("ConnectionAccepted", f, entry[f], "Connect", stack)
  /\ UNCHANGED <<entry, object>>

\* setIp, of handleIpProposal and handleIpAccepted.  Nothing follows the
\* event.
SetIp(f) ==
  /\ StateOf(f) \in {"ExpectingIpPacket", "ExpectingIpConfirmation"}
  /\ Become(f, "Connected")
  /\ Report("ConnectionAccepted", f, entry[f], "Nothing", stack)
  /\ UNCHANGED entry

HandleData(f) ==
  /\ entry[f] # 0
  /\ \/ ResetAndDelete(f) \/ SendToTun(f)
     \/ HandleConnectionRejected(f)
     \/ SendIp(f)
     \/ SetIp(f) \/ RefusedIpAccept(f)

\* Nothing follows the event here either.
HandleConnectionRequest(f) ==
  /\ Construct(f, "FriendsRequestPending")
  /\ Report("ConnectionRequested", f, entry'[f], "Nothing", stack)

Receive(f) == InMainLoop /\ (HandleData(f) \/ HandleConnectionRequest(f))

-----------------------------------------------------------------------------
(* Calls, from the main loop or from a callback.                           *)

\* Mutant: a request replaces the entry there is.
SendConnectionRequestAnyway(f) ==
  /\ May("Send")
  /\ Len(object) < MaxObjects
  /\ object' = Append(object, "OwnRequestPending")
  /\ entry' = [entry EXCEPT ![f] = Len(object) + 1]
  /\ notified' = [notified EXCEPT ![f] = "Calling"]
  /\ UNCHANGED stack

\* When there is an entry the call throws and changes nothing.
SendConnectionRequest(f) ==
  /\ May("Send")
  /\ Construct(f, "OwnRequestPending")
  /\ notified' = [notified EXCEPT ![f] = "Calling"]
  /\ UNCHANGED stack

\* A refused ConnectionAccept resets and deletes the connection inside the
\* call.  In a wrong state the call throws and the entry is erased; an
\* established connection, erased without an event, is left out.
AcceptConnection(f) ==
  /\ May("Accept")
  /\ entry[f] # 0
  /\ \/ /\ StateOf(f) = "FriendsRequestPending"
        /\ Become(f, "ExpectingIpPacket")
        /\ \/ notified' = [notified EXCEPT ![f] = "Answered"] /\ UNCHANGED <<entry, stack>>
           \/ ReportAndDelete(f, "ConnectionClosed")
     \/ /\ StateOf(f) \notin {"FriendsRequestPending", "Connected"}
        /\ Erase(f, entry[f], StateOf(f), stack)

\* rejectConnection does the same.
CloseConnection(f) ==
  /\ May("Close")
  /\ entry[f] # 0
  /\ Erase(f, entry[f], StateOf(f), stack)

\* Mutant: the state is not set to Deleting.
DeleteConnectionAsIs(f, o) == Erase(f, o, object[o], Front(stack))

\* deleteConnection.
DeleteConnection(f, o) == Erase(f, o, "Deleting", Front(stack))

\* deleteConnection, and then setIp of the object that is gone: if the build
\* survives it, it reports a connection there is not, and nothing follows.
SetIpOnDeleted(f, o) ==
  /\ entry' = [entry EXCEPT ![f] = 0]
  /\ object' = [object EXCEPT ![o] = "Destroyed"]
  /\ stack' = Append(Front(stack),
       [event |-> "ConnectionAccepted", friend |-> f, object |-> o, then |-> "Nothing"])
  /\ notified' = [notified EXCEPT ![f] = "Misled"]

\* The callback returns, and its caller goes on.  What sendToTun and
\* handleFragment do with the object that is gone, or setIp when the address
\* cannot be set, ends the process, which takes no step then, or changes
\* nothing of what is modelled here.
Return ==
  /\ stack # <<>>
  /\ LET top == Last(stack)
     IN  \/ /\ top.then = "Nothing"
            /\ stack' = Front(stack)
            /\ UNCHANGED <<entry, object, notified>>
         \/ /\ top.then \in Deletion
            /\ DeleteConnection(top.friend, top.object)
         \/ /\ top.then = "DeleteThenSetIp"
            /\ SetIpOnDeleted(top.friend, top.object)
         \/ /\ top.then \in {"Unlinked", "Clear"}
            /\ object' = [object EXCEPT ![top.object] = "Destroyed"]
            /\ entry' = IF top.then = "Clear" THEN [g \in Friend |-> 0] ELSE entry
            /\ stack' = Front(stack)
            /\ UNCHANGED notified

-----------------------------------------------------------------------------
Init ==
  /\ entry = [f \in Friend |-> 0]
  /\ object = <<>>
  /\ stack = <<>>
  /\ notified = [f \in Friend |-> "Disconnected"]

Next ==
  \/ \E f \in Friend :
       \/ Receive(f)
       \/ SendConnectionRequest(f)
       \/ AcceptConnection(f)
       \/ CloseConnection(f)
  \/ Return

Spec == Init /\ [][Next]_vars

-----------------------------------------------------------------------------
\* Callbacks whose caller still uses its Connection.
Pending == {i \in 1 .. Len(stack) : stack[i].then # "Nothing"}

\* Whatever a callback calls, its caller finds the Connection it still uses as
\* it left it: alive, its end not begun by anybody else, and, where it is about
\* to delete it, in its entry (handleConnectionClosed, resetAndDeleteConnection,
\* ...).  This is up to the deletion: sendToTun, handleFragment and
\* handleIpProposal also use a Connection they have deleted themselves.
CallsSpareTheObject ==
  \A i \in Pending :
    /\ object[stack[i].object] # "Destroyed"
    /\ stack[i].then \in Deletion => entry[stack[i].friend] = stack[i].object
    /\ \A j \in Pending \ {i} : stack[j].object # stack[i].object

\* What the user must have learnt when a connection is in state s.
Known(s) ==
  CASE s = "NoConnection" -> "Disconnected"
    [] s = "FriendsRequestPending" -> "Requested"
    [] s = "ExpectingIpPacket" -> "Answered"
    [] s \in {"OwnRequestPending", "ExpectingIpConfirmation"} -> "Calling"
    [] s = "Connected" -> "Connected"

\* Events and calls tell the state of every connection, in the main loop and
\* in every callback but that of an end in progress: no entry is lost, left
\* over or replaced by calls from callbacks (ToxTunCore::connections).  The
\* setIp of a deleted Connection misleads about that one until it is dialed,
\* or dials, again.
InformedDespiteCalls ==
  \A f \in Friend :
    (\A i \in Pending : stack[i].friend # f) =>
      \/ notified[f] = Known(StateOf(f))
      \/ notified[f] = "Misled" /\ StateOf(f) = "NoConnection"

\* The end of a connection is reported at most once, although ~Connection
\* reports it too and runs in every deletion (State::Deleting).
EndsReportedOnce ==
  [][ stack' # stack /\ Len(stack') >= Len(stack) =>
        LET e == Last(stack')
        IN  Told[e.event] = "Disconnected" => notified[e.friend] # "Disconnected"
    ]_vars

\* getConnectionState, seen from this node.
GetConnectionState(f) ==
  LET s == StateOf(f)
  IN  CASE s = "Connected" -> "Connected"
        [] s \in {"FriendsRequestPending", "ExpectingIpPacket"} -> "FriendIsRinging"
        [] s \in {"OwnRequestPending", "ExpectingIpConfirmation"} -> "RingingAtFriend"
        [] OTHER -> "Disconnected"

Lifecycle ==
  INSTANCE ConnectionLifecycle
    WITH Node <- Friend \cup {Self},
         status <- [l \in {l \in (Friend \cup {Self}) \X (Friend \cup {Self}) : l[1] # l[2]} |->
                      IF l[1] = Self THEN GetConnectionState(l[2]) ELSE "Disconnected"]

\* Whatever callbacks call, getConnectionState moves only as
\* ConnectionLifecycle allows, for one friend at a time.
CallsKeepLifecycle == Lifecycle!Spec
=============================================================================
