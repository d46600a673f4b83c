-------------------------- MODULE ConnectionLifecycle --------------------------
(***************************************************************************)
(* What the class ToxTun promises an application that polls                 *)
(* getConnectionState(): a connection is asked for by one side, is          *)
(* established only after it was asked for, never turns from one kind of    *)
(* ringing into the other, and comes and goes without touching the          *)
(* connections to other friends.  Nothing is said here of packets, subnets  *)
(* or events.                                                               *)
(***************************************************************************)
CONSTANT Node

VARIABLE status  \* ToxTun::getConnectionState, for every node and friend

Link == {l \in Node \X Node : l[1] # l[2]}

ConnectionState == {"Connected", "RingingAtFriend", "FriendIsRinging", "Disconnected"}

Goes(l, from, to) ==
  /\ status[l] \in from
  /\ status' = [status EXCEPT ![l] = to]

Dial(l) == Goes(l, {"Disconnected"}, "RingingAtFriend")
Ring(l) == Goes(l, {"Disconnected"}, "FriendIsRinging")
Establish(l) == Goes(l, {"RingingAtFriend", "FriendIsRinging"}, "Connected")
HangUp(l) == Goes(l, ConnectionState, "Disconnected")

\* The ToxTun of p is destroyed, and with it all its connections.
HangUpAll(p) ==
  status' = [l \in Link |-> IF l[1] = p THEN "Disconnected" ELSE status[l]]

Init == status = [l \in Link |-> "Disconnected"]

Next ==
  \/ \E l \in Link : Dial(l) \/ Ring(l) \/ Establish(l) \/ HangUp(l)
  \/ \E p \in Node : HangUpAll(p)

Spec == Init /\ [][Next]_status
=============================================================================
