-------------------------------- MODULE TunUnix --------------------------------
(***************************************************************************)
(* Class TunUnix and TunInterface::getData: the tap device of a Connection  *)
(* on Linux.  The constructor creates the interface, setIp sets it up with  *)
(* five ioctls when the connection is established, Connection::iterate      *)
(* reads frames from it, and the destructor brings it down and closes it.   *)
(* Every system call may fail, and frames come in between any two of them   *)
(* once the interface is up.                                               *)
(***************************************************************************)
EXTENDS TunFilter, Sequences

CONSTANT Env  \* the system calls that may fail

ASSUME EnvAssumption ==
  Env \subseteq {"open", "TUNSETIFF", "socket", "ioctl", "select", "read"}

VARIABLES
  pc,           \* the function that runs, or what the process is waiting for
  todo,         \* the ioctls setIp or shutdown have still to make
  descriptors,  \* the open file descriptors: TunUnix::fd and the socket
  tap,          \* what has been set on the interface
  waiting,      \* the frames that wait in the interface
  frame,        \* the frame getDataBackend has returned
  verdict       \* what getData has done with it

vars == <<pc, todo, descriptors, tap, waiting, frame, verdict>>
frameVars == <<waiting, frame, verdict>>

MayFail(call) == call \in Env

TOX_MAX_CUSTOM_PACKET_SIZE == 1373

\* The mtu setIp sets, and the one of a new interface.
Mtu == IF "SIOCSIFMTU" \in tap THEN TOX_MAX_CUSTOM_PACKET_SIZE - 18 - 1 ELSE 1500

\* The length of the buffer of getDataBackend.
bufferSize == 1500 + 18

Frame == IPv4Frame \cup IPv6Frame \cup OtherFrame
NoFrame == [type |-> "None", size |-> 0]

\* Data::fromTunData, and what Connection::sendToTox compares.
ToxDataLen(f) == f.size + 1

-----------------------------------------------------------------------------
\* A frame has up to 18 bytes beside what the mtu counts.  Not more than one
\* frame is followed at a time.
Arrive ==
  /\ "UP" \in tap
  /\ waiting = <<>> /\ frame = NoFrame
  /\ \E f \in Frame : f.size <= Mtu + 18 /\ waiting' = <<f>>
  /\ UNCHANGED <<pc, todo, descriptors, tap, frame, verdict>>

\* The constructor: when it throws nothing is left open.
Construct ==
  /\ pc = "Unborn"
  /\ \/ pc' = "Created" /\ descriptors' = {"fd"}
     \/ MayFail("open") /\ pc' = "Gone" /\ UNCHANGED descriptors
     \/ MayFail("TUNSETIFF") /\ pc' = "Gone" /\ descriptors' = {}
  /\ UNCHANGED <<todo, tap, frameVars>>

-----------------------------------------------------------------------------
(* setIp and shutdown: a socket, and a row of ioctls on it.                *)

\* Mutant: the interface is brought up before its mtu is set.
UpBeforeMtu ==
  <<"SIOCSIFADDR", "SIOCSIFNETMASK", "SIOCGIFFLAGS", "SIOCSIFFLAGS", "SIOCSIFMTU">>

IoctlsOfSetIp ==
  <<"SIOCSIFADDR", "SIOCSIFNETMASK", "SIOCSIFMTU", "SIOCGIFFLAGS", "SIOCSIFFLAGS">>

IoctlsOfShutdown == <<"SIOCGIFFLAGS", "SIOCSIFFLAGS">>

\* When socket() fails the ioctls are tried on descriptor -1.
Begin(function, ioctls) ==
  /\ pc' = function
  /\ todo' = ioctls
  /\ \/ descriptors' = descriptors \cup {"socket"}
     \/ MayFail("socket") /\ UNCHANGED descriptors
  /\ UNCHANGED <<tap, frameVars>>

setIp == pc = "Created" /\ Begin("setIp", IoctlsOfSetIp)

shutdown ==
  /\ pc \in {"Created", "Connected"} /\ frame = NoFrame
  /\ Begin("shutdown", IoctlsOfShutdown)

\* What the interface is like after the ioctl.
Effect(ioctl) ==
  CASE ioctl = "SIOCGIFFLAGS" -> tap
    [] ioctl = "SIOCSIFFLAGS" -> IF pc = "setIp" THEN tap \cup {"UP"} ELSE tap \ {"UP"}
    [] OTHER -> tap \cup {ioctl}

\* A failure is logged, and the next ioctl tried; when the flags cannot be
\* read there is no next one.
Ioctl ==
  /\ todo # <<>>
  /\ \/ /\ "socket" \in descriptors
        /\ tap' = Effect(Head(todo))
        /\ todo' = Tail(todo)
     \/ /\ MayFail("ioctl") \/ "socket" \notin descriptors
        /\ UNCHANGED tap
        /\ todo' = IF Head(todo) = "SIOCGIFFLAGS" THEN <<>> ELSE Tail(todo)
  /\ UNCHANGED <<pc, descriptors, frameVars>>

\* Mutant: the socket is closed only where the interface has been brought up.
CloseSocketWhenUp ==
  IF "UP" \in tap THEN descriptors \ {"socket"} ELSE descriptors

CloseSocket == descriptors \ {"socket"}

\* The end of setIp; and the end of shutdown and of the destructor, with which
\* the interface goes.
Finish ==
  /\ todo = <<>>
  /\ \/ /\ pc = "setIp"
        /\ pc' = "Connected"
        /\ descriptors' = CloseSocket
        /\ UNCHANGED <<tap, frameVars>>
     \/ /\ pc = "shutdown"
        /\ pc' = "Gone"
        /\ descriptors' = CloseSocket \ {"fd"}
        /\ tap' = {}
        /\ waiting' = <<>>
        /\ UNCHANGED <<frame, verdict>>
  /\ UNCHANGED todo

-----------------------------------------------------------------------------
(* Reading: the loop of Connection::iterate.                               *)

\* When it returns true a read follows, unless the time of iterate is up.
\* After a failed select the set is not defined, and the read may block.
dataPending ==
  /\ pc = "Connected" /\ frame = NoFrame
  /\ \/ waiting # <<>>
     \/ MayFail("select")
  /\ pc' = "read"
  /\ UNCHANGED <<todo, descriptors, tap, waiting, frame, verdict>>

\* What read leaves of a frame.
getDataBackend(f) == [f EXCEPT !.size = IF @ < bufferSize THEN @ ELSE bufferSize]

\* As long as no frame waits, the read of getDataBackend blocks.
getData ==
  /\ pc = "read"
  /\ pc' = "Connected"
  /\ \/ /\ waiting # <<>>
        /\ frame' = getDataBackend(Head(waiting))
        /\ waiting' = Tail(waiting)
        /\ \E own \in isFromOwnTox(frame') : verdict' = IF own THEN "Dropped" ELSE "Sent"
     \/ MayFail("read") /\ UNCHANGED <<waiting, frame, verdict>>
  /\ UNCHANGED <<todo, descriptors, tap>>

\* The next round of the loop.
Continue ==
  /\ frame # NoFrame
  /\ frame' = NoFrame /\ verdict' = "None"
  /\ UNCHANGED <<pc, todo, descriptors, tap, waiting>>

Init ==
  /\ pc = "Unborn" /\ todo = <<>>
  /\ descriptors = {} /\ tap = {}
  /\ waiting = <<>> /\ frame = NoFrame /\ verdict = "None"

Next ==
  \/ Arrive \/ Construct \/ setIp \/ shutdown \/ Ioctl \/ Finish
  \/ dataPending \/ getData \/ Continue

Spec == Init /\ [][Next]_vars

-----------------------------------------------------------------------------
\* No descriptor is left open: the socket of setIp and of shutdown on every way
\* out of them, and all of them once the object is gone or has not come into
\* being (TunUnix::TunUnix, setIp, shutdown, ~TunUnix).
NoDescriptorLeft ==
  /\ "socket" \in descriptors => pc \in {"setIp", "shutdown"}
  /\ pc = "Gone" => descriptors = {} /\ tap = {}

\* When the mtu could be set every frame the friend is sent fits in one packet
\* of toxcore, whatever came before it was set: Connection::sendToTox never
\* splits it (TunUnix::setIp, 18 bytes of Ethernet and one of Tox).
FramesFitOnePacket ==
  verdict = "Sent" /\ "SIOCSIFMTU" \in tap
    => ToxDataLen(frame) <= TOX_MAX_CUSTOM_PACKET_SIZE

\* A whole datagram of the own tox instance is never sent through the tunnel
\* (TunInterface::isFromOwnTox, both versions of IP, with and without options).
OwnDatagramsDropped ==
  /\ verdict # "None" /\ HoldsPort(frame)
  /\ ~IsFragmented(frame) /\ frame.port = toxUdpPort
  => verdict = "Dropped"

\* A frame that is not a datagram of the own tox instance is sent, as far as
\* the frame can tell: truncated frames and other protocols included, except
\* later fragments and truncated IPv6 frames.
OthersSent ==
  /\ verdict # "None"
  /\ frame.type # "Other" =>
       /\ IsFragmented(frame) => frame.offset = 0
       /\ frame.type = "IPv6" => frame.fragment \/ frame.size >= PayloadAt(frame) + 2
       /\ ~(HoldsPort(frame) /\ frame.port = toxUdpPort)
  => verdict = "Sent"

\* A first fragment shows its source port, so it is dropped as a whole
\* datagram is: only of a fragment that is not the first there is no way to
\* check the source port (isFromOwnToxIPv4).
FirstFragmentsDropped ==
  /\ verdict # "None" /\ HoldsPort(frame)
  /\ IsFragmented(frame) /\ frame.port = toxUdpPort
  => verdict = "Dropped"
=============================================================================
