----------------------------- MODULE TunUnix_proofs -----------------------------
(***************************************************************************)
(* What holds of the tap device of Linux and of the filter of own packets   *)
(* for frames of any length, any port and fragment offset, and whichever    *)
(* system calls fail.                                                      *)
(***************************************************************************)
EXTENDS TunUnix, SequenceTheorems, TLAPS

-----------------------------------------------------------------------------
(* The filter.                                                             *)

\* Frames as read leaves them: cut to the buffer, so of any length.
IPv4Read ==
  [ type : {"IPv4"}, size : Nat, ihl : HeaderLength, protocol : Protocol,
    more : BOOLEAN, offset : Offset, port : Port ]

IPv6Read ==
  [ type : {"IPv6"}, size : Nat, fragment : BOOLEAN, protocol : Protocol,
    more : BOOLEAN, offset : Offset, port : Port ]

OtherRead == [type : {"Other"}, size : Nat]

FrameRead == IPv4Read \cup IPv6Read \cup OtherRead

LEMMA FrameFacts ==
  ASSUME NEW f \in FrameRead
  PROVE  /\ f.size \in Nat
         /\ f.type \in {"IPv4", "IPv6", "Other"}
         /\ f.type = "IPv4" => f \in IPv4Read
         /\ f.type = "IPv6" => f \in IPv6Read
  BY DEF FrameRead, IPv4Read, IPv6Read, OtherRead

LEMMA ConstantFacts ==
  /\ \A x \in Offset : x \in Nat
  /\ \A x \in HeaderLength : x \in Nat
<1>1. ASSUME NEW x \in Offset
      PROVE  x \in Nat
  <2>1. x \in 0 .. 8191
    BY OffsetAssumption
  <2> QED
    BY <2>1
<1>2. ASSUME NEW x \in HeaderLength
      PROVE  x \in Nat
  <2>1. x \in 0 .. 15
    BY HeaderLengthAssumption
  <2> QED
    BY <2>1
<1> QED
  BY <1>1, <1>2

LEMMA IPv4Facts ==
  ASSUME NEW f \in IPv4Read
  PROVE  /\ f.type = "IPv4" /\ f.size \in Nat
         /\ f.ihl \in Nat /\ f.ihl \in HeaderLength
         /\ f.more \in BOOLEAN /\ f.offset \in Nat
         /\ PayloadAt(f) = 14 + 4 * f.ihl
         /\ PayloadAt(f) \in Nat
<1>1. /\ f.type = "IPv4" /\ f.size \in Nat /\ f.ihl \in HeaderLength
      /\ f.more \in BOOLEAN /\ f.offset \in Offset
  BY DEF IPv4Read
<1>2. f.ihl \in Nat /\ f.offset \in Nat
  BY <1>1, ConstantFacts, Zenon
<1>3. PayloadAt(f) = 14 + 4 * f.ihl
  BY <1>1 DEF PayloadAt, EtherHeader
<1> QED
  BY <1>1, <1>2, <1>3

LEMMA IPv6Facts ==
  ASSUME NEW f \in IPv6Read
  PROVE  /\ f.type = "IPv6" /\ f.size \in Nat
         /\ f.fragment \in BOOLEAN /\ f.more \in BOOLEAN /\ f.offset \in Nat
         /\ f.fragment => PayloadAt(f) = 62
         /\ ~f.fragment => PayloadAt(f) = 54
<1>1. /\ f.type = "IPv6" /\ f.size \in Nat
      /\ f.fragment \in BOOLEAN /\ f.more \in BOOLEAN /\ f.offset \in Offset
  BY DEF IPv6Read
<1>2. f.offset \in Nat
  BY <1>1, ConstantFacts, Zenon
<1>3. f.fragment => PayloadAt(f) = 62
  BY <1>1 DEF PayloadAt, EtherHeader
<1>4. ~f.fragment => PayloadAt(f) = 54
  BY <1>1 DEF PayloadAt, EtherHeader
<1> QED
  BY <1>1, <1>2, <1>3, <1>4

\* isFromOwnTox goes by the type of the frame.
LEMMA IPv4Dispatched ==
  ASSUME NEW f, f.type = "IPv4", f.size \in Nat, f.size >= 14
  PROVE  isFromOwnTox(f) = isFromOwnToxIPv4(f)
<1>1. (f.size < EtherHeader) = FALSE /\ (f.size >= EtherHeader) = TRUE
  BY DEF EtherHeader
<1> QED
  BY <1>1, Zenon DEF isFromOwnTox

LEMMA IPv6Dispatched ==
  ASSUME NEW f, f.type = "IPv6", f.size \in Nat, f.size >= 14
  PROVE  isFromOwnTox(f) = isFromOwnToxIPv6(f)
<1>1. (f.size < EtherHeader) = FALSE /\ (f.size >= EtherHeader) = TRUE
  BY DEF EtherHeader
<1> QED
  BY <1>1, Zenon DEF isFromOwnTox

\* Where the frame holds the two bytes, they are compared.
LEMMA PortIsCompared ==
  ASSUME NEW f, f.size \in Nat, PayloadAt(f) \in Nat, f.size >= PayloadAt(f) + 2
  PROVE  ComparePort(f, PayloadAt(f)) = {f.port = toxUdpPort}
<1>1. BytesAt(f, PayloadAt(f)) = {f.port}
  BY DEF BytesAt
<1> QED
  BY <1>1 DEF ComparePort

\* The flags of an IPv4 frame that is whole, and of a first fragment.
LEMMA FlagsOfWhole ==
  ASSUME NEW f, ~f.more, f.offset = 0
  PROVE  FlagsByte(f) = 0
  BY DEF FlagsByte

LEMMA FlagsOfFirst ==
  ASSUME NEW f, f.more, f.offset = 0
  PROVE  FlagsByte(f) = 32
  BY DEF FlagsByte

\* A whole datagram of the own tox instance is recognized.
LEMMA OwnIPv4 ==
  ASSUME NEW f \in IPv4Read, HeaderLength \subseteq 2 .. 15,
         HoldsPort(f), ~IsFragmented(f), f.port = toxUdpPort
  PROVE  isFromOwnTox(f) = {TRUE}
<1>1. ~f.more /\ f.offset = 0
  BY IPv4Facts DEF IsFragmented
<1>2. FlagsByte(f) = 0
  BY <1>1, FlagsOfWhole
<1>3. /\ f.protocol = "UDP" /\ f.size >= PayloadAt(f) + 2
      /\ PayloadAt(f) \in Nat /\ PayloadAt(f) >= 22
      /\ f.size \in Nat /\ f.type = "IPv4"
  BY IPv4Facts DEF HoldsPort
<1>4. isFromOwnToxIPv4(f) = ComparePort(f, PayloadAt(f))
  <2>1. (FlagsByte(f) \div 32) % 2 # 1
    BY <1>2
  <2>2. ~(f.size < EtherHeader + 10) /\ ~(f.size < PayloadAt(f) + 2)
    BY <1>3 DEF EtherHeader
  <2> QED
    BY <1>3, <2>1, <2>2, Zenon DEF isFromOwnToxIPv4
<1>5. isFromOwnTox(f) = isFromOwnToxIPv4(f)
  BY <1>3, IPv4Dispatched
<1> QED
  BY <1>3, <1>4, <1>5, PortIsCompared

LEMMA OwnIPv6 ==
  ASSUME NEW f \in IPv6Read, HoldsPort(f), ~IsFragmented(f), f.port = toxUdpPort
  PROVE  isFromOwnTox(f) = {TRUE}
<1>1. f.fragment => f.offset = 0
  BY IPv6Facts DEF IsFragmented
<1>2. /\ f.protocol = "UDP" /\ f.size >= PayloadAt(f) + 2
      /\ PayloadAt(f) \in Nat /\ f.size \in Nat /\ f.type = "IPv6"
      /\ f.size >= 54 /\ (f.fragment => f.size >= 64)
  BY IPv6Facts DEF HoldsPort
<1>3. isFromOwnToxIPv6(f) = ComparePort(f, PayloadAt(f))
  <2>1. /\ ~(f.size < EtherHeader + 40)
        /\ f.fragment => ~(f.size < EtherHeader + 40 + 10) /\ ~(f.offset # 0)
    BY <1>1, <1>2 DEF EtherHeader
  <2> QED
    BY <1>2, <2>1, Zenon DEF isFromOwnToxIPv6
<1>4. isFromOwnTox(f) = isFromOwnToxIPv6(f)
  BY <1>2, IPv6Dispatched
<1> QED
  BY <1>2, <1>3, <1>4, PortIsCompared

\* What is not one is not taken for one, as far as the frame can tell.
Foreign(f) ==
  f.type # "Other" =>
    /\ IsFragmented(f) => f.offset = 0
    /\ f.type = "IPv6" => f.fragment \/ f.size >= PayloadAt(f) + 2
    /\ ~(HoldsPort(f) /\ f.port = toxUdpPort)

LEMMA ForeignIPv4 ==
  ASSUME NEW f \in IPv4Read, Foreign(f)
  PROVE  isFromOwnToxIPv4(f) = {FALSE}
<1>1. f.offset = 0 /\ f.more \in BOOLEAN
  BY IPv4Facts DEF Foreign, IsFragmented
<1>2. f.size \in Nat /\ PayloadAt(f) \in Nat /\ f.type = "IPv4"
  BY IPv4Facts
<1>3. CASE f.more
  <2>1. FlagsByte(f) = 32
    BY <1>1, <1>3, FlagsOfFirst
  <2> QED
    BY <2>1 DEF isFromOwnToxIPv4
<1>4. CASE f.size < PayloadAt(f) + 2 \/ f.protocol # "UDP"
  BY <1>4 DEF isFromOwnToxIPv4
<1>5. CASE ~f.more /\ f.size >= PayloadAt(f) + 2 /\ f.protocol = "UDP"
  <2>1. f.port # toxUdpPort
    BY <1>1, <1>2, <1>5 DEF Foreign, HoldsPort
  <2>2. ComparePort(f, PayloadAt(f)) = {FALSE}
    BY <1>2, <1>5, <2>1, PortIsCompared
  <2> QED
    BY <2>2 DEF isFromOwnToxIPv4
<1>6. f.size < PayloadAt(f) + 2 \/ f.size >= PayloadAt(f) + 2
  BY <1>2
<1> QED
  BY <1>3, <1>4, <1>5, <1>6

LEMMA ForeignIPv6 ==
  ASSUME NEW f \in IPv6Read, Foreign(f)
  PROVE  isFromOwnToxIPv6(f) = {FALSE}
<1>1. f.size \in Nat /\ PayloadAt(f) \in Nat /\ f.type = "IPv6" /\ f.fragment \in BOOLEAN
  BY IPv6Facts
<1>2. CASE f.protocol # "UDP" \/ (f.fragment /\ (f.size < 64 \/ f.offset # 0))
  <2>1. f.size < 64 => f.size < EtherHeader + 40 + 10
    BY DEF EtherHeader
  <2> QED
    BY <1>2, <2>1, Zenon DEF isFromOwnToxIPv6
<1>3. CASE f.protocol = "UDP" /\ (f.fragment => f.size >= 64 /\ f.offset = 0)
  <2>1. f.size >= PayloadAt(f) + 2
    BY <1>1, <1>3, IPv6Facts DEF Foreign
  <2>2. f.port # toxUdpPort
    BY <1>1, <1>3, <2>1 DEF Foreign, HoldsPort, IsFragmented
  <2>3. ComparePort(f, PayloadAt(f)) = {FALSE}
    BY <1>1, <2>1, <2>2, PortIsCompared
  <2> QED
    BY <2>3 DEF isFromOwnToxIPv6
<1>4. f.size < 64 \/ f.size >= 64
  BY <1>1
<1> QED
  BY <1>2, <1>3, <1>4

\* isFromOwnTox tells the whole datagrams of the own tox instance, with and
\* without options and fragment header, from all that is not one, for frames
\* of any length, offset and port.
THEOREM FilterIsRight ==
  ASSUME NEW f \in FrameRead
  PROVE  /\ Foreign(f) => isFromOwnTox(f) = {FALSE}
         /\ /\ HeaderLength \subseteq 2 .. 15
            /\ HoldsPort(f) /\ ~IsFragmented(f) /\ f.port = toxUdpPort
            => isFromOwnTox(f) = {TRUE}
<1>1. ASSUME Foreign(f)
      PROVE  isFromOwnTox(f) = {FALSE}
  BY <1>1, FrameFacts, ForeignIPv4, ForeignIPv6 DEF isFromOwnTox
<1>2. ASSUME HeaderLength \subseteq 2 .. 15,
             HoldsPort(f), ~IsFragmented(f), f.port = toxUdpPort
      PROVE  isFromOwnTox(f) = {TRUE}
  BY <1>2, FrameFacts, OwnIPv4, OwnIPv6 DEF HoldsPort
<1> QED
  BY <1>1, <1>2

-----------------------------------------------------------------------------
(* The inductive invariant.                                                *)

Ioctls == {"SIOCSIFADDR", "SIOCSIFNETMASK", "SIOCSIFMTU", "SIOCGIFFLAGS", "SIOCSIFFLAGS"}

\* setIp brings the interface up with its last ioctl, and shutdown does not
\* touch the mtu.
IoctlsInOrder ==
  /\ todo \in Seq(Ioctls)
  /\ todo # <<>> => pc \in {"setIp", "shutdown"}
  /\ pc = "setIp" => \A i \in 1 .. Len(todo) : todo[i] = "SIOCSIFFLAGS" => i = Len(todo)
  /\ pc = "shutdown" => \A i \in 1 .. Len(todo) : todo[i] # "SIOCSIFMTU"

\* What is open, and that nothing is set on an interface that is not there.
Descriptors ==
  /\ descriptors \subseteq {"fd", "socket"}
  /\ "socket" \in descriptors => pc \in {"setIp", "shutdown"}
  /\ pc \in {"Unborn", "Gone"} => descriptors = {}
  /\ pc \in {"Unborn", "Created", "Gone"} => tap = {}

\* No frame comes before setIp has made all its ioctls, and with them the mtu.
Fits(f) == f.size <= TOX_MAX_CUSTOM_PACKET_SIZE - 1

FramesFit ==
  /\ pc \in {"Unborn", "Created"} \/ (pc = "setIp" /\ todo # <<>>)
       => "UP" \notin tap /\ waiting = <<>> /\ frame = NoFrame
  /\ "SIOCSIFMTU" \in tap =>
       /\ \A i \in 1 .. Len(waiting) : Fits(waiting[i])
       /\ Fits(frame)

\* The verdict is what isFromOwnTox has answered for the frame.
Judged ==
  /\ waiting \in Seq(Frame)
  /\ frame \in FrameRead \cup {NoFrame}
  /\ verdict # "None" =>
       /\ frame \in FrameRead
       /\ \E own \in isFromOwnTox(frame) : verdict = IF own THEN "Dropped" ELSE "Sent"

IInv == IoctlsInOrder /\ Descriptors /\ FramesFit /\ Judged

-----------------------------------------------------------------------------
(* setIp and shutdown.                                                     *)

LEMMA TodoTail ==
  ASSUME IoctlsInOrder, todo # <<>>
  PROVE  /\ Head(todo) \in Ioctls
         /\ Tail(todo) \in Seq(Ioctls)
         /\ pc = "setIp" =>
              /\ Head(todo) = "SIOCSIFFLAGS" => Tail(todo) = <<>>
              /\ \A i \in 1 .. Len(Tail(todo)) :
                   Tail(todo)[i] = "SIOCSIFFLAGS" => i = Len(Tail(todo))
         /\ pc = "shutdown" =>
              /\ Head(todo) # "SIOCSIFMTU"
              /\ \A i \in 1 .. Len(Tail(todo)) : Tail(todo)[i] # "SIOCSIFMTU"
<1>1. /\ todo \in Seq(Ioctls) /\ Len(todo) \in Nat \ {0}
      /\ Head(todo) = todo[1] /\ Head(todo) \in Ioctls
      /\ Tail(todo) \in Seq(Ioctls) /\ Len(Tail(todo)) = Len(todo) - 1
      /\ \A i \in 1 .. Len(Tail(todo)) : Tail(todo)[i] = todo[i + 1]
  BY HeadTailProperties, EmptySeq DEF IoctlsInOrder
<1>2. ASSUME pc = "setIp"
      PROVE  /\ Head(todo) = "SIOCSIFFLAGS" => Tail(todo) = <<>>
             /\ \A i \in 1 .. Len(Tail(todo)) :
                  Tail(todo)[i] = "SIOCSIFFLAGS" => i = Len(Tail(todo))
  <2>1. \A i \in 1 .. Len(todo) : todo[i] = "SIOCSIFFLAGS" => i = Len(todo)
    BY <1>2 DEF IoctlsInOrder
  <2> DEFINE n == Len(todo)
             m == Len(Tail(todo))
  <2>n. n \in Nat /\ m = n - 1
    BY <1>1
  <2> HIDE DEF n, m
  <2>2. ASSUME Head(todo) = "SIOCSIFFLAGS"
        PROVE  Tail(todo) = <<>>
    <3>1. 1 \in 1 .. Len(todo)
      BY <1>1
    <3>2. 1 = Len(todo)
      BY <1>1, <2>1, <2>2, <3>1, Zenon
    <3>3. n = 1
      BY <3>2, Zenon DEF n
    <3>4. m = 0
      BY <2>n, <3>3
    <3> QED
      BY <1>1, <3>4, EmptySeq DEF m
  <2>3. ASSUME NEW i \in 1 .. Len(Tail(todo)), Tail(todo)[i] = "SIOCSIFFLAGS"
        PROVE  i = Len(Tail(todo))
    <3>1. i + 1 \in 1 .. Len(todo)
      BY <1>1
    <3>2. todo[i + 1] = "SIOCSIFFLAGS"
      BY <1>1, <2>3, Zenon
    <3>3. i + 1 = n
      BY <2>1, <3>1, <3>2, Zenon DEF n
    <3>4. i \in Nat
      OBVIOUS
    <3>5. i = m
      BY <2>n, <3>3, <3>4
    <3> QED
      BY <3>5 DEF m
  <2> QED
    BY <2>2, <2>3, Zenon
<1>3. ASSUME pc = "shutdown"
      PROVE  /\ Head(todo) # "SIOCSIFMTU"
             /\ \A i \in 1 .. Len(Tail(todo)) : Tail(todo)[i] # "SIOCSIFMTU"
  BY <1>1, <1>3 DEF IoctlsInOrder
<1> QED
  BY <1>1, <1>2, <1>3

LEMMA IoctlStep ==
  ASSUME IInv, Ioctl
  PROVE  IInv'
<1> USE DEF IInv
<1>1. /\ todo # <<>>
      /\ pc \in {"setIp", "shutdown"}
      /\ UNCHANGED <<pc, descriptors, waiting, frame, verdict>>
  BY DEF Ioctl, IoctlsInOrder, frameVars
<1>2. todo' = Tail(todo) \/ todo' = <<>>
  BY DEF Ioctl
<1>3. \/ tap' = Effect(Head(todo)) /\ todo' = Tail(todo)
      \/ tap' = tap
  BY DEF Ioctl
<1>4. IoctlsInOrder'
  <2>1. CASE todo' = Tail(todo)
    BY <1>1, <2>1, TodoTail DEF IoctlsInOrder
  <2>2. CASE todo' = <<>>
    BY <1>1, <2>2, EmptySeq DEF IoctlsInOrder
  <2> QED
    BY <1>2, <2>1, <2>2
<1>5. Descriptors'
  BY <1>1 DEF Descriptors
<1>6. FramesFit'
  <2>1. CASE tap' = tap
    BY <1>1, <2>1 DEF FramesFit
  <2>2. CASE tap' = Effect(Head(todo)) /\ todo' = Tail(todo) /\ pc = "setIp"
    <3>1. waiting = <<>> /\ frame = NoFrame /\ "UP" \notin tap
      BY <1>1, <2>2 DEF FramesFit
    <3>2. todo' # <<>> => "UP" \notin tap'
      BY <1>1, <2>2, <3>1, TodoTail DEF Effect, Ioctls
    <3>3. Fits(NoFrame)
      BY DEF Fits, NoFrame, TOX_MAX_CUSTOM_PACKET_SIZE
    <3> QED
      BY <1>1, <2>2, <3>1, <3>2, <3>3 DEF FramesFit
  <2>3. CASE tap' = Effect(Head(todo)) /\ pc = "shutdown"
    <3>1. "SIOCSIFMTU" \in tap' => "SIOCSIFMTU" \in tap
      BY <1>1, <2>3, TodoTail DEF Effect
    <3> QED
      BY <1>1, <2>3, <3>1 DEF FramesFit
  <2> QED
    BY <1>1, <1>3, <2>1, <2>2, <2>3
<1>7. Judged'
  BY <1>1 DEF Judged
<1> QED
  BY <1>4, <1>5, <1>6, <1>7

LEMMA BeginStep ==
  ASSUME IInv, setIp \/ shutdown
  PROVE  IInv'
<1> USE DEF IInv
<1>1. UNCHANGED <<tap, waiting, frame, verdict>>
  BY DEF setIp, shutdown, Begin, frameVars
<1>2. descriptors' \subseteq {"fd", "socket"} /\ pc' \in {"setIp", "shutdown"}
  BY DEF setIp, shutdown, Begin, Descriptors
<1>3. Descriptors' /\ Judged'
  BY <1>1, <1>2 DEF Descriptors, Judged
<1>4. CASE setIp
  <2>1. /\ pc = "Created" /\ pc' = "setIp"
        /\ todo' = <<"SIOCSIFADDR", "SIOCSIFNETMASK", "SIOCSIFMTU", "SIOCGIFFLAGS",
                     "SIOCSIFFLAGS">>
    BY <1>4 DEF setIp, Begin, IoctlsOfSetIp
  <2>2. todo' \in Seq(Ioctls) /\ \A i \in 1 .. Len(todo') : todo'[i] = "SIOCSIFFLAGS" => i = Len(todo')
    BY <2>1 DEF Ioctls
  <2>3. FramesFit'
    BY <1>1, <2>1 DEF FramesFit
  <2> QED
    BY <1>3, <2>1, <2>2, <2>3 DEF IoctlsInOrder
<1>5. CASE shutdown
  <2>1. pc' = "shutdown" /\ todo' = <<"SIOCGIFFLAGS", "SIOCSIFFLAGS">>
    BY <1>5 DEF shutdown, Begin, IoctlsOfShutdown
  <2>2. todo' \in Seq(Ioctls) /\ \A i \in 1 .. Len(todo') : todo'[i] # "SIOCSIFMTU"
    BY <2>1 DEF Ioctls
  <2>3. FramesFit'
    BY <1>1, <2>1 DEF FramesFit
  <2> QED
    BY <1>3, <2>1, <2>2, <2>3 DEF IoctlsInOrder
<1> QED
  BY <1>4, <1>5

LEMMA FinishStep ==
  ASSUME IInv, Finish
  PROVE  IInv'
<1> USE DEF IInv
<1>1. todo' = <<>> /\ UNCHANGED <<frame, verdict>> /\ pc' \in {"Connected", "Gone"}
  BY DEF Finish, frameVars
<1>2. IoctlsInOrder'
  BY <1>1, EmptySeq DEF IoctlsInOrder
<1>3. Descriptors'
  BY DEF Finish, CloseSocket, Descriptors
<1>4. FramesFit' /\ Judged'
  <2>1. (waiting' = waiting /\ tap' = tap) \/ (waiting' = <<>> /\ tap' = {})
    BY DEF Finish, frameVars
  <2>2. <<>> \in Seq(Frame)
    OBVIOUS
  <2> QED
    BY <1>1, <2>1, <2>2 DEF FramesFit, Judged
<1> QED
  BY <1>2, <1>3, <1>4

-----------------------------------------------------------------------------
(* Frames.                                                                 *)

LEMMA FrameIsRead ==
  ASSUME NEW f \in Frame
  PROVE  /\ f \in FrameRead
         /\ getDataBackend(f) \in FrameRead
         /\ f.size \in Nat
         /\ getDataBackend(f).size <= f.size
<1>1. \A n \in Size : n \in Nat
  BY SizeAssumption
<1>2. f.size \in Size
  BY DEF Frame, IPv4Frame, IPv6Frame, OtherFrame
<1>3. f.size \in Nat
  BY <1>1, <1>2
<1>4. f \in IPv4Read \cup IPv6Read \cup OtherRead
  BY <1>3 DEF Frame, IPv4Frame, IPv6Frame, OtherFrame, IPv4Read, IPv6Read, OtherRead
<1> DEFINE n == IF f.size < bufferSize THEN f.size ELSE bufferSize
<1>5. n \in Nat /\ n <= f.size
  BY <1>3 DEF bufferSize
<1>6. getDataBackend(f) = [f EXCEPT !.size = n]
  BY DEF getDataBackend
<1> HIDE DEF n
<1>7. [f EXCEPT !.size = n] \in IPv4Read \cup IPv6Read \cup OtherRead
  BY <1>4, <1>5 DEF IPv4Read, IPv6Read, OtherRead
<1>8. [f EXCEPT !.size = n].size = n
  BY <1>4 DEF IPv4Read, IPv6Read, OtherRead
<1> QED
  BY <1>3, <1>4, <1>5, <1>6, <1>7, <1>8 DEF FrameRead

LEMMA ArriveStep ==
  ASSUME IInv, Arrive
  PROVE  IInv'
<1> USE DEF IInv
<1>1. /\ "UP" \in tap
      /\ UNCHANGED <<pc, todo, descriptors, tap, frame, verdict>>
  BY DEF Arrive
<1>2. PICK f \in Frame : f.size <= Mtu + 18 /\ waiting' = <<f>>
  BY DEF Arrive
<1>3. waiting' \in Seq(Frame) /\ waiting' # <<>> /\ Len(waiting') = 1 /\ waiting'[1] = f
  BY <1>2
<1>4. "SIOCSIFMTU" \in tap => Fits(f)
  BY <1>2, FrameIsRead DEF Mtu, Fits, TOX_MAX_CUSTOM_PACKET_SIZE
<1>5. FramesFit'
  BY <1>1, <1>3, <1>4 DEF FramesFit
<1> QED
  BY <1>1, <1>3, <1>5 DEF IoctlsInOrder, Descriptors, Judged

LEMMA GetDataStep ==
  ASSUME IInv, getData
  PROVE  IInv'
<1> USE DEF IInv
<1>1. pc = "read" /\ pc' = "Connected" /\ UNCHANGED <<todo, descriptors, tap>>
  BY DEF getData
<1>2. IoctlsInOrder' /\ Descriptors'
  BY <1>1 DEF IoctlsInOrder, Descriptors
<1>3. CASE UNCHANGED <<waiting, frame, verdict>>
  BY <1>1, <1>2, <1>3 DEF FramesFit, Judged
<1>4. CASE /\ waiting # <<>>
           /\ frame' = getDataBackend(Head(waiting))
           /\ waiting' = Tail(waiting)
           /\ \E own \in isFromOwnTox(frame') :
                verdict' = IF own THEN "Dropped" ELSE "Sent"
  <2>1. /\ waiting \in Seq(Frame) /\ Head(waiting) \in Frame /\ Head(waiting) = waiting[1]
        /\ waiting' \in Seq(Frame) /\ Len(waiting') = Len(waiting) - 1
        /\ Len(waiting) \in Nat \ {0}
        /\ \A i \in 1 .. Len(waiting') : waiting'[i] = waiting[i + 1]
    BY <1>4, HeadTailProperties, EmptySeq DEF Judged
  <2>2. Judged'
    BY <1>4, <2>1, FrameIsRead DEF Judged
  <2>3. "SIOCSIFMTU" \in tap => Fits(frame')
    <3>1. "SIOCSIFMTU" \in tap => Fits(Head(waiting))
      BY <2>1 DEF FramesFit
    <3>2. frame'.size <= Head(waiting).size /\ Head(waiting).size \in Nat /\ frame'.size \in Nat
      BY <1>4, <2>1, FrameIsRead, FrameFacts
    <3> QED
      BY <3>1, <3>2 DEF Fits, TOX_MAX_CUSTOM_PACKET_SIZE
  <2>4. "SIOCSIFMTU" \in tap => \A i \in 1 .. Len(waiting') : Fits(waiting'[i])
    BY <2>1 DEF FramesFit
  <2>5. FramesFit'
    BY <1>1, <2>3, <2>4 DEF FramesFit
  <2> QED
    BY <1>2, <2>2, <2>5
<1> QED
  BY <1>3, <1>4 DEF getData

\* The steps that neither read a frame nor make an ioctl.
LEMMA OtherStep ==
  ASSUME IInv, Construct \/ dataPending \/ Continue
  PROVE  IInv'
<1> USE DEF IInv
<1>1. CASE Construct
  BY <1>1 DEF Construct, frameVars, IoctlsInOrder, Descriptors, FramesFit, Judged
<1>2. CASE dataPending
  BY <1>2 DEF dataPending, IoctlsInOrder, Descriptors, FramesFit, Judged
<1>3. CASE Continue
  <2>1. Fits(NoFrame)
    BY DEF Fits, NoFrame, TOX_MAX_CUSTOM_PACKET_SIZE
  <2> QED
    BY <1>3, <2>1 DEF Continue, IoctlsInOrder, Descriptors, FramesFit, Judged
<1> QED
  BY <1>1, <1>2, <1>3

LEMMA InitIInv == Init => IInv
<1> SUFFICES ASSUME Init
             PROVE  IInv
  OBVIOUS
<1>1. \A S : <<>> \in Seq(S)
  BY EmptySeq
<1> QED
  BY <1>1 DEF Init, IInv, IoctlsInOrder, Descriptors, FramesFit, Judged

LEMMA NextIInv == IInv /\ [Next]_vars => IInv'
<1> SUFFICES ASSUME IInv, [Next]_vars
             PROVE  IInv'
  OBVIOUS
<1>1. CASE UNCHANGED vars
  BY <1>1 DEF vars, IInv, IoctlsInOrder, Descriptors, FramesFit, Judged
<1> QED
  BY <1>1, IoctlStep, BeginStep, FinishStep, ArriveStep, GetDataStep, OtherStep DEF Next

THEOREM AlwaysInOrder == Spec => []IInv
  BY InitIInv, NextIInv, PTL DEF Spec

-----------------------------------------------------------------------------
(* What follows.                                                           *)

\* Whatever system calls fail, no socket outlives the function that opened it
\* and no descriptor the object.
THEOREM DescriptorsAreClosed == Spec => []NoDescriptorLeft
<1>1. IInv => NoDescriptorLeft
  BY DEF IInv, Descriptors, NoDescriptorLeft
<1> QED
  BY <1>1, AlwaysInOrder, PTL

\* However long the frames are that other programs write, none is sent that
\* toxcore would not take in one packet, once the mtu could be set: setIp sets
\* it before it brings the interface up, and shutdown leaves it.
THEOREM FramesNeedNoSplit == Spec => []FramesFitOnePacket
<1>1. IInv => FramesFitOnePacket
  <2> SUFFICES ASSUME IInv, verdict = "Sent", "SIOCSIFMTU" \in tap
               PROVE  ToxDataLen(frame) <= TOX_MAX_CUSTOM_PACKET_SIZE
    BY DEF FramesFitOnePacket
  <2>1. frame.size \in Nat
    BY FrameFacts DEF IInv, Judged
  <2>2. Fits(frame)
    BY DEF IInv, FramesFit
  <2> QED
    BY <2>1, <2>2 DEF Fits, ToxDataLen, TOX_MAX_CUSTOM_PACKET_SIZE
<1> QED
  BY <1>1, AlwaysInOrder, PTL

\* The tunnel never carries the datagrams of the tox instance that carries it,
\* where IPv4 headers have at least 2 words (a valid one has 5).
THEOREM TunnelsDontNest ==
  ASSUME HeaderLength \subseteq 2 .. 15
  PROVE  Spec => []OwnDatagramsDropped
<1>1. IInv => OwnDatagramsDropped
  <2> SUFFICES ASSUME IInv, verdict # "None", HoldsPort(frame),
                      ~IsFragmented(frame), frame.port = toxUdpPort
               PROVE  verdict = "Dropped"
    BY DEF OwnDatagramsDropped
  <2>1. frame \in FrameRead
    BY DEF IInv, Judged
  <2>2. isFromOwnTox(frame) = {TRUE}
    BY <2>1, FilterIsRight
  <2>3. PICK own \in isFromOwnTox(frame) : verdict = IF own THEN "Dropped" ELSE "Sent"
    BY DEF IInv, Judged
  <2> QED
    BY <2>2, <2>3
<1> QED
  BY <1>1, AlwaysInOrder, PTL

\* Nothing else is lost in getData: frames of any length and protocol are sent.
THEOREM OtherFramesAreSent == Spec => []OthersSent
<1>1. IInv => OthersSent
  BY FilterIsRight DEF IInv, Judged, OthersSent, Foreign
<1> QED
  BY <1>1, AlwaysInOrder, PTL

=============================================================================
