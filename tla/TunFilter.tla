------------------------------- MODULE TunFilter -------------------------------
(***************************************************************************)
(* TunInterface::getData: a frame read from the tun device goes to the      *)
(* friend, unless it was sent by the tox instance that carries the tunnel:  *)
(* the tunnel would carry itself.  isFromOwnTox decides by the source port  *)
(* of the UDP datagram in the frame.                                        *)
(*                                                                         *)
(* A frame is described by the header fields the code looks at.  The field  *)
(* "port" is what stands in the first two bytes after the IP headers: the   *)
(* source port in a whole datagram or the first fragment of one, and any    *)
(* two bytes of payload in a later fragment.                                *)
(***************************************************************************)
EXTENDS Integers

CONSTANTS
  Size,          \* the lengths of frames, with the 14 bytes of Ethernet header
  HeaderLength,  \* the lengths of IPv4 headers, in words of 4 bytes
  Offset,        \* fragment offsets, 0 .. 8191 in the code
  Port,          \* UDP ports
  toxUdpPort     \* the port of the own tox instance

ASSUME SizeAssumption == Size \subseteq Nat
ASSUME HeaderLengthAssumption == HeaderLength \subseteq 0 .. 15
ASSUME OffsetAssumption == Offset \subseteq 0 .. 8191
ASSUME PortAssumption == toxUdpPort \in Port

EtherHeader == 14
Protocol == {"UDP", "Other"}

IPv4Frame ==
  [ type : {"IPv4"}, size : Size, ihl : HeaderLength, protocol : Protocol,
    more : BOOLEAN, offset : Offset, port : Port ]

\* "fragment" tells whether an IPv6 fragment header follows the IPv6 header,
\* "protocol" what follows the last of these.
IPv6Frame ==
  [ type : {"IPv6"}, size : Size, fragment : BOOLEAN, protocol : Protocol,
    more : BOOLEAN, offset : Offset, port : Port ]

OtherFrame == [type : {"Other"}, size : Size]

IsFragmented(f) ==
  (f.more \/ f.offset # 0) /\ (f.type = "IPv6" => f.fragment)

\* Where the IP headers end.
PayloadAt(f) ==
  IF f.type = "IPv4" THEN EtherHeader + 4 * f.ihl
  ELSE EtherHeader + 40 + (IF f.fragment THEN 8 ELSE 0)

-----------------------------------------------------------------------------
\* The two bytes at place at: beyond the frame they are whatever the memory
\* holds.
BytesAt(f, at) == IF at = PayloadAt(f) /\ at + 1 < f.size THEN {f.port} ELSE Port

\* The results of comparing the two bytes at place at with the port of tox.
ComparePort(f, at) == {port = toxUdpPort : port \in BytesAt(f, at)}

\* The bytes 6 and 7 of an IPv4 header: flags and offset.
FlagsByte(f) == (IF f.more THEN 32 ELSE 0) + f.offset \div 256
OffsetByte(f) == f.offset % 256

\* Mutant: the header is taken to have 20 bytes.
IPv4WithoutOptions(f) ==
  IF \/ f.size < EtherHeader + 10 \/ f.protocol # "UDP" \/ f.more
     \/ f.size < EtherHeader + 20 + 2
  THEN {FALSE}
  ELSE ComparePort(f, EtherHeader + 20)

\* isFromOwnToxIPv4.  The offset is looked at only when the flag "more
\* fragments" (0x20) is set, and the mask 0x2F keeps that flag.
isFromOwnToxIPv4(f) ==
  LET fragmented == (FlagsByte(f) \div 32) % 2 = 1
      masked     == 32 * ((FlagsByte(f) \div 32) % 2) + (FlagsByte(f) % 16)
  IN  IF \/ f.size < EtherHeader + 10
         \/ f.protocol # "UDP"
         \/ fragmented /\ (masked # 0 \/ OffsetByte(f) # 0)
         \/ f.size < PayloadAt(f) + 2
      THEN {FALSE}
      ELSE ComparePort(f, PayloadAt(f))

\* Mutant: the length check of a fragment is left out.
IPv6Unchecked(f) ==
  IF f.size < EtherHeader + 40 \/ f.protocol # "UDP" \/ (f.fragment /\ f.offset # 0)
  THEN {FALSE}
  ELSE ComparePort(f, PayloadAt(f))

\* isFromOwnToxIPv6.  Without a fragment header only the IPv6 header must be
\* there, and the port may be read beyond the end of the frame.
isFromOwnToxIPv6(f) ==
  IF \/ f.size < EtherHeader + 40
     \/ f.fragment /\ f.size < EtherHeader + 40 + 10
     \/ f.fragment /\ f.offset # 0
     \/ f.protocol # "UDP"
  THEN {FALSE}
  ELSE ComparePort(f, PayloadAt(f))

isFromOwnTox(f) ==
  CASE f.size < EtherHeader -> {FALSE}
    [] f.size >= EtherHeader /\ f.type = "IPv4" -> isFromOwnToxIPv4(f)
    [] f.size >= EtherHeader /\ f.type = "IPv6" -> isFromOwnToxIPv6(f)
    [] OTHER -> {FALSE}

-----------------------------------------------------------------------------
\* The frame holds the source port of a UDP datagram.
HoldsPort(f) ==
  /\ f.type # "Other"
  /\ f.protocol = "UDP"
  /\ f.size >= PayloadAt(f) + 2
  /\ IsFragmented(f) => f.offset = 0
=============================================================================
