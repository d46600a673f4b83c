------------------------------- MODULE Fragments -------------------------------
(***************************************************************************)
(* Data packets too big for toxcore.  Connection::sendToTox splits them     *)
(* into Fragment packets, which are lossy: they are lost or overtake one    *)
(* another.  Connection::handleFragment of the friend collects them by a    *)
(* set index that wraps, and Data::fromFragments joins a complete set.      *)
(*                                                                         *)
(* The module models one direction of an established connection.  A byte of *)
(* the n-th packet is the pair <<n, i>>, so a packet joined from fragments  *)
(* of two packets is told from every packet that was sent.  Packet 0 is one *)
(* of an earlier connection to the same friend: fragments name their set,   *)
(* and not their connection.                                               *)
(***************************************************************************)
EXTENDS Integers, FiniteSets, SequencesExt

CONSTANTS
  ByteValues,  \* the values of a uint8_t: 256 in the code
  MaxPacket,   \* TOX_MAX_CUSTOM_PACKET_SIZE
  HeaderSize,  \* the bytes of a Fragment before its payload: 4 in the code
  Sizes,       \* the sizes of Data packets that are too big for toxcore
  MaxSent,     \* bound on the packets sent
  MaxDelay,    \* a fragment arrives before MaxDelay more packets are sent
  MaxLossRun   \* never more than MaxLossRun packets in a row lose a fragment

ASSUME ByteValuesAssumption ==
  ByteValues \in Nat /\ ByteValues > 4 /\ ByteValues % 2 = 0
ASSUME PacketAssumption ==
  /\ HeaderSize \in Nat \ {0}
  /\ MaxPacket \in Nat
  /\ MaxPacket > HeaderSize
ASSUME SizesAssumption == \A s \in Sizes : s \in Nat /\ s > MaxPacket
ASSUME BoundsAssumption ==
  /\ MaxSent \in Nat
  /\ MaxDelay \in Nat \ {0}
  /\ MaxLossRun \in Nat

VARIABLES
  sent,               \* number of packets sent
  nextFragmentIndex,  \* the sender's Connection::nextFragmentIndex
  wire,               \* the fragments in flight
  lost,               \* the recent packets of which a fragment was refused or lost
  fragments,          \* the receiver's Connection::fragments, by set index
  delivered,          \* the packet just joined and given to handleData
  thrown,             \* the packets of the set for which fromFragments threw
  late                \* whether a fragment of packet 0 is in flight at first

vars == <<sent, nextFragmentIndex, wire, lost, fragments, delivered, thrown, late>>

SetIndex == 0 .. ByteValues - 1

Content(n, size) == [i \in 1 .. size |-> <<n, i>>]

-----------------------------------------------------------------------------
PayloadSize == MaxPacket - HeaderSize

\* Data::getSplitted.
FragmentsCount(packet) == (Len(packet) + PayloadSize - 1) \div PayloadSize

Fragment(packet, sdi, i) ==
  LET end == (i + 1) * PayloadSize
  IN  [ splittedDataIndex |-> sdi,
        fragmentIndex |-> i % ByteValues,
        fragmentsCount |-> FragmentsCount(packet) % ByteValues,
        payload |-> SubSeq(packet, i * PayloadSize + 1,
                           IF end < Len(packet) THEN end ELSE Len(packet)) ]

\* Which packet a fragment is of; the receiver cannot tell.
PacketOf(f) == f.payload[1][1]

\* What the network may still do to packet n.
MayLose(n) ==
  ~ \E m \in 1 .. sent + 1 : m .. m + MaxLossRun \subseteq lost \cup {n}

\* Losses so long ago that no run of losses still to come includes them are
\* forgotten.
Recent(losses) == {m \in losses : m >= sent - MaxDelay - MaxLossRun}

Punctual == \A f \in wire : sent - PacketOf(f) < MaxDelay

\* sendToTox of a packet that must be split.  getSplitted pushes to the front
\* of its list, so the last fragment goes first; when toxcore refuses a
\* fragment sendToTox throws and the fragments before it are never sent.
SendToTox(size) ==
  /\ sent < MaxSent
  /\ Punctual
  /\ LET packet == Content(sent + 1, size)
         count  == FragmentsCount(packet)
     IN  \E first \in 0 .. count :
           /\ first > 0 => MayLose(sent + 1)
           /\ wire' = wire \cup
                {Fragment(packet, nextFragmentIndex, i) : i \in first .. count - 1}
           /\ lost' = Recent(lost \cup (IF first > 0 THEN {sent + 1} ELSE {}))
  /\ sent' = sent + 1
  /\ nextFragmentIndex' = IF nextFragmentIndex = ByteValues - 1
                          THEN 0 ELSE nextFragmentIndex + 1
  /\ delivered' = <<>>
  /\ UNCHANGED <<fragments, thrown, late>>

Lose(f) ==
  /\ MayLose(PacketOf(f))
  /\ wire' = wire \ {f}
  /\ lost' = Recent(lost \cup {PacketOf(f)})
  /\ delivered' = <<>>
  /\ UNCHANGED <<sent, nextFragmentIndex, fragments, thrown, late>>

-----------------------------------------------------------------------------
\* Data::fromFragments sorts by fragment index and throws when an index is
\* missing or there twice.
Corrupted(set) ==
  {f.fragmentIndex : f \in set} # 0 .. Cardinality(set) - 1

FromFragments(set) ==
  FlattenSeq([i \in 1 .. Cardinality(set) |->
    (CHOOSE f \in set : f.fragmentIndex = i - 1).payload])

\* The set indices that handleFragment erases when set sdi is complete.
\* Mutants: none; one too few; those of the sets received next.
PruneNothing(sdi) == {}
PruneTwo(sdi) == {(sdi + ByteValues \div 2 + i) % ByteValues : i \in 0 .. 1}
PruneNext(sdi) == {(sdi + i) % ByteValues : i \in 0 .. 2}

Prune(sdi) == {(sdi + ByteValues \div 2 + i) % ByteValues : i \in 0 .. 2}

HandleFragment(f) ==
  LET sdi == f.splittedDataIndex
      set == fragments[sdi] \cup {f}
  IN  IF Cardinality(set) = f.fragmentsCount
      THEN /\ fragments' = [s \in DOMAIN fragments |->
                              IF s \in {sdi} \cup Prune(sdi) THEN {} ELSE fragments[s]]
           /\ thrown' = IF Corrupted(set) THEN {PacketOf(g) : g \in set} ELSE {}
           /\ delivered' = IF Corrupted(set) THEN <<>> ELSE FromFragments(set)
      ELSE /\ fragments' = [fragments EXCEPT ![sdi] = set]
           /\ delivered' = <<>>
           /\ UNCHANGED thrown

Receive(f) ==
  /\ HandleFragment(f)
  /\ wire' = wire \ {f}
  /\ UNCHANGED <<sent, nextFragmentIndex, lost, late>>

-----------------------------------------------------------------------------
Init ==
  /\ sent = 0
  /\ nextFragmentIndex = 0
  /\ late \in BOOLEAN
  /\ \/ ~late /\ wire = {}
     \/ late /\ \E size \in Sizes, sdi \in SetIndex :
          LET packet == Content(0, size)
          IN  \E i \in 0 .. FragmentsCount(packet) - 1 : wire = {Fragment(packet, sdi, i)}
  /\ lost = {}
  /\ fragments = [s \in SetIndex |-> {}]
  /\ delivered = <<>>
  /\ thrown = {}

Next ==
  /\ thrown = {}
  /\ \/ \E size \in Sizes : SendToTox(size)
     \/ \E f \in wire : Lose(f) \/ Receive(f)

Spec == Init /\ [][Next]_vars

-----------------------------------------------------------------------------
\* What was joined is not a packet the friend sent in this connection.
Mixed ==
  /\ delivered # <<>>
  /\ ~ \E size \in Sizes : delivered = Content(delivered[1][1], size)

\* fromFragments never throws: handleData is noexcept, so the process would
\* end (Data::fromFragments, "Fragmented package corrupted").
NeverThrows == ~late => thrown = {}

\* What handleFragment gives to handleData is a packet the friend sent, never
\* fragments of two packets whose set indices are the same modulo 256: a set
\* that stays incomplete is erased before its index is used again.
DeliversSentPackets == ~late => ~Mixed

\* Erasing old sets never takes a fragment that is still needed: while a
\* packet that lost nothing is arriving, every fragment of it is in flight or
\* kept (handleFragment, the loop over sdi+128 .. sdi+130).
LiveFragmentsKept ==
  ~late => \A f \in wire : PacketOf(f) \notin lost =>
    Cardinality({g \in wire \cup fragments[f.splittedDataIndex] :
                   PacketOf(g) = PacketOf(f)}) = f.fragmentsCount

\* A set that stays incomplete is erased when half a round of set indices has
\* gone by, and not later than a fragment may be delayed after that: what is
\* lost does not pile up in Connection::fragments (handleFragment, the loop
\* over sdi+128 .. sdi+130, as no single packet is sure to be complete).
IncompleteSetsExpire ==
  ~late => \A s \in SetIndex : \A f \in fragments[s] :
    sent - PacketOf(f) <= ByteValues \div 2 + MaxDelay

Channel == INSTANCE PacketChannel
  WITH arriving <- {PacketOf(f) : f \in wire}, damaged <- lost

\* Splitting, set indices and erasure together are a channel of whole packets
\* (sendToTox, handleFragment, fromFragments): none arrives twice, and none is
\* given up of which toxcore lost nothing.
ImplementsChannel ==
  /\ late \/ Channel!Init
  /\ [][late \/ Channel!Next]_<<sent, wire, lost, delivered>>

\* A fragment of an earlier connection is taken for one of this connection, as
\* set indices start at 0 again (Connection::nextFragmentIndex), but it does
\* harm only once, and not later than half a round of the set index and what
\* the network may delay and lose: it is erased like any other old fragment.
LateFragmentsAreShortLived ==
  LET end    == ByteValues \div 2 + MaxDelay + MaxLossRun
      joined == {delivered[i][1] : i \in DOMAIN delivered}
      harmed == thrown \cup (IF Mixed THEN joined ELSE {})
  IN  harmed # {} => late /\ 0 \in harmed /\ harmed \subseteq 0 .. end
=============================================================================
