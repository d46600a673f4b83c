---------------------------- MODULE Fragments_proofs ----------------------------
(***************************************************************************)
(* Sets of fragments are never mixed up within a connection, although set   *)
(* indices are used again: a set that stays incomplete is erased before its *)
(* index returns, and no set that is still needed is.  This is proved for   *)
(* any sizes of packets, any number of set indices, any order and any loss, *)
(* if fragments are not later and losses not more frequent than Timely says.*)
(***************************************************************************)
EXTENDS Fragments, SequenceTheorems, FiniteSetTheorems, WellFoundedInduction, TLAPS

\* What the erasure of old sets relies on: the network delays a fragment by
\* less than half a round of the set index, less the three sets erased at a
\* time; of three packets in a row one loses no fragment; and the number of
\* fragments of a packet fits in a byte.
Timely ==
  /\ MaxDelay + 3 <= ByteValues \div 2
  /\ MaxLossRun <= 2
  /\ \A size \in Sizes : size <= (ByteValues - 1) * PayloadSize

-----------------------------------------------------------------------------
(* Arithmetic.                                                             *)

LEMMA DivisionFacts ==
  ASSUME NEW a \in Int, NEW b \in Nat \ {0}
  PROVE  /\ a = b * (a \div b) + (a % b)
         /\ a % b \in 0 .. b - 1
         /\ a \div b \in Int
  OBVIOUS

LEMMA MultiplesApart ==
  ASSUME NEW b \in Nat \ {0}, NEW x \in Int, NEW y \in Int,
         b * x - b * y < b, b * y - b * x < b
  PROVE  x = y
<1>1. ASSUME x > y
      PROVE  FALSE
  <2>1. PICK d \in Nat : d >= 1 /\ x = y + d
    <3>1. x - y \in Nat /\ x - y >= 1 /\ x = y + (x - y)
      BY <1>1
    <3> QED
      BY <3>1
  <2>2. b * x = b * y + b * d
    BY <2>1
  <2>3. b * d >= b
    BY <2>1
  <2> QED
    BY <2>2, <2>3
<1>2. ASSUME y > x
      PROVE  FALSE
  <2>1. PICK d \in Nat : d >= 1 /\ y = x + d
    <3>1. y - x \in Nat /\ y - x >= 1 /\ y = x + (y - x)
      BY <1>2
    <3> QED
      BY <3>1
  <2>2. b * y = b * x + b * d
    BY <2>1
  <2>3. b * d >= b
    BY <2>1
  <2> QED
    BY <2>2, <2>3
<1> QED
  BY <1>1, <1>2

\* Numbers that are less than b apart differ modulo b.
LEMMA RemaindersDiffer ==
  ASSUME NEW a \in Int, NEW c \in Int, NEW b \in Nat \ {0},
         a % b = c % b, a - c < b, c - a < b
  PROVE  a = c
<1>1. /\ a = b * (a \div b) + (a % b) /\ c = b * (c \div b) + (c % b)
      /\ a \div b \in Int /\ c \div b \in Int /\ a % b \in Int
  BY DivisionFacts
<1>2. b * (a \div b) - b * (c \div b) < b /\ b * (c \div b) - b * (a \div b) < b
  BY <1>1
<1>3. a \div b = c \div b
  BY <1>1, <1>2, MultiplesApart
<1> QED
  BY <1>1, <1>3

LEMMA DivisionUnique ==
  ASSUME NEW b \in Nat \ {0}, NEW q \in Int, NEW r \in 0 .. b - 1
  PROVE  (b * q + r) % b = r /\ (b * q + r) \div b = q
<1>1. b * q \in Int /\ b * q + r \in Int
  OBVIOUS
<1> DEFINE a == b * q + r
<1>2. /\ a = b * (a \div b) + (a % b)
      /\ a % b \in 0 .. b - 1
      /\ a \div b \in Int
  BY <1>1, DivisionFacts
<1>3. b * (a \div b) - b * q < b /\ b * q - b * (a \div b) < b
  BY <1>1, <1>2
<1>4. a \div b = q
  BY <1>1, <1>2, <1>3, MultiplesApart
<1> QED
  BY <1>1, <1>2, <1>4

\* A remainder does not change when a multiple of b is added.
LEMMA RemainderShifted ==
  ASSUME NEW b \in Nat \ {0}, NEW a \in Int, NEW k \in Int
  PROVE  /\ (a + b * k) % b = a % b
         /\ ((a % b) + k) % b = (a + k) % b
<1>1. /\ a = b * (a \div b) + (a % b)
      /\ a % b \in 0 .. b - 1
      /\ a \div b \in Int
  BY DivisionFacts
<1>2. \A x \in Int, q \in Int : (x + b * q) % b = x % b
  <2> SUFFICES ASSUME NEW x \in Int, NEW q \in Int
               PROVE  (x + b * q) % b = x % b
    OBVIOUS
  <2>1. /\ x = b * (x \div b) + (x % b)
        /\ x % b \in 0 .. b - 1
        /\ x \div b \in Int
    BY DivisionFacts
  <2>2. x + b * q = b * ((x \div b) + q) + (x % b) /\ (x \div b) + q \in Int
    BY <2>1
  <2>3. (b * ((x \div b) + q) + (x % b)) % b = x % b
    BY <2>1, <2>2, DivisionUnique
  <2> QED
    BY <2>2, <2>3
<1>3. a + k = ((a % b) + k) + b * (a \div b) /\ (a % b) + k \in Int
  BY <1>1
<1>4. (((a % b) + k) + b * (a \div b)) % b = ((a % b) + k) % b
  BY <1>1, <1>2, <1>3
<1> QED
  BY <1>2, <1>3, <1>4

LEMMA ByteFacts ==
  /\ ByteValues \in Nat \ {0}
  /\ ByteValues \div 2 \in Nat
  /\ ByteValues = 2 * (ByteValues \div 2)
  BY ByteValuesAssumption

-----------------------------------------------------------------------------
(* The inductive invariant.                                                *)

\* The set index and the fragments of the n-th packet, when it has size bytes.
IndexOf(n) == (n - 1) % ByteValues

FragmentsOf(n, size) ==
  { Fragment(Content(n, size), IndexOf(n), i) :
      i \in 0 .. FragmentsCount(Content(n, size)) - 1 }

InFlight(n) == \E f \in wire : PacketOf(f) = n

\* The sender, and what the network has lost.
SenderInv ==
  /\ nextFragmentIndex = sent % ByteValues
  /\ lost \subseteq 1 .. sent
  /\ ~ \E m \in 1 .. sent : m .. m + MaxLossRun \subseteq lost

\* Fragments are not older than the network may delay them, in a set not older
\* than it takes until the set is erased.
AgesInv ==
  /\ \A f \in wire : PacketOf(f) \in 1 .. sent /\ sent - PacketOf(f) <= MaxDelay
  /\ \A s \in SetIndex : \A f \in fragments[s] :
       /\ PacketOf(f) \in 1 .. sent
       /\ sent - PacketOf(f) <= ByteValues \div 2 + MaxDelay
       /\ IndexOf(PacketOf(f)) = s
       /\ f \notin wire

\* Of a packet that is arriving and lost nothing, every fragment is in flight
\* or kept.
WholeInv(n, size) ==
  /\ \A f \in wire \cup fragments[IndexOf(n)] : PacketOf(f) = n => f \in FragmentsOf(n, size)
  /\ InFlight(n) /\ n \notin lost
       => FragmentsOf(n, size) \subseteq wire \cup fragments[IndexOf(n)]

PacketsInv == \A n \in 1 .. sent : \E size \in Sizes : WholeInv(n, size)

\* A set that is kept has not met its end: the packets that would have erased
\* it are not complete.
KeptInv ==
  \A s \in SetIndex : \A f \in fragments[s] :
    \A m \in 1 .. sent :
      /\ PacketOf(f) + ByteValues \div 2 - MaxLossRun <= m
      /\ m <= PacketOf(f) + ByteValues \div 2
      => m \in lost \/ InFlight(m)

TypeInv == sent \in Nat /\ fragments = [s \in SetIndex |-> fragments[s]]

Inv == TypeInv /\ SenderInv /\ AgesInv /\ PacketsInv /\ KeptInv /\ thrown = {}

-----------------------------------------------------------------------------
(* Set indices.                                                            *)

LEMMA IndexFacts ==
  ASSUME NEW n \in Nat \ {0}
  PROVE  IndexOf(n) \in SetIndex
  BY DivisionFacts, ByteFacts DEF IndexOf, SetIndex

LEMMA NextIndex ==
  ASSUME NEW n \in Nat
  PROVE  /\ n % ByteValues = IndexOf(n + 1)
         /\ (n + 1) % ByteValues =
              IF n % ByteValues = ByteValues - 1 THEN 0 ELSE (n % ByteValues) + 1
<1> DEFINE b == ByteValues
<1>1. b \in Nat \ {0}
  BY ByteFacts
<1> HIDE DEF b
<1>2. /\ n = b * (n \div b) + (n % b)
      /\ n % b \in 0 .. b - 1
      /\ n \div b \in Int
  BY <1>1, DivisionFacts
<1>3. CASE n % b = b - 1
  <2>1. n + 1 = b * ((n \div b) + 1) + 0 /\ (n \div b) + 1 \in Int /\ 0 \in 0 .. b - 1
    BY <1>1, <1>2, <1>3
  <2>2. (n + 1) % b = 0
    BY <1>1, <2>1, DivisionUnique
  <2> QED
    BY <1>3, <2>2 DEF b, IndexOf
<1>4. CASE n % b # b - 1
  <2>1. n + 1 = b * (n \div b) + ((n % b) + 1) /\ (n % b) + 1 \in 0 .. b - 1
    BY <1>1, <1>2, <1>4
  <2>2. (n + 1) % b = (n % b) + 1
    BY <1>1, <1>2, <2>1, DivisionUnique
  <2> QED
    BY <1>4, <2>2 DEF b, IndexOf
<1> QED
  BY <1>3, <1>4

LEMMA SameIndex ==
  ASSUME NEW n \in Nat \ {0}, NEW k \in Nat \ {0}, IndexOf(n) = IndexOf(k),
         n - k < ByteValues, k - n < ByteValues
  PROVE  n = k
<1>1. n - 1 = k - 1
  BY RemaindersDiffer, ByteFacts DEF IndexOf
<1> QED
  BY <1>1

\* A set that is complete erases the sets of the packets half a round earlier.
LEMMA PruneHits ==
  ASSUME NEW n \in Nat \ {0}, NEW k \in Int,
         k + ByteValues \div 2 - 2 <= n, n <= k + ByteValues \div 2
  PROVE  IndexOf(k) \in Prune(IndexOf(n))
<1> DEFINE b == ByteValues
           h == ByteValues \div 2
           i == k + h - n
<1>1. b \in Nat \ {0} /\ h \in Nat /\ b = h + h
  BY ByteFacts
<1> HIDE DEF b, h
<1>2. i \in 0 .. 2
  BY <1>1 DEF h
<1>3. (((n - 1) % b) + (h + i)) % b = (n - 1 + (h + i)) % b
  <2> DEFINE d == h + i
  <2>1. d \in Int /\ n - 1 \in Int
    BY <1>1, <1>2
  <2> HIDE DEF d, i
  <2>2. (((n - 1) % b) + d) % b = (n - 1 + d) % b
    BY <1>1, <2>1, RemainderShifted
  <2> QED
    BY <2>2 DEF d
<1>4. n - 1 + (h + i) = (k - 1) + b * 1
  BY <1>1
<1>5. ((k - 1) + b * 1) % b = (k - 1) % b
  <2>1. k - 1 \in Int /\ 1 \in Int
    OBVIOUS
  <2> QED
    BY <1>1, <2>1, RemainderShifted
<1>6. ((n - 1) % b) + (h + i) = ((n - 1) % b) + h + i
  <2>1. (n - 1) % b \in Int
    BY <1>1, DivisionFacts
  <2> QED
    BY <1>1, <1>2, <2>1
<1>7. IndexOf(k) = (IndexOf(n) + h + i) % b
  BY <1>3, <1>4, <1>5, <1>6 DEF IndexOf, b
<1> QED
  BY <1>2, <1>7 DEF Prune, b, h

\* It erases no set of a packet sent at about the same time.
LEMMA PruneMisses ==
  ASSUME Timely, NEW n \in Nat \ {0}, NEW k \in Nat \ {0},
         n - k <= MaxDelay, k - n <= MaxDelay
  PROVE  IndexOf(k) \notin Prune(IndexOf(n))
<1> DEFINE b == ByteValues
           h == ByteValues \div 2
<1>1. b \in Nat \ {0} /\ h \in Nat /\ b = h + h /\ MaxDelay + 3 <= h /\ MaxDelay \in Nat
  BY ByteFacts, BoundsAssumption DEF Timely
<1> HIDE DEF b, h
<1> SUFFICES ASSUME NEW i \in 0 .. 2, (k - 1) % b = (((n - 1) % b) + h + i) % b
             PROVE  FALSE
  BY DEF Prune, IndexOf, b, h
<1>2. ((n - 1) % b) + h + i = ((n - 1) % b) + (h + i)
  <2>1. (n - 1) % b \in Int
    BY <1>1, DivisionFacts
  <2> QED
    BY <1>1, <2>1
<1>3. (((n - 1) % b) + (h + i)) % b = (n - 1 + (h + i)) % b
  <2> DEFINE d == h + i
  <2>1. d \in Int /\ n - 1 \in Int
    BY <1>1
  <2> HIDE DEF d
  <2>2. (((n - 1) % b) + d) % b = (n - 1 + d) % b
    BY <1>1, <2>1, RemainderShifted
  <2> QED
    BY <2>2 DEF d
<1>4. (k - 1) % b = (n - 1 + (h + i)) % b
  BY <1>2, <1>3
<1>5. k - 1 - (n - 1 + (h + i)) < b /\ (n - 1 + (h + i)) - (k - 1) < b
  BY <1>1
<1>6. k - 1 = n - 1 + (h + i)
  <2>1. k - 1 \in Int /\ n - 1 + (h + i) \in Int
    BY <1>1
  <2> QED
    BY <1>1, <1>4, <1>5, <2>1, RemaindersDiffer
<1> QED
  BY <1>1, <1>6

-----------------------------------------------------------------------------
(* The fragments of a packet.                                              *)

Count(size) == (size + PayloadSize - 1) \div PayloadSize

LEMMA SizeFacts ==
  ASSUME NEW size \in Sizes
  PROVE  /\ size \in Nat \ {0}
         /\ PayloadSize \in Nat \ {0}
         /\ Count(size) \in Nat \ {0}
         /\ size <= Count(size) * PayloadSize
         /\ (Count(size) - 1) * PayloadSize < size
<1> DEFINE p == PayloadSize
           c == Count(size)
<1>1. p \in Nat \ {0} /\ MaxPacket > p
  BY PacketAssumption DEF PayloadSize
<1>2. size \in Nat /\ size > p
  BY <1>1, SizesAssumption, PacketAssumption
<1>3. c = (size + p - 1) \div p
  BY DEF Count
<1> HIDE DEF p, c
<1> DEFINE a == size + p - 1
<1>4. a \in Int /\ a = p * (a \div p) + (a % p) /\ a % p \in 0 .. p - 1 /\ a \div p \in Int
  <2>1. a \in Int
    BY <1>1, <1>2
  <2> HIDE DEF a
  <2> QED
    BY <1>1, <2>1, DivisionFacts
<1>5. c \in Int /\ p * c \in Int /\ p * c <= size + p - 1 /\ size <= p * c
  BY <1>1, <1>2, <1>3, <1>4
<1>6. p * c = c * p /\ (c - 1) * p = p * c - p
  BY <1>1, <1>5
<1>7. c >= 1
  <2>1. ~(c <= 0)
    <3> SUFFICES ASSUME c <= 0
                 PROVE  FALSE
      OBVIOUS
    <3>1. p * c <= 0
      BY <1>1, <1>5
    <3> QED
      BY <1>2, <1>5, <3>1, <1>1
  <2> QED
    BY <1>5, <2>1
<1> QED
  BY <1>1, <1>2, <1>5, <1>6, <1>7 DEF p, c

\* The number of fragments of a packet fits in a byte.
LEMMA CountFitsByte ==
  ASSUME Timely, NEW size \in Sizes
  PROVE  Count(size) \in 1 .. ByteValues - 1
<1> DEFINE p == PayloadSize
           b == ByteValues
           c == Count(size)
<1>1. /\ p \in Nat \ {0} /\ size \in Nat /\ c \in Nat \ {0}
      /\ (c - 1) * p < size
      /\ b \in Nat \ {0} /\ size <= (b - 1) * p
  BY SizeFacts, ByteFacts DEF Timely
<1> HIDE DEF p, b, c
<1>2. c <= b - 1
  <2> SUFFICES ASSUME c >= b
               PROVE  FALSE
    BY <1>1
  <2>1. PICK d \in Nat : c = b + d
    <3>1. c - b \in Nat /\ c = b + (c - b)
      BY <1>1
    <3> QED
      BY <3>1
  <2>2. (c - 1) * p = (b - 1) * p + d * p /\ d * p >= 0 /\ (b - 1) * p \in Int
    BY <1>1, <2>1
  <2> QED
    BY <1>1, <2>2
<1> QED
  BY <1>1, <1>2 DEF b, c

LEMMA ContentFacts ==
  ASSUME NEW n, NEW size \in Nat
  PROVE  /\ Content(n, size) \in Seq({<<n, i>> : i \in Nat})
         /\ Len(Content(n, size)) = size
         /\ \A i \in 1 .. size : Content(n, size)[i] = <<n, i>>
         /\ FragmentsCount(Content(n, size)) = Count(size)
<1>1. Content(n, size) = [i \in 1 .. size |-> <<n, i>>]
  BY DEF Content
<1>2. \A i \in 1 .. size : <<n, i>> \in {<<n, j>> : j \in Nat}
  OBVIOUS
<1>3. Content(n, size) \in Seq({<<n, i>> : i \in Nat})
  BY <1>1, <1>2, IsASeq
<1>4. Len(Content(n, size)) = size
  BY <1>1, <1>3, LenProperties
<1> QED
  BY <1>1, <1>3, <1>4 DEF FragmentsCount, Count

\* Where the payload of fragment i begins and ends.
First(i) == i * PayloadSize + 1
End(i, size) == IF (i + 1) * PayloadSize < size THEN (i + 1) * PayloadSize ELSE size

LEMMA PayloadFacts ==
  ASSUME NEW size \in Sizes, NEW i \in 0 .. Count(size) - 1
  PROVE  /\ First(i) \in 1 .. size
         /\ End(i, size) \in First(i) .. size
         /\ i # Count(size) - 1 => End(i, size) + 1 = First(i + 1)
         /\ i = Count(size) - 1 => End(i, size) = size
<1> DEFINE p == PayloadSize
           c == Count(size)
<1>1. /\ p \in Nat \ {0} /\ size \in Nat \ {0} /\ c \in Nat \ {0}
      /\ (c - 1) * p < size /\ size <= c * p
      /\ i \in Nat /\ i <= c - 1
  BY SizeFacts
<1> HIDE DEF p, c
<1>2. \A x, y \in Nat : x <= y => x * p <= y * p
  <2> SUFFICES ASSUME NEW x \in Nat, NEW y \in Nat, x <= y
               PROVE  x * p <= y * p
    OBVIOUS
  <2>1. PICK d \in Nat : y = x + d
    <3>1. y - x \in Nat /\ y = x + (y - x)
      OBVIOUS
    <3> QED
      BY <3>1
  <2>2. y * p = x * p + d * p /\ d * p >= 0 /\ x * p \in Int
    BY <1>1, <2>1
  <2> QED
    BY <2>2, <1>1
<1>3. i * p \in Nat /\ (i + 1) * p = i * p + p /\ i * p <= (c - 1) * p
  BY <1>1, <1>2
<1>4. i # c - 1 => (i + 1) * p <= (c - 1) * p
  BY <1>1, <1>2
<1>5. i = c - 1 => (i + 1) * p = c * p
  BY <1>1
<1>6. (c - 1) * p \in Nat /\ c * p \in Nat
  BY <1>1
<1> QED
  BY <1>1, <1>3, <1>4, <1>5, <1>6 DEF First, End, p, c

\* The first byte of a fragment tells its packet.
LEMMA FragmentIsOf ==
  ASSUME NEW n \in Nat, NEW size \in Sizes, NEW sdi,
         NEW i \in 0 .. FragmentsCount(Content(n, size)) - 1
  PROVE  LET f == Fragment(Content(n, size), sdi, i)
         IN  /\ f.splittedDataIndex = sdi
             /\ f.fragmentIndex = i % ByteValues
             /\ f.fragmentsCount = Count(size) % ByteValues
             /\ f.payload = SubSeq(Content(n, size), First(i), End(i, size))
             /\ PacketOf(f) = n
<1> DEFINE packet == Content(n, size)
           f == Fragment(packet, sdi, i)
           a == First(i)
           e == End(i, size)
<1>1. /\ size \in Nat /\ packet \in Seq({<<n, j>> : j \in Nat}) /\ Len(packet) = size
      /\ \A j \in 1 .. size : packet[j] = <<n, j>>
      /\ FragmentsCount(packet) = Count(size)
  <2>1. size \in Nat
    BY SizeFacts
  <2> QED
    BY <2>1, ContentFacts
<1>2. /\ a \in 1 .. size /\ e \in a .. size
  BY <1>1, PayloadFacts
<1>4. f = [ splittedDataIndex |-> sdi, fragmentIndex |-> i % ByteValues,
            fragmentsCount |-> Count(size) % ByteValues,
            payload |-> SubSeq(packet, a, e) ]
  BY <1>1 DEF Fragment, First, End
<1> HIDE DEF a, e, packet
<1>5. SubSeq(packet, a, e)[1] = packet[a]
  <2>1. a \in Int /\ e \in Int /\ \A j \in a .. e : j \in 1 .. Len(packet)
    BY <1>1, <1>2
  <2>2. \A j \in a .. e : packet[j] \in {<<n, k>> : k \in Nat}
    BY <1>1, <2>1, ElementOfSeq
  <2>3. \A j \in 1 .. e - a + 1 : SubSeq(packet, a, e)[j] = packet[a + j - 1]
    BY <2>1, <2>2, SubSeqProperties
  <2>4. 1 \in 1 .. e - a + 1 /\ a + 1 - 1 = a
    BY <1>1, <1>2
  <2> QED
    BY <2>3, <2>4
<1>6. packet[a] = <<n, a>>
  BY <1>1, <1>2
<1> HIDE DEF f
<1>7. f.payload = SubSeq(packet, a, e)
  BY <1>4
<1>8. PacketOf(f) = n
  <2>1. f.payload[1] = <<n, a>>
    BY <1>5, <1>6, <1>7
  <2> QED
    BY <2>1 DEF PacketOf
<1>9. /\ f.splittedDataIndex = sdi /\ f.fragmentIndex = i % ByteValues
      /\ f.fragmentsCount = Count(size) % ByteValues
  BY <1>4
<1> QED
  BY <1>7, <1>8, <1>9 DEF f, a, e, packet

LEMMA FragmentFacts ==
  ASSUME Timely, NEW n \in Nat, NEW size \in Sizes, NEW sdi,
         NEW i \in 0 .. Count(size) - 1
  PROVE  LET f == Fragment(Content(n, size), sdi, i)
         IN  /\ f.splittedDataIndex = sdi
             /\ f.fragmentIndex = i
             /\ f.fragmentsCount = Count(size)
             /\ f.payload = SubSeq(Content(n, size), First(i), End(i, size))
             /\ PacketOf(f) = n
<1>1. size \in Nat /\ Count(size) \in 1 .. ByteValues - 1
  BY SizeFacts, CountFitsByte
<1>2. i \in 0 .. FragmentsCount(Content(n, size)) - 1
  BY <1>1, ContentFacts
<1>3. i % ByteValues = i /\ Count(size) % ByteValues = Count(size)
  <2>1. \A x \in 0 .. ByteValues - 1 : x % ByteValues = x
    BY DivisionUnique, ByteFacts
  <2> QED
    BY <1>1, <2>1, ByteFacts
<1> QED
  BY <1>2, <1>3, FragmentIsOf

\* Fragments of one packet are told by their indices.
LEMMA FragmentsOfFacts ==
  ASSUME Timely, NEW n \in Nat \ {0}, NEW size \in Sizes
  PROVE  /\ \A f \in FragmentsOf(n, size) :
              /\ f.splittedDataIndex = IndexOf(n)
              /\ f.fragmentIndex \in 0 .. Count(size) - 1
              /\ f.fragmentsCount = Count(size)
              /\ f.payload =
                   SubSeq(Content(n, size), First(f.fragmentIndex), End(f.fragmentIndex, size))
              /\ PacketOf(f) = n
         /\ \A f, g \in FragmentsOf(n, size) : f.fragmentIndex = g.fragmentIndex => f = g
         /\ \A i \in 0 .. Count(size) - 1 :
              \E f \in FragmentsOf(n, size) : f.fragmentIndex = i
         /\ IsFiniteSet(FragmentsOf(n, size))
         /\ Cardinality(FragmentsOf(n, size)) = Count(size)
<1> DEFINE F(i) == Fragment(Content(n, size), IndexOf(n), i)
           I == 0 .. Count(size) - 1
           S == FragmentsOf(n, size)
<1>1. size \in Nat /\ Count(size) \in Nat \ {0}
  BY SizeFacts
<1>2. S = {F(i) : i \in I}
  BY <1>1, ContentFacts DEF FragmentsOf
<1>3. \A i \in I : /\ F(i).splittedDataIndex = IndexOf(n)
                   /\ F(i).fragmentIndex = i
                   /\ F(i).fragmentsCount = Count(size)
                   /\ F(i).payload = SubSeq(Content(n, size), First(i), End(i, size))
                   /\ PacketOf(F(i)) = n
  BY FragmentFacts
<1> HIDE DEF F, S
<1>4. IsFiniteSet(I) /\ Cardinality(I) = Count(size)
  <2> DEFINE c == Count(size)
  <2> HIDE DEF c
  <2>1. c \in Nat \ {0} /\ 0 \in Int /\ c - 1 \in Int
    BY <1>1 DEF c
  <2>2. /\ IsFiniteSet(0 .. c - 1)
        /\ Cardinality(0 .. c - 1) = IF 0 > c - 1 THEN 0 ELSE c - 1 - 0 + 1
    BY <2>1, FS_Interval
  <2>3. (IF 0 > c - 1 THEN 0 ELSE c - 1 - 0 + 1) = c
    BY <2>1
  <2> QED
    BY <2>2, <2>3 DEF c
<1>5. ExistsBijection(I, S)
  <2> DEFINE h == [i \in I |-> F(i)]
  <2>1. h \in [I -> S] /\ \A i, j \in I : h[i] = h[j] => i = j
    BY <1>2, <1>3
  <2>2. \A f \in S : \E i \in I : h[i] = f
    BY <1>2
  <2>3. h \in Bijection(I, S)
    BY <2>1, <2>2 DEF Bijection, Injection, Surjection, IsInjective
  <2> QED
    BY <2>3 DEF ExistsBijection
<1>6. IsFiniteSet(S) /\ Cardinality(S) = Count(size)
  BY <1>4, <1>5, FS_Bijection
<1> QED
  BY <1>2, <1>3, <1>6 DEF S

-----------------------------------------------------------------------------
(* Sending, and losing.                                                    *)

\* How the bounds compare.
LEMMA BoundFacts ==
  ASSUME Timely
  PROVE  \E h \in Nat :
           /\ h = ByteValues \div 2
           /\ ByteValues = h + h
           /\ MaxDelay \in Nat \ {0}
           /\ MaxLossRun \in Nat /\ MaxLossRun <= 2
           /\ MaxDelay + 3 <= h
  BY ByteFacts, BoundsAssumption DEF Timely

\* What the receiver keeps is in the set of its packet.
LEMMA KeptFacts ==
  ASSUME Timely, Inv, NEW s \in SetIndex, NEW f \in fragments[s]
  PROVE  /\ PacketOf(f) \in 1 .. sent /\ PacketOf(f) \in Nat \ {0}
         /\ sent - PacketOf(f) <= ByteValues \div 2 + MaxDelay
         /\ IndexOf(PacketOf(f)) = s
         /\ f \notin wire
  BY DEF Inv, AgesInv, TypeInv

\* The packets that should have erased a set before it grows too old would
\* all have lost a fragment.
LEMMA AgeBounded ==
  ASSUME Timely, Inv, Punctual, NEW s \in SetIndex, NEW f \in fragments[s]
  PROVE  sent + 1 - PacketOf(f) <= ByteValues \div 2 + MaxDelay
<1> DEFINE k == PacketOf(f)
<1>1. PICK h \in Nat :
        /\ h = ByteValues \div 2
        /\ MaxDelay \in Nat \ {0}
        /\ MaxLossRun \in Nat /\ MaxLossRun <= 2
        /\ MaxDelay + 3 <= h
  BY BoundFacts
<1>2. k \in Nat \ {0} /\ sent - k <= h + MaxDelay /\ sent \in Nat
  BY <1>1, KeptFacts DEF Inv, TypeInv
<1> SUFFICES ASSUME sent = k + h + MaxDelay
             PROVE  FALSE
  <2> HIDE DEF k
  <2> QED
    BY <1>1, <1>2 DEF k
<1> DEFINE m0 == k + h - MaxLossRun
<1>3. m0 \in 1 .. sent
  <2> HIDE DEF k
  <2> QED
    BY <1>1, <1>2
<1>4. ASSUME NEW m \in m0 .. m0 + MaxLossRun
      PROVE  m \in lost
  <2>1. m \in 1 .. sent /\ k + h - MaxLossRun <= m /\ m <= k + h /\ ~(sent - m < MaxDelay)
    <3> HIDE DEF k
    <3> QED
      BY <1>1, <1>2
  <2>2. m \in lost \/ InFlight(m)
    BY <1>1, <2>1 DEF Inv, KeptInv
  <2>3. ~InFlight(m)
    BY <2>1 DEF InFlight, Punctual
  <2> QED
    BY <2>2, <2>3
<1>5. m0 .. m0 + MaxLossRun \subseteq lost
  BY <1>4
<1> QED
  BY <1>3, <1>5 DEF Inv, SenderInv

LEMMA SendStep ==
  ASSUME Timely, Inv, NEW size \in Sizes, SendToTox(size)
  PROVE  Inv'
<1> USE DEF Inv
<1>0. PICK n \in Nat \ {0} : n = sent + 1
  BY DEF TypeInv
<1> DEFINE c == Count(size)
           F(i) == Fragment(Content(n, size), nextFragmentIndex, i)
<1>1. PICK h \in Nat :
        /\ h = ByteValues \div 2 /\ ByteValues = h + h
        /\ MaxDelay \in Nat \ {0}
        /\ MaxLossRun \in Nat /\ MaxLossRun <= 2
        /\ MaxDelay + 3 <= h
  BY BoundFacts
<1>2. /\ sent \in Nat /\ n = sent + 1
      /\ size \in Nat /\ c \in Nat \ {0}
      /\ nextFragmentIndex = IndexOf(n)
      /\ FragmentsCount(Content(n, size)) = c
  <2>1. sent \in Nat /\ nextFragmentIndex = sent % ByteValues
    BY DEF TypeInv, SenderInv
  <2>2. size \in Nat /\ c \in Nat \ {0}
    BY SizeFacts
  <2>3. sent % ByteValues = IndexOf(sent + 1)
    BY <2>1, NextIndex
  <2> QED
    BY <1>0, <2>1, <2>2, <2>3, ContentFacts
<1>3. /\ sent' = n /\ Punctual
      /\ UNCHANGED <<fragments, thrown>>
      /\ nextFragmentIndex' =
           IF nextFragmentIndex = ByteValues - 1 THEN 0 ELSE nextFragmentIndex + 1
  BY <1>0 DEF SendToTox
<1>4. PICK first \in 0 .. c :
        /\ first > 0 => MayLose(n)
        /\ wire' = wire \cup {F(i) : i \in first .. c - 1}
        /\ lost' = Recent(lost \cup (IF first > 0 THEN {n} ELSE {}))
  BY <1>2 DEF SendToTox
<1> DEFINE New == {F(i) : i \in first .. c - 1}
<1>5. /\ New \subseteq FragmentsOf(n, size)
      /\ first = 0 => New = FragmentsOf(n, size)
  BY <1>2 DEF FragmentsOf
<1>6. /\ \A f \in FragmentsOf(n, size) : PacketOf(f) = n
      /\ \E f \in FragmentsOf(n, size) : TRUE
  BY <1>2, FragmentsOfFacts
<1> HIDE DEF New, F, c
<1>7. wire' = wire \cup New
  BY <1>4 DEF New, F, c
<1>8. /\ first > 0 => n \in lost'
      /\ \A m \in lost : m >= sent - MaxDelay - MaxLossRun => m \in lost'
      /\ lost' \subseteq lost \cup (IF first > 0 THEN {n} ELSE {})
  BY <1>1, <1>2, <1>4 DEF Recent
<1>9. TypeInv'
  BY <1>2, <1>3 DEF TypeInv
<1>10. SenderInv'
  <2>1. nextFragmentIndex' = sent' % ByteValues
    <3>1. (sent + 1) % ByteValues =
             IF sent % ByteValues = ByteValues - 1 THEN 0 ELSE (sent % ByteValues) + 1
      BY <1>2, NextIndex
    <3> QED
      BY <1>2, <1>3, <3>1 DEF SenderInv
  <2>2. lost' \subseteq 1 .. sent'
    BY <1>2, <1>3, <1>8 DEF SenderInv
  <2>3. ~ \E m \in 1 .. sent' : m .. m + MaxLossRun \subseteq lost'
    <3> SUFFICES ASSUME NEW m \in 1 .. n, m .. m + MaxLossRun \subseteq lost'
                 PROVE  FALSE
      BY <1>3
    <3>1. CASE first > 0
      <4>1. m .. m + MaxLossRun \subseteq lost \cup {n}
        BY <1>8, <3>1
      <4> QED
        BY <1>0, <1>4, <3>1, <4>1 DEF MayLose
    <3>2. CASE ~(first > 0)
      <4>1. m .. m + MaxLossRun \subseteq lost
        BY <1>8, <3>2
      <4>2. m \in lost
        BY <1>1, <1>2, <4>1
      <4> QED
        BY <4>1, <4>2 DEF SenderInv
    <3> QED
      BY <3>1, <3>2
  <2> QED
    BY <2>1, <2>2, <2>3 DEF SenderInv
<1>11. AgesInv'
  <2>1. ASSUME NEW f \in wire'
        PROVE  PacketOf(f) \in 1 .. sent' /\ sent' - PacketOf(f) <= MaxDelay
    <3>1. CASE f \in wire
      BY <1>1, <1>2, <1>3, <3>1 DEF AgesInv, Punctual
    <3>2. CASE f \in New
      BY <1>1, <1>2, <1>3, <1>5, <1>6, <3>2
    <3> QED
      BY <1>7, <3>1, <3>2
  <2>2. ASSUME NEW s \in SetIndex, NEW f \in fragments[s]
        PROVE  /\ PacketOf(f) \in 1 .. sent'
               /\ sent' - PacketOf(f) <= ByteValues \div 2 + MaxDelay
               /\ IndexOf(PacketOf(f)) = s
               /\ f \notin wire'
    <3>1. /\ PacketOf(f) \in 1 .. sent /\ IndexOf(PacketOf(f)) = s /\ f \notin wire
      BY KeptFacts
    <3>2. n - PacketOf(f) <= ByteValues \div 2 + MaxDelay
      <4>1. sent + 1 - PacketOf(f) <= ByteValues \div 2 + MaxDelay
        BY <1>3, AgeBounded
      <4> QED
        BY <1>0, <1>1, <3>1, <4>1 DEF TypeInv
    <3>3. f \notin New
      BY <1>2, <1>5, <1>6, <3>1
    <3> QED
      BY <1>2, <1>3, <1>7, <3>1, <3>2, <3>3
  <2> QED
    BY <1>3, <2>1, <2>2 DEF AgesInv
<1>12. PacketsInv'
  <2>1. WholeInv(n, size)'
    <3>1. ASSUME NEW f \in wire' \cup fragments[IndexOf(n)], PacketOf(f) = n
          PROVE  f \in New
      <4>1. f \notin wire
        BY <1>2, <3>1 DEF AgesInv, TypeInv
      <4>2. f \notin fragments[IndexOf(n)]
        BY <1>2, <3>1, KeptFacts, IndexFacts
      <4> QED
        BY <1>7, <3>1, <4>1, <4>2
    <3>2. n \notin lost' => FragmentsOf(n, size) \subseteq wire'
      BY <1>5, <1>7, <1>8
    <3> QED
      BY <1>3, <1>5, <3>1, <3>2 DEF WholeInv
  <2>2. ASSUME NEW m \in 1 .. sent, NEW z \in Sizes, WholeInv(m, z)
        PROVE  WholeInv(m, z)'
    <3>1. \A f \in New : PacketOf(f) # m
      BY <1>2, <1>5, <1>6
    <3>2. InFlight(m)' => InFlight(m) /\ (m \notin lost' => m \notin lost)
      <4>1. InFlight(m)' => InFlight(m)
        BY <1>7, <3>1 DEF InFlight
      <4>2. InFlight(m) => sent - m <= MaxDelay
        BY DEF InFlight, AgesInv
      <4> QED
        BY <1>1, <1>2, <1>8, <4>1, <4>2
    <3> QED
      BY <1>3, <1>7, <2>2, <3>1, <3>2 DEF WholeInv
  <2> QED
    BY <1>2, <1>3, <2>1, <2>2 DEF PacketsInv
<1>13. KeptInv'
  <2> SUFFICES ASSUME NEW s \in SetIndex, NEW f \in fragments[s], NEW m \in 1 .. n,
                      PacketOf(f) + h - MaxLossRun <= m, m <= PacketOf(f) + h
               PROVE  m \in lost' \/ InFlight(m)'
    BY <1>1, <1>3 DEF KeptInv
  <2>1. CASE m = n
    <3>1. first = 0 => InFlight(n)'
      BY <1>5, <1>6, <1>7 DEF InFlight
    <3> QED
      BY <1>4, <1>8, <2>1, <3>1
  <2>2. CASE m # n
    <3>1. m \in 1 .. sent
      BY <1>2, <2>2
    <3>2. m \in lost \/ InFlight(m)
      BY <1>1, <3>1 DEF KeptInv
    <3>3. m >= sent - MaxDelay - MaxLossRun
      BY <1>1, <1>2, <3>1, KeptFacts
    <3> QED
      BY <1>7, <1>8, <3>2, <3>3 DEF InFlight
  <2> QED
    BY <2>1, <2>2
<1> QED
  BY <1>3, <1>9, <1>10, <1>11, <1>12, <1>13

LEMMA LoseStep ==
  ASSUME Timely, Inv, NEW f \in wire, Lose(f)
  PROVE  Inv'
<1> USE DEF Inv
<1>1. PICK n : n = PacketOf(f)
  OBVIOUS
<1>2. /\ sent \in Nat /\ n \in 1 .. sent /\ sent - n <= MaxDelay
      /\ MaxDelay \in Nat /\ MaxLossRun \in Nat
  BY <1>1, BoundsAssumption DEF TypeInv, AgesInv
<1>3. /\ UNCHANGED <<sent, nextFragmentIndex, fragments, thrown>>
      /\ MayLose(n) /\ wire' = wire \ {f} /\ lost' = Recent(lost \cup {n})
  BY <1>1 DEF Lose
<1>4. /\ n \in lost'
      /\ \A m \in lost : m >= sent - MaxDelay - MaxLossRun => m \in lost'
      /\ lost' \subseteq lost \cup {n}
  BY <1>2, <1>3 DEF Recent
<1>5. TypeInv'
  BY <1>3 DEF TypeInv
<1>6. SenderInv'
  <2>1. lost' \subseteq 1 .. sent
    BY <1>2, <1>4 DEF SenderInv
  <2>2. ~ \E m \in 1 .. sent : m .. m + MaxLossRun \subseteq lost'
    <3> SUFFICES ASSUME NEW m \in 1 .. sent, m .. m + MaxLossRun \subseteq lost'
                 PROVE  FALSE
      OBVIOUS
    <3>1. m \in 1 .. sent + 1 /\ m .. m + MaxLossRun \subseteq lost \cup {n}
      BY <1>2, <1>4
    <3> QED
      BY <1>3, <3>1 DEF MayLose
  <2> QED
    BY <1>3, <2>1, <2>2 DEF SenderInv
<1>7. AgesInv'
  BY <1>3 DEF AgesInv
<1>8. PacketsInv'
  <2>1. ASSUME NEW m \in 1 .. sent, NEW z \in Sizes, WholeInv(m, z)
        PROVE  WholeInv(m, z)'
    <3>1. CASE m = n
      BY <1>3, <1>4, <2>1, <3>1 DEF WholeInv
    <3>2. CASE m # n
      <4>1. f \notin FragmentsOf(m, z)
        BY <1>1, <1>2, <3>2, FragmentsOfFacts
      <4>2. InFlight(m)' => InFlight(m) /\ (m \notin lost' => m \notin lost)
        <5>1. InFlight(m)' => InFlight(m)
          BY <1>3 DEF InFlight
        <5>2. InFlight(m) => sent - m <= MaxDelay
          BY DEF InFlight, AgesInv
        <5> QED
          BY <1>2, <1>4, <5>1, <5>2
      <4> QED
        BY <1>3, <2>1, <4>1, <4>2 DEF WholeInv
    <3> QED
      BY <3>1, <3>2
  <2> QED
    BY <1>3, <2>1 DEF PacketsInv
<1>9. KeptInv'
  <2> SUFFICES ASSUME NEW s \in SetIndex, NEW g \in fragments[s], NEW m \in 1 .. sent,
                      PacketOf(g) + ByteValues \div 2 - MaxLossRun <= m,
                      m <= PacketOf(g) + ByteValues \div 2
               PROVE  m \in lost' \/ InFlight(m)'
    BY <1>3 DEF KeptInv
  <2>1. m \in lost \/ InFlight(m)
    BY DEF KeptInv
  <2>2. m >= sent - MaxDelay - MaxLossRun
    BY <1>2, ByteFacts, KeptFacts
  <2> QED
    BY <1>1, <1>3, <1>4, <2>1, <2>2 DEF InFlight
<1> QED
  BY <1>3, <1>5, <1>6, <1>7, <1>8, <1>9

-----------------------------------------------------------------------------
(* Receiving.                                                              *)

\* The set of an index holds fragments of one packet only.
LEMMA SetFacts ==
  ASSUME Timely, Inv, NEW f \in wire, NEW n, n = PacketOf(f)
  PROVE  /\ n \in 1 .. sent /\ n \in Nat \ {0} /\ sent - n <= MaxDelay
         /\ f \notin fragments[IndexOf(n)]
         /\ \E size \in Sizes :
              /\ fragments[IndexOf(n)] \cup {f} \subseteq FragmentsOf(n, size)
              /\ WholeInv(n, size)
<1> USE DEF Inv
<1>1. PICK h \in Nat :
        /\ h = ByteValues \div 2 /\ ByteValues = h + h
        /\ MaxDelay \in Nat \ {0}
        /\ MaxLossRun \in Nat /\ MaxLossRun <= 2
        /\ MaxDelay + 3 <= h
  BY BoundFacts
<1>2. sent \in Nat /\ n \in 1 .. sent /\ n \in Nat \ {0} /\ sent - n <= MaxDelay
  BY DEF TypeInv, AgesInv
<1>3. IndexOf(n) \in SetIndex
  BY <1>2, IndexFacts
<1>4. ASSUME NEW g \in fragments[IndexOf(n)]
      PROVE  PacketOf(g) = n
  <2>1. PICK k \in Nat \ {0} :
          k = PacketOf(g) /\ k <= sent /\ sent - k <= h + MaxDelay /\ IndexOf(k) = IndexOf(n)
    BY <1>1, <1>3, KeptFacts
  <2>2. n - k < ByteValues /\ k - n < ByteValues
    BY <1>1, <1>2, <2>1
  <2> QED
    BY <1>2, <2>1, <2>2, SameIndex
<1>5. PICK size \in Sizes : WholeInv(n, size)
  BY <1>2 DEF PacketsInv
<1>6. fragments[IndexOf(n)] \cup {f} \subseteq FragmentsOf(n, size)
  BY <1>4, <1>5 DEF WholeInv
<1>7. f \notin fragments[IndexOf(n)]
  BY <1>3 DEF AgesInv
<1> QED
  BY <1>2, <1>5, <1>6, <1>7

\* The last fragment of a set.
LEMMA CompleteSet ==
  ASSUME NEW n \in Nat \ {0}, NEW size \in Sizes, Timely,
         NEW set, set \subseteq FragmentsOf(n, size)
  PROVE  /\ Cardinality(set) = Count(size) <=> set = FragmentsOf(n, size)
         /\ set = FragmentsOf(n, size) => ~Corrupted(set)
<1> DEFINE S == FragmentsOf(n, size)
<1>1. /\ IsFiniteSet(S) /\ Cardinality(S) = Count(size)
      /\ \A g \in S : g.fragmentIndex \in 0 .. Count(size) - 1
      /\ \A i \in 0 .. Count(size) - 1 : \E g \in S : g.fragmentIndex = i
  BY FragmentsOfFacts
<1> HIDE DEF S
<1>2. set \subseteq S
  BY DEF S
<1>3. Cardinality(set) = Cardinality(S) => set = S
  BY <1>1, <1>2, FS_Subset
<1>4. {g.fragmentIndex : g \in S} = 0 .. Count(size) - 1
  BY <1>1
<1>5. ~Corrupted(S)
  BY <1>1, <1>4 DEF Corrupted
<1> QED
  BY <1>1, <1>3, <1>5 DEF S

\* The fragment that completes its set was the last one in flight; after
\* another one there is still one in flight, unless one was lost.
LEMMA OthersInFlight ==
  ASSUME Timely, Inv, NEW f \in wire, NEW n, n = PacketOf(f), NEW size \in Sizes,
         WholeInv(n, size), NEW set, set = fragments[IndexOf(n)] \cup {f},
         set \subseteq FragmentsOf(n, size)
  PROVE  /\ set = FragmentsOf(n, size) => \A g \in wire : PacketOf(g) = n => g = f
         /\ set # FragmentsOf(n, size) /\ n \notin lost
              => \E g \in wire : PacketOf(g) = n /\ g # f
<1>1. n \in Nat \ {0}
  BY SetFacts
<1>2. ASSUME set = FragmentsOf(n, size), NEW g \in wire, PacketOf(g) = n, g # f
      PROVE  FALSE
  <2>1. g \in FragmentsOf(n, size)
    BY <1>2 DEF WholeInv
  <2>2. g \in fragments[IndexOf(n)] /\ IndexOf(n) \in SetIndex
    BY <1>1, <1>2, <2>1, IndexFacts
  <2> QED
    BY <2>2, KeptFacts
<1>3. ASSUME set # FragmentsOf(n, size), n \notin lost
      PROVE  \E g \in wire : PacketOf(g) = n /\ g # f
  <2>1. PICK g \in FragmentsOf(n, size) : g \notin set
    BY <1>3
  <2>2. g \in wire /\ g # f
    BY <1>3, <2>1 DEF WholeInv, InFlight
  <2>3. PacketOf(g) = n
    BY <1>1, FragmentsOfFacts
  <2> QED
    BY <2>2, <2>3
<1> QED
  BY <1>2, <1>3

LEMMA ReceiveStep ==
  ASSUME Timely, Inv, NEW f \in wire, Receive(f)
  PROVE  Inv'
<1> USE DEF Inv
<1>1. PICK n : n = PacketOf(f)
  OBVIOUS
<1>2. PICK h \in Nat :
        /\ h = ByteValues \div 2 /\ ByteValues = h + h
        /\ MaxDelay \in Nat \ {0}
        /\ MaxLossRun \in Nat /\ MaxLossRun <= 2
        /\ MaxDelay + 3 <= h
  BY BoundFacts
<1>3. /\ sent \in Nat /\ n \in 1 .. sent /\ n \in Nat \ {0} /\ sent - n <= MaxDelay
      /\ f \notin fragments[IndexOf(n)]
  BY <1>1, SetFacts DEF TypeInv
<1>4. PICK size \in Sizes :
        /\ fragments[IndexOf(n)] \cup {f} \subseteq FragmentsOf(n, size)
        /\ WholeInv(n, size)
  BY <1>1, SetFacts
<1>5. PICK set : set = fragments[IndexOf(n)] \cup {f}
  OBVIOUS
<1>6. f.splittedDataIndex = IndexOf(n) /\ f.fragmentsCount = Count(size)
  BY <1>3, <1>4, FragmentsOfFacts
<1>7. /\ UNCHANGED <<sent, nextFragmentIndex, lost>>
      /\ wire' = wire \ {f}
  BY DEF Receive
<1>8. /\ IndexOf(n) \in SetIndex
      /\ fragments = [s \in SetIndex |-> fragments[s]] /\ DOMAIN fragments = SetIndex
  BY <1>3, IndexFacts DEF TypeInv
<1>9. SenderInv'
  BY <1>7 DEF SenderInv
<1>10. ASSUME NEW m \in 1 .. sent, InFlight(m)', m # n, m \notin lost, NEW z \in Sizes,
              WholeInv(m, z)
       PROVE  /\ FragmentsOf(m, z) \subseteq wire' \cup fragments[IndexOf(m)]
              /\ sent - m <= MaxDelay
  <2>1. f \notin FragmentsOf(m, z)
    <3>1. m \in Nat \ {0}
      BY <1>3
    <3> QED
      BY <1>1, <1>10, <3>1, FragmentsOfFacts
  <2>2. InFlight(m)
    BY <1>7, <1>10 DEF InFlight
  <2>3. sent - m <= MaxDelay
    BY <2>2 DEF InFlight, AgesInv
  <2> QED
    BY <1>7, <1>10, <2>1, <2>2, <2>3 DEF WholeInv
\* A packet that was in flight is so still, unless f was the last of it.
<1>11. ASSUME NEW m, InFlight(m), m # n
       PROVE  InFlight(m)'
  BY <1>1, <1>7, <1>11 DEF InFlight
<1>12. CASE Cardinality(set) = Count(size)
  <2>1. set = FragmentsOf(n, size) /\ ~Corrupted(set)
    BY <1>3, <1>4, <1>5, <1>12, CompleteSet
  <2>2. /\ fragments' = [s \in SetIndex |->
             IF s \in {IndexOf(n)} \cup Prune(IndexOf(n)) THEN {} ELSE fragments[s]]
        /\ thrown' = {}
    <3>1. Cardinality(fragments[f.splittedDataIndex] \cup {f}) = f.fragmentsCount
      BY <1>5, <1>6, <1>12
    <3>2. ~Corrupted(fragments[f.splittedDataIndex] \cup {f})
      BY <1>5, <1>6, <2>1
    <3> QED
      BY <1>6, <1>8, <3>1, <3>2 DEF Receive, HandleFragment
  <2>3. \A s \in SetIndex :
          /\ fragments'[s] \subseteq fragments[s]
          /\ s \notin {IndexOf(n)} \cup Prune(IndexOf(n)) => fragments'[s] = fragments[s]
          /\ s \in Prune(IndexOf(n)) => fragments'[s] = {}
    BY <2>2
  <2>4. TypeInv'
    BY <1>3, <1>7, <2>2 DEF TypeInv
  <2>5. AgesInv'
    BY <1>7, <2>3 DEF AgesInv
  <2>6. ~InFlight(n)'
    <3>1. \A g \in wire : PacketOf(g) = n => g = f
      BY <1>1, <1>4, <1>5, <2>1, OthersInFlight
    <3> QED
      BY <1>7, <3>1 DEF InFlight
  <2>7. PacketsInv'
    <3>1. ASSUME NEW m \in 1 .. sent, NEW z \in Sizes, WholeInv(m, z)
          PROVE  WholeInv(m, z)'
      <4>1. IndexOf(m) \in SetIndex
        BY <1>3, IndexFacts
      <4>2. \A g \in wire' \cup fragments'[IndexOf(m)] :
              PacketOf(g) = m => g \in FragmentsOf(m, z)
        BY <1>7, <2>3, <3>1, <4>1 DEF WholeInv
      <4>3. ASSUME InFlight(m)', m \notin lost'
            PROVE  FragmentsOf(m, z) \subseteq wire' \cup fragments'[IndexOf(m)]
        <5>1. m # n /\ m \notin lost /\ m \in Nat \ {0}
          BY <1>3, <1>7, <2>6, <4>3
        <5>2. /\ FragmentsOf(m, z) \subseteq wire' \cup fragments[IndexOf(m)]
              /\ sent - m <= MaxDelay
          BY <1>10, <3>1, <4>3, <5>1
        <5>3. n - m <= MaxDelay /\ m - n <= MaxDelay
          BY <1>2, <1>3, <5>2
        <5>4. IndexOf(m) \notin Prune(IndexOf(n))
          BY <1>3, <5>1, <5>3, PruneMisses
        <5>5. n - m < ByteValues /\ m - n < ByteValues
          BY <1>2, <1>3, <5>1, <5>3
        <5>6. IndexOf(m) # IndexOf(n)
          BY <1>3, <5>1, <5>5, SameIndex
        <5> QED
          BY <2>3, <4>1, <5>2, <5>4, <5>6
      <4> QED
        BY <4>2, <4>3 DEF WholeInv
    <3> QED
      BY <1>7, <3>1 DEF PacketsInv
  <2>8. KeptInv'
    <3> SUFFICES ASSUME NEW s \in SetIndex, NEW g \in fragments'[s], NEW m \in 1 .. sent,
                        PacketOf(g) + h - MaxLossRun <= m, m <= PacketOf(g) + h
                 PROVE  m \in lost' \/ InFlight(m)'
      BY <1>2, <1>7 DEF KeptInv
    <3>1. g \in fragments[s]
      BY <2>3
    <3>2. m \in lost \/ InFlight(m)
      BY <1>2, <3>1 DEF KeptInv
    <3>3. m # n
      <4> SUFFICES ASSUME m = n
                   PROVE  FALSE
        OBVIOUS
      <4>1. PICK k \in Nat \ {0} : k = PacketOf(g) /\ IndexOf(k) = s
        BY <3>1, KeptFacts
      <4>2. k + ByteValues \div 2 - 2 <= n /\ n <= k + ByteValues \div 2
        BY <1>2, <1>3, <4>1
      <4>3. s \in Prune(IndexOf(n))
        BY <1>3, <4>1, <4>2, PruneHits
      <4> QED
        BY <2>3, <4>3
    <3> QED
      BY <1>7, <1>11, <3>2, <3>3
  <2> QED
    BY <1>9, <2>2, <2>4, <2>5, <2>7, <2>8
<1>13. CASE Cardinality(set) # Count(size)
  <2>1. set # FragmentsOf(n, size)
    BY <1>3, <1>4, <1>5, <1>13, CompleteSet
  <2>2. /\ fragments' = [fragments EXCEPT ![IndexOf(n)] = set]
        /\ thrown' = thrown
    <3>1. Cardinality(fragments[f.splittedDataIndex] \cup {f}) # f.fragmentsCount
      BY <1>5, <1>6, <1>13
    <3> QED
      BY <1>5, <1>6, <3>1 DEF Receive, HandleFragment
  <2>3. /\ fragments'[IndexOf(n)] = fragments[IndexOf(n)] \cup {f}
        /\ \A s \in SetIndex : s # IndexOf(n) => fragments'[s] = fragments[s]
        /\ fragments' = [s \in SetIndex |-> fragments'[s]]
    BY <1>5, <1>8, <2>2
  <2>4. TypeInv'
    BY <1>3, <1>7, <2>3 DEF TypeInv
  <2>5. AgesInv'
    <3>1. ASSUME NEW s \in SetIndex, NEW g \in fragments'[s]
          PROVE  /\ PacketOf(g) \in 1 .. sent
                 /\ sent - PacketOf(g) <= ByteValues \div 2 + MaxDelay
                 /\ IndexOf(PacketOf(g)) = s
                 /\ g \notin wire'
      <4>1. CASE g \in fragments[s]
        BY <1>7, <4>1 DEF AgesInv
      <4>2. CASE g = f /\ s = IndexOf(n)
        BY <1>1, <1>2, <1>3, <1>7, <4>2
      <4> QED
        BY <2>3, <4>1, <4>2
    <3> QED
      BY <1>7, <3>1 DEF AgesInv
  <2>6. PacketsInv'
    <3>1. ASSUME NEW m \in 1 .. sent, NEW z \in Sizes, WholeInv(m, z)
          PROVE  WholeInv(m, z)'
      <4>1. IndexOf(m) \in SetIndex
        BY <1>3, IndexFacts
      <4>2. wire' \cup fragments'[IndexOf(m)] \subseteq wire \cup fragments[IndexOf(m)]
        BY <1>7, <2>3, <4>1
      <4>3. InFlight(m)' => InFlight(m)
        BY <1>7 DEF InFlight
      <4>4. CASE m = n
        <5>1. wire' \cup fragments'[IndexOf(m)] = wire \cup fragments[IndexOf(m)]
          BY <1>7, <2>3, <4>4
        <5> QED
          BY <1>7, <3>1, <4>3, <5>1 DEF WholeInv
      <4>5. CASE m # n
        <5>1. fragments[IndexOf(m)] \subseteq fragments'[IndexOf(m)]
          BY <2>3, <4>1
        <5>2. InFlight(m)' /\ m \notin lost'
                => FragmentsOf(m, z) \subseteq wire' \cup fragments'[IndexOf(m)]
          BY <1>7, <1>10, <3>1, <4>5, <5>1
        <5> QED
          BY <3>1, <4>2, <5>2 DEF WholeInv
      <4> QED
        BY <4>4, <4>5
    <3> QED
      BY <1>7, <3>1 DEF PacketsInv
  <2>7. n \notin lost => InFlight(n)'
    <3>1. n \notin lost => \E g \in wire : PacketOf(g) = n /\ g # f
      BY <1>1, <1>4, <1>5, <2>1, OthersInFlight
    <3> QED
      BY <1>7, <3>1 DEF InFlight
  <2>8. KeptInv'
    <3> SUFFICES ASSUME NEW s \in SetIndex, NEW g \in fragments'[s], NEW m \in 1 .. sent,
                        PacketOf(g) + h - MaxLossRun <= m, m <= PacketOf(g) + h
                 PROVE  m \in lost' \/ InFlight(m)'
      BY <1>2, <1>7 DEF KeptInv
    <3>1. CASE g \in fragments[s]
      <4>1. m \in lost \/ InFlight(m)
        BY <1>2, <3>1 DEF KeptInv
      <4> QED
        BY <1>7, <1>11, <2>7, <4>1
    <3>2. CASE g = f
      <4>1. n + h - MaxLossRun <= m
        BY <1>1, <3>2
      <4> QED
        BY <1>2, <1>3, <4>1
    <3> QED
      BY <2>3, <3>1, <3>2
  <2> QED
    BY <1>9, <2>2, <2>4, <2>5, <2>6, <2>8
<1> QED
  BY <1>12, <1>13

-----------------------------------------------------------------------------
(* The invariant holds in a connection without late fragments.             *)

\* Nothing but the first state decides whether a fragment is late.
LEMMA LateIsKept ==
  ASSUME [Next]_vars
  PROVE  late' = late
<1>1. CASE Next
  BY <1>1 DEF Next, SendToTox, Lose, Receive
<1>2. CASE UNCHANGED vars
  BY <1>2 DEF vars
<1> QED
  BY <1>1, <1>2

LEMMA InitInv ==
  ASSUME Init, ~late
  PROVE  Inv
<1>1. /\ sent = 0 /\ nextFragmentIndex = 0 /\ wire = {} /\ lost = {} /\ thrown = {}
      /\ fragments = [s \in SetIndex |-> {}]
  BY DEF Init
<1>2. 0 % ByteValues = 0
  <2>1. 0 \in 0 .. ByteValues - 1 /\ ByteValues * 0 + 0 = 0 /\ 0 \in Int
    BY ByteFacts
  <2> QED
    BY <2>1, DivisionUnique, ByteFacts
<1>3. TypeInv /\ SenderInv
  BY <1>1, <1>2 DEF TypeInv, SenderInv
<1>4. AgesInv /\ PacketsInv /\ KeptInv
  BY <1>1 DEF AgesInv, PacketsInv, KeptInv
<1> QED
  BY <1>1, <1>3, <1>4 DEF Inv

LEMMA NextInv ==
  ASSUME Timely, Inv, [Next]_vars
  PROVE  Inv'
<1>1. ASSUME NEW size \in Sizes, SendToTox(size)
      PROVE  Inv'
  BY <1>1, SendStep
<1>2. ASSUME NEW f \in wire, Lose(f)
      PROVE  Inv'
  BY <1>2, LoseStep
<1>3. ASSUME NEW f \in wire, Receive(f)
      PROVE  Inv'
  BY <1>3, ReceiveStep
<1>4. CASE UNCHANGED vars
  BY <1>4 DEF vars, Inv, TypeInv, SenderInv, AgesInv, PacketsInv, WholeInv, InFlight, KeptInv
<1> QED
  BY <1>1, <1>2, <1>3, <1>4 DEF Next

THEOREM AlwaysSeparate ==
  ASSUME Timely
  PROVE  Spec => [](late \/ Inv)
<1>1. Init => late \/ Inv
  BY InitInv
<1>2. (late \/ Inv) /\ [Next]_vars => (late \/ Inv)'
  BY LateIsKept, NextInv
<1> QED
  BY <1>1, <1>2, PTL DEF Spec

\* Data::fromFragments never throws in a connection that no fragment of an
\* earlier one reaches: a set of an index holds fragments of one packet only,
\* so a set of the right size has each of its fragments once.
THEOREM ThrowsNever ==
  ASSUME Timely
  PROVE  Spec => []NeverThrows
<1>1. (late \/ Inv) => NeverThrows
  BY DEF Inv, NeverThrows
<1> QED
  BY <1>1, AlwaysSeparate, PTL

\* Connection::handleFragment erases every set that stays incomplete, at the
\* latest half a round of set indices and the greatest delay after its packet.
THEOREM SetsExpire ==
  ASSUME Timely
  PROVE  Spec => []IncompleteSetsExpire
<1>1. (late \/ Inv) => IncompleteSetsExpire
  BY DEF Inv, AgesInv, IncompleteSetsExpire
<1> QED
  BY <1>1, AlwaysSeparate, PTL

\* Connection::handleFragment erases no fragment of a packet that lost nothing
\* and is still arriving: each is in flight or kept.
THEOREM LivePacketsAreKept ==
  ASSUME Timely
  PROVE  Spec => []LiveFragmentsKept
<1>1. (late \/ Inv) => LiveFragmentsKept
  <2> SUFFICES ASSUME Inv, NEW f \in wire, PacketOf(f) \notin lost
               PROVE  Cardinality({g \in wire \cup fragments[f.splittedDataIndex] :
                                    PacketOf(g) = PacketOf(f)}) = f.fragmentsCount
    BY DEF LiveFragmentsKept
  <2>1. PICK n : n = PacketOf(f)
    OBVIOUS
  <2>2. n \in Nat \ {0}
    BY <2>1, SetFacts
  <2>3. PICK size \in Sizes :
          /\ fragments[IndexOf(n)] \cup {f} \subseteq FragmentsOf(n, size)
          /\ WholeInv(n, size)
    BY <2>1, SetFacts
  <2>4. /\ f.splittedDataIndex = IndexOf(n) /\ f.fragmentsCount = Count(size)
        /\ \A g \in FragmentsOf(n, size) : PacketOf(g) = n
        /\ Cardinality(FragmentsOf(n, size)) = Count(size)
    BY <2>2, <2>3, FragmentsOfFacts
  <2>5. FragmentsOf(n, size) \subseteq wire \cup fragments[IndexOf(n)]
    BY <2>1, <2>3 DEF WholeInv, InFlight
  <2>6. {g \in wire \cup fragments[IndexOf(n)] : PacketOf(g) = n} = FragmentsOf(n, size)
    BY <2>3, <2>4, <2>5 DEF WholeInv
  <2> QED
    BY <2>1, <2>4, <2>6
<1> QED
  BY <1>1, AlwaysSeparate, PTL

-----------------------------------------------------------------------------
(* Joining.                                                                *)

LEMMA LeastNumber ==
  ASSUME NEW T, T \subseteq Nat, T # {}
  PROVE  \E n \in T : \A m \in T : n <= m
<1>1. PICK n \in T : \A m \in T : ~ (<<m, n>> \in OpToRel(<, Nat))
  BY NatLessThanWellFounded, WFMin, Zenon
<1>2. \A m \in T : ~ (m < n)
  BY <1>1, Zenon DEF OpToRel
<1> QED
  BY <1>2

\* Every function of a length that joins a sequence after the ones before it
\* does so like the one that FlattenSeq chooses.
LEMMA FlattenFacts ==
  ASSUME NEW seqs, Len(seqs) \in Nat \ {0},
         NEW S, NEW G \in [1 .. Len(seqs) -> S],
         \A i \in 1 .. Len(seqs) : G[i] = IF i = 1 THEN seqs[i] ELSE G[i - 1] \o seqs[i]
  PROVE  FlattenSeq(seqs) = G[Len(seqs)]
<1>0. PICK c \in Nat \ {0} : c = Len(seqs)
  OBVIOUS
<1> DEFINE Flattens(f) ==
             f = [i \in 1 .. c |-> IF i = 1 THEN seqs[i] ELSE f[i - 1] \o seqs[i]]
           F == CHOOSE f : Flattens(f)
<1>1. Flattens(F)
  <2>1. Flattens(G)
    BY <1>0
  <2> QED
    BY <2>1
<1>2. FlattenSeq(seqs) = F[c]
  BY <1>0 DEF FlattenSeq
<1> HIDE DEF F
<1>3. \A i \in 1 .. c : F[i] = IF i = 1 THEN seqs[i] ELSE F[i - 1] \o seqs[i]
  BY <1>1
<1> HIDE DEF Flattens
<1>4. \A i \in 1 .. c : G[i] = IF i = 1 THEN seqs[i] ELSE G[i - 1] \o seqs[i]
  BY <1>0
<1> DEFINE T == {i \in 1 .. c : F[i] # G[i]}
<1>5. T = {}
  <2> SUFFICES ASSUME T # {}
               PROVE  FALSE
    OBVIOUS
  <2>1. T \subseteq Nat
    OBVIOUS
  <2> HIDE DEF T
  <2>2. PICK n \in T : \A m \in T : n <= m
    BY <2>1, LeastNumber
  <2>3. n \in 1 .. c /\ F[n] # G[n]
    BY <2>2 DEF T
  <2>4. n # 1
    BY <1>3, <1>4, <2>3
  <2>5. n - 1 \in 1 .. c /\ n - 1 \notin T
    BY <2>2, <2>3, <2>4
  <2>6. F[n - 1] = G[n - 1]
    BY <2>5 DEF T
  <2> QED
    BY <1>3, <1>4, <2>3, <2>4, <2>6
<1>6. F[c] = G[c]
  <2>1. c \in 1 .. c
    OBVIOUS
  <2> QED
    BY <1>5, <2>1
<1> QED
  BY <1>0, <1>2, <1>6

\* The fragments of a packet, joined, are the packet.
LEMMA JoinedFacts ==
  ASSUME Timely, NEW n \in Nat \ {0}, NEW size \in Sizes
  PROVE  FromFragments(FragmentsOf(n, size)) = Content(n, size)
<1> DEFINE packet == Content(n, size)
           S == FragmentsOf(n, size)
           c == Count(size)
           Bytes == {<<n, i>> : i \in Nat}
           part(i) == SubSeq(packet, First(i), End(i, size))
           seqs == [i \in 1 .. c |-> (CHOOSE f \in S : f.fragmentIndex = i - 1).payload]
           G == [i \in 1 .. c |-> SubSeq(packet, 1, End(i - 1, size))]
<1>1. size \in Nat \ {0} /\ c \in Nat \ {0}
  BY SizeFacts
<1>2. packet \in Seq(Bytes) /\ Len(packet) = size
  BY <1>1, ContentFacts
<1>3. FromFragments(S) = FlattenSeq(seqs)
  BY FragmentsOfFacts DEF FromFragments
<1>4. ASSUME NEW i \in 1 .. c
      PROVE  /\ First(i - 1) \in 1 .. size
             /\ End(i - 1, size) \in First(i - 1) .. size
             /\ i # 1 => End(i - 1 - 1, size) + 1 = First(i - 1)
             /\ i = c => End(i - 1, size) = size
  <2>1. i - 1 \in 0 .. c - 1 /\ (i # 1 => i - 1 - 1 \in 0 .. c - 1 /\ i - 1 - 1 # c - 1)
    BY <1>1
  <2>2. \A j \in 0 .. c - 1 :
          /\ First(j) \in 1 .. size
          /\ End(j, size) \in First(j) .. size
          /\ j # c - 1 => End(j, size) + 1 = First(j + 1)
          /\ j = c - 1 => End(j, size) = size
    BY PayloadFacts
  <2>3. i - 1 - 1 + 1 = i - 1
    BY <1>1
  <2> HIDE DEF c
  <2> QED
    BY <1>1, <2>1, <2>2, <2>3
<1>5. ASSUME NEW i \in 1 .. c
      PROVE  seqs[i] = part(i - 1)
  <2>1. i - 1 \in 0 .. c - 1
    BY <1>1
  <2>2. PICK f \in S : f.fragmentIndex = i - 1
    BY <2>1, FragmentsOfFacts
  <2> DEFINE g == CHOOSE g \in S : g.fragmentIndex = i - 1
  <2>3. g \in S /\ g.fragmentIndex = i - 1
    BY <2>2
  <2>4. seqs[i] = g.payload
    OBVIOUS
  <2> HIDE DEF g
  <2>5. g.payload = SubSeq(packet, First(g.fragmentIndex), End(g.fragmentIndex, size))
    BY <2>3, FragmentsOfFacts
  <2> QED
    BY <2>3, <2>4, <2>5
<1>6. ASSUME NEW i \in 1 .. c
      PROVE  G[i] = IF i = 1 THEN seqs[i] ELSE G[i - 1] \o seqs[i]
  <2>1. G[i] = SubSeq(packet, 1, End(i - 1, size))
    OBVIOUS
  <2>2. CASE i = 1
    <3>1. First(i - 1) = 1
      BY <1>1, <2>2, SizeFacts DEF First
    <3> QED
      BY <1>5, <2>1, <2>2, <3>1
  <2>3. CASE i # 1
    <3>1. i - 1 \in 1 .. c
      BY <1>1, <2>3
    <3>2. G[i - 1] = SubSeq(packet, 1, End(i - 1 - 1, size))
      BY <3>1
    <3>3. PICK k : k = End(i - 1 - 1, size)
      OBVIOUS
    <3>4. PICK e : e = End(i - 1, size)
      OBVIOUS
    <3>5. k + 1 = First(i - 1) /\ k \in 1 .. size /\ e \in k .. size
      <4>1. k \in 1 .. size
        BY <1>4, <3>1, <3>3, <1>1
      <4>2. k + 1 = First(i - 1)
        BY <1>4, <2>3, <3>3
      <4>3. e \in First(i - 1) .. size
        BY <1>4, <3>4
      <4> QED
        BY <1>1, <4>1, <4>2, <4>3
    <3>6. SubSeq(packet, 1, k) \o SubSeq(packet, k + 1, e) = SubSeq(packet, 1, e)
      <4>1. /\ 1 \in 1 .. Len(packet) + 1 /\ k \in 1 - 1 .. Len(packet)
            /\ e \in k .. Len(packet)
        BY <1>1, <1>2, <3>5
      <4> HIDE DEF packet, Bytes
      <4> QED
        BY <1>2, <4>1, ConcatAdjacentSubSeq
    <3> QED
      BY <1>5, <2>1, <2>3, <3>2, <3>3, <3>4, <3>5, <3>6
  <2> QED
    BY <2>2, <2>3
<1>7. Len(seqs) = c
  BY <1>1
<1>8. FlattenSeq(seqs) = G[c]
  <2>1. PICK P : G \in [1 .. c -> P]
    <3>1. G \in [1 .. c -> {SubSeq(packet, 1, End(i - 1, size)) : i \in 1 .. c}]
      OBVIOUS
    <3> QED
      BY <3>1
  <2> HIDE DEF G, seqs, c
  <2>2. \A i \in 1 .. Len(seqs) : G[i] = IF i = 1 THEN seqs[i] ELSE G[i - 1] \o seqs[i]
    BY <1>6, <1>7
  <2> QED
    BY <1>1, <1>7, <2>1, <2>2, FlattenFacts
<1>9. G[c] = packet
  <2>1. c \in 1 .. c
    BY <1>1
  <2>2. End(c - 1, size) = size
    BY <1>4, <2>1
  <2>3. SubSeq(packet, 1, size) = packet
    <3> HIDE DEF packet, Bytes
    <3> QED
      BY <1>2, SubSeqFull
  <2> QED
    BY <2>1, <2>2, <2>3
<1> QED
  BY <1>3, <1>8, <1>9

\* What was given to handleData last.
DeliveredInv ==
  delivered = <<>>
    \/ \E n \in Nat \ {0}, size \in Sizes : delivered = Content(n, size)

LEMMA ReceiveDelivers ==
  ASSUME Timely, Inv, NEW f \in wire, Receive(f)
  PROVE  DeliveredInv'
<1>1. PICK n \in Nat \ {0} : n = PacketOf(f)
  BY SetFacts
<1>2. PICK size \in Sizes : fragments[IndexOf(n)] \cup {f} \subseteq FragmentsOf(n, size)
  BY <1>1, SetFacts
<1>3. PICK set : set = fragments[IndexOf(n)] \cup {f}
  OBVIOUS
<1>4. f.splittedDataIndex = IndexOf(n) /\ f.fragmentsCount = Count(size)
  BY <1>2, FragmentsOfFacts
<1>5. set = fragments[f.splittedDataIndex] \cup {f}
  BY <1>3, <1>4
<1>6. CASE Cardinality(set) = Count(size)
  <2>1. set = FragmentsOf(n, size) /\ ~Corrupted(set)
    BY <1>2, <1>3, <1>6, CompleteSet
  <2>2. delivered' = FromFragments(set)
    BY <1>4, <1>5, <1>6, <2>1 DEF Receive, HandleFragment
  <2> QED
    BY <2>1, <2>2, JoinedFacts DEF DeliveredInv
<1>7. CASE Cardinality(set) # Count(size)
  BY <1>4, <1>5, <1>7 DEF Receive, HandleFragment, DeliveredInv
<1> QED
  BY <1>6, <1>7

LEMMA NextDelivers ==
  ASSUME Timely, Inv, DeliveredInv, [Next]_vars
  PROVE  DeliveredInv'
<1>1. ASSUME NEW size \in Sizes, SendToTox(size)
      PROVE  DeliveredInv'
  BY <1>1 DEF SendToTox, DeliveredInv
<1>2. ASSUME NEW f \in wire, Lose(f)
      PROVE  DeliveredInv'
  BY <1>2 DEF Lose, DeliveredInv
<1>3. ASSUME NEW f \in wire, Receive(f)
      PROVE  DeliveredInv'
  BY <1>3, ReceiveDelivers
<1>4. CASE UNCHANGED vars
  BY <1>4 DEF vars, DeliveredInv
<1> QED
  BY <1>1, <1>2, <1>3, <1>4 DEF Next

LEMMA NeverMixed ==
  ASSUME DeliveredInv
  PROVE  ~Mixed
<1> SUFFICES ASSUME NEW n \in Nat \ {0}, NEW size \in Sizes, delivered = Content(n, size)
             PROVE  ~Mixed
  BY DEF DeliveredInv, Mixed
<1>1. size \in Nat \ {0}
  BY SizeFacts
<1>2. delivered[1] = <<n, 1>>
  <2>1. \A i \in 1 .. size : Content(n, size)[i] = <<n, i>>
    BY <1>1, ContentFacts
  <2>2. 1 \in 1 .. size
    BY <1>1
  <2> QED
    BY <2>1, <2>2
<1>3. delivered[1][1] = n
  BY <1>2
<1> QED
  BY <1>3 DEF Mixed

\* What Connection::handleFragment gives to handleData is a packet that the
\* friend sent in this connection, whole and in order, and no mixture of two
\* packets whose set index is the same.
THEOREM SentPacketsAreDelivered ==
  ASSUME Timely
  PROVE  Spec => []DeliversSentPackets
<1>1. Init => DeliveredInv
  BY DEF Init, DeliveredInv
<1>2. (late \/ Inv) /\ (late \/ DeliveredInv) /\ [Next]_vars => (late \/ DeliveredInv)'
  BY LateIsKept, NextDelivers
<1>3. (late \/ DeliveredInv) => DeliversSentPackets
  BY NeverMixed DEF DeliversSentPackets
<1> QED
  BY <1>1, <1>2, <1>3, AlwaysSeparate, PTL DEF Spec

-----------------------------------------------------------------------------
(* A channel of whole packets.                                             *)

\* A packet that lost a fragment is never complete: in flight and kept, there
\* are not all of its fragments any more.
LossesInv ==
  \A n \in lost : \A size \in Sizes :
    ~ (FragmentsOf(n, size) \subseteq wire \cup fragments[IndexOf(n)])

LEMMA SendLosses ==
  ASSUME Timely, Inv, LossesInv, NEW size \in Sizes, SendToTox(size)
  PROVE  LossesInv'
<1>1. PICK n \in Nat \ {0} : n = sent + 1 /\ sent \in Nat
  BY DEF Inv, TypeInv
<1> DEFINE c == Count(size)
           F(i) == Fragment(Content(n, size), nextFragmentIndex, i)
<1>2. /\ size \in Nat /\ c \in Nat \ {0}
      /\ FragmentsCount(Content(n, size)) = c
  BY <1>1, SizeFacts, ContentFacts
<1>3. PICK first \in 0 .. c :
        /\ wire' = wire \cup {F(i) : i \in first .. c - 1}
        /\ lost' = Recent(lost \cup (IF first > 0 THEN {n} ELSE {}))
  BY <1>1, <1>2 DEF SendToTox
<1>4. fragments' = fragments
  BY DEF SendToTox
<1>5. \A i \in first .. c - 1 : F(i).fragmentIndex = i /\ PacketOf(F(i)) = n
  BY <1>2, FragmentFacts
<1> HIDE DEF F, c
<1> SUFFICES ASSUME NEW m \in lost', NEW z \in Sizes,
                    FragmentsOf(m, z) \subseteq wire' \cup fragments[IndexOf(m)]
             PROVE  FALSE
  BY <1>4 DEF LossesInv
<1>6. CASE m = n /\ first > 0
  <2>1. PICK f \in FragmentsOf(n, z) : f.fragmentIndex = 0 /\ PacketOf(f) = n
    <3>1. 0 \in 0 .. Count(z) - 1
      BY SizeFacts
    <3> QED
      BY <3>1, FragmentsOfFacts
  <2>2. f \notin wire
    BY <1>1, <2>1 DEF Inv, AgesInv
  <2>3. f \notin fragments[IndexOf(n)]
    BY <1>1, <2>1, KeptFacts, IndexFacts
  <2>4. PICK i \in first .. c - 1 : f = F(i)
    BY <1>3, <1>6, <2>1, <2>2, <2>3
  <2>5. i # 0
    BY <1>2, <1>6
  <2> QED
    BY <1>5, <2>1, <2>4, <2>5
<1>7. CASE m \in lost
  <2>1. m \in Nat \ {0} /\ m # n
    BY <1>1, <1>7 DEF Inv, SenderInv
  <2>2. \A f \in FragmentsOf(m, z) : PacketOf(f) = m
    BY <2>1, FragmentsOfFacts
  <2>3. FragmentsOf(m, z) \subseteq wire \cup fragments[IndexOf(m)]
    BY <1>3, <1>5, <2>1, <2>2
  <2> QED
    BY <1>7, <2>3 DEF LossesInv
<1> QED
  BY <1>3, <1>6, <1>7 DEF Recent

LEMMA LoseLosses ==
  ASSUME Timely, Inv, LossesInv, NEW f \in wire, Lose(f)
  PROVE  LossesInv'
<1>1. PICK n \in Nat \ {0} : n = PacketOf(f)
  BY SetFacts
<1>2. /\ wire' = wire \ {f} /\ fragments' = fragments
      /\ lost' \subseteq lost \cup {n}
  BY <1>1 DEF Lose, Recent
<1>3. PICK size \in Sizes :
        /\ fragments[IndexOf(n)] \cup {f} \subseteq FragmentsOf(n, size)
        /\ WholeInv(n, size)
  BY <1>1, SetFacts
<1>4. f \notin fragments[IndexOf(n)]
  BY <1>1, SetFacts
<1> SUFFICES ASSUME NEW m \in lost', NEW z \in Sizes,
                    FragmentsOf(m, z) \subseteq (wire \ {f}) \cup fragments[IndexOf(m)]
             PROVE  FALSE
  BY <1>2 DEF LossesInv
<1>5. CASE m \in lost
  BY <1>5 DEF LossesInv
<1>6. CASE m = n
  <2>1. FragmentsOf(n, z) \subseteq FragmentsOf(n, size)
    <3>1. \A g \in FragmentsOf(n, z) : PacketOf(g) = n
      BY FragmentsOfFacts
    <3> QED
      BY <1>3, <1>6, <3>1 DEF WholeInv
  <2>2. Count(z) = Count(size)
    <3>1. PICK g \in FragmentsOf(n, z) : TRUE
      <4>1. 0 \in 0 .. Count(z) - 1
        BY SizeFacts
      <4> QED
        BY <4>1, FragmentsOfFacts
    <3>2. g.fragmentsCount = Count(z) /\ g.fragmentsCount = Count(size)
      BY <2>1, <3>1, FragmentsOfFacts
    <3> QED
      BY <3>2
  <2>3. f.fragmentIndex \in 0 .. Count(size) - 1
    BY <1>3, FragmentsOfFacts
  <2>4. PICK g \in FragmentsOf(n, z) : g.fragmentIndex = f.fragmentIndex
    BY <2>2, <2>3, FragmentsOfFacts
  <2>5. g = f
    BY <1>3, <2>1, <2>4, FragmentsOfFacts
  <2> QED
    BY <1>4, <1>6, <2>4, <2>5
<1> QED
  BY <1>2, <1>5, <1>6

LEMMA ReceiveLosses ==
  ASSUME Timely, Inv, LossesInv, NEW f \in wire, Receive(f)
  PROVE  LossesInv'
<1>1. PICK n \in Nat \ {0} : n = PacketOf(f)
  BY SetFacts
<1>2. f.splittedDataIndex = IndexOf(n)
  BY <1>1, SetFacts, FragmentsOfFacts
<1>3. wire' = wire \ {f} /\ lost' = lost
  BY DEF Receive
<1>4. \A s \in SetIndex : fragments'[s] \subseteq fragments[s] \cup {f}
  <2>1. DOMAIN fragments = SetIndex
    BY DEF Inv, TypeInv
  <2> QED
    BY <2>1 DEF Receive, HandleFragment
<1>5. \A m \in lost : IndexOf(m) \in SetIndex
  BY IndexFacts DEF Inv, SenderInv
<1> QED
  BY <1>3, <1>4, <1>5 DEF LossesInv

LEMMA AlwaysMissed ==
  ASSUME Timely
  PROVE  Spec => [](late \/ (Inv /\ LossesInv))
<1>1. Init => late \/ LossesInv
  BY DEF Init, LossesInv
<1>2. /\ late \/ Inv
      /\ late \/ LossesInv
      /\ [Next]_vars
      => (late \/ LossesInv)'
  <2> SUFFICES ASSUME Inv, LossesInv, [Next]_vars
               PROVE  LossesInv'
    BY LateIsKept
  <2>1. ASSUME NEW size \in Sizes, SendToTox(size)
        PROVE  LossesInv'
    BY <2>1, SendLosses
  <2>2. ASSUME NEW f \in wire, Lose(f)
        PROVE  LossesInv'
    BY <2>2, LoseLosses
  <2>3. ASSUME NEW f \in wire, Receive(f)
        PROVE  LossesInv'
    BY <2>3, ReceiveLosses
  <2>4. CASE UNCHANGED vars
    BY <2>4 DEF vars, LossesInv
  <2> QED
    BY <2>1, <2>2, <2>3, <2>4 DEF Next
<1> QED
  BY <1>1, <1>2, AlwaysSeparate, PTL DEF Spec

Arriving == {PacketOf(f) : f \in wire}

ChannelStep == Channel!Next

LEMMA SendIsChannel ==
  ASSUME Timely, Inv, NEW size \in Sizes, SendToTox(size)
  PROVE  ChannelStep
<1>1. PICK n \in Nat \ {0} : n = sent + 1
  BY DEF Inv, TypeInv
<1> DEFINE c == Count(size)
           F(i) == Fragment(Content(n, size), nextFragmentIndex, i)
<1>2. /\ size \in Nat /\ c \in Nat \ {0}
      /\ FragmentsCount(Content(n, size)) = c
      /\ nextFragmentIndex = IndexOf(n)
  <2>1. size \in Nat /\ c \in Nat \ {0}
    BY SizeFacts
  <2>2. sent \in Nat /\ nextFragmentIndex = sent % ByteValues
    BY DEF Inv, TypeInv, SenderInv
  <2> QED
    BY <1>1, <2>1, <2>2, ContentFacts, NextIndex
<1>3. PICK first \in 0 .. c :
        /\ wire' = wire \cup {F(i) : i \in first .. c - 1}
        /\ lost' = Recent(lost \cup (IF first > 0 THEN {n} ELSE {}))
  BY <1>1, <1>2 DEF SendToTox
<1>4. sent' = n /\ delivered' = <<>>
  BY <1>1 DEF SendToTox
<1>5. \A i \in first .. c - 1 : PacketOf(F(i)) = n
  <2>1. \A i \in first .. c - 1 : F(i) \in FragmentsOf(n, size)
    BY <1>2 DEF FragmentsOf
  <2> HIDE DEF F, c
  <2> QED
    BY <1>1, <2>1, FragmentsOfFacts
<1> HIDE DEF F
<1>6. {PacketOf(f) : f \in wire'} =
        IF first = c THEN Arriving ELSE Arriving \cup {n}
  <2>1. CASE first = c
    <3>1. first .. c - 1 = {}
      BY <1>2, <2>1
    <3> QED
      BY <1>3, <2>1, <3>1 DEF Arriving
  <2>2. CASE first # c
    <3>1. first \in first .. c - 1
      BY <1>2, <2>2
    <3> QED
      BY <1>3, <1>5, <2>2, <3>1 DEF Arriving
  <2> QED
    BY <2>1, <2>2
<1>7. first > 0 => n \in lost'
  BY <1>1, <1>3, BoundsAssumption DEF Recent, Inv, TypeInv
<1>8. Channel!DamagesOnly({n})
  <2>1. lost' \subseteq lost \cup {n}
    BY <1>3 DEF Recent
  <2>2. ASSUME NEW m \in lost, m \in {PacketOf(f) : f \in wire'}
        PROVE  m \in lost'
    <3>1. m \in Arriving \/ m = n
      BY <1>6, <2>2
    <3>2. m \in 1 .. sent
      BY DEF Inv, SenderInv
    <3>3. m \in Arriving
      BY <1>1, <3>1, <3>2 DEF Inv, TypeInv
    <3>4. sent - m <= MaxDelay
      BY <3>3 DEF Arriving, Inv, AgesInv
    <3> QED
      BY <1>3, <3>2, <3>4, BoundsAssumption DEF Recent, Inv, TypeInv
  <2> QED
    BY <2>1, <2>2 DEF Channel!DamagesOnly
<1>9. first = c => first > 0
  BY <1>2
<1> QED
  BY <1>1, <1>4, <1>6, <1>7, <1>8, <1>9
  DEF ChannelStep, Channel!Next, Channel!Send, Arriving

LEMMA LoseIsChannel ==
  ASSUME Timely, Inv, NEW f \in wire, Lose(f)
  PROVE  ChannelStep
<1>1. PICK n \in Nat : n = PacketOf(f) /\ n \in Arriving /\ n \in 1 .. sent /\ sent - n <= MaxDelay
  BY DEF Arriving, Inv, AgesInv
<1>2. /\ wire' = wire \ {f} /\ lost' = Recent(lost \cup {n})
      /\ delivered' = <<>> /\ sent' = sent
  BY <1>1 DEF Lose
<1>3. {PacketOf(g) : g \in wire'} \in {Arriving, Arriving \ {n}}
  BY <1>1, <1>2 DEF Arriving
<1>4. \A m \in lost \cup {n} : sent - m <= MaxDelay => m \in lost'
  BY <1>1, <1>2, BoundsAssumption DEF Recent, Inv, TypeInv, SenderInv
<1>5. \A m \in {PacketOf(g) : g \in wire'} : sent - m <= MaxDelay
  BY <1>2 DEF Inv, AgesInv
<1>6. n \in lost' /\ Channel!DamagesOnly({n})
  BY <1>1, <1>2, <1>4, <1>5 DEF Recent, Channel!DamagesOnly
<1> QED
  BY <1>1, <1>2, <1>3, <1>6 DEF ChannelStep, Channel!Next, Channel!Lose, Arriving

LEMMA ReceiveIsChannel ==
  ASSUME Timely, Inv, LossesInv, NEW f \in wire, Receive(f)
  PROVE  ChannelStep
<1>1. PICK n \in Nat \ {0} : n = PacketOf(f)
  BY SetFacts
<1>2. PICK size \in Sizes :
        /\ fragments[IndexOf(n)] \cup {f} \subseteq FragmentsOf(n, size)
        /\ WholeInv(n, size)
  BY <1>1, SetFacts
<1>3. PICK set : set = fragments[IndexOf(n)] \cup {f}
  OBVIOUS
<1>4. f.splittedDataIndex = IndexOf(n) /\ f.fragmentsCount = Count(size)
  BY <1>2, FragmentsOfFacts
<1>5. n \in Arriving /\ wire' = wire \ {f} /\ UNCHANGED <<sent, lost>>
  BY <1>1 DEF Arriving, Receive
<1>6. set = FragmentsOf(n, size) \/ n \in lost \/ \E g \in wire : PacketOf(g) = n /\ g # f
  BY <1>1, <1>2, <1>3, OthersInFlight
<1>7. CASE set = FragmentsOf(n, size)
  <2>1. Cardinality(set) = Count(size) /\ ~Corrupted(set)
    BY <1>2, <1>3, <1>7, CompleteSet
  <2>2. delivered' = FromFragments(set)
    BY <1>3, <1>4, <2>1 DEF Receive, HandleFragment
  <2>3. delivered' = Channel!Packet(n, size)
    BY <1>7, <2>2, JoinedFacts DEF Content, Channel!Packet
  <2>4. \A g \in wire : PacketOf(g) = n => g = f
    BY <1>1, <1>2, <1>3, <1>7, OthersInFlight
  <2>5. {PacketOf(g) : g \in wire'} = Arriving \ {n}
    BY <1>1, <1>5, <2>4 DEF Arriving
  <2>6. n \notin lost
    BY <1>1, <1>3, <1>7 DEF LossesInv
  <2> QED
    BY <1>5, <2>3, <2>5, <2>6 DEF ChannelStep, Channel!Next, Channel!Deliver, Arriving
<1>8. CASE set # FragmentsOf(n, size)
  <2>1. Cardinality(set) # Count(size)
    BY <1>2, <1>3, <1>8, CompleteSet
  <2>2. delivered' = <<>>
    BY <1>3, <1>4, <2>1 DEF Receive, HandleFragment
  <2>3. CASE \E g \in wire : PacketOf(g) = n /\ g # f
    <3>1. {PacketOf(g) : g \in wire'} = Arriving
      BY <1>1, <1>5, <2>3 DEF Arriving
    <3> QED
      BY <1>5, <2>2, <3>1 DEF ChannelStep, Channel!Next, Channel!Wait, Arriving
  <2>4. CASE n \in lost /\ ~ \E g \in wire : PacketOf(g) = n /\ g # f
    <3>1. {PacketOf(g) : g \in wire'} = Arriving \ {n}
      BY <1>1, <1>5, <2>4 DEF Arriving
    <3> QED
      BY <1>5, <2>2, <2>4, <3>1 DEF ChannelStep, Channel!Next, Channel!GiveUp, Arriving
  <2> QED
    BY <1>6, <1>8, <2>3, <2>4
<1> QED
  BY <1>7, <1>8

\* Connection::sendToTox, Connection::handleFragment and Data::fromFragments
\* together are a channel of whole packets: a packet is given to handleData
\* once, as it was sent, unless toxcore lost a part of it.
THEOREM ChannelIsImplemented ==
  ASSUME Timely
  PROVE  Spec => ImplementsChannel
<1>1. Init => late \/ Channel!Init
  BY DEF Init, Channel!Init
<1>2. (late \/ (Inv /\ LossesInv)) /\ [Next]_vars
        => [late \/ Channel!Next]_<<sent, wire, lost, delivered>>
  <2> SUFFICES ASSUME Inv, LossesInv, Next
               PROVE  ChannelStep
    BY DEF vars, ChannelStep
  <2> QED
    BY SendIsChannel, LoseIsChannel, ReceiveIsChannel DEF Next
<1> QED
  BY <1>1, <1>2, AlwaysMissed, PTL DEF Spec, ImplementsChannel

=============================================================================
