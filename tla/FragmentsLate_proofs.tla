-------------------------- MODULE FragmentsLate_proofs --------------------------
(***************************************************************************)
(* A fragment of an earlier connection that arrives late does harm once at  *)
(* most, to one packet, and not later than half a round of the set index:   *)
(* the erasure of old sets takes care of it as it does of the others.       *)
(***************************************************************************)
EXTENDS Fragments_proofs

Last0 == ByteValues \div 2 + MaxDelay + MaxLossRun

\* The fragment that may come late.
LateFragment ==
  UNION { { Fragment(Content(0, size), sdi, i) :
              sdi \in SetIndex, i \in 0 .. FragmentsCount(Content(0, size)) - 1 } :
          size \in Sizes }

-----------------------------------------------------------------------------
(* The inductive invariant, for a late fragment f0.                        *)

\* The late fragment is kept like one of the packet of this number: the only
\* one, at most Last0, that it can be mixed with, or, from before the
\* connection, the one whose set would be erased first.
Takes(f0) ==
  LET sdi == f0.splittedDataIndex
  IN  IF sdi + 1 <= Last0 THEN sdi + 1 ELSE sdi + 1 - ByteValues

Number(f0, f) == IF f = f0 THEN Takes(f0) ELSE PacketOf(f)

Slot(f0) == fragments[f0.splittedDataIndex]

LateSenderInv ==
  /\ nextFragmentIndex = sent % ByteValues
  /\ lost \subseteq 0 .. sent
  /\ ~ \E m \in 1 .. sent : m .. m + MaxLossRun \subseteq lost

LateAgesInv(f0) ==
  /\ \A f \in wire :
       /\ PacketOf(f) \in 0 .. sent /\ sent - PacketOf(f) <= MaxDelay
       /\ PacketOf(f) = 0 => f = f0
  /\ \A s \in SetIndex : \A f \in fragments[s] :
       /\ PacketOf(f) \in 0 .. sent
       /\ PacketOf(f) = 0 => f = f0
       /\ sent - Number(f0, f) <= ByteValues \div 2 + MaxDelay
       /\ IndexOf(Number(f0, f)) = s
       /\ f \notin wire

\* The packet n that the late fragment was mixed with has been erased before it
\* was complete, and with it all the sets that it had to erase.
Broken(f0, n) ==
  /\ n = Takes(f0)
  /\ f0 \notin wire /\ f0 \notin Slot(f0)
  /\ \A s \in SetIndex : \A f \in fragments[s] :
       ~ (/\ PacketOf(f) + ByteValues \div 2 - MaxLossRun <= n
          /\ n <= PacketOf(f) + ByteValues \div 2)

LatePacketInv(f0, n, size) ==
  /\ \A f \in wire \cup fragments[IndexOf(n)] : PacketOf(f) = n => f \in FragmentsOf(n, size)
  /\ InFlight(n) /\ n \notin lost
       => FragmentsOf(n, size) \subseteq wire \cup fragments[IndexOf(n)] \/ Broken(f0, n)
  /\ n = Takes(f0) /\ n > MaxDelay /\ f0 \in Slot(f0)
       => Cardinality(Slot(f0)) < Count(size)

LatePacketsInv(f0) == \A n \in 1 .. sent : \E size \in Sizes : LatePacketInv(f0, n, size)

LateKeptInv(f0) ==
  \A s \in SetIndex : \A f \in fragments[s] :
    \A m \in 1 .. sent :
      /\ Number(f0, f) + ByteValues \div 2 - MaxLossRun <= m
      /\ m <= Number(f0, f) + ByteValues \div 2
      => m \in lost \/ InFlight(m)

LateInv(f0) ==
  /\ TypeInv
  /\ LateSenderInv
  /\ LateAgesInv(f0)
  /\ LatePacketsInv(f0)
  /\ LateKeptInv(f0)
  /\ thrown = {}

\* What is joined is a packet, or the harm that the late fragment does.
PacketsIn(bytes) == {bytes[i][1] : i \in DOMAIN bytes}

HarmInv(f0) ==
  \/ DeliveredInv
  \/ Takes(f0) \in 1 .. Last0 /\ PacketsIn(delivered) = {0, Takes(f0)}

ThrownInv(f0) ==
  delivered = <<>> /\ Takes(f0) \in 1 .. Last0 /\ thrown = {0, Takes(f0)}

LateIInv == \E f0 \in LateFragment : (LateInv(f0) /\ HarmInv(f0)) \/ ThrownInv(f0)

-----------------------------------------------------------------------------
(* Where the late fragment is.                                             *)

\* A packet that must be split has two fragments at least.
LEMMA CountAboveOne ==
  ASSUME Timely, NEW size \in Sizes
  PROVE  size \in Nat /\ Count(size) \in 2 .. ByteValues - 1
<1> DEFINE p == PayloadSize
           c == Count(size)
<1>1. /\ p \in Nat \ {0} /\ size \in Nat /\ c \in Nat \ {0}
      /\ size <= c * p /\ c \in 1 .. ByteValues - 1
  BY SizeFacts, CountFitsByte
<1>2. size > p
  BY SizesAssumption, PacketAssumption DEF PayloadSize
<1> HIDE DEF p, c
<1>3. c # 1
  BY <1>1, <1>2
<1> QED
  BY <1>1, <1>3, ByteFacts DEF c

LEMMA LateFragmentFacts ==
  ASSUME Timely, NEW f0 \in LateFragment
  PROVE  /\ PacketOf(f0) = 0
         /\ f0.splittedDataIndex \in SetIndex
         /\ Takes(f0) \in Int /\ Takes(f0) <= Last0
         /\ IndexOf(Takes(f0)) = f0.splittedDataIndex
         /\ Takes(f0) + ByteValues \div 2 - MaxLossRun > MaxDelay
         /\ f0.fragmentsCount # 1
<1>1. PICK size \in Sizes :
        \E sdi \in SetIndex, i \in 0 .. FragmentsCount(Content(0, size)) - 1 :
          f0 = Fragment(Content(0, size), sdi, i)
  BY DEF LateFragment
<1> PICK sdi \in SetIndex, i \in 0 .. FragmentsCount(Content(0, size)) - 1 :
      f0 = Fragment(Content(0, size), sdi, i)
  BY <1>1
<1>2. PacketOf(f0) = 0
  BY FragmentIsOf
<1>3. /\ f0.splittedDataIndex = sdi
      /\ f0.fragmentsCount = FragmentsCount(Content(0, size)) % ByteValues
  BY DEF Fragment
<1>4. PICK h \in Nat :
        /\ h = ByteValues \div 2 /\ ByteValues = h + h
        /\ MaxDelay \in Nat \ {0}
        /\ MaxLossRun \in Nat /\ MaxLossRun <= 2
        /\ MaxDelay + 3 <= h
  BY BoundFacts
<1>5. sdi \in Int /\ 0 <= sdi /\ sdi <= ByteValues - 1 /\ sdi % ByteValues = sdi
  <2>1. sdi \in 0 .. ByteValues - 1
    BY DEF SetIndex
  <2>2. (ByteValues * 0 + sdi) % ByteValues = sdi
    BY <2>1, ByteFacts, DivisionUnique
  <2>3. ByteValues * 0 + sdi = sdi
    BY <2>1, ByteFacts
  <2> QED
    BY <2>1, <2>2, <2>3, ByteFacts
<1>6. /\ Takes(f0) \in Int /\ Takes(f0) <= Last0
      /\ Takes(f0) + h - MaxLossRun > MaxDelay
  BY <1>3, <1>4, <1>5 DEF Takes, Last0
<1>7. IndexOf(Takes(f0)) = sdi
  <2>1. CASE Takes(f0) = sdi + 1
    <3>1. sdi + 1 - 1 = sdi
      BY <1>5
    <3> QED
      BY <1>5, <2>1, <3>1 DEF IndexOf
  <2>2. CASE Takes(f0) = sdi + 1 - ByteValues
    <3>1. sdi + 1 - ByteValues - 1 = sdi + ByteValues * (-1)
      BY <1>4, <1>5
    <3>2. (sdi + ByteValues * (-1)) % ByteValues = sdi % ByteValues
      <4>1. -1 \in Int
        OBVIOUS
      <4> QED
        BY <1>5, <4>1, ByteFacts, RemainderShifted
    <3>3. Takes(f0) - 1 = sdi + ByteValues * (-1)
      BY <1>4, <1>5, <2>2, <3>1
    <3>4. IndexOf(Takes(f0)) = (Takes(f0) - 1) % ByteValues
      BY DEF IndexOf
    <3> QED
      BY <1>5, <3>2, <3>3, <3>4
  <2> QED
    BY <1>3, <2>1, <2>2 DEF Takes
<1>8. f0.fragmentsCount # 1
  <2>1. size \in Nat /\ Count(size) \in 2 .. ByteValues - 1
    BY CountAboveOne
  <2>2. FragmentsCount(Content(0, size)) = Count(size)
    BY <2>1, ContentFacts
  <2>3. \A x \in 0 .. ByteValues - 1 : x % ByteValues = x
    BY DivisionUnique, ByteFacts
  <2> QED
    BY <1>3, <2>1, <2>2, <2>3
<1> QED
  BY <1>2, <1>3, <1>4, <1>6, <1>7, <1>8

\* It can be mixed with one packet only.
LEMMA TakesOne ==
  ASSUME Timely, NEW f0 \in LateFragment, NEW n \in Nat \ {0},
         IndexOf(n) = f0.splittedDataIndex, n - Takes(f0) < ByteValues
  PROVE  n = Takes(f0)
<1> DEFINE sdi == f0.splittedDataIndex
<1>1. sdi \in Int /\ 0 <= sdi /\ sdi <= ByteValues - 1 /\ ByteValues \in Nat
  BY LateFragmentFacts, ByteFacts DEF SetIndex
<1>2. Takes(f0) = sdi + 1 \/ Takes(f0) = sdi + 1 - ByteValues
  BY DEF Takes
<1> HIDE DEF sdi
<1>3. n = sdi + 1
  <2>1. (n - 1) % ByteValues = sdi % ByteValues
    <3>1. sdi \in 0 .. ByteValues - 1 /\ 0 \in Int
      BY <1>1
    <3>2. (ByteValues * 0 + sdi) % ByteValues = sdi /\ ByteValues * 0 + sdi = sdi
      BY <1>1, <3>1, ByteFacts, DivisionUnique
    <3> QED
      BY <3>2 DEF IndexOf, sdi
  <2>2. (n - 1) - sdi < ByteValues /\ sdi - (n - 1) < ByteValues
    BY <1>1, <1>2
  <2>3. n - 1 \in Int
    OBVIOUS
  <2>4. n - 1 = sdi
    BY <1>1, <2>1, <2>2, <2>3, ByteFacts, RemaindersDiffer
  <2> QED
    BY <1>1, <2>4
<1> QED
  BY <1>1, <1>2, <1>3

\* What is kept is in the set of its number, and not too old.
LEMMA LateKeptFacts ==
  ASSUME Timely, NEW f0 \in LateFragment, LateInv(f0), NEW s \in SetIndex,
         NEW f \in fragments[s]
  PROVE  /\ Number(f0, f) \in Int
         /\ IndexOf(Number(f0, f)) = s
         /\ sent - Number(f0, f) <= ByteValues \div 2 + MaxDelay
         /\ f \notin wire
         /\ f = f0 => s = f0.splittedDataIndex
         /\ f # f0 => /\ Number(f0, f) = PacketOf(f)
                      /\ PacketOf(f) \in 1 .. sent /\ PacketOf(f) \in Nat \ {0}
<1>1. sent \in Nat
  BY DEF LateInv, TypeInv
<1>2. /\ PacketOf(f) \in 0 .. sent
      /\ PacketOf(f) = 0 => f = f0
      /\ sent - Number(f0, f) <= ByteValues \div 2 + MaxDelay
      /\ IndexOf(Number(f0, f)) = s
      /\ f \notin wire
  BY DEF LateInv, LateAgesInv
<1>3. Takes(f0) \in Int /\ IndexOf(Takes(f0)) = f0.splittedDataIndex
  BY LateFragmentFacts
<1> QED
  BY <1>1, <1>2, <1>3 DEF Number

\* What is in flight is young.
LEMMA LateWireFacts ==
  ASSUME Timely, NEW f0 \in LateFragment, LateInv(f0), NEW f \in wire
  PROVE  /\ sent \in Nat
         /\ PacketOf(f) \in 0 .. sent /\ PacketOf(f) \in Nat
         /\ sent - PacketOf(f) <= MaxDelay
         /\ f = f0 <=> PacketOf(f) = 0
<1>1. sent \in Nat
  BY DEF LateInv, TypeInv
<1>2. PacketOf(f0) = 0
  BY LateFragmentFacts
<1> QED
  BY <1>1, <1>2 DEF LateInv, LateAgesInv

\* A set holds fragments of one packet, and perhaps the late one.
LEMMA LateSlotFacts ==
  ASSUME Timely, NEW f0 \in LateFragment, LateInv(f0),
         NEW n \in Nat \ {0}, n <= sent, sent - n <= MaxDelay,
         NEW g \in fragments[IndexOf(n)]
  PROVE  /\ Number(f0, g) = n
         /\ g # f0 => PacketOf(g) = n
<1>1. PICK h \in Nat :
        /\ h = ByteValues \div 2 /\ ByteValues = h + h
        /\ MaxDelay \in Nat \ {0}
        /\ MaxLossRun \in Nat /\ MaxLossRun <= 2
        /\ MaxDelay + 3 <= h
  BY BoundFacts
<1>2. IndexOf(n) \in SetIndex
  BY IndexFacts
<1>3. sent \in Nat
  BY DEF LateInv, TypeInv
<1>4. /\ Number(f0, g) \in Int /\ IndexOf(Number(f0, g)) = IndexOf(n)
      /\ sent - Number(f0, g) <= ByteValues \div 2 + MaxDelay
      /\ g = f0 => IndexOf(n) = f0.splittedDataIndex
      /\ g # f0 => /\ Number(f0, g) = PacketOf(g)
                   /\ PacketOf(g) \in 1 .. sent /\ PacketOf(g) \in Nat \ {0}
  BY <1>2, LateKeptFacts
<1>5. CASE g = f0
  <2>1. Number(f0, g) = Takes(f0) /\ Takes(f0) \in Int
    BY <1>5, LateFragmentFacts DEF Number
  <2>2. n - Takes(f0) < ByteValues
    BY <1>1, <1>3, <1>4, <2>1
  <2>3. n = Takes(f0)
    BY <1>4, <1>5, <2>2, TakesOne
  <2> QED
    BY <1>5, <2>1, <2>3
<1>6. CASE g # f0
  <2>1. PICK k \in Nat \ {0} : k = PacketOf(g)
    BY <1>4, <1>6
  <2>2. n - k < ByteValues /\ k - n < ByteValues /\ IndexOf(n) = IndexOf(k)
    BY <1>1, <1>3, <1>4, <1>6, <2>1
  <2>3. n = k
    BY <2>2, SameIndex
  <2> QED
    BY <1>4, <1>6, <2>1, <2>3
<1> QED
  BY <1>5, <1>6

LEMMA LateAgeBounded ==
  ASSUME Timely, NEW f0 \in LateFragment, LateInv(f0), Punctual,
         NEW s \in SetIndex, NEW f \in fragments[s]
  PROVE  sent + 1 - Number(f0, f) <= ByteValues \div 2 + MaxDelay
<1>1. PICK h \in Nat :
        /\ h = ByteValues \div 2
        /\ MaxDelay \in Nat \ {0}
        /\ MaxLossRun \in Nat /\ MaxLossRun <= 2
        /\ MaxDelay + 3 <= h
  BY BoundFacts
<1>2. PICK k \in Int : k = Number(f0, f) /\ sent - k <= h + MaxDelay
  BY <1>1, LateKeptFacts
<1>3. sent \in Nat
  BY DEF LateInv, TypeInv
<1>4. k + h - MaxLossRun > MaxDelay \/ k >= 1
  BY <1>1, <1>2, LateFragmentFacts, LateKeptFacts DEF Number
<1> SUFFICES ASSUME sent = k + h + MaxDelay
             PROVE  FALSE
  BY <1>1, <1>2, <1>3
<1>5. k + h - MaxLossRun \in 1 .. sent
  BY <1>1, <1>2, <1>3, <1>4
<1>6. ASSUME NEW m \in k + h - MaxLossRun .. k + h - MaxLossRun + MaxLossRun
      PROVE  m \in lost
  <2>1. m \in 1 .. sent /\ k + h - MaxLossRun <= m /\ m <= k + h /\ ~(sent - m < MaxDelay)
    BY <1>1, <1>2, <1>3, <1>5
  <2>2. m \in lost \/ InFlight(m)
    BY <1>1, <1>2, <2>1 DEF LateInv, LateKeptInv
  <2>3. ~InFlight(m)
    BY <2>1 DEF InFlight, Punctual
  <2> QED
    BY <2>2, <2>3
<1>7. k + h - MaxLossRun .. k + h - MaxLossRun + MaxLossRun \subseteq lost
  BY <1>6
<1> QED
  BY <1>5, <1>7 DEF LateInv, LateSenderInv

-----------------------------------------------------------------------------
(* Sending, and losing.                                                    *)

LEMMA LateSendStep ==
  ASSUME Timely, NEW f0 \in LateFragment, LateInv(f0), NEW size \in Sizes, SendToTox(size)
  PROVE  LateInv(f0)'
<1> USE DEF LateInv
<1>0. PICK n \in Nat \ {0} : n = sent + 1
  BY DEF TypeInv
<1> DEFINE c == Count(size)
           F(i) == Fragment(Content(n, size), nextFragmentIndex, i)
<1>1. PICK h \in Nat :
        /\ h = ByteValues \div 2 /\ ByteValues = h + h
        /\ MaxDelay \in Nat \ {0}
        /\ MaxLossRun \in Nat /\ MaxLossRun <= 2
        /\ MaxDelay + 3 <= h
  BY BoundFacts
<1>2. /\ sent \in Nat /\ n = sent + 1
      /\ c \in 2 .. ByteValues - 1
      /\ nextFragmentIndex = IndexOf(n)
      /\ FragmentsCount(Content(n, size)) = c
  <2>1. sent \in Nat /\ nextFragmentIndex = sent % ByteValues
    BY DEF TypeInv, LateSenderInv
  <2>2. size \in Nat /\ c \in 2 .. ByteValues - 1
    BY CountAboveOne
  <2>3. sent % ByteValues = IndexOf(sent + 1)
    BY <2>1, NextIndex
  <2> QED
    BY <1>0, <2>1, <2>2, <2>3, ContentFacts
<1>3. /\ sent' = n /\ Punctual
      /\ UNCHANGED <<fragments, thrown>>
      /\ nextFragmentIndex' =
           IF nextFragmentIndex = ByteValues - 1 THEN 0 ELSE nextFragmentIndex + 1
  BY <1>0 DEF SendToTox
<1>4. PICK first \in 0 .. c :
        /\ first > 0 => MayLose(n)
        /\ wire' = wire \cup {F(i) : i \in first .. c - 1}
        /\ lost' = Recent(lost \cup (IF first > 0 THEN {n} ELSE {}))
  BY <1>2 DEF SendToTox
<1> DEFINE New == {F(i) : i \in first .. c - 1}
<1>5. /\ New \subseteq FragmentsOf(n, size)
      /\ first = 0 => New = FragmentsOf(n, size)
  BY <1>2 DEF FragmentsOf
<1>6. /\ \A f \in FragmentsOf(n, size) : PacketOf(f) = n
      /\ \E f \in FragmentsOf(n, size) : TRUE
  <2>1. 0 \in 0 .. c - 1
    BY <1>2, ByteFacts
  <2> QED
    BY <2>1, FragmentsOfFacts
<1>7. wire' = wire \cup New
  BY <1>4
<1>8. /\ first > 0 => n \in lost'
      /\ \A m \in lost : m >= sent - MaxDelay - MaxLossRun => m \in lost'
      /\ lost' \subseteq lost \cup (IF first > 0 THEN {n} ELSE {})
  BY <1>1, <1>2, <1>4 DEF Recent
<1> HIDE DEF New, F, c
<1>9. f0 \notin New /\ PacketOf(f0) = 0
  BY <1>5, <1>6, LateFragmentFacts
<1>10. TypeInv'
  BY <1>2, <1>3 DEF TypeInv
<1>11. LateSenderInv'
  <2>1. nextFragmentIndex' = sent' % ByteValues
    <3>1. (sent + 1) % ByteValues =
             IF sent % ByteValues = ByteValues - 1 THEN 0 ELSE (sent % ByteValues) + 1
      BY <1>2, NextIndex
    <3> QED
      BY <1>2, <1>3, <3>1 DEF LateSenderInv
  <2>2. lost' \subseteq 0 .. sent'
    BY <1>2, <1>3, <1>8 DEF LateSenderInv
  <2>3. ~ \E m \in 1 .. sent' : m .. m + MaxLossRun \subseteq lost'
    <3> SUFFICES ASSUME NEW m \in 1 .. n, m .. m + MaxLossRun \subseteq lost'
                 PROVE  FALSE
      BY <1>3
    <3>1. CASE first > 0
      <4>1. m .. m + MaxLossRun \subseteq lost \cup {n}
        BY <1>8, <3>1
      <4> QED
        BY <1>0, <1>4, <3>1, <4>1 DEF MayLose
    <3>2. CASE ~(first > 0)
      <4>1. m .. m + MaxLossRun \subseteq lost
        BY <1>8, <3>2
      <4>2. m \in lost
        BY <1>1, <1>2, <4>1
      <4>3. m \in 1 .. sent
        BY <1>2, <4>2 DEF LateSenderInv
      <4> QED
        BY <4>1, <4>3 DEF LateSenderInv
    <3> QED
      BY <3>1, <3>2
  <2> QED
    BY <2>1, <2>2, <2>3 DEF LateSenderInv
<1>12. LateAgesInv(f0)'
  <2>1. ASSUME NEW f \in wire'
        PROVE  /\ PacketOf(f) \in 0 .. sent' /\ sent' - PacketOf(f) <= MaxDelay
               /\ PacketOf(f) = 0 => f = f0
    <3>1. CASE f \in wire
      BY <1>1, <1>2, <1>3, <3>1 DEF LateAgesInv, Punctual
    <3>2. CASE f \in New
      BY <1>1, <1>2, <1>3, <1>5, <1>6, <3>2
    <3> QED
      BY <1>7, <3>1, <3>2
  <2>2. ASSUME NEW s \in SetIndex, NEW f \in fragments[s]
        PROVE  /\ PacketOf(f) \in 0 .. sent'
               /\ PacketOf(f) = 0 => f = f0
               /\ sent' - Number(f0, f) <= ByteValues \div 2 + MaxDelay
               /\ IndexOf(Number(f0, f)) = s
               /\ f \notin wire'
    <3>1. /\ PacketOf(f) \in 0 .. sent /\ IndexOf(Number(f0, f)) = s /\ f \notin wire
          /\ PacketOf(f) = 0 => f = f0
      BY DEF LateAgesInv
    <3>2. n - Number(f0, f) <= ByteValues \div 2 + MaxDelay
      <4>1. sent + 1 - Number(f0, f) <= ByteValues \div 2 + MaxDelay
        BY <1>3, LateAgeBounded
      <4>2. Number(f0, f) \in Int
        BY LateKeptFacts
      <4> QED
        BY <1>0, <1>1, <4>1, <4>2 DEF TypeInv
    <3>3. f \notin New
      BY <1>2, <1>5, <1>6, <3>1
    <3> QED
      BY <1>2, <1>3, <1>7, <3>1, <3>2, <3>3
  <2> QED
    BY <1>3, <2>1, <2>2 DEF LateAgesInv, Number
<1>13. LatePacketsInv(f0)'
  <2>1. LatePacketInv(f0, n, size)'
    <3>1. ASSUME NEW f \in wire' \cup fragments[IndexOf(n)], PacketOf(f) = n
          PROVE  f \in New
      <4>1. f \notin wire
        BY <1>2, <3>1, LateWireFacts
      <4>2. f \notin fragments[IndexOf(n)]
        BY <1>2, <3>1, IndexFacts DEF LateAgesInv
      <4> QED
        BY <1>7, <3>1, <4>1, <4>2
    <3>2. n \notin lost' => FragmentsOf(n, size) \subseteq wire'
      BY <1>5, <1>7, <1>8
    <3>3. ASSUME n = Takes(f0), f0 \in Slot(f0)
          PROVE  Cardinality(Slot(f0)) < Count(size)
      <4>1. /\ f0.splittedDataIndex \in SetIndex
            /\ IndexOf(n) = f0.splittedDataIndex
        BY <3>3, LateFragmentFacts
      <4>2. ASSUME NEW g \in Slot(f0), g # f0
            PROVE  FALSE
        <5>1. PICK k \in Nat \ {0} :
                k = PacketOf(g) /\ k <= sent /\ IndexOf(k) = IndexOf(n)
                /\ sent - k <= h + MaxDelay
          BY <1>1, <4>1, <4>2, LateKeptFacts DEF Slot
        <5>2. n - k < ByteValues /\ k - n < ByteValues
          BY <1>1, <1>2, <5>1
        <5>3. n = k
          BY <5>1, <5>2, SameIndex
        <5> QED
          BY <1>2, <5>1, <5>3
      <4>3. Slot(f0) = {f0}
        BY <3>3, <4>2
      <4>4. Cardinality(Slot(f0)) = 1
        BY <4>3, FS_Singleton
      <4> QED
        BY <1>2, <4>4 DEF c
    <3> QED
      BY <1>3, <1>5, <3>1, <3>2, <3>3 DEF LatePacketInv, Slot
  <2>2. ASSUME NEW m \in 1 .. sent, NEW z \in Sizes, LatePacketInv(f0, m, z)
        PROVE  LatePacketInv(f0, m, z)'
    <3>1. \A f \in New : PacketOf(f) # m
      BY <1>2, <1>5, <1>6
    <3>2. InFlight(m)' => InFlight(m) /\ (m \notin lost' => m \notin lost)
      <4>1. InFlight(m)' => InFlight(m)
        BY <1>7, <3>1 DEF InFlight
      <4>2. InFlight(m) => sent - m <= MaxDelay
        BY DEF InFlight, LateAgesInv
      <4> QED
        BY <1>1, <1>2, <1>8, <4>1, <4>2
    <3>3. Broken(f0, m) => Broken(f0, m)'
      BY <1>3, <1>7, <1>9 DEF Broken, Slot
    <3> QED
      BY <1>3, <1>7, <2>2, <3>1, <3>2, <3>3 DEF LatePacketInv, Slot
  <2> QED
    BY <1>2, <1>3, <2>1, <2>2 DEF LatePacketsInv
<1>14. LateKeptInv(f0)'
  <2> SUFFICES ASSUME NEW s \in SetIndex, NEW f \in fragments[s], NEW m \in 1 .. n,
                      Number(f0, f) + h - MaxLossRun <= m, m <= Number(f0, f) + h
               PROVE  m \in lost' \/ InFlight(m)'
    BY <1>1, <1>3 DEF LateKeptInv, Number
  <2>1. CASE m = n
    <3>1. first = 0 => InFlight(n)'
      BY <1>5, <1>6, <1>7 DEF InFlight
    <3> QED
      BY <1>4, <1>8, <2>1, <3>1
  <2>2. CASE m # n
    <3>1. m \in 1 .. sent
      BY <1>2, <2>2
    <3>2. m \in lost \/ InFlight(m)
      BY <1>1, <3>1 DEF LateKeptInv
    <3>3. m >= sent - MaxDelay - MaxLossRun
      BY <1>1, <1>2, <3>1, LateKeptFacts
    <3> QED
      BY <1>7, <1>8, <3>2, <3>3 DEF InFlight
  <2> QED
    BY <2>1, <2>2
<1> QED
  BY <1>3, <1>10, <1>11, <1>12, <1>13, <1>14

LEMMA LateLoseStep ==
  ASSUME Timely, NEW f0 \in LateFragment, LateInv(f0), NEW f \in wire, Lose(f)
  PROVE  LateInv(f0)'
<1> USE DEF LateInv
<1>1. PICK n : n = PacketOf(f)
  OBVIOUS
<1>2. /\ sent \in Nat /\ n \in 0 .. sent /\ sent - n <= MaxDelay
      /\ MaxDelay \in Nat /\ MaxLossRun \in Nat
  BY <1>1, BoundsAssumption DEF TypeInv, LateAgesInv
<1>3. /\ UNCHANGED <<sent, nextFragmentIndex, fragments, thrown>>
      /\ MayLose(n) /\ wire' = wire \ {f} /\ lost' = Recent(lost \cup {n})
  BY <1>1 DEF Lose
<1>4. /\ n \in lost'
      /\ \A m \in lost : m >= sent - MaxDelay - MaxLossRun => m \in lost'
      /\ lost' \subseteq lost \cup {n}
  BY <1>2, <1>3 DEF Recent
<1>5. TypeInv'
  BY <1>3 DEF TypeInv
<1>6. LateSenderInv'
  <2>1. lost' \subseteq 0 .. sent
    BY <1>2, <1>4 DEF LateSenderInv
  <2>2. ~ \E m \in 1 .. sent : m .. m + MaxLossRun \subseteq lost'
    <3> SUFFICES ASSUME NEW m \in 1 .. sent, m .. m + MaxLossRun \subseteq lost'
                 PROVE  FALSE
      OBVIOUS
    <3>1. m \in 1 .. sent + 1 /\ m .. m + MaxLossRun \subseteq lost \cup {n}
      BY <1>2, <1>4
    <3> QED
      BY <1>3, <3>1 DEF MayLose
  <2> QED
    BY <1>3, <2>1, <2>2 DEF LateSenderInv
<1>7. LateAgesInv(f0)'
  BY <1>3 DEF LateAgesInv, Number
<1>8. LatePacketsInv(f0)'
  <2>1. ASSUME NEW m \in 1 .. sent, NEW z \in Sizes, LatePacketInv(f0, m, z)
        PROVE  LatePacketInv(f0, m, z)'
    <3>1. Broken(f0, m) => Broken(f0, m)'
      BY <1>3 DEF Broken, Slot
    <3>2. CASE m = n
      BY <1>3, <1>4, <2>1, <3>2 DEF LatePacketInv, Slot
    <3>3. CASE m # n
      <4>1. f \notin FragmentsOf(m, z)
        BY <1>1, <1>2, <3>3, FragmentsOfFacts
      <4>2. InFlight(m)' => InFlight(m) /\ (m \notin lost' => m \notin lost)
        <5>1. InFlight(m)' => InFlight(m)
          BY <1>3 DEF InFlight
        <5>2. InFlight(m) => sent - m <= MaxDelay
          BY DEF InFlight, LateAgesInv
        <5> QED
          BY <1>2, <1>4, <5>1, <5>2
      <4> QED
        BY <1>3, <2>1, <3>1, <4>1, <4>2 DEF LatePacketInv, Slot
    <3> QED
      BY <3>2, <3>3
  <2> QED
    BY <1>3, <2>1 DEF LatePacketsInv
<1>9. LateKeptInv(f0)'
  <2> SUFFICES ASSUME NEW s \in SetIndex, NEW g \in fragments[s], NEW m \in 1 .. sent,
                      Number(f0, g) + ByteValues \div 2 - MaxLossRun <= m,
                      m <= Number(f0, g) + ByteValues \div 2
               PROVE  m \in lost' \/ InFlight(m)'
    BY <1>3 DEF LateKeptInv, Number
  <2>1. m \in lost \/ InFlight(m)
    BY DEF LateKeptInv
  <2>2. m >= sent - MaxDelay - MaxLossRun
    BY <1>2, ByteFacts, LateKeptFacts
  <2> QED
    BY <1>1, <1>3, <1>4, <2>1, <2>2 DEF InFlight
<1> QED
  BY <1>3, <1>5, <1>6, <1>7, <1>8, <1>9

-----------------------------------------------------------------------------
(* Receiving.                                                              *)

\* A fragment that arrives goes to a set of its number.
LEMMA LateSetFacts ==
  ASSUME Timely, NEW f0 \in LateFragment, LateInv(f0), NEW f \in wire,
         NEW sdi, sdi = f.splittedDataIndex, NEW n, n = Number(f0, f)
  PROVE  /\ sdi \in SetIndex /\ f \notin fragments[sdi]
         /\ n \in Int /\ IndexOf(n) = sdi
         /\ sent - n <= ByteValues \div 2 + MaxDelay
         /\ n + ByteValues \div 2 - MaxLossRun > sent
         /\ \A g \in fragments[sdi] :
              /\ Number(f0, g) = n
              /\ g # f0 => /\ PacketOf(g) = n /\ n \in Nat \ {0} /\ n <= sent
                           /\ sent - n <= MaxDelay
         /\ f = f0 => sent <= MaxDelay
         /\ f # f0 => /\ PacketOf(f) = n /\ n \in Nat \ {0} /\ n <= sent
                      /\ sent - n <= MaxDelay
<1>1. PICK h \in Nat :
        /\ h = ByteValues \div 2 /\ ByteValues = h + h
        /\ MaxDelay \in Nat \ {0}
        /\ MaxLossRun \in Nat /\ MaxLossRun <= 2
        /\ MaxDelay + 3 <= h
  BY BoundFacts
<1>2. /\ sent \in Nat
      /\ PacketOf(f) \in 0 .. sent /\ PacketOf(f) \in Nat
      /\ sent - PacketOf(f) <= MaxDelay
      /\ f = f0 <=> PacketOf(f) = 0
  BY LateWireFacts
<1>3. CASE f = f0
  <2>1. /\ PacketOf(f0) = 0 /\ sdi \in SetIndex
        /\ n \in Int /\ n = Takes(f0)
        /\ IndexOf(n) = sdi
        /\ n + h - MaxLossRun > MaxDelay
    BY <1>1, <1>3, LateFragmentFacts DEF Number
  <2>2. sent <= MaxDelay
    BY <1>2, <1>3
  <2>3. f \notin fragments[sdi]
    BY <1>3, <2>1, LateKeptFacts
  <2>4. ASSUME NEW g \in fragments[sdi]
        PROVE  /\ Number(f0, g) = n
               /\ g # f0 => /\ PacketOf(g) = n /\ n \in Nat \ {0} /\ n <= sent
                            /\ sent - n <= MaxDelay
    <3>1. g # f0
      BY <1>3, <2>3
    <3>2. PICK k \in Nat \ {0} :
            k = PacketOf(g) /\ k <= sent /\ IndexOf(k) = sdi /\ Number(f0, g) = k
      BY <2>1, <3>1, LateKeptFacts
    <3>3. k - Takes(f0) < ByteValues
      BY <1>1, <1>2, <2>1, <2>2, <3>2
    <3>4. k = n
      BY <1>3, <2>1, <3>2, <3>3, TakesOne
    <3> QED
      BY <1>1, <1>2, <2>2, <3>2, <3>4
  <2> QED
    BY <1>1, <1>2, <1>3, <2>1, <2>2, <2>3, <2>4
<1>4. CASE f # f0
  <2>1. /\ PacketOf(f) = n /\ n \in Nat \ {0} /\ n \in 1 .. sent
        /\ sent - n <= MaxDelay
    BY <1>2, <1>4 DEF Number
  <2>2. PICK size \in Sizes : LatePacketInv(f0, n, size)
    BY <2>1 DEF LateInv, LatePacketsInv
  <2>3. f \in FragmentsOf(n, size)
    BY <2>1, <2>2 DEF LatePacketInv
  <2>4. IndexOf(n) = sdi /\ sdi \in SetIndex
    BY <2>1, <2>3, FragmentsOfFacts, IndexFacts
  <2>5. f \notin fragments[sdi]
    BY <2>4, LateKeptFacts
  <2>6. ASSUME NEW g \in fragments[sdi]
        PROVE  Number(f0, g) = n /\ (g # f0 => PacketOf(g) = n)
    BY <1>2, <2>1, <2>4, LateSlotFacts
  <2>7. n + h - MaxLossRun > sent /\ sent - n <= h + MaxDelay /\ n <= sent
    BY <1>1, <1>2, <2>1
  <2> QED
    BY <1>1, <1>4, <2>1, <2>4, <2>5, <2>6, <2>7
<1> QED
  BY <1>3, <1>4

\* A set that is complete is erased with the sets of half a round earlier.
LEMMA LateCompleteStep ==
  ASSUME Timely, NEW f0 \in LateFragment, LateInv(f0), NEW f \in wire, Receive(f),
         NEW n \in Nat \ {0}, n <= sent, sent - n <= MaxDelay, PacketOf(f) \in {0, n},
         IndexOf(n) = f.splittedDataIndex,
         Cardinality(fragments[IndexOf(n)] \cup {f}) = f.fragmentsCount,
         thrown' = {},
         \/ \A g \in wire : PacketOf(g) = n => g = f
         \/ (n = Takes(f0) /\ f0 \in fragments[IndexOf(n)] \cup {f})
  PROVE  LateInv(f0)'
<1> USE DEF LateInv
<1>1. PICK h \in Nat :
        /\ h = ByteValues \div 2 /\ ByteValues = h + h
        /\ MaxDelay \in Nat \ {0}
        /\ MaxLossRun \in Nat /\ MaxLossRun <= 2
        /\ MaxDelay + 3 <= h
  BY BoundFacts
<1>2. /\ sent \in Nat /\ n \in 1 .. sent
      /\ IndexOf(n) \in SetIndex
      /\ DOMAIN fragments = SetIndex
  BY IndexFacts DEF TypeInv
<1>3. /\ UNCHANGED <<sent, nextFragmentIndex, lost>>
      /\ wire' = wire \ {f}
      /\ fragments' = [s \in SetIndex |->
           IF s \in {IndexOf(n)} \cup Prune(IndexOf(n)) THEN {} ELSE fragments[s]]
  BY <1>2 DEF Receive, HandleFragment
<1>4. \A s \in SetIndex :
        /\ fragments'[s] \subseteq fragments[s]
        /\ s \notin {IndexOf(n)} \cup Prune(IndexOf(n)) => fragments'[s] = fragments[s]
        /\ s \in {IndexOf(n)} \cup Prune(IndexOf(n)) => fragments'[s] = {}
  BY <1>3
<1>5. /\ f0.splittedDataIndex \in SetIndex /\ PacketOf(f0) = 0
      /\ IndexOf(Takes(f0)) = f0.splittedDataIndex
  BY LateFragmentFacts
<1>6. TypeInv'
  BY <1>2, <1>3 DEF TypeInv
<1>7. LateSenderInv'
  BY <1>3 DEF LateSenderInv
<1>8. LateAgesInv(f0)'
  BY <1>3, <1>4 DEF LateAgesInv, Number
<1>9. ASSUME n = Takes(f0), f0 \in fragments[IndexOf(n)] \cup {f}
      PROVE  Broken(f0, n)'
  <2>1. f0 \notin wire'
    BY <1>2, <1>3, <1>9 DEF LateAgesInv
  <2>2. f0 \notin Slot(f0)'
    BY <1>2, <1>4, <1>5, <1>9 DEF Slot
  <2>3. ASSUME NEW s \in SetIndex, NEW g \in fragments'[s],
               PacketOf(g) + ByteValues \div 2 - MaxLossRun <= n,
               n <= PacketOf(g) + ByteValues \div 2
        PROVE  FALSE
    <3>1. g \in fragments[s]
      BY <1>4
    <3>2. g # f0
      <4> SUFFICES ASSUME g = f0
                   PROVE  FALSE
        OBVIOUS
      <4>1. s = f0.splittedDataIndex
        BY <3>1, LateKeptFacts
      <4> QED
        BY <2>2, <2>3, <4>1 DEF Slot
    <3>3. PICK k \in Nat \ {0} : k = PacketOf(g) /\ IndexOf(k) = s
      BY <3>1, <3>2, LateKeptFacts
    <3>4. k + ByteValues \div 2 - 2 <= n /\ n <= k + ByteValues \div 2 /\ k \in Int
      BY <1>1, <2>3, <3>3
    <3>5. s \in Prune(IndexOf(n))
      BY <3>3, <3>4, PruneHits
    <3> QED
      BY <1>4, <2>3, <3>5
  <2> QED
    BY <1>9, <2>1, <2>2, <2>3 DEF Broken
<1>10. ASSUME NEW m \in 1 .. sent, NEW z \in Sizes, LatePacketInv(f0, m, z)
       PROVE  LatePacketInv(f0, m, z)'
  <2>1. IndexOf(m) \in SetIndex /\ m \in Nat \ {0}
    BY <1>2, IndexFacts
  <2>2. \A g \in wire' \cup fragments'[IndexOf(m)] :
          PacketOf(g) = m => g \in FragmentsOf(m, z)
    BY <1>3, <1>4, <1>10, <2>1 DEF LatePacketInv
  <2>3. ASSUME InFlight(m)', m \notin lost'
        PROVE  FragmentsOf(m, z) \subseteq wire' \cup fragments'[IndexOf(m)] \/ Broken(f0, m)'
    <3>1. InFlight(m) /\ m \notin lost /\ sent - m <= MaxDelay
      BY <1>3, <2>3 DEF InFlight, LateAgesInv
    <3>2. CASE m = n
      <4>1. ~ \A g \in wire : PacketOf(g) = n => g = f
        BY <1>3, <2>3, <3>2 DEF InFlight
      <4> QED
        BY <1>9, <3>2, <4>1
    <3>3. CASE Broken(f0, m)
      <4>1. f0 \notin wire' /\ f0 \notin Slot(f0)'
        BY <1>3, <1>4, <1>5, <3>3 DEF Broken, Slot
      <4> QED
        BY <1>4, <3>3, <4>1 DEF Broken
    <3>4. CASE m # n /\ FragmentsOf(m, z) \subseteq wire \cup fragments[IndexOf(m)]
      <4>1. n - m <= MaxDelay /\ m - n <= MaxDelay
        BY <1>1, <1>2, <3>1
      <4>2. IndexOf(m) \notin Prune(IndexOf(n))
        BY <2>1, <4>1, PruneMisses
      <4>3. n - m < ByteValues /\ m - n < ByteValues
        BY <1>1, <1>2, <4>1
      <4>4. IndexOf(m) # IndexOf(n)
        BY <2>1, <3>4, <4>3, SameIndex
      <4>5. f \notin FragmentsOf(m, z)
        BY <2>1, <3>4, FragmentsOfFacts
      <4> QED
        BY <1>3, <1>4, <2>1, <3>4, <4>2, <4>4, <4>5
    <3> QED
      BY <1>10, <3>1, <3>2, <3>3, <3>4 DEF LatePacketInv
  <2>4. ASSUME m = Takes(f0), m > MaxDelay, f0 \in Slot(f0)'
        PROVE  Cardinality(Slot(f0)') < Count(z)
    <3>1. Slot(f0)' = Slot(f0)
      BY <1>4, <1>5, <2>4 DEF Slot
    <3> QED
      BY <1>10, <2>4, <3>1 DEF LatePacketInv
  <2> QED
    BY <2>2, <2>3, <2>4 DEF LatePacketInv
<1>11. LatePacketsInv(f0)'
  BY <1>3, <1>10 DEF LatePacketsInv
<1>12. LateKeptInv(f0)'
  <2> SUFFICES ASSUME NEW s \in SetIndex, NEW g \in fragments'[s], NEW m \in 1 .. sent,
                      Number(f0, g) + h - MaxLossRun <= m, m <= Number(f0, g) + h
               PROVE  m \in lost' \/ InFlight(m)'
    BY <1>1, <1>3 DEF LateKeptInv, Number
  <2>1. g \in fragments[s]
    BY <1>4
  <2>2. m \in lost \/ InFlight(m)
    BY <1>1, <2>1 DEF LateKeptInv
  <2>3. m # n
    <3> SUFFICES ASSUME m = n
                 PROVE  FALSE
      OBVIOUS
    <3>1. PICK k \in Int : k = Number(f0, g) /\ IndexOf(k) = s
      BY <2>1, LateKeptFacts
    <3>2. k + ByteValues \div 2 - 2 <= n /\ n <= k + ByteValues \div 2
      BY <1>1, <1>2, <3>1
    <3>3. s \in Prune(IndexOf(n))
      BY <3>1, <3>2, PruneHits
    <3> QED
      BY <1>4, <3>3
  <2>4. m # PacketOf(f)
    BY <2>3
  <2> QED
    BY <1>3, <2>2, <2>4 DEF InFlight
<1> QED
  BY <1>6, <1>7, <1>8, <1>11, <1>12

\* A set that is incomplete is kept.
LEMMA LateIncompleteStep ==
  ASSUME Timely, NEW f0 \in LateFragment, LateInv(f0), NEW f \in wire, Receive(f),
         Cardinality(fragments[f.splittedDataIndex] \cup {f}) # f.fragmentsCount
  PROVE  LateInv(f0)'
<1> USE DEF LateInv
<1>1. PICK h \in Nat :
        /\ h = ByteValues \div 2 /\ ByteValues = h + h
        /\ MaxDelay \in Nat \ {0}
        /\ MaxLossRun \in Nat /\ MaxLossRun <= 2
        /\ MaxDelay + 3 <= h
  BY BoundFacts
<1>2. PICK sdi : sdi = f.splittedDataIndex
  OBVIOUS
<1>3. PICK n : n = Number(f0, f)
  OBVIOUS
<1>4. /\ sdi \in SetIndex /\ f \notin fragments[sdi]
      /\ n \in Int /\ IndexOf(n) = sdi
      /\ sent - n <= ByteValues \div 2 + MaxDelay
      /\ n + ByteValues \div 2 - MaxLossRun > sent
      /\ \A g \in fragments[sdi] :
           /\ Number(f0, g) = n
           /\ g # f0 => PacketOf(g) = n
      /\ f = f0 => sent <= MaxDelay
      /\ f # f0 => PacketOf(f) = n /\ n \in Nat \ {0} /\ n <= sent
  BY <1>2, <1>3, LateSetFacts
<1>5. /\ sent \in Nat /\ PacketOf(f) \in 0 .. sent /\ (PacketOf(f) = 0 => f = f0)
      /\ DOMAIN fragments = SetIndex
  BY LateWireFacts DEF TypeInv
<1>6. /\ UNCHANGED <<sent, nextFragmentIndex, lost, thrown>>
      /\ wire' = wire \ {f}
      /\ fragments' = [fragments EXCEPT ![sdi] = fragments[sdi] \cup {f}]
  BY <1>2 DEF Receive, HandleFragment
<1>7. /\ fragments'[sdi] = fragments[sdi] \cup {f}
      /\ \A s \in SetIndex : s # sdi => fragments'[s] = fragments[s]
      /\ fragments' = [s \in SetIndex |-> fragments'[s]]
  BY <1>4, <1>5, <1>6
<1>8. /\ f0.splittedDataIndex \in SetIndex /\ PacketOf(f0) = 0
      /\ Takes(f0) \in Int
  BY LateFragmentFacts
<1>9. TypeInv'
  BY <1>5, <1>6, <1>7 DEF TypeInv
<1>10. LateSenderInv'
  BY <1>6 DEF LateSenderInv
<1>11. LateAgesInv(f0)'
  <2>1. ASSUME NEW s \in SetIndex, NEW g \in fragments'[s]
        PROVE  /\ PacketOf(g) \in 0 .. sent
               /\ PacketOf(g) = 0 => g = f0
               /\ sent - Number(f0, g) <= ByteValues \div 2 + MaxDelay
               /\ IndexOf(Number(f0, g)) = s
               /\ g \notin wire'
    <3>1. CASE g \in fragments[s]
      BY <1>6, <3>1 DEF LateAgesInv
    <3>2. CASE g = f /\ s = sdi
      BY <1>3, <1>4, <1>5, <1>6, <3>2
    <3> QED
      BY <1>7, <3>1, <3>2
  <2>2. \A g \in wire' : /\ PacketOf(g) \in 0 .. sent /\ sent - PacketOf(g) <= MaxDelay
                         /\ PacketOf(g) = 0 => g = f0
    BY <1>6 DEF LateAgesInv
  <2> QED
    BY <1>6, <2>1, <2>2 DEF LateAgesInv, Number
<1>12. ASSUME NEW m \in 1 .. sent, NEW z \in Sizes, LatePacketInv(f0, m, z)
       PROVE  LatePacketInv(f0, m, z)'
  <2>1. IndexOf(m) \in SetIndex /\ m \in Nat \ {0}
    BY <1>5, IndexFacts
  <2>2. wire' \cup fragments'[IndexOf(m)] \subseteq wire \cup fragments[IndexOf(m)]
    BY <1>6, <1>7, <2>1
  <2>3. f \in FragmentsOf(m, z) => IndexOf(m) = sdi /\ f.fragmentsCount = Count(z)
    BY <1>2, <2>1, FragmentsOfFacts
  <2>4. ASSUME InFlight(m)', m \notin lost'
        PROVE  FragmentsOf(m, z) \subseteq wire' \cup fragments'[IndexOf(m)] \/ Broken(f0, m)'
    <3>1. InFlight(m) /\ m \notin lost
      BY <1>6, <2>4 DEF InFlight
    <3>2. CASE FragmentsOf(m, z) \subseteq wire \cup fragments[IndexOf(m)]
      <4> SUFFICES ASSUME NEW g \in FragmentsOf(m, z)
                   PROVE  g \in wire' \cup fragments'[IndexOf(m)]
        OBVIOUS
      <4>1. fragments[IndexOf(m)] \subseteq fragments'[IndexOf(m)]
        BY <1>7, <2>1
      <4> QED
        BY <1>6, <1>7, <2>3, <3>2, <4>1
    <3>3. CASE Broken(f0, m)
      <4>1. f # f0
        BY <3>3 DEF Broken
      <4>2. f0 \notin wire' /\ f0 \notin Slot(f0)'
        BY <1>6, <1>7, <1>8, <3>3, <4>1 DEF Broken, Slot
      <4>3. ASSUME NEW s \in SetIndex, NEW g \in fragments'[s],
                   PacketOf(g) + ByteValues \div 2 - MaxLossRun <= m,
                   m <= PacketOf(g) + ByteValues \div 2
            PROVE  FALSE
        <5>1. CASE g \in fragments[s]
          BY <3>3, <4>3, <5>1 DEF Broken
        <5>2. CASE g = f
          <6>1. PacketOf(g) = n
            BY <1>4, <4>1, <5>2
          <6>2. n + h - MaxLossRun > sent /\ n + h - MaxLossRun <= m
            BY <1>1, <1>4, <4>3, <6>1
          <6> QED
            BY <1>1, <1>4, <1>5, <6>2
        <5> QED
          BY <1>7, <5>1, <5>2
      <4> QED
        BY <3>3, <4>2, <4>3 DEF Broken
    <3> QED
      BY <1>12, <3>1, <3>2, <3>3 DEF LatePacketInv
  <2>5. ASSUME m = Takes(f0), m > MaxDelay, f0 \in Slot(f0)'
        PROVE  Cardinality(Slot(f0)') < Count(z)
    <3>1. f # f0
      BY <1>1, <1>4, <1>5, <2>5
    <3>2. f0 \in Slot(f0) /\ Cardinality(Slot(f0)) < Count(z)
      <4>1. f0 \in Slot(f0)
        BY <1>7, <1>8, <2>5, <3>1 DEF Slot
      <4> QED
        BY <1>12, <2>5, <4>1 DEF LatePacketInv
    <3>3. CASE sdi # f0.splittedDataIndex
      BY <1>7, <1>8, <3>2, <3>3 DEF Slot
    <3>4. CASE sdi = f0.splittedDataIndex
      <4>1. n = Takes(f0)
        BY <1>4, <3>2, <3>4 DEF Slot, Number
      <4>2. f \in FragmentsOf(m, z)
        BY <1>4, <1>12, <2>5, <3>1, <4>1 DEF LatePacketInv
      <4>3. Slot(f0) \subseteq FragmentsOf(m, z) \cup {f0}
        <5> SUFFICES ASSUME NEW g \in Slot(f0), g # f0
                     PROVE  g \in FragmentsOf(m, z)
          OBVIOUS
        <5>1. g \in fragments[IndexOf(m)] /\ PacketOf(g) = m
          BY <1>4, <2>5, <3>4, <4>1 DEF Slot
        <5> QED
          BY <1>12, <5>1 DEF LatePacketInv
      <4>4. IsFiniteSet(Slot(f0))
        <5>1. IsFiniteSet(FragmentsOf(m, z))
          BY <2>1, FragmentsOfFacts
        <5>2. IsFiniteSet(FragmentsOf(m, z) \cup {f0})
          BY <5>1, FS_AddElement
        <5> QED
          BY <4>3, <5>2, FS_Subset
      <4>5. Slot(f0)' = Slot(f0) \cup {f} /\ f \notin Slot(f0)
        BY <1>4, <1>7, <3>4 DEF Slot
      <4>6. /\ Cardinality(Slot(f0) \cup {f}) = Cardinality(Slot(f0)) + 1
            /\ Cardinality(Slot(f0)) \in Nat
        BY <4>4, <4>5, FS_AddElement, FS_CardinalityType
      <4>7. Cardinality(Slot(f0) \cup {f}) # Count(z)
        BY <1>2, <2>3, <3>4, <4>2 DEF Slot
      <4>8. Count(z) \in Nat
        BY SizeFacts
      <4> QED
        BY <3>2, <4>5, <4>6, <4>7, <4>8
    <3> QED
      BY <3>3, <3>4
  <2>6. \A g \in wire' \cup fragments'[IndexOf(m)] :
          PacketOf(g) = m => g \in FragmentsOf(m, z)
    BY <1>12, <2>2 DEF LatePacketInv
  <2> QED
    BY <2>4, <2>5, <2>6 DEF LatePacketInv
<1>13. LatePacketsInv(f0)'
  BY <1>6, <1>12 DEF LatePacketsInv
<1>14. LateKeptInv(f0)'
  <2> SUFFICES ASSUME NEW s \in SetIndex, NEW g \in fragments'[s], NEW m \in 1 .. sent,
                      Number(f0, g) + h - MaxLossRun <= m, m <= Number(f0, g) + h
               PROVE  m \in lost' \/ InFlight(m)'
    BY <1>1, <1>6 DEF LateKeptInv, Number
  <2>1. g \in fragments[s]
    <3> SUFFICES ASSUME g = f, s = sdi
                 PROVE  FALSE
      BY <1>7
    <3>1. n + h - MaxLossRun <= m /\ n + h - MaxLossRun > sent
      BY <1>1, <1>3, <1>4
    <3> QED
      BY <1>1, <1>4, <1>5, <3>1
  <2>2. m \in lost \/ InFlight(m)
    BY <1>1, <2>1 DEF LateKeptInv
  <2>3. CASE m # PacketOf(f)
    BY <1>6, <2>2, <2>3 DEF InFlight
  <2>4. CASE m = PacketOf(f) /\ m \notin lost
    <3>1. /\ f # f0 /\ m = n /\ m \in Nat \ {0} /\ PacketOf(f) = m
          /\ IndexOf(m) = sdi /\ InFlight(m)
      BY <1>4, <1>5, <1>8, <2>2, <2>4
    <3>2. PICK z \in Sizes : LatePacketInv(f0, m, z)
      BY DEF LatePacketsInv
    <3>3. /\ f \in FragmentsOf(m, z)
          /\ \A x \in wire \cup fragments[sdi] : PacketOf(x) = m => x \in FragmentsOf(m, z)
      BY <3>1, <3>2 DEF LatePacketInv
    <3>4. /\ f.fragmentsCount = Count(z)
          /\ \A x \in FragmentsOf(m, z) : PacketOf(x) = m
          /\ IsFiniteSet(FragmentsOf(m, z))
          /\ Cardinality(FragmentsOf(m, z)) = Count(z)
      BY <3>1, <3>3, FragmentsOfFacts
    <3>5. ~Broken(f0, m)
      <4> SUFFICES ASSUME Broken(f0, m)
                   PROVE  FALSE
        OBVIOUS
      <4>1. g # f0
        <5> SUFFICES ASSUME g = f0
                     PROVE  FALSE
          OBVIOUS
        <5>1. s = f0.splittedDataIndex
          BY <2>1, LateKeptFacts
        <5> QED
          BY <2>1, <5>1 DEF Broken, Slot
      <4> QED
        BY <1>1, <2>1, <4>1 DEF Broken, Number
    <3>6. FragmentsOf(m, z) \subseteq wire \cup fragments[sdi]
      BY <2>4, <3>1, <3>2, <3>5 DEF LatePacketInv
    <3>7. FragmentsOf(m, z) # (fragments[sdi] \ {f0}) \cup {f}
      <4> SUFFICES ASSUME FragmentsOf(m, z) = (fragments[sdi] \ {f0}) \cup {f}
                   PROVE  FALSE
        OBVIOUS
      <4>1. CASE f0 \notin fragments[sdi]
        <5>1. fragments[sdi] \ {f0} = fragments[sdi]
          BY <4>1
        <5> QED
          BY <1>2, <3>4, <5>1
      <4>2. CASE f0 \in fragments[sdi]
        <5>1. sdi = f0.splittedDataIndex /\ m = Takes(f0)
          BY <1>4, <3>1, <4>2, LateKeptFacts DEF Number
        <5>2. g # f0
          BY <1>1, <3>1, <5>1 DEF Number
        <5>3. PICK k \in Nat \ {0} : k = Number(f0, g)
          BY <2>1, <5>2, LateKeptFacts
        <5>4. m > MaxDelay
          BY <1>1, <5>3
        <5>5. Cardinality(fragments[sdi]) < Count(z)
          BY <3>2, <4>2, <5>1, <5>4 DEF LatePacketInv, Slot
        <5> DEFINE Old == fragments[sdi] \ {f0}
        <5>6. fragments[sdi] = Old \cup {f0} /\ f0 \notin Old /\ f \notin Old
          BY <1>4, <4>2
        <5>7. IsFiniteSet(Old)
          BY <3>4, FS_Subset
        <5>8. /\ Cardinality(Old \cup {f0}) = Cardinality(Old) + 1
              /\ Cardinality(Old \cup {f}) = Cardinality(Old) + 1
          BY <5>6, <5>7, FS_AddElement
        <5>9. Cardinality(Old \cup {f}) = Count(z) /\ Count(z) \in Nat
          BY <3>4, SizeFacts
        <5> HIDE DEF Old
        <5> QED
          BY <5>5, <5>6, <5>8, <5>9
      <4> QED
        BY <4>1, <4>2
    <3>8. (fragments[sdi] \ {f0}) \cup {f} \subseteq FragmentsOf(m, z)
      BY <1>4, <3>1, <3>3
    <3>9. PICK x \in FragmentsOf(m, z) : x \notin (fragments[sdi] \ {f0}) \cup {f}
      BY <3>7, <3>8
    <3>10. PacketOf(x) = m /\ x # f0 /\ x # f
      BY <1>5, <1>8, <3>1, <3>4, <3>9
    <3>11. x \in wire'
      BY <1>6, <3>6, <3>9, <3>10
    <3> QED
      BY <3>10, <3>11 DEF InFlight
  <2> QED
    BY <1>6, <2>3, <2>4
<1> QED
  BY <1>6, <1>9, <1>10, <1>11, <1>13, <1>14

-----------------------------------------------------------------------------
(* Joining a set that holds the late fragment.                             *)

LEMMA PacketsInConcat ==
  ASSUME NEW S, NEW s \in Seq(S), NEW t \in Seq(S)
  PROVE  PacketsIn(s \o t) = PacketsIn(s) \cup PacketsIn(t)
<1>1. \A b \in Seq(S) : PacketsIn(b) = {x[1] : x \in Range(b)}
  BY DEF PacketsIn, Range
<1>2. s \o t \in Seq(S)
  BY ConcatProperties
<1>3. Range(s \o t) = Range(s) \cup Range(t)
  BY RangeConcatenation
<1>4. PacketsIn(s \o t) = {x[1] : x \in Range(s) \cup Range(t)}
  BY <1>1, <1>2, <1>3
<1>5. PacketsIn(s) = {x[1] : x \in Range(s)} /\ PacketsIn(t) = {x[1] : x \in Range(t)}
  BY <1>1
<1> QED
  BY <1>4, <1>5

\* The first j sequences of P are joined one after the other.
Joins(P, j, G) ==
  /\ \A i \in 1 .. j : G[i] = IF i = 1 THEN P[i] ELSE G[i - 1] \o P[i]
  /\ PacketsIn(G[j]) = UNION {PacketsIn(P[i]) : i \in 1 .. j}

LEMMA JoinExists ==
  ASSUME NEW S, NEW c \in Nat \ {0}, NEW P \in [1 .. c -> Seq(S)]
  PROVE  \E G \in [1 .. c -> Seq(S)] : Joins(P, c, G)
<1> USE DEF Joins
<1> DEFINE T == {j \in 1 .. c : ~ \E G \in [1 .. j -> Seq(S)] : Joins(P, j, G)}
<1>1. T = {}
  <2> SUFFICES ASSUME T # {}
               PROVE  FALSE
    OBVIOUS
  <2>1. T \subseteq Nat
    OBVIOUS
  <2> HIDE DEF T
  <2>2. PICK n \in T : \A m \in T : n <= m
    BY <2>1, LeastNumber
  <2>3. n \in 1 .. c /\ ~ \E G \in [1 .. n -> Seq(S)] : Joins(P, n, G)
    BY <2>2 DEF T
  <2>4. CASE n = 1
    <3> DEFINE G == [i \in 1 .. 1 |-> P[1]]
    <3>1. G \in [1 .. 1 -> Seq(S)]
      BY <2>3, <2>4
    <3>2. Joins(P, 1, G)
      OBVIOUS
    <3> QED
      BY <2>3, <2>4, <3>1, <3>2
  <2>5. CASE n # 1
    <3>1. PICK k \in 1 .. c : k = n - 1 /\ n = k + 1 /\ k \notin T
      BY <2>2, <2>3, <2>5
    <3>2. PICK H \in [1 .. k -> Seq(S)] : Joins(P, k, H)
      BY <3>1 DEF T
    <3>3. PICK b \in Seq(S) :
            /\ b = H[k] \o P[n]
            /\ PacketsIn(b) = PacketsIn(H[k]) \cup PacketsIn(P[n])
      <4>1. PICK x \in Seq(S), y \in Seq(S) : x = H[k] /\ y = P[n]
        BY <2>3, <3>1, <3>2
      <4>2. x \o y \in Seq(S)
        BY ConcatProperties
      <4>3. PacketsIn(x \o y) = PacketsIn(x) \cup PacketsIn(y)
        BY PacketsInConcat
      <4> QED
        BY <4>1, <4>2, <4>3
    <3> DEFINE G == [i \in 1 .. n |-> IF i = n THEN b ELSE H[i]]
    <3>4. G \in [1 .. n -> Seq(S)]
      <4>1. \A i \in 1 .. n : i # n => i \in 1 .. k
        BY <2>3, <3>1
      <4> QED
        BY <3>3, <4>1
    <3>5. ASSUME NEW i \in 1 .. n
          PROVE  G[i] = IF i = 1 THEN P[i] ELSE G[i - 1] \o P[i]
      <4>1. CASE i = n
        <5>1. G[n] = b /\ G[k] = H[k]
          BY <2>3, <3>1
        <5>2. i - 1 = k
          BY <2>3, <3>1, <4>1
        <5> HIDE DEF G
        <5> QED
          BY <2>5, <3>3, <4>1, <5>1, <5>2
      <4>2. CASE i # n
        <5>1. i \in 1 .. k /\ (i # 1 => i - 1 \in 1 .. k)
          BY <2>3, <3>1, <4>2
        <5>2. G[i] = H[i] /\ (i # 1 => G[i - 1] = H[i - 1])
          BY <3>1, <4>2, <5>1
        <5>3. H[i] = IF i = 1 THEN P[i] ELSE H[i - 1] \o P[i]
          BY <3>2, <5>1
        <5> QED
          BY <5>2, <5>3
      <4> QED
        BY <4>1, <4>2
    <3>6. PacketsIn(G[n]) = UNION {PacketsIn(P[i]) : i \in 1 .. n}
      <4>1. PacketsIn(G[n]) = PacketsIn(H[k]) \cup PacketsIn(P[n])
        BY <2>3, <3>3
      <4>2. PacketsIn(H[k]) = UNION {PacketsIn(P[i]) : i \in 1 .. k}
        BY <3>2
      <4>3. 1 .. n = (1 .. k) \cup {n}
        BY <2>3, <3>1
      <4> HIDE DEF G
      <4> QED
        BY <4>1, <4>2, <4>3
    <3>7. Joins(P, n, G)
      BY <3>5, <3>6
    <3> QED
      BY <2>3, <3>4, <3>7
  <2> QED
    BY <2>4, <2>5
<1>2. c \in 1 .. c
  OBVIOUS
<1> QED
  BY <1>1, <1>2

\* The packets of the fragments of a set are those of the bytes joined.
LEMMA JoinedPackets ==
  ASSUME NEW set, IsFiniteSet(set), Cardinality(set) # 0, ~Corrupted(set), NEW S,
         \A g \in set : g.payload \in Seq(S) /\ PacketsIn(g.payload) = {PacketOf(g)}
  PROVE  PacketsIn(FromFragments(set)) = {PacketOf(g) : g \in set}
<1>1. PICK c \in Nat \ {0} : c = Cardinality(set)
  BY FS_CardinalityType
<1>2. {g.fragmentIndex : g \in set} = 0 .. c - 1
  BY <1>1 DEF Corrupted
<1> DEFINE at(i) == CHOOSE g \in set : g.fragmentIndex = i - 1
<1>3. ASSUME NEW i \in 1 .. c
      PROVE  at(i) \in set /\ at(i).fragmentIndex = i - 1
  <2>1. i - 1 \in 0 .. c - 1
    BY <1>1
  <2>2. \E g \in set : g.fragmentIndex = i - 1
    BY <1>2, <2>1
  <2> QED
    BY <2>2
<1>4. ASSUME NEW g \in set
      PROVE  g.fragmentIndex + 1 \in 1 .. c /\ at(g.fragmentIndex + 1) = g
  <2> DEFINE index == [x \in set |-> x.fragmentIndex]
  <2>1. index \in [set -> 0 .. c - 1] /\ \A i \in 0 .. c - 1 : \E x \in set : index[x] = i
    BY <1>2
  <2>2. index \in Surjection(set, 0 .. c - 1)
    BY <2>1 DEF Surjection
  <2>3. Cardinality(0 .. c - 1) = c
    <3>1. 0 \in Int /\ c - 1 \in Int
      BY <1>1
    <3>2. Cardinality(0 .. c - 1) = IF 0 > c - 1 THEN 0 ELSE c - 1 - 0 + 1
      BY <3>1, FS_Interval
    <3> QED
      BY <1>1, <3>2
  <2>4. index \in Injection(set, 0 .. c - 1)
    <3> HIDE DEF index
    <3> QED
      BY <1>1, <2>2, <2>3, FS_SurjSameCardinalityImpliesInj
  <2>5. \A x, y \in set : x.fragmentIndex = y.fragmentIndex => x = y
    <3>1. \A x, y \in set : index[x] = index[y] => x = y
      BY <2>4 DEF Injection, IsInjective
    <3> QED
      BY <3>1
  <2>6. PICK i \in 1 .. c : i = g.fragmentIndex + 1 /\ i - 1 = g.fragmentIndex
    <3>1. g.fragmentIndex \in 0 .. c - 1
      BY <1>2
    <3> QED
      BY <1>1, <3>1
  <2>7. at(i) \in set /\ at(i).fragmentIndex = i - 1
    BY <1>3
  <2> HIDE DEF at
  <2> QED
    BY <2>5, <2>6, <2>7
<1> HIDE DEF at
<1>5. PICK P \in [1 .. c -> Seq(S)] : P = [i \in 1 .. c |-> at(i).payload]
  <2>1. [i \in 1 .. c |-> at(i).payload] \in [1 .. c -> Seq(S)]
    BY <1>3
  <2> QED
    BY <2>1
<1>6. FromFragments(set) = FlattenSeq(P)
  BY <1>1, <1>5 DEF FromFragments, at
<1>7. Len(P) = c
  BY <1>1, <1>5
<1>8. \A i \in 1 .. c : P[i] = at(i).payload
  BY <1>5
<1>9. PICK G \in [1 .. c -> Seq(S)] : Joins(P, c, G)
  BY JoinExists
<1>10. FlattenSeq(P) = G[c]
  <2>1. \A i \in 1 .. Len(P) : G[i] = IF i = 1 THEN P[i] ELSE G[i - 1] \o P[i]
    BY <1>7, <1>9 DEF Joins
  <2> QED
    BY <1>7, <2>1, FlattenFacts
<1>11. UNION {PacketsIn(P[i]) : i \in 1 .. c} = {PacketOf(g) : g \in set}
  <2>1. \A i \in 1 .. c : PacketsIn(P[i]) = {PacketOf(at(i))}
    BY <1>3, <1>8
  <2>2. {PacketsIn(P[i]) : i \in 1 .. c} = {{PacketOf(at(i))} : i \in 1 .. c}
    BY <2>1, Zenon
  <2>3. UNION {{PacketOf(at(i))} : i \in 1 .. c} = {PacketOf(at(i)) : i \in 1 .. c}
    BY Zenon
  <2>4. {PacketOf(at(i)) : i \in 1 .. c} = {PacketOf(g) : g \in set}
    BY <1>3, <1>4
  <2> QED
    BY <2>2, <2>3, <2>4
<1> QED
  BY <1>6, <1>9, <1>10, <1>11 DEF Joins

Bytes == Nat \X Nat

\* A fragment has bytes of its packet only.
LEMMA FragmentBytes ==
  ASSUME NEW n \in Nat, NEW size \in Sizes, NEW sdi,
         NEW i \in 0 .. FragmentsCount(Content(n, size)) - 1
  PROVE  LET f == Fragment(Content(n, size), sdi, i)
         IN  /\ f.payload \in Seq(Bytes)
             /\ PacketsIn(f.payload) = {n}
             /\ PacketOf(f) = n
<1> DEFINE packet == Content(n, size)
<1>0. PICK f : f = Fragment(packet, sdi, i)
  OBVIOUS
<1>1. /\ PacketOf(f) = n
      /\ f.payload = SubSeq(packet, First(i), End(i, size))
  BY <1>0, FragmentIsOf
<1>2. size \in Nat /\ i \in 0 .. Count(size) - 1
  <2>1. size \in Nat
    BY SizeFacts
  <2> QED
    BY <2>1, ContentFacts
<1>3. PICK a, e \in Nat : a = First(i) /\ e = End(i, size) /\ a \in 1 .. size /\ e \in a .. size
  <2>1. First(i) \in 1 .. size /\ End(i, size) \in First(i) .. size
    BY <1>2, PayloadFacts
  <2> QED
    BY <1>2, <2>1
<1>4. \A j \in 1 .. size : packet[j] = <<n, j>>
  BY <1>2, ContentFacts
<1> HIDE DEF packet
<1>5. \A j \in a .. e : packet[j] = <<n, j>> /\ packet[j] \in Bytes
  <2>1. \A j \in a .. e : j \in 1 .. size /\ j \in Nat
    BY <1>2, <1>3
  <2> QED
    BY <1>4, <2>1 DEF Bytes
<1>6. /\ SubSeq(packet, a, e) \in Seq(Bytes)
      /\ Len(SubSeq(packet, a, e)) = IF a <= e THEN e - a + 1 ELSE 0
      /\ \A j \in 1 .. e - a + 1 : SubSeq(packet, a, e)[j] = packet[a + j - 1]
  BY <1>3, <1>5, SubSeqProperties
<1>7. PICK b \in Seq(Bytes) : b = f.payload /\ b = SubSeq(packet, a, e)
  BY <1>1, <1>3, <1>6
<1>8. Len(b) = e - a + 1 /\ Len(b) \in Nat \ {0} /\ DOMAIN b = 1 .. Len(b)
  BY <1>3, <1>6, <1>7
<1>9. \A j \in 1 .. Len(b) : b[j][1] = n
  <2> SUFFICES ASSUME NEW j \in 1 .. Len(b)
               PROVE  b[j][1] = n
    OBVIOUS
  <2>1. b[j] = packet[a + j - 1] /\ a + j - 1 \in a .. e
    BY <1>3, <1>6, <1>7, <1>8
  <2>2. b[j] = <<n, a + j - 1>>
    BY <1>5, <2>1
  <2> QED
    BY <2>2
<1>10. PacketsIn(b) = {n}
  <2>1. 1 \in DOMAIN b
    BY <1>8
  <2> QED
    BY <1>8, <1>9, <2>1 DEF PacketsIn
<1> QED
  BY <1>0, <1>1, <1>7, <1>10 DEF packet

\* A complete set of one packet is that packet.
LEMMA LatePacketJoined ==
  ASSUME Timely, NEW f0 \in LateFragment, LateInv(f0), NEW f \in wire, Receive(f),
         NEW set, set = fragments[f.splittedDataIndex] \cup {f}, f0 \notin set,
         Cardinality(set) = f.fragmentsCount
  PROVE  LateInv(f0)' /\ HarmInv(f0)'
<1>1. PICK n : n = Number(f0, f)
  OBVIOUS
<1>2. /\ f # f0 /\ PacketOf(f) = n /\ n \in Nat \ {0} /\ n <= sent /\ sent - n <= MaxDelay
      /\ IndexOf(n) = f.splittedDataIndex /\ f.splittedDataIndex \in SetIndex
      /\ \A g \in fragments[IndexOf(n)] : PacketOf(g) = n
  BY <1>1, LateSetFacts
<1>3. n \in 1 .. sent
  BY <1>2 DEF LateInv, TypeInv
<1>4. PICK size \in Sizes : LatePacketInv(f0, n, size)
  BY <1>3 DEF LateInv, LatePacketsInv
<1>5. set \subseteq FragmentsOf(n, size)
  BY <1>2, <1>4 DEF LatePacketInv
<1>6. Cardinality(set) = Count(size)
  BY <1>2, <1>5, FragmentsOfFacts
<1>7. set = FragmentsOf(n, size) /\ ~Corrupted(set)
  BY <1>2, <1>5, <1>6, CompleteSet
<1>8. /\ thrown' = {} /\ delivered' = FromFragments(set)
  BY <1>7 DEF Receive, HandleFragment
<1>9. \A g \in wire : PacketOf(g) = n => g = f
  <2> SUFFICES ASSUME NEW g \in wire, PacketOf(g) = n, g # f
               PROVE  FALSE
    OBVIOUS
  <2>1. g \in FragmentsOf(n, size)
    BY <1>4 DEF LatePacketInv
  <2>2. g \in fragments[IndexOf(n)]
    BY <1>2, <1>7, <2>1
  <2> QED
    BY <1>2, <2>2, LateKeptFacts
<1>10. LateInv(f0)'
  <2>1. PacketOf(f) \in {0, n}
    BY <1>2
  <2>2. Cardinality(fragments[IndexOf(n)] \cup {f}) = f.fragmentsCount
    BY <1>2
  <2>3. /\ n \in Nat \ {0} /\ n <= sent /\ sent - n <= MaxDelay
        /\ IndexOf(n) = f.splittedDataIndex /\ thrown' = {}
    BY <1>2, <1>8
  <2> QED
    BY <1>9, <2>1, <2>2, <2>3, LateCompleteStep
<1>11. delivered' = Content(n, size)
  BY <1>2, <1>7, <1>8, JoinedFacts
<1> QED
  BY <1>2, <1>10, <1>11 DEF HarmInv, DeliveredInv

\* A complete set with the late fragment in it is of one packet otherwise.
LEMMA LateHarmDone ==
  ASSUME Timely, NEW f0 \in LateFragment, LateInv(f0), NEW f \in wire, Receive(f),
         NEW set, set = fragments[f.splittedDataIndex] \cup {f}, f0 \in set,
         Cardinality(set) = f.fragmentsCount
  PROVE  (LateInv(f0)' /\ HarmInv(f0)') \/ ThrownInv(f0)'
<1>1. PICK n : n = Number(f0, f)
  OBVIOUS
<1>2. PICK sdi \in SetIndex : sdi = f.splittedDataIndex
  BY <1>1, LateSetFacts
<1>3. /\ n \in Int /\ IndexOf(n) = sdi
      /\ \A g \in set : Number(f0, g) = n
      /\ \A g \in set : g # f0 => /\ PacketOf(g) = n /\ n \in Nat \ {0} /\ n <= sent
                                  /\ sent - n <= MaxDelay
  <2>1. /\ n \in Int /\ IndexOf(n) = sdi
        /\ \A g \in fragments[sdi] :
             /\ Number(f0, g) = n
             /\ g # f0 => /\ PacketOf(g) = n /\ n \in Nat \ {0} /\ n <= sent
                          /\ sent - n <= MaxDelay
        /\ f # f0 => /\ PacketOf(f) = n /\ n \in Nat \ {0} /\ n <= sent
                     /\ sent - n <= MaxDelay
    BY <1>1, <1>2, LateSetFacts
  <2> QED
    BY <1>1, <1>2, <2>1
<1>4. n = Takes(f0)
  BY <1>3 DEF Number
<1>5. /\ PacketOf(f0) = 0 /\ n <= Last0
      /\ f0.fragmentsCount # 1
  BY <1>4, LateFragmentFacts
<1>6. PICK g0 \in set : g0 # f0
  <2> SUFFICES ASSUME set = {f0}
               PROVE  FALSE
    OBVIOUS
  <2>1. f = f0 /\ Cardinality(set) = 1
    BY FS_Singleton
  <2> QED
    BY <1>5, <2>1
<1>7. PacketOf(g0) = n /\ n \in Nat \ {0} /\ n <= sent /\ sent - n <= MaxDelay
  BY <1>3, <1>6
<1>8. n \in 1 .. sent /\ n \in 1 .. Last0
  <2>1. sent \in Nat /\ Last0 \in Int
    BY ByteFacts, BoundsAssumption DEF LateInv, TypeInv, Last0
  <2> QED
    BY <1>5, <1>7, <2>1
<1>9. PICK size \in Sizes : LatePacketInv(f0, n, size)
  BY <1>8 DEF LateInv, LatePacketsInv
<1>10. set \subseteq FragmentsOf(n, size) \cup {f0}
  BY <1>2, <1>3, <1>9 DEF LatePacketInv
<1>11. IsFiniteSet(set) /\ Cardinality(set) # 0
  <2>1. IsFiniteSet(FragmentsOf(n, size))
    BY <1>7, FragmentsOfFacts
  <2>2. IsFiniteSet(FragmentsOf(n, size) \cup {f0})
    BY <2>1, FS_AddElement
  <2>3. IsFiniteSet(set)
    BY <1>10, <2>2, FS_Subset
  <2> QED
    BY <2>3, FS_EmptySet
<1>12. {PacketOf(g) : g \in set} = {0, n}
  BY <1>3, <1>5, <1>6
<1>13. CASE Corrupted(set)
  <2>1. thrown' = {PacketOf(g) : g \in set} /\ delivered' = <<>>
    BY <1>13 DEF Receive, HandleFragment
  <2> QED
    BY <1>4, <1>8, <1>12, <2>1 DEF ThrownInv
<1>14. CASE ~Corrupted(set)
  <2>1. thrown' = {} /\ delivered' = FromFragments(set)
    BY <1>14 DEF Receive, HandleFragment
  <2>2. LateInv(f0)'
    <3>1. PacketOf(f) \in {0, n}
      BY <1>12
    <3>2. /\ Cardinality(fragments[IndexOf(n)] \cup {f}) = f.fragmentsCount
          /\ f0 \in fragments[IndexOf(n)] \cup {f}
      BY <1>2, <1>3
    <3> QED
      BY <1>2, <1>3, <1>4, <1>7, <2>1, <3>1, <3>2, LateCompleteStep
  <2>3. ASSUME NEW g \in set
        PROVE  g.payload \in Seq(Bytes) /\ PacketsIn(g.payload) = {PacketOf(g)}
    <3>1. CASE g = f0
      <4>1. PICK z \in Sizes :
              \E x \in SetIndex, i \in 0 .. FragmentsCount(Content(0, z)) - 1 :
                f0 = Fragment(Content(0, z), x, i)
        BY DEF LateFragment
      <4> PICK x \in SetIndex, i \in 0 .. FragmentsCount(Content(0, z)) - 1 :
            f0 = Fragment(Content(0, z), x, i)
        BY <4>1
      <4>2. /\ Fragment(Content(0, z), x, i).payload \in Seq(Bytes)
            /\ PacketsIn(Fragment(Content(0, z), x, i).payload) = {0}
            /\ PacketOf(Fragment(Content(0, z), x, i)) = 0
        BY FragmentBytes
      <4> QED
        BY <3>1, <4>2
    <3>2. CASE g # f0
      <4>1. g \in FragmentsOf(n, size) /\ n \in Nat
        BY <1>7, <1>10, <3>2
      <4>2. PICK i \in 0 .. FragmentsCount(Content(n, size)) - 1 :
              g = Fragment(Content(n, size), IndexOf(n), i)
        BY <4>1 DEF FragmentsOf
      <4>3. /\ Fragment(Content(n, size), IndexOf(n), i).payload \in Seq(Bytes)
            /\ PacketsIn(Fragment(Content(n, size), IndexOf(n), i).payload) = {n}
            /\ PacketOf(Fragment(Content(n, size), IndexOf(n), i)) = n
        BY <4>1, FragmentBytes
      <4> QED
        BY <4>2, <4>3
    <3> QED
      BY <3>1, <3>2
  <2>4. PacketsIn(FromFragments(set)) = {0, n}
    BY <1>11, <1>12, <1>14, <2>3, JoinedPackets
  <2>5. HarmInv(f0)'
    BY <1>4, <1>8, <2>1, <2>4 DEF HarmInv
  <2> QED
    BY <2>2, <2>5
<1> QED
  BY <1>13, <1>14

LEMMA LateReceiveStep ==
  ASSUME Timely, NEW f0 \in LateFragment, LateInv(f0), NEW f \in wire, Receive(f)
  PROVE  (LateInv(f0)' /\ HarmInv(f0)') \/ ThrownInv(f0)'
<1>1. PICK set : set = fragments[f.splittedDataIndex] \cup {f}
  OBVIOUS
<1>2. CASE Cardinality(set) # f.fragmentsCount
  <2>1. LateInv(f0)'
    BY <1>1, <1>2, LateIncompleteStep
  <2>2. HarmInv(f0)'
    BY <1>1, <1>2 DEF Receive, HandleFragment, HarmInv, DeliveredInv
  <2> QED
    BY <2>1, <2>2
<1>3. CASE Cardinality(set) = f.fragmentsCount /\ f0 \notin set
  BY <1>1, <1>3, LatePacketJoined
<1>4. CASE Cardinality(set) = f.fragmentsCount /\ f0 \in set
  BY <1>1, <1>4, LateHarmDone
<1> QED
  BY <1>2, <1>3, <1>4

-----------------------------------------------------------------------------
(* The theorem.                                                            *)

LEMMA InitLate ==
  ASSUME Timely, Init, late
  PROVE  LateIInv
<1>1. /\ sent = 0 /\ nextFragmentIndex = 0 /\ lost = {} /\ thrown = {}
      /\ fragments = [s \in SetIndex |-> {}] /\ delivered = <<>>
  BY DEF Init
<1>2. PICK f0 \in LateFragment : wire = {f0}
  BY DEF Init, LateFragment
<1>3. PacketOf(f0) = 0
  BY LateFragmentFacts
<1>4. 0 % ByteValues = 0
  <2>1. 0 \in 0 .. ByteValues - 1 /\ ByteValues * 0 + 0 = 0 /\ 0 \in Int
    BY ByteFacts
  <2> QED
    BY <2>1, DivisionUnique, ByteFacts
<1>5. TypeInv /\ LateSenderInv
  BY <1>1, <1>4 DEF TypeInv, LateSenderInv
<1>6. LateAgesInv(f0)
  BY <1>1, <1>2, <1>3, BoundsAssumption DEF LateAgesInv
<1>7. LatePacketsInv(f0) /\ LateKeptInv(f0)
  BY <1>1 DEF LatePacketsInv, LateKeptInv
<1>8. LateInv(f0) /\ HarmInv(f0)
  BY <1>1, <1>5, <1>6, <1>7 DEF LateInv, HarmInv, DeliveredInv
<1> QED
  BY <1>8 DEF LateIInv

LEMMA NextLate ==
  ASSUME Timely, LateIInv, [Next]_vars
  PROVE  LateIInv'
<1>1. PICK f0 \in LateFragment : (LateInv(f0) /\ HarmInv(f0)) \/ ThrownInv(f0)
  BY DEF LateIInv
<1>2. CASE UNCHANGED vars
  <2>1. HarmInv(f0)' = HarmInv(f0) /\ ThrownInv(f0)' = ThrownInv(f0)
    BY <1>2 DEF vars, HarmInv, DeliveredInv, ThrownInv
  <2>2. LateInv(f0) => LateInv(f0)'
    BY <1>2 DEF vars, LateInv, TypeInv, LateSenderInv, LateAgesInv, Number, LatePacketsInv,
         LatePacketInv, InFlight, Broken, Slot, LateKeptInv
  <2> QED
    BY <1>1, <2>1, <2>2 DEF LateIInv
<1>3. CASE ThrownInv(f0) /\ Next
  BY <1>3 DEF ThrownInv, Next
<1>4. CASE LateInv(f0) /\ Next
  <2>1. ASSUME NEW size \in Sizes, SendToTox(size)
        PROVE  LateInv(f0)' /\ HarmInv(f0)'
    BY <1>4, <2>1, LateSendStep DEF SendToTox, HarmInv, DeliveredInv
  <2>2. ASSUME NEW f \in wire, Lose(f)
        PROVE  LateInv(f0)' /\ HarmInv(f0)'
    BY <1>4, <2>2, LateLoseStep DEF Lose, HarmInv, DeliveredInv
  <2>3. ASSUME NEW f \in wire, Receive(f)
        PROVE  (LateInv(f0)' /\ HarmInv(f0)') \/ ThrownInv(f0)'
    BY <1>4, <2>3, LateReceiveStep
  <2>4. (LateInv(f0)' /\ HarmInv(f0)') \/ ThrownInv(f0)'
    BY <1>4, <2>1, <2>2, <2>3 DEF Next
  <2> QED
    BY <2>4 DEF LateIInv
<1> QED
  BY <1>1, <1>2, <1>3, <1>4

LEMMA HarmIsBounded ==
  ASSUME LateIInv, late
  PROVE  LateFragmentsAreShortLived
<1>1. PICK f0 \in LateFragment : (LateInv(f0) /\ HarmInv(f0)) \/ ThrownInv(f0)
  BY DEF LateIInv
<1>2. PICK harmed : harmed = thrown \cup (IF Mixed THEN PacketsIn(delivered) ELSE {})
  OBVIOUS
<1>3. harmed = {} \/ (Takes(f0) \in 1 .. Last0 /\ harmed = {0, Takes(f0)})
  <2>1. CASE LateInv(f0) /\ DeliveredInv
    BY <1>2, <2>1, NeverMixed DEF LateInv
  <2>2. CASE LateInv(f0) /\ Takes(f0) \in 1 .. Last0 /\ PacketsIn(delivered) = {0, Takes(f0)}
    BY <1>2, <2>2 DEF LateInv
  <2>3. CASE ThrownInv(f0)
    BY <1>2, <2>3 DEF ThrownInv, Mixed
  <2> QED
    BY <1>1, <2>1, <2>2, <2>3 DEF HarmInv
<1>4. Last0 \in Int
  BY ByteFacts, BoundsAssumption DEF Last0
<1>5. harmed # {} => 0 \in harmed /\ harmed \subseteq 0 .. Last0
  BY <1>3, <1>4
<1> QED
  BY <1>2, <1>5 DEF LateFragmentsAreShortLived, PacketsIn, Last0

\* A fragment of an earlier connection to the same friend, which
\* Connection::handleFragment takes for one of this connection, spoils one
\* packet at most, and none after the first ones: the set that it is in is
\* erased with the other old ones, whether it is complete or not.
THEOREM LateFragmentsDoLittle ==
  ASSUME Timely
  PROVE  Spec => []LateFragmentsAreShortLived
<1> DEFINE Always == IF late THEN LateIInv ELSE Inv /\ DeliveredInv
<1>1. Init => Always
  BY InitLate, InitInv DEF Init, DeliveredInv
<1>2. Always /\ [Next]_vars => Always'
  BY LateIsKept, NextLate, NextInv, NextDelivers
<1>3. Always => LateFragmentsAreShortLived
  <2>1. CASE late
    BY <2>1, HarmIsBounded
  <2>2. CASE ~late
    BY <2>2, NeverMixed DEF Inv, LateFragmentsAreShortLived
  <2> QED
    BY <2>1, <2>2
<1> QED
  BY <1>1, <1>2, <1>3, PTL DEF Spec
=============================================================================
