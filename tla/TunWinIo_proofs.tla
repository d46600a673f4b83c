---------------------------- MODULE TunWinIo_proofs ----------------------------
(***************************************************************************)
(* What holds of the overlapped I/O of TunWin for any number of frames and  *)
(* writes, whatever fails and whenever the kernel completes what.           *)
(***************************************************************************)
EXTENDS TunWinIo, SequenceTheorems, WellFoundedInduction, TLAPS

-----------------------------------------------------------------------------
(* Sequences.                                                              *)

LEMMA LeastNumber ==
  ASSUME NEW T, T \subseteq Nat, T # {}
  PROVE  \E n \in T : \A m \in T : n <= m
<1>1. PICK n \in T : \A m \in T : ~ (<<m, n>> \in OpToRel(<, Nat))
  BY NatLessThanWellFounded, WFMin, Zenon
<1>2. \A m \in T : ~ (m < n)
  BY <1>1, Zenon DEF OpToRel
<1> QED
  BY <1>2

\* The loop of sendData stops somewhere.
LEMMA ReapingStops ==
  ASSUME NEW S, NEW list \in Seq(S), NEW pending
  PROVE  Completed(list, pending) # {}
<1> DEFINE T == {n \in 0 .. Len(list) : \A i \in n + 1 .. Len(list) : list[i] \notin pending}
<1>1. Len(list) \in Nat
  OBVIOUS
<1>2. Len(list) \in T /\ T \subseteq Nat
  BY <1>1
<1>3. PICK n \in T : \A m \in T : n <= m
  BY <1>2, LeastNumber
<1>4. ASSUME n > 0, list[n] \notin pending
      PROVE  FALSE
  <2>1. n - 1 \in T
    BY <1>1, <1>4
  <2>2. n <= n - 1
    <3> HIDE DEF T
    <3> QED
      BY <1>3, <2>1
  <2> QED
    BY <1>1, <2>2
<1>5. n \in Completed(list, pending)
  BY <1>1, <1>4 DEF Completed
<1> QED
  BY <1>5

\* It removes none of the writes that are pending, and adds none.
LEMMA ReapedFacts ==
  ASSUME NEW S, NEW list \in Seq(S), NEW pending
  PROVE  /\ Reaped(list, pending) \in Seq(S)
         /\ ToSet(list) \cap pending \subseteq ToSet(Reaped(list, pending))
<1> DEFINE n == CHOOSE n \in Completed(list, pending) : TRUE
<1>1. n \in Completed(list, pending)
  BY ReapingStops
<1>2. /\ n \in 0 .. Len(list)
      /\ \A i \in n + 1 .. Len(list) : list[i] \notin pending
  BY <1>1 DEF Completed
<1>3. Reaped(list, pending) = SubSeq(list, 1, n)
  BY DEF Reaped
<1> HIDE DEF n
<1>4. \A i \in 1 .. n : list[i] \in S
  BY <1>2
<1>5. /\ SubSeq(list, 1, n) \in Seq(S)
      /\ Len(SubSeq(list, 1, n)) = n
      /\ \A i \in 1 .. n : SubSeq(list, 1, n)[i] = list[i]
  BY <1>2, <1>4, SubSeqProperties
<1>6. ASSUME NEW w \in ToSet(list) \cap pending
      PROVE  w \in ToSet(SubSeq(list, 1, n))
  <2>1. PICK i \in 1 .. Len(list) : list[i] = w
    BY LenProperties DEF ToSet
  <2>2. i \in 1 .. n
    BY <1>2, <2>1
  <2>3. SubSeq(list, 1, n)[i] = w /\ i \in DOMAIN SubSeq(list, 1, n)
    BY <1>5, <2>1, <2>2, LenProperties
  <2> QED
    BY <2>3 DEF ToSet
<1> QED
  BY <1>3, <1>5, <1>6

\* An OVERLAPPED is created at the front of the list.
LEMMA PushFacts ==
  ASSUME NEW S, NEW list \in Seq(S), NEW w \in S
  PROVE  /\ <<w>> \o list \in Seq(S)
         /\ ToSet(<<w>> \o list) = {w} \cup ToSet(list)
<1>1. <<w>> \in Seq(S)
  OBVIOUS
<1>2. <<w>> \o list \in Seq(S) /\ Range(<<w>> \o list) = Range(<<w>>) \cup Range(list)
  BY <1>1, ConcatProperties, RangeConcatenation
<1>3. Range(<<w>>) = {w}
  BY DEF Range
<1>4. \A s : ToSet(s) = Range(s)
  BY DEF ToSet, Range
<1> QED
  BY <1>2, <1>3, <1>4

-----------------------------------------------------------------------------
(* The inductive invariant: what readState says of the kernel's read, and   *)
(* where an address may be.                                                *)

\* A completed read has left a frame, and getDataBackend is called for a frame.
ReadsInStep ==
  /\ read = "Done" => readBuffer > 0
  /\ pc = "GetData" => readState = "Ready"
  /\ read = "Pending" => readState = "Queued"

\* An address that can be deleted is known to the object, which is there.
AddressIsKnown ==
  address = "Set" => ipIsSet /\ device \in {"Open", "Terminated"}

ReadTypeOK ==
  /\ arrived \in 0 .. MaxFrames
  /\ readState \in {"Idle", "Queued", "Ready"}
  /\ readBuffer \in 0 .. arrived
  /\ bytesRead \in {0} \cup {Length(n) : n \in 1 .. arrived}
  /\ read \in {"None", "Pending", "Done", "Failed"}
  /\ queue \in Seq(1 .. arrived)
  /\ pc \in {"Iterate", "GetData", "Copy"}

Got(n) == [frame : 0 .. n, length : {0} \cup {Length(i) : i \in 1 .. n}]

GotTypeOK == got \in Seq(Got(arrived))

WriteTypeOK ==
  /\ written \in 0 .. MaxWrites
  /\ overlappedWrite \in Seq(1 .. written)
  /\ pendingWrites \subseteq 1 .. written

ObjectTypeOK ==
  /\ device \in {"Unborn", "Created", "Open", "Gone", "Leaked", "Terminated"}
  /\ ipIsSet \in BOOLEAN
  /\ address \in {"None", "Set", "Stuck"}

LEMMA TypeOKParts == TypeOK <=> ReadTypeOK /\ GotTypeOK /\ WriteTypeOK /\ ObjectTypeOK
  BY DEF TypeOK, ReadTypeOK, GotTypeOK, Got, WriteTypeOK, ObjectTypeOK

\* What a step keeps of reading, and of writing.
Reading == ReadTypeOK /\ GotTypeOK /\ ReadyHoldsFrame /\ ReadsInStep
Writing == WriteTypeOK /\ OverlappedOutlivesWrite

IInv == Reading /\ Writing /\ ObjectTypeOK /\ AddressIsKnown

-----------------------------------------------------------------------------
(* Reading.                                                                *)

\* A frame that waits in the driver has arrived.
LEMMA HeadOfQueue ==
  ASSUME Reading, queue # <<>>
  PROVE  /\ Head(queue) \in 1 .. arrived
         /\ Tail(queue) \in Seq(1 .. arrived)
         /\ Length(Head(queue)) \in {Length(n) : n \in 1 .. arrived}
<1>1. Head(queue) \in 1 .. arrived /\ Tail(queue) \in Seq(1 .. arrived)
  BY HeadTailProperties DEF Reading, ReadTypeOK
<1> QED
  BY <1>1

LEMMA ReadAtOnceReads ==
  ASSUME Reading, ReadAtOnce, UNCHANGED <<arrived, got>>,
         pc' \in {"GetData", "Copy"}
  PROVE  Reading'
  BY HeadOfQueue
  DEF ReadAtOnce, Reading, ReadTypeOK, GotTypeOK, ReadyHoldsFrame, ReadsInStep

LEMMA ReadLaterReads ==
  ASSUME Reading, ReadLater, UNCHANGED <<arrived, got>>, pc' \in {"Iterate", "Copy"}
  PROVE  Reading'
  BY DEF ReadLater, Reading, ReadTypeOK, GotTypeOK, ReadyHoldsFrame, ReadsInStep

LEMMA ReadFailsReads ==
  ASSUME Reading, ReadFails, UNCHANGED <<arrived, got>>, pc' = "Iterate"
  PROVE  Reading'
<1>1. CASE UNCHANGED <<readBuffer, queue>>
  BY <1>1 DEF ReadFails, Reading, ReadTypeOK, GotTypeOK, ReadyHoldsFrame, ReadsInStep
<1>2. CASE queue # <<>> /\ readBuffer' = Head(queue) /\ queue' = Tail(queue)
  BY <1>2, HeadOfQueue
  DEF ReadFails, Reading, ReadTypeOK, GotTypeOK, ReadyHoldsFrame, ReadsInStep
<1> QED
  BY <1>1, <1>2 DEF ReadFails

LEMMA ArriveReads ==
  ASSUME Reading, Arrive
  PROVE  Reading'
<1>1. /\ arrived \in Nat /\ arrived' = arrived + 1 /\ arrived' \in 0 .. MaxFrames
      /\ UNCHANGED <<readVars, pc, got>>
  BY MaxFramesAssumption DEF Arrive, Reading, ReadTypeOK
<1>2. queue' \in Seq(1 .. arrived')
  <2>1. 1 .. arrived \subseteq 1 .. arrived' /\ arrived + 1 \in 1 .. arrived'
    BY <1>1
  <2>2. queue \in Seq(1 .. arrived')
    BY <2>1, SeqMonotonic DEF Reading, ReadTypeOK
  <2> QED
    BY <2>1, <2>2, AppendProperties DEF Arrive
<1>3. {Length(n) : n \in 1 .. arrived} \subseteq {Length(n) : n \in 1 .. arrived'}
  BY <1>1
<1>4. got' \in Seq(Got(arrived'))
  <2>1. Got(arrived) \subseteq Got(arrived')
    BY <1>1, <1>3 DEF Got
  <2> QED
    BY <1>1, <2>1, SeqMonotonic DEF Reading, GotTypeOK
<1> QED
  BY <1>1, <1>2, <1>3, <1>4
  DEF Reading, ReadTypeOK, GotTypeOK, ReadyHoldsFrame, ReadsInStep, readVars

LEMMA CompleteReadReads ==
  ASSUME Reading, CompleteRead
  PROVE  Reading'
<1>1. CASE queue # <<>> /\ readBuffer' = Head(queue) /\ queue' = Tail(queue)
  BY <1>1, HeadOfQueue
  DEF CompleteRead, Reading, ReadTypeOK, GotTypeOK, ReadyHoldsFrame, ReadsInStep
<1>2. CASE read' = "Failed" /\ UNCHANGED <<readBuffer, queue>>
  BY <1>2
  DEF CompleteRead, Reading, ReadTypeOK, GotTypeOK, ReadyHoldsFrame, ReadsInStep
<1> QED
  BY <1>1, <1>2 DEF CompleteRead

LEMMA DataPendingReads ==
  ASSUME Reading, DataPending
  PROVE  Reading'
<1>1. CASE DataPendingIdle
  BY <1>1, ReadAtOnceReads, ReadLaterReads, ReadFailsReads
  DEF DataPending, DataPendingIdle, Terminate
<1>2. CASE DataPendingQueued
  <2>1. CASE read = "Done" /\ bytesRead' = Length(readBuffer)
    <3>1. readBuffer \in 1 .. arrived
      BY <2>1 DEF Reading, ReadTypeOK, ReadsInStep
    <3> QED
      BY <1>2, <2>1, <3>1
      DEF DataPending, DataPendingQueued, Terminate, readVars, Reading, ReadTypeOK, GotTypeOK,
          ReadyHoldsFrame, ReadsInStep
  <2>2. CASE UNCHANGED <<readVars, queue, pc>>
    BY <2>2 DEF DataPending, readVars, Reading, ReadTypeOK, GotTypeOK, ReadyHoldsFrame,
                ReadsInStep
  <2> QED
    BY <1>2, <2>1, <2>2 DEF DataPendingQueued, Terminate
<1>3. CASE DataPendingReady
  BY <1>3 DEF DataPending, DataPendingReady, readVars, Reading, ReadTypeOK, GotTypeOK,
              ReadyHoldsFrame, ReadsInStep
<1> QED
  BY <1>1, <1>2, <1>3 DEF DataPending

LEMMA GetDataReads ==
  ASSUME Reading, GetData
  PROVE  Reading'
  BY ReadAtOnceReads, ReadLaterReads, ReadFailsReads DEF GetData

LEMMA CopyDataReads ==
  ASSUME Reading, CopyData
  PROVE  Reading'
<1>1. [frame |-> readBuffer, length |-> bytesRead] \in Got(arrived)
  BY DEF Reading, ReadTypeOK, Got
<1>2. got' \in Seq(Got(arrived))
  BY <1>1, AppendProperties DEF CopyData, Reading, GotTypeOK
<1> QED
  BY <1>2 DEF CopyData, readVars, kernelVars, Reading, ReadTypeOK, GotTypeOK,
              ReadyHoldsFrame, ReadsInStep

LEMMA KeepsReading ==
  ASSUME Reading, UNCHANGED <<readState, readBuffer, bytesRead, kernelVars, got>>,
         pc' = pc \/ pc' = "Iterate", read' = read \/ read' = "None"
  PROVE  Reading'
  BY DEF kernelVars, Reading, ReadTypeOK, GotTypeOK, ReadyHoldsFrame, ReadsInStep

-----------------------------------------------------------------------------
(* Writing.                                                                *)

LEMMA SendDataWrites ==
  ASSUME Writing, SendData, device = "Open"
  PROVE  Writing'
<1> DEFINE w == written'
<1>1. /\ w \in 0 .. MaxWrites
      /\ 1 .. written \subseteq 1 .. w
      /\ w \in 1 .. w
      /\ WriteFile(w)
      /\ UNCHANGED device
  BY MaxWritesAssumption DEF SendData, Writing, WriteTypeOK
<1>2. /\ overlappedWrite \in Seq(1 .. w)
      /\ pendingWrites \subseteq 1 .. w
      /\ pendingWrites \subseteq ToSet(overlappedWrite)
  BY <1>1, SeqMonotonic DEF Writing, WriteTypeOK, OverlappedOutlivesWrite
<1> HIDE DEF w
<1>3. /\ <<w>> \o overlappedWrite \in Seq(1 .. w)
      /\ ToSet(<<w>> \o overlappedWrite) = {w} \cup ToSet(overlappedWrite)
  BY <1>1, <1>2, PushFacts
<1>4. CASE /\ overlappedWrite' = Reaped(overlappedWrite, pendingWrites)
           /\ UNCHANGED pendingWrites
  <2>1. /\ overlappedWrite' \in Seq(1 .. w)
        /\ ToSet(overlappedWrite) \cap pendingWrites \subseteq ToSet(overlappedWrite')
    BY <1>2, <1>4, ReapedFacts
  <2>2. pendingWrites' \subseteq ToSet(overlappedWrite')
    BY <1>2, <1>4, <2>1
  <2> QED
    BY <1>1, <1>2, <1>4, <2>1, <2>2 DEF w, Writing, WriteTypeOK, OverlappedOutlivesWrite
<1>5. CASE /\ pendingWrites' = pendingWrites \cup {w}
           /\ overlappedWrite' = Reaped(<<w>> \o overlappedWrite, pendingWrites')
  <2> DEFINE list == <<w>> \o overlappedWrite
  <2>1. /\ overlappedWrite' \in Seq(1 .. w)
        /\ ToSet(list) \cap pendingWrites' \subseteq ToSet(overlappedWrite')
    BY <1>3, <1>5, ReapedFacts
  <2>2. pendingWrites' \subseteq ToSet(overlappedWrite')
    BY <1>2, <1>3, <1>5, <2>1
  <2>3. pendingWrites' \subseteq 1 .. w
    BY <1>1, <1>2, <1>5
  <2> QED
    BY <1>1, <2>1, <2>2, <2>3 DEF w, Writing, WriteTypeOK, OverlappedOutlivesWrite
<1>6. CASE overlappedWrite' = <<w>> \o overlappedWrite /\ UNCHANGED pendingWrites
  <2>1. pendingWrites' \subseteq ToSet(overlappedWrite')
    BY <1>2, <1>3, <1>6
  <2> QED
    BY <1>1, <1>2, <1>3, <1>6, <2>1 DEF w, Writing, WriteTypeOK, OverlappedOutlivesWrite
<1> QED
  BY <1>1, <1>4, <1>5, <1>6 DEF WriteFile

LEMMA CompleteWriteWrites ==
  ASSUME Writing, CompleteWrite
  PROVE  Writing'
  BY DEF CompleteWrite, Writing, WriteTypeOK, OverlappedOutlivesWrite

LEMMA KeepsWriting ==
  ASSUME Writing, UNCHANGED writeVars, device' # "Leaked" => device # "Leaked"
  PROVE  Writing'
  BY DEF writeVars, Writing, WriteTypeOK, OverlappedOutlivesWrite

-----------------------------------------------------------------------------
(* All together.                                                           *)


LEMMA InitIInv == Init => IInv
<1> SUFFICES ASSUME Init
             PROVE  IInv
  OBVIOUS
<1>1. \A S : <<>> \in Seq(S)
  BY EmptySeq
<1>2. Reading
  BY <1>1, MaxFramesAssumption
  DEF Init, Reading, ReadTypeOK, GotTypeOK, ReadyHoldsFrame, ReadsInStep
<1>3. Writing
  BY <1>1, MaxWritesAssumption DEF Init, Writing, WriteTypeOK, OverlappedOutlivesWrite
<1> QED
  BY <1>2, <1>3 DEF Init, IInv, ObjectTypeOK, AddressIsKnown

\* A step of the kernel or of the process while the device is open.
LEMMA OpenStep ==
  ASSUME IInv, WhileOpen(Arrive \/ CompleteRead \/ CompleteWrite \/ Process)
  PROVE  IInv'
<1>1. /\ device = "Open"
      /\ Arrive \/ CompleteRead \/ CompleteWrite \/ Process
      /\ UNCHANGED ipVars
  BY DEF WhileOpen
<1>2. Reading /\ Writing /\ ObjectTypeOK /\ AddressIsKnown
  BY DEF IInv
<1>3. Reading'
  BY <1>1, <1>2, ArriveReads, CompleteReadReads, DataPendingReads, GetDataReads,
     CopyDataReads, KeepsReading
  DEF Process, TimeIsUp, CompleteWrite, SendData, readVars
<1>4. Writing'
  BY <1>1, <1>2, SendDataWrites, CompleteWriteWrites, KeepsWriting
  DEF Process, Arrive, CompleteRead, DataPending, TimeIsUp, GetData, CopyData
<1>5. device' \in {"Open", "Terminated"}
  BY <1>1
  DEF Process, Arrive, CompleteRead, CompleteWrite, DataPending, DataPendingIdle,
      DataPendingQueued, DataPendingReady, Terminate, TimeIsUp, GetData, CopyData, SendData
<1>6. ObjectTypeOK' /\ AddressIsKnown'
  BY <1>1, <1>2, <1>5 DEF ObjectTypeOK, AddressIsKnown, ipVars
<1> QED
  BY <1>3, <1>4, <1>6 DEF IInv

\* The life of the object.
LEMMA ObjectStep ==
  ASSUME IInv, Construct \/ setIp \/ Close
  PROVE  IInv'
<1>1. Reading /\ Writing /\ ObjectTypeOK /\ AddressIsKnown
  BY DEF IInv
<1>2. Reading'
  BY <1>1, KeepsReading DEF Construct, setIp, Close, readVars
<1>3. CASE Construct
  <2>1. Writing'
    BY <1>1, <1>3, KeepsWriting DEF Construct
  <2> QED
    BY <1>1, <1>2, <1>3, <2>1 DEF IInv, Construct, ipVars, ObjectTypeOK, AddressIsKnown
<1>4. CASE setIp
  <2>1. ObjectTypeOK' /\ AddressIsKnown'
    BY <1>1, <1>4 DEF setIp, ipVars, ObjectTypeOK, AddressIsKnown
  <2>2. Writing'
    BY <1>1, <1>4 DEF setIp, writeVars, Writing, WriteTypeOK, OverlappedOutlivesWrite
  <2> QED
    BY <1>2, <2>1, <2>2 DEF IInv
<1>5. CASE Close
  <2>1. ObjectTypeOK' /\ AddressIsKnown'
    BY <1>1, <1>5 DEF Close, unsetIp, ipVars, ObjectTypeOK, AddressIsKnown
  <2>2. Writing'
    BY <1>1, <1>5, EmptySeq DEF Close, Writing, WriteTypeOK, OverlappedOutlivesWrite
  <2> QED
    BY <1>2, <2>1, <2>2 DEF IInv
<1> QED
  BY <1>3, <1>4, <1>5

LEMMA NextIInv == IInv /\ [Next]_vars => IInv'
<1> SUFFICES ASSUME IInv, [Next]_vars
             PROVE  IInv'
  OBVIOUS
<1>1. CASE UNCHANGED vars
  <2>1. Reading' /\ Writing'
    BY <1>1, KeepsReading, KeepsWriting DEF IInv, vars, readVars
  <2> QED
    BY <1>1, <2>1 DEF IInv, vars, ipVars, ObjectTypeOK, AddressIsKnown
<1> QED
  BY <1>1, OpenStep, ObjectStep DEF Next

THEOREM AlwaysInStep == Spec => []IInv
  BY InitIInv, NextIInv, PTL DEF Spec

\* The types of all variables, for any number of frames and writes.
THEOREM TypeCorrect == Spec => []TypeOK
<1>1. IInv => TypeOK
  BY TypeOKParts DEF IInv, Reading, Writing
<1> QED
  BY <1>1, AlwaysInStep, PTL

\* Whenever the kernel completes a read and whatever fails, readState Ready
\* means a frame in readBuffer with its own size in bytesRead.
THEOREM FramesAreReady == Spec => []ReadyHoldsFrame
<1>1. IInv => ReadyHoldsFrame
  BY DEF IInv, Reading
<1> QED
  BY <1>1, AlwaysInStep, PTL

\* queueRead is not called while the kernel still uses overlappedRead.
THEOREM ReadsDontOverlap == Spec => []OneReadAtATime
<1>1. IInv => OneReadAtATime
  BY DEF IInv, Reading, ReadsInStep, OneReadAtATime
<1> QED
  BY <1>1, AlwaysInStep, PTL

\* sendData, and a destructor that closes the handle, never free the OVERLAPPED
\* of a write the kernel has not completed, in whatever order writes complete.
THEOREM WritesAreOutlived == Spec => []OverlappedOutlivesWrite
<1>1. IInv => OverlappedOutlivesWrite
  BY DEF IInv, Writing
<1> QED
  BY <1>1, AlwaysInStep, PTL

\* On every way out of ~TunWin, and of a constructor that throws, the address
\* is gone unless the system refuses to delete it.
THEOREM AddressesAreUnset == Spec => []AddressIsUnset
<1>1. IInv => AddressIsUnset
  BY DEF IInv, AddressIsKnown, AddressIsUnset
<1> QED
  BY <1>1, AlwaysInStep, PTL

=============================================================================
