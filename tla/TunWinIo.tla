------------------------------- MODULE TunWinIo -------------------------------
(***************************************************************************)
(* Class TunWin: the tap device of Windows, its IP address and overlapped   *)
(* reads and writes on it.                                                  *)
(* Connection::iterate calls dataPending and getData in its loop, and       *)
(* sendData is called for packets of the friend.  The kernel completes a    *)
(* pending read or write at any time, between two instructions of the       *)
(* process too: that is why getDataBackend is two steps here.               *)
(*                                                                         *)
(* The n-th frame that arrives at the device is the number n.               *)
(***************************************************************************)
EXTENDS Integers, SequencesExt

CONSTANTS
  MaxFrames,  \* bound on the frames that arrive
  MaxWrites,  \* bound on the frames written
  Env         \* the failures a run includes

EnvKinds ==
  { "ReadFailure",   \* ReadFile or GetOverlappedResult may fail
    "WriteFailure",  \* WriteFile may fail
    "MediaFailure",  \* DeviceIoControl may fail
    "IpFailure" }    \* AddIPAddress and DeleteIPAddress may fail

ASSUME MaxFramesAssumption == MaxFrames \in Nat
ASSUME MaxWritesAssumption == MaxWrites \in Nat
ASSUME EnvAssumption == Env \subseteq EnvKinds

VARIABLES
  readState,        \* TunWin::readState
  readBuffer,       \* the frame in TunWin::readBuffer, 0 for none
  bytesRead,        \* TunWin::bytesRead
  read,             \* what the kernel does with overlappedRead
  arrived,          \* number of frames that have arrived
  queue,            \* the frames that wait in the driver
  pc,               \* where Connection::iterate is
  got,              \* what getDataBackend has returned
  overlappedWrite,  \* TunWin::overlappedWrite, newest first
  pendingWrites,    \* the writes the kernel has not completed
  written,          \* number of calls of sendData
  device,           \* of the object, its process and its device handle
  ipIsSet,          \* TunWin::ipIsSet
  address           \* whether the adapter has the address of setIp

readVars == <<readState, readBuffer, bytesRead, read>>
kernelVars == <<arrived, queue>>
writeVars == <<overlappedWrite, pendingWrites, written>>
ipVars == <<ipIsSet, address>>
vars == <<readVars, kernelVars, pc, got, writeVars, device, ipVars>>

\* Frames differ in length, so a wrong length can be told.
Length(frame) == 60 + frame

-----------------------------------------------------------------------------
(* The kernel.                                                             *)

Arrive ==
  /\ arrived < MaxFrames
  /\ arrived' = arrived + 1
  /\ queue' = Append(queue, arrived + 1)
  /\ UNCHANGED <<readVars, pc, got, writeVars, device>>

CompleteRead ==
  /\ read = "Pending"
  /\ \/ /\ queue # <<>>
        /\ readBuffer' = Head(queue)
        /\ queue' = Tail(queue)
        /\ read' = "Done"
     \/ /\ "ReadFailure" \in Env
        /\ read' = "Failed"
        /\ UNCHANGED <<readBuffer, queue>>
  /\ UNCHANGED <<readState, bytesRead, arrived, pc, got, writeVars, device>>

CompleteWrite ==
  /\ \E w \in pendingWrites : pendingWrites' = pendingWrites \ {w}
  /\ UNCHANGED <<readVars, kernelVars, pc, got, overlappedWrite, written, device>>

-----------------------------------------------------------------------------
(* Reading.                                                                *)

\* Mutant: bytesRead is the size of the buffer.
ReadWholeBuffer ==
  /\ queue # <<>>
  /\ readBuffer' = Head(queue)
  /\ queue' = Tail(queue)
  /\ bytesRead' = 1518
  /\ read' = "Done"
  /\ readState' = "Ready"

\* ReadFile of queueRead.  It takes a waiting frame at once or leaves the
\* read to the kernel.
ReadAtOnce ==
  /\ queue # <<>>
  /\ readBuffer' = Head(queue)
  /\ queue' = Tail(queue)
  /\ bytesRead' = Length(Head(queue))
  /\ read' = "Done"
  /\ readState' = "Ready"

ReadLater ==
  /\ read' = "Pending"
  /\ readState' = "Queued"
  /\ UNCHANGED <<readBuffer, bytesRead, queue>>

\* queueRead throws: because ReadFile failed, or because GetOverlappedResult
\* failed after ReadFile had put a frame into the buffer at once.
ReadFails ==
  /\ "ReadFailure" \in Env
  /\ read' = "None"
  /\ readState' = "Idle"
  /\ UNCHANGED bytesRead
  /\ \/ UNCHANGED <<readBuffer, queue>>
     \/ /\ queue # <<>>
        /\ readBuffer' = Head(queue)
        /\ queue' = Tail(queue)

\* An error that dataPending throws leaves the noexcept iterate.
Terminate == device' = "Terminated" /\ UNCHANGED pc

DataPendingIdle ==
  /\ readState = "Idle"
  /\ \/ ReadAtOnce /\ pc' = "GetData" /\ UNCHANGED device
     \/ ReadLater /\ UNCHANGED <<pc, device>>
     \/ ReadFails /\ Terminate

\* Mutants: the length of the frame is not fetched; the completion of a read
\* is never asked for.
DataPendingQueuedShort ==
  /\ readState = "Queued"
  /\ read = "Done"
  /\ readState' = "Ready"
  /\ pc' = "GetData"
  /\ UNCHANGED <<bytesRead, read, readBuffer, queue, device>>
DataPendingQueuedNever ==
  /\ readState = "Queued"
  /\ UNCHANGED <<readVars, queue, pc, device>>

\* HasOverlappedIoCompleted is true of a read that failed, too, and then
\* setBytesRead throws.  Of a completed read GetOverlappedResult never says
\* that it is incomplete, so that branch of setBytesRead is left out.
DataPendingQueued ==
  /\ readState = "Queued"
  /\ \/ /\ read = "Done"
        /\ bytesRead' = Length(readBuffer)
        /\ readState' = "Ready"
        /\ pc' = "GetData"
        /\ UNCHANGED <<read, readBuffer, queue, device>>
     \/ /\ read = "Failed"
        /\ Terminate
        /\ UNCHANGED <<readVars, queue>>

DataPendingReady ==
  /\ readState = "Ready"
  /\ pc' = "GetData"
  /\ UNCHANGED <<readVars, queue, device>>

DataPending ==
  /\ pc = "Iterate"
  /\ DataPendingIdle \/ DataPendingQueued \/ DataPendingReady
  /\ UNCHANGED <<arrived, got, writeVars>>

\* iterate leaves its loop when its time is up, with the frame unread.
TimeIsUp ==
  /\ pc = "GetData"
  /\ pc' = "Iterate"
  /\ UNCHANGED <<readVars, kernelVars, got, writeVars, device>>

\* Mutant: readState is set to Idle after queueRead.
GetDataIdleLast ==
  /\ pc = "GetData"
  /\ read' = "Pending"
  /\ readState' = "Idle"
  /\ pc' = "Copy"
  /\ UNCHANGED <<readBuffer, bytesRead, kernelVars, got, writeVars, device>>

\* getDataBackend queues the next read before it copies readBuffer.
\* iterate drops an error it throws.
GetData ==
  /\ pc = "GetData"
  /\ \/ (ReadAtOnce \/ ReadLater) /\ pc' = "Copy"
     \/ ReadFails /\ pc' = "Iterate"
  /\ UNCHANGED <<arrived, got, writeVars, device>>

CopyData ==
  /\ pc = "Copy"
  /\ got' = Append(got, [frame |-> readBuffer, length |-> bytesRead])
  /\ pc' = "Iterate"
  /\ UNCHANGED <<readVars, kernelVars, writeVars, device>>

-----------------------------------------------------------------------------
(* Writing.                                                                *)

\* The loop of sendData: completed writes go, the oldest first, up to the
\* first that is pending.
Completed(list, pending) ==
  { n \in 0 .. Len(list) :
      /\ \A i \in n + 1 .. Len(list) : list[i] \notin pending
      /\ n > 0 => list[n] \in pending }

Reaped(list, pending) == SubSeq(list, 1, CHOOSE n \in Completed(list, pending) : TRUE)

\* Mutant: a write that is done at once is popped from the wrong end.
WriteFileWrongEnd(w) ==
  \/ /\ overlappedWrite' =
          LET l == <<w>> \o overlappedWrite IN Reaped(SubSeq(l, 1, Len(l) - 1), pendingWrites)
     /\ UNCHANGED pendingWrites
  \/ /\ pendingWrites' = pendingWrites \cup {w}
     /\ overlappedWrite' = Reaped(<<w>> \o overlappedWrite, pendingWrites')

\* A failed WriteFile leaves its entry in the list, and it looks completed.
WriteFile(w) ==
  \/ /\ overlappedWrite' = Reaped(overlappedWrite, pendingWrites)
     /\ UNCHANGED pendingWrites
  \/ /\ pendingWrites' = pendingWrites \cup {w}
     /\ overlappedWrite' = Reaped(<<w>> \o overlappedWrite, pendingWrites')
  \/ /\ "WriteFailure" \in Env
     /\ overlappedWrite' = <<w>> \o overlappedWrite
     /\ UNCHANGED pendingWrites

SendData ==
  /\ pc = "Iterate"
  /\ written < MaxWrites
  /\ written' = written + 1
  /\ WriteFile(written')
  /\ UNCHANGED <<readVars, kernelVars, pc, got, device>>

-----------------------------------------------------------------------------
(* The object.                                                             *)

\* The constructor takes the first adapter it finds in the registry and can
\* open, and throws when there is none.  When it cannot set the adapter to
\* connected it throws, too, and the handle stays open.
Construct ==
  /\ device = "Unborn"
  /\ \/ device' \in {"Created", "Gone"}
     \/ "MediaFailure" \in Env /\ device' = "Leaked"
  /\ UNCHANGED <<readVars, kernelVars, pc, got, writeVars, ipVars>>

\* Mutant: ipIsSet is not set.
setIpUnrecorded ==
  /\ device = "Created" /\ device' = "Open"
  /\ address' = "Set" /\ UNCHANGED ipIsSet
  /\ UNCHANGED <<readVars, kernelVars, pc, got, writeVars>>

\* setIp, once the subnet is agreed on; the connection is Connected after it
\* even if the adapter is not found or AddIPAddress fails.
setIp ==
  /\ device = "Created" /\ device' = "Open"
  /\ \/ ipIsSet' = TRUE /\ address' = "Set"
     \/ "IpFailure" \in Env /\ UNCHANGED ipVars
  /\ UNCHANGED <<readVars, kernelVars, pc, got, writeVars>>

\* An address that DeleteIPAddress has failed to take away is "Stuck".
unsetIp ==
  \/ ~ipIsSet /\ UNCHANGED ipVars
  \/ /\ ipIsSet
     /\ ipIsSet' = FALSE
     /\ \/ address' = "None"
        \/ "IpFailure" \in Env /\ address' = "Stuck"

\* ~TunWin.  Closing the handle cancels what is pending; when the device
\* cannot be set to disconnected the handle is not closed, and what is
\* pending stays so, while the object and its list go.
Close ==
  /\ device \in {"Created", "Open"} /\ pc = "Iterate"
  /\ unsetIp
  /\ \/ /\ device' = "Gone"
        /\ read' = "None"
        /\ pendingWrites' = {}
     \/ /\ "MediaFailure" \in Env
        /\ device' = "Leaked"
        /\ UNCHANGED <<read, pendingWrites>>
  /\ overlappedWrite' = <<>>
  /\ UNCHANGED <<readState, readBuffer, bytesRead, kernelVars, pc, got, written>>

Init ==
  /\ readState = "Idle" /\ readBuffer = 0 /\ bytesRead = 0 /\ read = "None"
  /\ arrived = 0 /\ queue = <<>>
  /\ pc = "Iterate" /\ got = <<>>
  /\ overlappedWrite = <<>> /\ pendingWrites = {} /\ written = 0
  /\ device = "Unborn"
  /\ ipIsSet = FALSE /\ address = "None"

Process == DataPending \/ TimeIsUp \/ GetData \/ CopyData \/ SendData

WhileOpen(step) == device = "Open" /\ step /\ UNCHANGED ipVars

Next ==
  \/ WhileOpen(Arrive \/ CompleteRead \/ CompleteWrite \/ Process)
  \/ Construct \/ setIp \/ Close

Spec == Init /\ [][Next]_vars

\* ToxTun::iterate is called in the main loop, the kernel completes a read for
\* which there is a frame, and iterate does not run out of time for ever.
FairSpec ==
  /\ Spec
  /\ WF_vars(WhileOpen(DataPending))
  /\ WF_vars(WhileOpen(CompleteRead))
  /\ SF_vars(WhileOpen(GetData))
  /\ WF_vars(WhileOpen(CopyData))

-----------------------------------------------------------------------------
\* Every variable has its type.
TypeOK ==
  /\ arrived \in 0 .. MaxFrames
  /\ written \in 0 .. MaxWrites
  /\ readState \in {"Idle", "Queued", "Ready"}
  /\ readBuffer \in 0 .. arrived
  /\ bytesRead \in {0} \cup {Length(n) : n \in 1 .. arrived}
  /\ read \in {"None", "Pending", "Done", "Failed"}
  /\ queue \in Seq(1 .. arrived)
  /\ pc \in {"Iterate", "GetData", "Copy"}
  /\ got \in Seq([frame : 0 .. arrived, length : {0} \cup {Length(n) : n \in 1 .. arrived}])
  /\ overlappedWrite \in Seq(1 .. written)
  /\ pendingWrites \subseteq 1 .. written
  /\ device \in {"Unborn", "Created", "Open", "Gone", "Leaked", "Terminated"}
  /\ ipIsSet \in BOOLEAN
  /\ address \in {"None", "Set", "Stuck"}

\* bytesRead is the size of the frame in readBuffer if readState is Ready
\* (TunWin.hpp, bytesRead), although the kernel fills the buffer and the
\* process fetches the size at another time.
ReadyHoldsFrame ==
  readState = "Ready" => readBuffer > 0 /\ bytesRead = Length(readBuffer)

\* overlappedRead is in use by at most one read: while one is pending,
\* neither dataPending nor getDataBackend is about to call queueRead, which
\* clears it.
OneReadAtATime == read = "Pending" => readState = "Queued" /\ pc # "GetData"

\* As long as the object lives, and after it has closed the handle, no
\* OVERLAPPED is freed whose write the kernel may still complete (sendData
\* removes entries of overlappedWrite at both ends).  Not so when ~TunWin
\* cannot set the adapter to disconnected: it returns before CloseHandle, and
\* the list and the read buffer go while reads and writes are pending.
OverlappedOutlivesWrite ==
  device # "Leaked" => pendingWrites \subseteq ToSet(overlappedWrite)

\* A connection that is closed takes its address with it (ToxTun.hpp,
\* closeConnection: "This also unsets the ip of the tun interface"), on every
\* way out of the destructor, unless the system refuses to delete it.
AddressIsUnset == device \in {"Gone", "Leaked"} => address # "Set"

\* A frame does not wait in the driver for ever while iterate is called.
FramesAreTaken == queue # <<>> ~> (queue = <<>> \/ device # "Open")

\* getData returns frames that have arrived, each at most once, in order, and
\* with its own length (Tun.hpp, getData).
FramesInOrder ==
  /\ \A i \in 1 .. Len(got) : got[i].length = Length(got[i].frame)
  /\ \A i, j \in 1 .. Len(got) : i < j => got[i].frame < got[j].frame
=============================================================================
