---------------------------- MODULE Callbacks_proofs ----------------------------
(***************************************************************************)
(* Calls from inside the callback are safe, for every number of friends,    *)
(* objects and nested callbacks, as long as the application is considerate: *)
(* when it is told of the end of a connection it calls nothing but          *)
(* sendConnectionRequest, and nothing at all while ~Connection runs.        *)
(***************************************************************************)
EXTENDS Callbacks, SequenceTheorems, TLAPS

Considerate ==
  /\ \A e \in Event : Told[e] = "Disconnected" => CallsIn[e] \subseteq {"Send"}
  /\ "CallsWhileErasing" \notin Env

-----------------------------------------------------------------------------
(* The inductive invariant.                                                *)

ConnectionState ==
  { "OwnRequestPending", "FriendsRequestPending", "ExpectingIpPacket",
    "ExpectingIpConfirmation", "Connected" }

Knowledge == {"Disconnected", "Calling", "Requested", "Answered", "Connected", "Misled"}

Frame == [event : Event, friend : Friend, object : Nat, then : Continuation]

TypeOK ==
  /\ entry \in [Friend -> Nat]
  /\ object \in Seq(ConnectionState \cup {"Destroyed"})
  /\ stack \in Seq(Frame)
  /\ notified \in [Friend -> Knowledge]

\* The entries are different Connections, all alive.
EntriesLive ==
  \A f \in Friend : entry[f] # 0 =>
    /\ entry[f] \in 1 .. Len(object)
    /\ object[entry[f]] # "Destroyed"
    /\ \A g \in Friend \ {f} : entry[g] # entry[f]

\* None of the callers of these callbacks goes on with a Connection.
Idle(frames) == \A i \in 1 .. Len(frames) : frames[i].then = "Nothing"

\* The caller of the innermost callback is ending a connection.
Ending == stack # <<>> /\ Last(stack).then # "Nothing"

\* Only the innermost callback may have such a caller.
OthersIdle == stack # <<>> => Idle(Front(stack))

\* What that caller counts on.
EndInProgress(top) ==
  /\ Told[top.event] = "Disconnected"
  /\ top.object \in 1 .. Len(object)
  /\ object[top.object] # "Destroyed"
  /\ notified[top.friend] = "Disconnected"
  /\ entry[top.friend] = IF top.then = "Unlinked" THEN 0 ELSE top.object
  /\ top.then = "Unlinked" => \A g \in Friend : entry[g] # top.object
  /\ top.then = "Clear" => \A g \in Friend \ {top.friend} : entry[g] = 0

\* What the user has been told of f is true, or setIp of a deleted Connection
\* has told it.
Truth(f) ==
  \/ notified[f] = Known(StateOf(f))
  \/ notified[f] = "Misled" /\ StateOf(f) = "NoConnection"

Informed == \A f \in Friend : (Ending => Last(stack).friend # f) => Truth(f)

IInv ==
  /\ TypeOK
  /\ EntriesLive
  /\ OthersIdle
  /\ Ending => EndInProgress(Last(stack))
  /\ Informed

-----------------------------------------------------------------------------
(* The stack and the objects.                                              *)

LEMMA PushFacts ==
  ASSUME NEW S, NEW s \in Seq(S), NEW x \in S
  PROVE  /\ Append(s, x) \in Seq(S)
         /\ Append(s, x) # <<>>
         /\ Len(Append(s, x)) = Len(s) + 1
         /\ Last(Append(s, x)) = x
         /\ \A i \in 1 .. Len(s) : Append(s, x)[i] = s[i]
         /\ Front(Append(s, x)) = s
<1>1. /\ Append(s, x) \in Seq(S)
      /\ Append(s, x) # <<>>
      /\ Len(Append(s, x)) = Len(s) + 1
      /\ \A i \in 1 .. Len(s) : Append(s, x)[i] = s[i]
      /\ Append(s, x)[Len(s) + 1] = x
  BY AppendProperties
<1>2. Last(Append(s, x)) = x
  BY <1>1 DEF Last
<1>3. Len(s) \in Nat
  BY LenProperties
<1>4. Front(Append(s, x)) = SubSeq(Append(s, x), 1, Len(s))
  BY <1>1, <1>3 DEF Front
<1>5. SubSeq(Append(s, x), 1, Len(s)) = s
  BY <1>1, <1>3, SMTT(30)
<1> QED
  BY <1>1, <1>2, <1>4, <1>5

LEMMA PopFacts ==
  ASSUME NEW S, NEW s \in Seq(S), s # <<>>
  PROVE  /\ Front(s) \in Seq(S)
         /\ Len(Front(s)) = Len(s) - 1
         /\ \A i \in 1 .. Len(s) - 1 : Front(s)[i] = s[i]
         /\ Last(s) \in S
         /\ Len(s) \in Nat \ {0}
<1>1. Len(s) \in Nat \ {0}
  BY EmptySeq, LenProperties
<1>2. Len(s) - 1 \in Nat /\ Len(s) - 1 <= Len(s) /\ Len(s) \in 1 .. Len(s)
  BY <1>1
<1>3. Last(s) \in S
  BY <1>2, ElementOfSeq DEF Last
<1>4. /\ SubSeq(s, 1, Len(s) - 1) \in Seq(S)
      /\ Len(SubSeq(s, 1, Len(s) - 1)) = Len(s) - 1
      /\ \A i \in 1 .. Len(s) - 1 : SubSeq(s, 1, Len(s) - 1)[i] = s[i]
  <2> DEFINE n == Len(s) - 1
  <2> HIDE DEF n
  <2>1. n \in Nat /\ n \in Int /\ 1 \in Int
    BY <1>2 DEF n
  <2>2. \A i \in 1 .. n : s[i] \in S
    <3>1. \A i \in 1 .. n : i \in 1 .. Len(s)
      BY <1>1 DEF n
    <3> QED
      BY <3>1, ElementOfSeq
  <2>3. SubSeq(s, 1, n) \in Seq(S)
    BY <2>1, <2>2, SubSeqProperties
  <2>4. Len(SubSeq(s, 1, n)) = n
    BY <2>1, <2>2, SubSeqProperties
  <2>5. \A i \in 1 .. n : SubSeq(s, 1, n)[i] = s[i]
    BY <2>1, <2>2, SubSeqProperties
  <2> QED
    BY <2>3, <2>4, <2>5, Zenon DEF n
<1> QED
  BY <1>1, <1>3, <1>4 DEF Front

LEMMA Pushed ==
  ASSUME NEW frames \in Seq(Frame), Idle(frames), NEW x \in Frame,
         stack' = Append(frames, x)
  PROVE  /\ stack' \in Seq(Frame)
         /\ stack' # <<>>
         /\ Last(stack') = x
         /\ OthersIdle'
  BY PushFacts DEF OthersIdle, Idle

LEMMA Popped ==
  ASSUME TypeOK, OthersIdle, stack # <<>>, stack' = Front(stack)
  PROVE  /\ stack' \in Seq(Frame)
         /\ Last(stack) \in Frame
         /\ stack' # stack
         /\ ~(Len(stack') >= Len(stack))
         /\ ~Ending'
         /\ OthersIdle'
<1>1. stack \in Seq(Frame)
  BY DEF TypeOK
<1>2. /\ stack' \in Seq(Frame) /\ Len(stack') = Len(stack) - 1
      /\ Last(stack) \in Frame /\ Len(stack) \in Nat \ {0}
  BY <1>1, PopFacts
<1>3. ~(Len(stack') >= Len(stack)) /\ stack' # stack
  BY <1>2
<1>4. Idle(stack')
  BY DEF OthersIdle
<1>5. ASSUME stack' # <<>>
      PROVE  Last(stack').then = "Nothing" /\ Idle(Front(stack'))
  <2>1. /\ Len(Front(stack')) = Len(stack') - 1
        /\ \A i \in 1 .. Len(stack') - 1 : Front(stack')[i] = stack'[i]
        /\ Len(stack') \in Nat \ {0}
    BY <1>2, <1>5, PopFacts
  <2>2. Len(stack') \in 1 .. Len(stack')
    BY <2>1
  <2>3. \A i \in 1 .. Len(stack') - 1 : i \in 1 .. Len(stack')
    BY <2>1
  <2>4. \A i \in 1 .. Len(stack') : stack'[i].then = "Nothing"
    BY <1>4 DEF Idle
  <2>5. Last(stack').then = "Nothing"
    BY <2>2, <2>4 DEF Last
  <2>6. \A i \in 1 .. Len(stack') - 1 : Front(stack')[i].then = "Nothing"
    BY <2>1, <2>3, <2>4
  <2> QED
    BY <2>1, <2>5, <2>6 DEF Idle
<1> QED
  BY <1>2, <1>3, <1>5 DEF Ending, OthersIdle

LEMMA AllIdle ==
  ASSUME TypeOK, OthersIdle, ~Ending
  PROVE  Idle(stack)
<1>1. CASE stack = <<>>
  BY <1>1, EmptySeq DEF Idle
<1>2. CASE stack # <<>>
  <2>1. stack \in Seq(Frame)
    BY DEF TypeOK
  <2>2. /\ Len(Front(stack)) = Len(stack) - 1
        /\ \A i \in 1 .. Len(stack) - 1 : Front(stack)[i] = stack[i]
        /\ Len(stack) \in Nat \ {0}
    BY <1>2, <2>1, PopFacts
  <2>3. stack[Len(stack)].then = "Nothing"
    BY <1>2 DEF Ending, Last
  <2>4. \A i \in 1 .. Len(stack) - 1 : stack[i].then = "Nothing"
    BY <1>2, <2>2 DEF OthersIdle, Idle
  <2>5. \A i \in 1 .. Len(stack) : i \in 1 .. Len(stack) - 1 \/ i = Len(stack)
    BY <2>2
  <2> QED
    BY <2>3, <2>4, <2>5 DEF Idle
<1> QED
  BY <1>1, <1>2

ObjectState == ConnectionState \cup {"Destroyed"}

\* What a step does to the state of the connections.
Moves(f) ==
  /\ \A g \in Friend \ {f} : StateOf(g)' = StateOf(g)
  /\ LET s == StateOf(f)
         t == StateOf(f)'
     IN  \/ t = s
         \/ s = "NoConnection" /\ t \in {"OwnRequestPending", "FriendsRequestPending"}
         \/ s = "FriendsRequestPending" /\ t = "ExpectingIpPacket"
         \/ s \in {"OwnRequestPending", "ExpectingIpConfirmation"}
              /\ t = "ExpectingIpConfirmation"
         \/ s \in {"ExpectingIpPacket", "ExpectingIpConfirmation"} /\ t = "Connected"
         \/ t = "NoConnection"

HeapOK ==
  /\ entry \in [Friend -> Nat]
  /\ object \in Seq(ObjectState)
  /\ EntriesLive

LEMMA StateFacts ==
  ASSUME HeapOK, NEW f \in Friend
  PROVE  /\ entry[f] = 0 => StateOf(f) = "NoConnection"
         /\ entry[f] # 0 => /\ StateOf(f) = object[entry[f]]
                            /\ StateOf(f) \in ConnectionState
                            /\ entry[f] \in 1 .. Len(object)
<1>1. ASSUME entry[f] # 0
      PROVE  object[entry[f]] \in ConnectionState /\ entry[f] \in 1 .. Len(object)
  <2>1. entry[f] \in 1 .. Len(object) /\ object[entry[f]] # "Destroyed"
    BY <1>1 DEF HeapOK, EntriesLive
  <2>2. object[entry[f]] \in ObjectState
    BY <2>1, ElementOfSeq DEF HeapOK
  <2> QED
    BY <2>1, <2>2 DEF ObjectState
<1> QED
  BY <1>1 DEF StateOf

\* An object is written where no entry but the one of f has it.
LEMMA Written ==
  ASSUME HeapOK, NEW f \in Friend, NEW o \in 1 .. Len(object), NEW s \in ObjectState,
         \A g \in Friend \ {f} : entry[g] # o,
         object' = [object EXCEPT ![o] = s],
         entry' \in [Friend -> Nat],
         \A g \in Friend \ {f} : entry'[g] = entry[g],
         \/ entry'[f] = 0
         \/ entry'[f] = o /\ s # "Destroyed"
  PROVE  /\ HeapOK'
         /\ Len(object') = Len(object)
         /\ \A q \in 1 .. Len(object) : q # o => object'[q] = object[q]
         /\ object'[o] = s
         /\ StateOf(f)' = IF entry'[f] = 0 THEN "NoConnection" ELSE s
         /\ \A g \in Friend \ {f} : StateOf(g)' = StateOf(g)
<1>1. /\ object' \in Seq(ObjectState)
      /\ Len(object') = Len(object)
      /\ \A q \in 1 .. Len(object) : object'[q] = IF q = o THEN s ELSE object[q]
  BY ExceptSeq DEF HeapOK
<1>2. \A g \in Friend \ {f} : entry[g] # 0 =>
        entry[g] \in 1 .. Len(object) /\ object'[entry[g]] = object[entry[g]]
  BY <1>1 DEF HeapOK, EntriesLive
<1>3. EntriesLive'
  BY <1>1, <1>2 DEF HeapOK, EntriesLive
<1>4. 0 \notin 1 .. Len(object)
  OBVIOUS
<1> QED
  BY <1>1, <1>2, <1>3, <1>4 DEF HeapOK, StateOf

LEMMA Constructed ==
  ASSUME HeapOK, NEW f \in Friend, NEW s \in ConnectionState, Construct(f, s)
  PROVE  /\ HeapOK'
         /\ Len(object') = Len(object) + 1
         /\ \A q \in 1 .. Len(object) : object'[q] = object[q]
         /\ entry[f] = 0
         /\ entry'[f] = Len(object) + 1
         /\ \A g \in Friend \ {f} : entry'[g] = entry[g]
         /\ StateOf(f)' = s
         /\ \A g \in Friend \ {f} : StateOf(g)' = StateOf(g)
<1> DEFINE n == Len(object)
<1>1. n \in Nat /\ object \in Seq(ObjectState) /\ s \in ObjectState
  BY LenProperties DEF HeapOK, ObjectState
<1>2. /\ object' \in Seq(ObjectState)
      /\ Len(object') = n + 1
      /\ \A q \in 1 .. n : object'[q] = object[q]
      /\ object'[n + 1] = s
  BY <1>1, AppendProperties DEF Construct
<1>3. /\ entry' \in [Friend -> Nat]
      /\ entry[f] = 0
      /\ entry'[f] = n + 1
      /\ \A g \in Friend \ {f} : entry'[g] = entry[g]
  BY <1>1 DEF Construct, HeapOK
<1>4. \A g \in Friend \ {f} : entry[g] # 0 =>
        /\ entry[g] \in 1 .. n
        /\ object[entry[g]] # "Destroyed"
        /\ \A h \in Friend \ {g} : entry[h] # entry[g]
  BY DEF HeapOK, EntriesLive
<1> HIDE DEF n
<1>5. \A i \in 1 .. n : i \in 1 .. n + 1 /\ i # n + 1
  BY <1>1
<1>6. n + 1 \in 1 .. n + 1 /\ n + 1 # 0
  BY <1>1
<1>7. s # "Destroyed"
  BY DEF ConnectionState
<1>8. EntriesLive'
  <2> SUFFICES ASSUME NEW g \in Friend, entry'[g] # 0
               PROVE  /\ entry'[g] \in 1 .. n + 1
                      /\ object'[entry'[g]] # "Destroyed"
                      /\ \A h \in Friend \ {g} : entry'[h] # entry'[g]
    BY <1>2, Zenon DEF EntriesLive
  <2>1. CASE g = f
    <3>1. \A h \in Friend \ {f} : entry'[h] # n + 1
      BY <1>3, <1>4, <1>5, <1>6
    <3> QED
      BY <1>2, <1>3, <1>6, <1>7, <2>1, <3>1, Zenon
  <2>2. CASE g # f
    <3>1. entry'[g] = entry[g] /\ entry[g] \in 1 .. n
      BY <1>3, <1>4, <2>2
    <3>2. entry[g] \in 1 .. n + 1 /\ entry[g] # n + 1
      BY <1>5, <3>1
    <3>3. object'[entry[g]] # "Destroyed"
      BY <1>2, <1>3, <1>4, <2>2, <3>1, Zenon
    <3>4. \A h \in Friend \ {g} : entry'[h] # entry'[g]
      BY <1>3, <1>4, <2>2, <3>1, <3>2
    <3> QED
      BY <3>1, <3>2, <3>3, <3>4, Zenon
  <2> QED
    BY <2>1, <2>2
<1>9. StateOf(f)' = s /\ \A g \in Friend \ {f} : StateOf(g)' = StateOf(g)
  BY <1>2, <1>3, <1>4, <1>6 DEF StateOf
<1> QED
  BY <1>2, <1>3, <1>8, <1>9 DEF HeapOK, n

-----------------------------------------------------------------------------
(* What a step does to the stack and to what the user knows.                *)

\* A new callback reports the end of a connection only to a user who does
\* not know of it.
EndIsNews ==
  stack' # stack /\ Len(stack') >= Len(stack) =>
    LET e == Last(stack')
    IN  Told[e.event] = "Disconnected" => notified[e.friend] # "Disconnected"

Good(f) == IInv' /\ Moves(f) /\ EndIsNews

LEMMA InvFacts ==
  ASSUME IInv
  PROVE  /\ TypeOK
         /\ HeapOK
         /\ stack \in Seq(Frame)
         /\ notified \in [Friend -> Knowledge]
         /\ OthersIdle
         /\ ~Ending => Idle(stack) /\ \A f \in Friend : Truth(f)
  BY AllIdle DEF IInv, TypeOK, HeapOK, ObjectState, Informed

LEMMA KnownFacts ==
  /\ Known("NoConnection") = "Disconnected"
  /\ \A s \in ConnectionState : Known(s) \in Knowledge \ {"Disconnected", "Misled"}
  /\ \A e \in Event : Told[e] \in Knowledge
  BY DEF Known, ConnectionState, Knowledge, Event, Told

\* The handler waits for a callback that reports the end of f.
LEMMA BeginsEnd ==
  ASSUME IInv, ~Ending, HeapOK', NEW f \in Friend, entry[f] # 0,
         NEW event \in Event, Told[event] = "Disconnected",
         NEW then \in Deletion \cup {"Unlinked", "Clear"},
         Report(event, f, entry[f], then, stack),
         entry[f] \in 1 .. Len(object'),
         object'[entry[f]] # "Destroyed",
         entry'[f] = IF then = "Unlinked" THEN 0 ELSE entry[f],
         then = "Unlinked" => \A g \in Friend : entry'[g] # entry[f],
         then = "Clear" => \A g \in Friend \ {f} : entry'[g] = 0,
         Moves(f)
  PROVE  Good(f)
<1> DEFINE top == [event |-> event, friend |-> f, object |-> entry[f], then |-> then]
<1>1. /\ TypeOK /\ HeapOK /\ stack \in Seq(Frame) /\ Idle(stack)
      /\ notified \in [Friend -> Knowledge]
      /\ \A g \in Friend : Truth(g)
  BY InvFacts
<1>2. top \in Frame
  BY <1>1 DEF HeapOK, Frame, Continuation, Deletion
<1>3. stack' = Append(stack, top)
  BY DEF Report
<1>4. stack' \in Seq(Frame) /\ stack' # <<>> /\ Last(stack') = top /\ OthersIdle'
  BY <1>1, <1>2, <1>3, Pushed
<1>5. /\ top.event = event /\ top.friend = f /\ top.object = entry[f] /\ top.then = then
      /\ top.then # "Nothing"
  BY DEF Deletion
<1> HIDE DEF top
<1>6. Ending'
  BY <1>4, <1>5 DEF Ending
<1>7. /\ notified' \in [Friend -> Knowledge]
      /\ notified'[f] = "Disconnected"
      /\ \A g \in Friend \ {f} : notified'[g] = notified[g]
  BY <1>1, KnownFacts DEF Report
<1>8. TypeOK' /\ EntriesLive'
  BY <1>4, <1>7 DEF TypeOK, HeapOK, ObjectState
<1>9. EndInProgress(Last(stack))'
  BY <1>4, <1>5, <1>7 DEF EndInProgress
<1>10. Informed'
  BY <1>1, <1>4, <1>5, <1>6, <1>7 DEF Informed, Truth, Moves
<1>11. EndIsNews
  <2>1. StateOf(f) \in ConnectionState
    BY <1>1, StateFacts
  <2>2. notified[f] # "Disconnected"
    BY <1>1, <2>1, KnownFacts DEF Truth, ConnectionState
  <2> QED
    BY <1>4, <1>5, <2>2 DEF EndIsNews
<1> QED
  BY <1>4, <1>8, <1>9, <1>10, <1>11 DEF Good, IInv

\* A callback is called after which its caller does nothing.
LEMMA ReportsChange ==
  ASSUME IInv, ~Ending, HeapOK', NEW f \in Friend,
         NEW event \in Event, Told[event] # "Disconnected",
         NEW o \in Nat,
         Report(event, f, o, "Nothing", stack),
         Told[event] = Known(StateOf(f)'),
         Moves(f)
  PROVE  Good(f)
<1> DEFINE top == [event |-> event, friend |-> f, object |-> o, then |-> "Nothing"]
<1>1. /\ TypeOK /\ HeapOK /\ stack \in Seq(Frame) /\ Idle(stack)
      /\ notified \in [Friend -> Knowledge]
      /\ \A g \in Friend : Truth(g)
  BY InvFacts
<1>2. top \in Frame
  BY DEF Frame, Continuation
<1>3. stack' = Append(stack, top)
  BY DEF Report
<1>4. stack' \in Seq(Frame) /\ stack' # <<>> /\ Last(stack') = top /\ OthersIdle'
  BY <1>1, <1>2, <1>3, Pushed
<1>5. top.event = event /\ top.then = "Nothing"
  OBVIOUS
<1> HIDE DEF top
<1>6. ~Ending'
  BY <1>4, <1>5 DEF Ending
<1>7. /\ notified' \in [Friend -> Knowledge]
      /\ notified'[f] = Told[event]
      /\ \A g \in Friend \ {f} : notified'[g] = notified[g]
  BY <1>1, KnownFacts DEF Report
<1>8. TypeOK' /\ EntriesLive'
  BY <1>4, <1>7 DEF TypeOK, HeapOK, ObjectState
<1>9. Informed'
  BY <1>1, <1>7 DEF Informed, Truth, Moves
<1>10. EndIsNews
  BY <1>4, <1>5 DEF EndIsNews
<1> QED
  BY <1>4, <1>6, <1>8, <1>9, <1>10 DEF Good, IInv

\* No callback is called or returns.
LEMMA ChangesInside ==
  ASSUME IInv, ~Ending, HeapOK', NEW f \in Friend,
         stack' = stack,
         NEW k \in Knowledge, notified' = [notified EXCEPT ![f] = k],
         k = Known(StateOf(f)'),
         Moves(f)
  PROVE  Good(f)
<1>1. /\ TypeOK /\ HeapOK /\ stack \in Seq(Frame) /\ OthersIdle
      /\ notified \in [Friend -> Knowledge]
      /\ \A g \in Friend : Truth(g)
  BY InvFacts
<1>2. ~Ending' /\ OthersIdle'
  BY <1>1 DEF Ending, OthersIdle, Idle
<1>3. /\ notified' \in [Friend -> Knowledge]
      /\ notified'[f] = k
      /\ \A g \in Friend \ {f} : notified'[g] = notified[g]
  BY <1>1
<1>4. TypeOK' /\ EntriesLive'
  BY <1>1, <1>3 DEF TypeOK, HeapOK, ObjectState
<1>5. Informed'
  BY <1>1, <1>3 DEF Informed, Truth, Moves
<1> QED
  BY <1>2, <1>4, <1>5 DEF Good, IInv, EndIsNews

-----------------------------------------------------------------------------
(* Packets and calls.                                                      *)

LEMMA BecomeFacts ==
  ASSUME HeapOK, NEW f \in Friend, entry[f] # 0, NEW s \in ConnectionState,
         Become(f, s), entry' = entry
  PROVE  /\ HeapOK'
         /\ entry[f] \in 1 .. Len(object')
         /\ object'[entry[f]] # "Destroyed"
         /\ StateOf(f)' = s
         /\ \A g \in Friend \ {f} : StateOf(g)' = StateOf(g)
<1>1. /\ entry[f] \in 1 .. Len(object)
      /\ \A g \in Friend \ {f} : entry[g] # entry[f]
      /\ entry' \in [Friend -> Nat]
      /\ s \in ObjectState /\ s # "Destroyed"
  BY DEF HeapOK, EntriesLive, ObjectState, ConnectionState
<1>2. object' = [object EXCEPT ![entry[f]] = s]
  BY DEF Become
<1>3. PICK o \in 1 .. Len(object) : o = entry[f]
  BY <1>1
<1>4. /\ entry' \in [Friend -> Nat]
      /\ entry'[f] = o /\ s # "Destroyed"
      /\ s \in ObjectState
      /\ object' = [object EXCEPT ![o] = s]
  BY <1>1, <1>2, <1>3
<1>5. \A g \in Friend \ {f} : entry[g] # o
  BY <1>1, <1>3
<1>6. \A g \in Friend \ {f} : entry'[g] = entry[g]
  OBVIOUS
<1>7. HeapOK' /\ \A g \in Friend \ {f} : StateOf(g)' = StateOf(g)
  BY <1>4, <1>5, <1>6, Written
<1>8. Len(object') = Len(object) /\ object'[o] = s
  BY <1>4, <1>5, <1>6, Written
<1> QED
  BY <1>1, <1>3, <1>7, <1>8 DEF StateOf


LEMMA UnchangedHeap ==
  ASSUME HeapOK, NEW f \in Friend, entry[f] # 0, entry' = entry, object' = object
  PROVE  /\ HeapOK'
         /\ entry[f] \in 1 .. Len(object')
         /\ object'[entry[f]] # "Destroyed"
         /\ \A g \in Friend : StateOf(g)' = StateOf(g)
  BY DEF HeapOK, EntriesLive, StateOf

LEMMA DeleteStep ==
  ASSUME IInv, ~Ending, NEW f \in Friend, entry[f] # 0,
         NEW event \in {"ConnectionClosed", "ConnectionRejected"},
         ReportAndDelete(f, event),
         \/ UNCHANGED object
         \/ StateOf(f) = "FriendsRequestPending" /\ Become(f, "ExpectingIpPacket")
         \/ /\ StateOf(f) \in {"OwnRequestPending", "ExpectingIpConfirmation"}
            /\ Become(f, "ExpectingIpConfirmation")
  PROVE  Good(f)
<1>1. HeapOK
  BY InvFacts
<1>2. event \in Event /\ Told[event] = "Disconnected"
  BY DEF Event, Told
<1>3. Report(event, f, entry[f], "Delete", stack) /\ entry' = entry
  BY DEF ReportAndDelete
<1>4. "ExpectingIpPacket" \in ConnectionState /\ "ExpectingIpConfirmation" \in ConnectionState
  BY DEF ConnectionState
<1>5. /\ HeapOK'
      /\ entry[f] \in 1 .. Len(object')
      /\ object'[entry[f]] # "Destroyed"
      /\ Moves(f)
  BY <1>1, <1>3, <1>4, UnchangedHeap, BecomeFacts DEF Moves
<1> QED
  BY <1>2, <1>3, <1>5, BeginsEnd DEF Deletion

LEMMA EraseStep ==
  ASSUME IInv, ~Ending, NEW f \in Friend, entry[f] # 0,
         Erase(f, entry[f], StateOf(f), stack)
  PROVE  Good(f)
<1>1. /\ HeapOK /\ entry \in [Friend -> Nat]
      /\ entry[f] \in 1 .. Len(object)
      /\ object[entry[f]] # "Destroyed"
      /\ \A g \in Friend \ {f} : entry[g] # entry[f]
  BY InvFacts DEF HeapOK, EntriesLive
<1>2. /\ "ConnectionClosed" \in Event
      /\ Told["ConnectionClosed"] = "Disconnected"
  BY DEF Event, Told
<1>3. CASE /\ entry' = [entry EXCEPT ![f] = 0] /\ object' = object
           /\ Report("ConnectionClosed", f, entry[f], "Unlinked", stack)
  <2>1. /\ entry' \in [Friend -> Nat] /\ entry'[f] = 0
        /\ \A g \in Friend \ {f} : entry'[g] = entry[g]
    BY <1>1, <1>3
  <2>2. HeapOK' /\ \A g \in Friend \ {f} : StateOf(g)' = StateOf(g)
    BY <1>1, <1>3, <2>1 DEF HeapOK, EntriesLive, StateOf
  <2>3. StateOf(f)' = "NoConnection"
    BY <2>1 DEF StateOf
  <2>4. \A g \in Friend : entry'[g] # entry[f]
    BY <1>1, <2>1
  <2>5. Moves(f)
    BY <2>2, <2>3 DEF Moves
  <2> QED
    BY <1>1, <1>2, <1>3, <2>1, <2>2, <2>4, <2>5, BeginsEnd
<1>4. CASE /\ entry' = entry /\ object' = object
           /\ \A g \in Friend \ {f} : entry[g] = 0
           /\ Report("ConnectionClosed", f, entry[f], "Clear", stack)
  <2>1. HeapOK' /\ \A g \in Friend : StateOf(g)' = StateOf(g)
    BY <1>1, <1>4, UnchangedHeap
  <2>2. Moves(f)
    BY <2>1 DEF Moves
  <2> QED
    BY <1>1, <1>2, <1>4, <2>1, <2>2, BeginsEnd
<1>5. CASE /\ entry' = [entry EXCEPT ![f] = 0]
           /\ object' = [object EXCEPT ![entry[f]] = "Destroyed"]
           /\ stack' = stack
           /\ notified' = [notified EXCEPT ![f] = "Disconnected"]
  <2>1. /\ entry' \in [Friend -> Nat] /\ entry'[f] = 0
        /\ \A g \in Friend \ {f} : entry'[g] = entry[g]
    BY <1>1, <1>5
  <2>2. "Destroyed" \in ObjectState
    BY DEF ObjectState
  <2>3. /\ HeapOK' /\ StateOf(f)' = "NoConnection"
        /\ \A g \in Friend \ {f} : StateOf(g)' = StateOf(g)
    BY <1>1, <1>5, <2>1, <2>2, Written
  <2>4. Moves(f)
    BY <2>3 DEF Moves
  <2>5. "Disconnected" \in Knowledge
    BY DEF Knowledge
  <2> QED
    BY <1>5, <2>3, <2>4, <2>5, KnownFacts, ChangesInside
<1> QED
  BY <1>3, <1>4, <1>5, Zenon DEF Erase

LEMMA ReceiveStep ==
  ASSUME IInv, NEW f \in Friend, Receive(f)
  PROVE  Good(f)
<1>1. ~Ending
  BY DEF Receive, InMainLoop, Ending
<1>2. HeapOK
  BY InvFacts
<1>3. CASE HandleConnectionRequest(f)
  <2>1. "FriendsRequestPending" \in ConnectionState
    BY DEF ConnectionState
  <2>2. /\ HeapOK' /\ StateOf(f)' = "FriendsRequestPending"
        /\ \A g \in Friend \ {f} : StateOf(g)' = StateOf(g)
        /\ entry[f] = 0
    BY <1>2, <1>3, <2>1, Constructed DEF HandleConnectionRequest
  <2>3. Moves(f)
    BY <1>2, <2>2, StateFacts DEF Moves
  <2>4. /\ "ConnectionRequested" \in Event
        /\ Told["ConnectionRequested"] # "Disconnected"
        /\ Told["ConnectionRequested"] = Known("FriendsRequestPending")
    BY DEF Event, Told, Known
  <2>5. entry'[f] \in Nat
    BY <2>2 DEF HeapOK
  <2> QED
    BY <1>1, <1>3, <2>2, <2>3, <2>4, <2>5, ReportsChange DEF HandleConnectionRequest
<1>4. CASE entry[f] # 0 /\ ResetAndDelete(f)
  BY <1>1, <1>4, DeleteStep DEF ResetAndDelete
<1>5. CASE entry[f] # 0 /\ HandleConnectionRejected(f)
  BY <1>1, <1>5, DeleteStep DEF HandleConnectionRejected
<1>8. CASE entry[f] # 0 /\ (SendToTun(f) \/ RefusedIpAccept(f))
  <2>1. PICK then \in Deletion : Report("ConnectionClosed", f, entry[f], then, stack)
    BY <1>8 DEF SendToTun, RefusedIpAccept, Deletion
  <2>2. entry' = entry /\ object' = object
    BY <1>8 DEF SendToTun, RefusedIpAccept
  <2>3. then # "Unlinked" /\ then # "Clear"
    BY DEF Deletion
  <2>4. "ConnectionClosed" \in Event /\ Told["ConnectionClosed"] = "Disconnected"
    BY DEF Event, Told
  <2>5. /\ HeapOK'
        /\ entry[f] \in 1 .. Len(object')
        /\ object'[entry[f]] # "Destroyed"
        /\ Moves(f)
    BY <1>2, <1>8, <2>2, UnchangedHeap DEF Moves
  <2> QED
    BY <1>1, <1>8, <2>1, <2>2, <2>3, <2>4, <2>5, BeginsEnd
<1>6. CASE entry[f] # 0 /\ SendIp(f)
  <2>1. CASE ReportAndDelete(f, "ConnectionClosed")
    BY <1>1, <1>6, <2>1, DeleteStep DEF SendIp
  <2>2. CASE UNCHANGED <<entry, stack, notified>>
    <3>1. /\ StateOf(f) \in {"OwnRequestPending", "ExpectingIpConfirmation"}
          /\ Become(f, "ExpectingIpConfirmation")
          /\ "ExpectingIpConfirmation" \in ConnectionState
      BY <1>6 DEF SendIp, ConnectionState
    <3>2. /\ HeapOK' /\ StateOf(f)' = "ExpectingIpConfirmation"
          /\ \A g \in Friend \ {f} : StateOf(g)' = StateOf(g)
      BY <1>2, <1>6, <2>2, <3>1, BecomeFacts
    <3>3. Moves(f)
      BY <3>1, <3>2 DEF Moves
    <3>4. "Calling" = Known(StateOf(f)) /\ "Calling" = Known(StateOf(f)')
      BY <3>1, <3>2 DEF Known
    <3>5. notified \in [Friend -> Knowledge] /\ notified[f] = "Calling"
      BY <1>1, <3>1, <3>4, InvFacts DEF Truth
    <3>6. notified' = [notified EXCEPT ![f] = "Calling"] /\ "Calling" \in Knowledge
      BY <2>2, <3>5 DEF Knowledge
    <3> QED
      BY <1>1, <2>2, <3>2, <3>3, <3>4, <3>6, ChangesInside
  <2> QED
    BY <1>6, <2>1, <2>2 DEF SendIp
<1>7. CASE entry[f] # 0 /\ SetIp(f)
  <2>1. /\ StateOf(f) \in {"ExpectingIpPacket", "ExpectingIpConfirmation"}
        /\ Become(f, "Connected") /\ entry' = entry
        /\ Report("ConnectionAccepted", f, entry[f], "Nothing", stack)
        /\ "Connected" \in ConnectionState
    BY <1>7 DEF SetIp, ConnectionState
  <2>2. /\ HeapOK' /\ StateOf(f)' = "Connected"
        /\ \A g \in Friend \ {f} : StateOf(g)' = StateOf(g)
    BY <1>2, <1>7, <2>1, BecomeFacts
  <2>3. Moves(f)
    BY <2>1, <2>2 DEF Moves
  <2>4. /\ "ConnectionAccepted" \in Event
        /\ Told["ConnectionAccepted"] # "Disconnected"
        /\ Told["ConnectionAccepted"] = Known("Connected")
        /\ entry[f] \in Nat
    BY <1>2 DEF Event, Told, Known, HeapOK
  <2> QED
    BY <1>1, <2>1, <2>2, <2>3, <2>4, ReportsChange
<1> QED
  BY <1>3, <1>4, <1>5, <1>6, <1>7, <1>8 DEF Receive, HandleData

LEMMA TopFacts ==
  ASSUME stack \in Seq(Frame), stack # <<>>
  PROVE  /\ Last(stack).event \in Event
         /\ Last(stack).friend \in Friend
         /\ Last(stack).then \in Continuation
<1>1. Last(stack) \in Frame
  BY PopFacts
<1> QED
  BY <1>1 DEF Frame

LEMMA MayFacts ==
  ASSUME Considerate, IInv
  PROVE  /\ May("Accept") => ~Ending
         /\ May("Close") => ~Ending
         /\ May("Send") /\ Ending => Last(stack).then \in Deletion
<1>1. ASSUME Ending
      PROVE  /\ Last(stack) \in Frame
             /\ CallsIn[Last(stack).event] \subseteq {"Send"}
  <2>1. Last(stack) \in Frame
    BY <1>1, PopFacts DEF Ending, IInv, TypeOK
  <2>2. Last(stack).event \in Event
    BY <2>1 DEF Frame
  <2> QED
    BY <1>1, <2>1, <2>2 DEF Considerate, IInv, EndInProgress
<1> QED
  BY <1>1 DEF May, InMainLoop, Ending, Considerate, Frame, Continuation, Deletion

LEMMA AcceptStep ==
  ASSUME Considerate, IInv, NEW f \in Friend, AcceptConnection(f)
  PROVE  Good(f)
<1>1. ~Ending /\ entry[f] # 0
  BY MayFacts DEF AcceptConnection
<1>2. HeapOK
  BY InvFacts
<1>3. CASE Erase(f, entry[f], StateOf(f), stack)
  BY <1>1, <1>3, EraseStep
<1>4. CASE /\ StateOf(f) = "FriendsRequestPending"
           /\ Become(f, "ExpectingIpPacket")
           /\ notified' = [notified EXCEPT ![f] = "Answered"]
           /\ UNCHANGED <<entry, stack>>
  <2>1. "ExpectingIpPacket" \in ConnectionState /\ "Answered" \in Knowledge
    BY DEF ConnectionState, Knowledge
  <2>2. /\ HeapOK' /\ StateOf(f)' = "ExpectingIpPacket"
        /\ \A g \in Friend \ {f} : StateOf(g)' = StateOf(g)
    BY <1>1, <1>2, <1>4, <2>1, BecomeFacts
  <2>3. Moves(f) /\ Known(StateOf(f)') = "Answered"
    BY <1>4, <2>2 DEF Moves, Known
  <2> QED
    BY <1>1, <1>4, <2>1, <2>2, <2>3, ChangesInside
<1>5. CASE /\ StateOf(f) = "FriendsRequestPending"
           /\ Become(f, "ExpectingIpPacket")
           /\ ReportAndDelete(f, "ConnectionClosed")
  BY <1>1, <1>5, DeleteStep
<1> QED
  BY <1>3, <1>4, <1>5 DEF AcceptConnection

LEMMA CloseStep ==
  ASSUME Considerate, IInv, NEW f \in Friend, CloseConnection(f)
  PROVE  Good(f)
  BY MayFacts, EraseStep DEF CloseConnection

\* While a connection is being deleted, requests go to other friends.
LEMMA SendStep ==
  ASSUME Considerate, IInv, NEW f \in Friend, SendConnectionRequest(f)
  PROVE  Good(f)
<1>1. HeapOK /\ TypeOK /\ stack \in Seq(Frame) /\ notified \in [Friend -> Knowledge]
  BY InvFacts
<1>2. /\ Construct(f, "OwnRequestPending")
      /\ notified' = [notified EXCEPT ![f] = "Calling"]
      /\ stack' = stack
      /\ "OwnRequestPending" \in ConnectionState
      /\ "Calling" \in Knowledge
  BY DEF SendConnectionRequest, ConnectionState, Knowledge
<1>3. /\ HeapOK'
      /\ Len(object') = Len(object) + 1
      /\ \A q \in 1 .. Len(object) : object'[q] = object[q]
      /\ entry[f] = 0
      /\ entry'[f] = Len(object) + 1
      /\ \A g \in Friend \ {f} : entry'[g] = entry[g]
      /\ StateOf(f)' = "OwnRequestPending"
      /\ \A g \in Friend \ {f} : StateOf(g)' = StateOf(g)
  BY <1>1, <1>2, Constructed
<1>4. Moves(f)
  BY <1>1, <1>3, StateFacts DEF Moves
<1>5. Known(StateOf(f)') = "Calling"
  BY <1>3 DEF Known
<1>6. CASE ~Ending
  BY <1>2, <1>3, <1>4, <1>5, <1>6, ChangesInside
<1>7. CASE Ending
  <2> DEFINE top == Last(stack)
  <2>1. top.then \in Deletion /\ top.then \notin {"Unlinked", "Clear"}
    BY <1>7, MayFacts DEF SendConnectionRequest, Deletion
  <2>2. /\ Told[top.event] = "Disconnected"
        /\ top.object \in 1 .. Len(object)
        /\ object[top.object] # "Destroyed"
        /\ notified[top.friend] = "Disconnected"
        /\ entry[top.friend] = top.object
    BY <1>7, <2>1, Zenon DEF IInv, EndInProgress
  <2>3. top.friend \in Friend
    BY <1>1, <1>7, TopFacts DEF Ending
  <2>4. Last(stack') = top /\ Ending'
    BY <1>2, <1>7 DEF Ending
  <2> HIDE DEF top
  <2>5. top.object # 0 /\ top.object \in 1 .. Len(object')
    BY <1>1, <1>3, <2>2, LenProperties DEF HeapOK
  <2>6. top.friend # f
    BY <1>3, <2>2, <2>5
  <2>7. /\ entry'[top.friend] = top.object
        /\ notified'[top.friend] = "Disconnected"
        /\ object'[top.object] # "Destroyed"
    BY <1>1, <1>2, <1>3, <2>2, <2>3, <2>6
  <2>8. EndInProgress(Last(stack))'
    BY <2>1, <2>2, <2>4, <2>5, <2>7 DEF EndInProgress
  <2>9. /\ notified' \in [Friend -> Knowledge]
        /\ notified'[f] = "Calling"
        /\ \A g \in Friend \ {f} : notified'[g] = notified[g]
    BY <1>1, <1>2
  <2>10. TypeOK' /\ EntriesLive'
    BY <1>1, <1>2, <1>3, <2>9 DEF TypeOK, HeapOK, ObjectState
  <2>11. Informed'
    BY <1>3, <1>5, <1>7, <2>4, <2>9 DEF IInv, Informed, Truth, top
  <2>12. OthersIdle'
    BY <1>2 DEF IInv, OthersIdle, Idle
  <2> QED
    BY <1>2, <1>4, <2>8, <2>10, <2>11, <2>12 DEF Good, IInv, EndIsNews
<1> QED
  BY <1>6, <1>7

-----------------------------------------------------------------------------
(* The callback returns.                                                   *)

\* What remains to be shown once the objects and the entries are all right.
LEMMA Returned ==
  ASSUME IInv, HeapOK', NEW f \in Friend, Moves(f),
         stack # <<>>, stack' = Front(stack),
         notified' \in [Friend -> Knowledge],
         \A g \in Friend : Truth(g)'
  PROVE  Good(f)
<1>1. TypeOK /\ OthersIdle
  BY InvFacts
<1>2. /\ stack' \in Seq(Frame) /\ ~Ending' /\ OthersIdle'
      /\ ~(Len(stack') >= Len(stack))
  BY <1>1, Popped
<1>3. TypeOK' /\ EntriesLive'
  BY <1>2 DEF TypeOK, HeapOK, ObjectState
<1>4. Informed'
  BY DEF Informed
<1> QED
  BY <1>2, <1>3, <1>4 DEF Good, IInv, EndIsNews

\* The callback returns, and its caller reports an event after which it does
\* nothing.
LEMMA ReturnedAndReported ==
  ASSUME IInv, HeapOK', NEW f \in Friend, Moves(f), stack # <<>>,
         NEW x \in Frame, x.then = "Nothing", Told[x.event] # "Disconnected",
         stack' = Append(Front(stack), x),
         notified' \in [Friend -> Knowledge],
         \A g \in Friend : Truth(g)'
  PROVE  Good(f)
<1>1. stack \in Seq(Frame) /\ OthersIdle
  BY InvFacts
<1>2. Front(stack) \in Seq(Frame) /\ Idle(Front(stack))
  BY <1>1, PopFacts DEF OthersIdle
<1>3. stack' \in Seq(Frame) /\ stack' # <<>> /\ Last(stack') = x /\ OthersIdle'
  BY <1>2, Pushed
<1>4. ~Ending'
  BY <1>3 DEF Ending
<1>5. TypeOK' /\ EntriesLive'
  BY <1>3 DEF TypeOK, HeapOK, ObjectState
<1>6. Informed'
  BY DEF Informed
<1>7. EndIsNews
  BY <1>3 DEF EndIsNews
<1> QED
  BY <1>3, <1>4, <1>5, <1>6, <1>7 DEF Good, IInv

LEMMA ReturnStep ==
  ASSUME IInv, Return
  PROVE  \E f \in Friend : Good(f)
<1> DEFINE top == Last(stack)
<1>1. /\ HeapOK /\ TypeOK /\ stack \in Seq(Frame) /\ stack # <<>>
      /\ notified \in [Friend -> Knowledge]
  BY InvFacts DEF Return
<1>2. top.then \in Continuation
  BY <1>1, TopFacts
<1>3. PICK f \in Friend : f = top.friend
  BY <1>1, TopFacts
<1>4. CASE top.then = "Nothing"
  <2>1. stack' = Front(stack) /\ UNCHANGED <<entry, object, notified>>
    BY <1>4 DEF Return, Deletion
  <2>2. HeapOK' /\ \A g \in Friend : StateOf(g)' = StateOf(g)
    BY <1>1, <2>1 DEF HeapOK, EntriesLive, StateOf
  <2>3. \A g \in Friend : Truth(g)'
    BY <1>4, <2>1, <2>2, InvFacts DEF Ending, Truth
  <2> QED
    BY <1>1, <1>3, <2>1, <2>2, <2>3, Returned DEF Moves
<1>5. CASE top.then # "Nothing"
  <2>1. Ending /\ EndInProgress(top)
    BY <1>1, <1>5 DEF Ending, IInv
  <2>2. /\ top.object \in 1 .. Len(object) /\ top.object # 0
        /\ entry[f] = IF top.then = "Unlinked" THEN 0 ELSE top.object
        /\ notified[f] = "Disconnected"
    BY <1>3, <2>1 DEF EndInProgress
  <2>3. PICK o \in 1 .. Len(object) : o = top.object
    BY <2>2
  <2>4. \A g \in Friend \ {f} :
          /\ entry[g] # o
          /\ top.then = "Clear" => entry[g] = 0
    BY <1>1, <1>3, <2>1, <2>2, <2>3 DEF EndInProgress, HeapOK, EntriesLive
  <2>5. \A g \in Friend \ {f} : Truth(g)
    BY <1>3, <2>1 DEF IInv, Informed
  <2>6. "Destroyed" \in ObjectState /\ "Disconnected" \in Knowledge /\ "Misled" \in Knowledge
    BY DEF ObjectState, Knowledge
  <2>7. /\ object' = [object EXCEPT ![o] = "Destroyed"]
        /\ entry' = CASE top.then \in Deletion -> [entry EXCEPT ![f] = 0]
                      [] top.then = "Clear" -> [g \in Friend |-> 0]
                      [] OTHER -> entry
    <3>1. CASE top.then \in Deletion
      BY <1>3, <2>3, <3>1
      DEF Return, DeleteConnection, Erase, SetIpOnDeleted, Deletion
    <3>2. CASE top.then \in {"Unlinked", "Clear"}
      BY <1>3, <2>3, <3>2 DEF Return, Deletion
    <3> QED
      BY <1>2, <1>5, <3>1, <3>2 DEF Continuation, Deletion
  <2>8. /\ entry' \in [Friend -> Nat]
        /\ entry'[f] = 0
        /\ \A g \in Friend \ {f} : entry'[g] = entry[g]
    BY <1>1, <1>2, <1>5, <2>2, <2>4, <2>7 DEF HeapOK, Continuation, Deletion
  <2>9. /\ HeapOK' /\ StateOf(f)' = "NoConnection"
        /\ \A g \in Friend \ {f} : StateOf(g)' = StateOf(g)
    <3>1. object' = [object EXCEPT ![o] = "Destroyed"] /\ "Destroyed" \in ObjectState
      BY <2>6, <2>7
    <3>2. \A g \in Friend \ {f} : entry[g] # o
      BY <2>4
    <3> QED
      BY <1>1, <2>8, <3>1, <3>2, Written
  <2>10. Moves(f)
    BY <2>9 DEF Moves
  <2>11. ASSUME \E k \in {"Disconnected", "Misled"} : notified' = [notified EXCEPT ![f] = k]
         PROVE  notified' \in [Friend -> Knowledge] /\ \A g \in Friend : Truth(g)'
    <3>1. /\ notified' \in [Friend -> Knowledge]
          /\ notified'[f] \in {"Disconnected", "Misled"}
          /\ \A g \in Friend \ {f} : notified'[g] = notified[g]
      BY <1>1, <2>6, <2>11
    <3>2. ASSUME NEW g \in Friend \ {f}
          PROVE  Truth(g)'
      BY <2>5, <2>9, <3>1 DEF Truth
    <3>3. Truth(f)'
      BY <2>9, <3>1, KnownFacts DEF Truth
    <3> QED
      BY <3>1, <3>2, <3>3
  <2>12. CASE /\ stack' = Front(stack)
              /\ \/ notified' = notified
                 \/ notified' = [notified EXCEPT ![f] = "Disconnected"]
    <3>1. notified' = [notified EXCEPT ![f] = "Disconnected"]
      BY <1>1, <2>2, <2>12
    <3> QED
      BY <1>1, <2>9, <2>10, <2>11, <2>12, <3>1, Returned
  <2>13. CASE SetIpOnDeleted(f, o)
    <3> DEFINE x == [event |-> "ConnectionAccepted", friend |-> f, object |-> o,
                     then |-> "Nothing"]
    <3>1. x \in Frame /\ x.then = "Nothing" /\ Told[x.event] # "Disconnected"
      BY DEF Frame, Event, Continuation, Told
    <3>2. stack' = Append(Front(stack), x)
      BY <2>13 DEF SetIpOnDeleted
    <3>3. notified' = [notified EXCEPT ![f] = "Misled"]
      BY <2>13 DEF SetIpOnDeleted
    <3> HIDE DEF x
    <3> QED
      BY <1>1, <2>9, <2>10, <2>11, <3>1, <3>2, <3>3, ReturnedAndReported
  <2>14. \/ SetIpOnDeleted(f, o)
         \/ /\ stack' = Front(stack)
            /\ \/ notified' = notified
               \/ notified' = [notified EXCEPT ![f] = "Disconnected"]
    BY <1>3, <1>5, <2>3 DEF Return, DeleteConnection, Erase
  <2> QED
    BY <2>12, <2>13, <2>14
<1> QED
  BY <1>4, <1>5

-----------------------------------------------------------------------------
LEMMA InitIInv == Init => IInv
<1> SUFFICES ASSUME Init
             PROVE  IInv
  OBVIOUS
<1>1. \A S : <<>> \in Seq(S)
  BY EmptySeq
<1>2. TypeOK
  BY <1>1 DEF Init, TypeOK, Knowledge
<1> QED
  BY <1>2 DEF Init, IInv, EntriesLive, OthersIdle, Ending, Informed, Truth, Known, StateOf

LEMMA NextGood ==
  ASSUME Considerate, IInv, Next
  PROVE  \E f \in Friend : Good(f)
  BY ReceiveStep, SendStep, AcceptStep, CloseStep, ReturnStep DEF Next

LEMMA StutterIInv == IInv /\ UNCHANGED vars => IInv'
  BY DEF vars, IInv, TypeOK, EntriesLive, OthersIdle, Idle, Ending, EndInProgress,
         Informed, Truth, StateOf

\* The invariant from which the properties of the module follow.
THEOREM AlwaysOrderly ==
  ASSUME Considerate
  PROVE  Spec => []IInv
<1>1. IInv /\ [Next]_vars => IInv'
  BY NextGood, StutterIInv DEF Good
<1> QED
  BY <1>1, InitIInv, PTL DEF Spec

LEMMA PendingIsTop ==
  ASSUME IInv
  PROVE  /\ \A i \in Pending : Ending /\ stack[i] = Last(stack) /\ i = Len(stack)
         /\ Ending => Len(stack) \in Pending
<1>1. stack \in Seq(Frame) /\ OthersIdle
  BY InvFacts
<1>2. Len(stack) \in Nat /\ (stack # <<>> => Len(stack) \in 1 .. Len(stack))
  BY <1>1, EmptySeq, LenProperties
<1>3. ASSUME NEW i \in Pending
      PROVE  Ending /\ stack[i] = Last(stack) /\ i = Len(stack)
  <2>1. i \in 1 .. Len(stack) /\ stack[i].then # "Nothing"
    BY DEF Pending
  <2>2. stack # <<>>
    BY <2>1, EmptySeq
  <2>3. /\ Len(Front(stack)) = Len(stack) - 1
        /\ \A j \in 1 .. Len(stack) - 1 : Front(stack)[j] = stack[j]
    BY <1>1, <2>2, PopFacts
  <2>4. i \notin 1 .. Len(stack) - 1
    BY <1>1, <2>1, <2>2, <2>3 DEF OthersIdle, Idle
  <2>5. i = Len(stack)
    BY <1>2, <2>1, <2>4
  <2> QED
    BY <2>1, <2>2, <2>5 DEF Ending, Last
<1>4. Ending => Len(stack) \in Pending
  BY <1>2 DEF Ending, Last, Pending
<1> QED
  BY <1>3, <1>4

\* The calls of a callback destroy no Connection that a handler below it still
\* uses, begin its end or take it out of its entry.  What handlers do with a
\* Connection after they have deleted it themselves is another matter.
THEOREM CallsAreSafe ==
  ASSUME Considerate
  PROVE  Spec => []CallsSpareTheObject
<1>1. IInv => CallsSpareTheObject
  <2> SUFFICES ASSUME IInv, NEW i \in Pending
               PROVE  /\ object[stack[i].object] # "Destroyed"
                      /\ stack[i].then \in Deletion => entry[stack[i].friend] = stack[i].object
                      /\ \A j \in Pending \ {i} : stack[j].object # stack[i].object
    BY DEF CallsSpareTheObject
  <2>1. Ending /\ stack[i] = Last(stack)
    BY PendingIsTop
  <2>2. EndInProgress(stack[i])
    BY <2>1 DEF IInv
  <2>3. \A j \in Pending : j = i
    BY PendingIsTop
  <2> QED
    BY <2>2, <2>3 DEF EndInProgress, Deletion
<1> QED
  BY <1>1, AlwaysOrderly, PTL

\* Events and calls tell the state of every connection, in the main loop and in
\* every callback, except that of a connection that is about to be deleted.
THEOREM CallsAreToldOf ==
  ASSUME Considerate
  PROVE  Spec => []InformedDespiteCalls
<1>1. IInv => InformedDespiteCalls
  <2> SUFFICES ASSUME IInv, NEW f \in Friend, \A i \in Pending : stack[i].friend # f
               PROVE  Truth(f)
    BY DEF InformedDespiteCalls, Truth
  <2>1. Ending => Last(stack).friend # f
    BY PendingIsTop DEF Last
  <2> QED
    BY <2>1 DEF IInv, Informed
<1> QED
  BY <1>1, AlwaysOrderly, PTL

\* ~Connection and the handlers never both report the end of a connection.
THEOREM EndsAreReportedOnce ==
  ASSUME Considerate
  PROVE  Spec => EndsReportedOnce
<1>1. ASSUME IInv, [Next]_vars
      PROVE  [stack' # stack /\ Len(stack') >= Len(stack) =>
                LET e == Last(stack')
                IN  Told[e.event] = "Disconnected" => notified[e.friend] # "Disconnected"]_vars
  BY <1>1, NextGood DEF Good, EndIsNews
<1> QED
  BY <1>1, AlwaysOrderly, PTL DEF Spec, EndsReportedOnce

-----------------------------------------------------------------------------
(* The refinement.                                                         *)

Links == {l \in (Friend \cup {Self}) \X (Friend \cup {Self}) : l[1] # l[2]}

\* getConnectionState on this node.
Status ==
  [l \in Links |-> IF l[1] = Self THEN GetConnectionState(l[2]) ELSE "Disconnected"]

\* getConnectionState in terms of the state.
Shown(s) ==
  CASE s = "Connected" -> "Connected"
    [] s \in {"FriendsRequestPending", "ExpectingIpPacket"} -> "FriendIsRinging"
    [] s \in {"OwnRequestPending", "ExpectingIpConfirmation"} -> "RingingAtFriend"
    [] OTHER -> "Disconnected"

LEMMA ShownFacts ==
  /\ Shown("NoConnection") = "Disconnected"
  /\ Shown("Connected") = "Connected"
  /\ Shown("FriendsRequestPending") = "FriendIsRinging"
  /\ Shown("ExpectingIpPacket") = "FriendIsRinging"
  /\ Shown("OwnRequestPending") = "RingingAtFriend"
  /\ Shown("ExpectingIpConfirmation") = "RingingAtFriend"
  /\ \A s : Shown(s) \in Lifecycle!ConnectionState
  BY DEF Shown, Lifecycle!ConnectionState

LEMMA LinkFacts ==
  /\ Lifecycle!Link = Links
  /\ \A l \in Links : l[1] = Self => l[2] \in Friend
  /\ \A f \in Friend : <<Self, f>> \in Links
  BY SelfAssumption DEF Lifecycle!Link, Links

LifecycleStep ==
  \/ \E l \in Links :
       \/ Status[l] \in {"Disconnected"} /\ Status' = [Status EXCEPT ![l] = "RingingAtFriend"]
       \/ Status[l] \in {"Disconnected"} /\ Status' = [Status EXCEPT ![l] = "FriendIsRinging"]
       \/ /\ Status[l] \in {"RingingAtFriend", "FriendIsRinging"}
          /\ Status' = [Status EXCEPT ![l] = "Connected"]
       \/ /\ Status[l] \in Lifecycle!ConnectionState
          /\ Status' = [Status EXCEPT ![l] = "Disconnected"]
  \/ Status' = Status

LEMMA MovesKeepLifecycle ==
  ASSUME IInv, NEW f \in Friend, Moves(f)
  PROVE  LifecycleStep
<1> DEFINE l == <<Self, f>>
<1>1. l \in Links /\ l[1] = Self /\ l[2] = f
  BY LinkFacts
<1>2. \A k \in Links : k # l /\ k[1] = Self => k[2] \in Friend \ {f}
  <2> SUFFICES ASSUME NEW k \in Links, k # l, k[1] = Self, k[2] = f
               PROVE  FALSE
    BY LinkFacts
  <2>1. k = <<k[1], k[2]>>
    BY DEF Links
  <2> QED
    BY <2>1
<1>3. \A g \in Friend : GetConnectionState(g) = Shown(StateOf(g))
  BY DEF GetConnectionState, Shown
<1>4. \A g \in Friend : GetConnectionState(g)' = Shown(StateOf(g)')
  BY DEF GetConnectionState, Shown
<1>5. Status[l] = Shown(StateOf(f)) /\ Status[l] \in Lifecycle!ConnectionState
  BY <1>1, <1>3, ShownFacts DEF Status
<1>6. Status' = [Status EXCEPT ![l] = Shown(StateOf(f)')]
  <2>1. ASSUME NEW k \in Links, k # l
        PROVE  Status'[k] = Status[k]
    <3>1. CASE k[1] = Self
      <4>1. k[2] \in Friend \ {f}
        BY <1>2, <2>1, <3>1
      <4>2. StateOf(k[2])' = StateOf(k[2])
        BY <4>1 DEF Moves
      <4> QED
        BY <1>3, <1>4, <3>1, <4>1, <4>2 DEF Status
    <3>2. CASE k[1] # Self
      BY <3>2 DEF Status
    <3> QED
      BY <3>1, <3>2
  <2>2. Status'[l] = Shown(StateOf(f)')
    BY <1>1, <1>4 DEF Status
  <2> QED
    BY <1>1, <2>1, <2>2 DEF Status
<1> HIDE DEF l
<1>7. CASE StateOf(f)' = "NoConnection"
  BY <1>1, <1>5, <1>6, <1>7, ShownFacts DEF LifecycleStep
<1>8. CASE Shown(StateOf(f)') = Shown(StateOf(f))
  <2>1. Status' = Status
    BY <1>1, <1>5, <1>6, <1>8 DEF Status
  <2> QED
    BY <2>1 DEF LifecycleStep
<1>9. CASE /\ StateOf(f) = "NoConnection"
           /\ StateOf(f)' \in {"OwnRequestPending", "FriendsRequestPending"}
  BY <1>1, <1>5, <1>6, <1>9, ShownFacts DEF LifecycleStep
<1>10. CASE /\ StateOf(f) \in {"ExpectingIpPacket", "ExpectingIpConfirmation"}
            /\ StateOf(f)' = "Connected"
  BY <1>1, <1>5, <1>6, <1>10, ShownFacts DEF LifecycleStep
<1>11. \/ StateOf(f)' = "NoConnection"
       \/ Shown(StateOf(f)') = Shown(StateOf(f))
       \/ /\ StateOf(f) = "NoConnection"
          /\ StateOf(f)' \in {"OwnRequestPending", "FriendsRequestPending"}
       \/ /\ StateOf(f) \in {"ExpectingIpPacket", "ExpectingIpConfirmation"}
          /\ StateOf(f)' = "Connected"
  BY ShownFacts DEF Moves
<1> QED
  BY <1>7, <1>8, <1>9, <1>10, <1>11

LEMMA LifecycleIsKept == LifecycleStep => [Lifecycle!Next]_Status
  BY LinkFacts
  DEF LifecycleStep, Status, Links, Lifecycle!Next, Lifecycle!Goes, Lifecycle!Dial,
      Lifecycle!Ring, Lifecycle!Establish, Lifecycle!HangUp

\* Whatever the callback calls, getConnectionState moves only as
\* ConnectionLifecycle allows, for one friend at a time.
THEOREM LifecycleIsKeptByCalls ==
  ASSUME Considerate
  PROVE  Spec => CallsKeepLifecycle
<1>1. Init => Lifecycle!Init
  BY LinkFacts, ShownFacts DEF Init, StateOf, Lifecycle!Init, GetConnectionState, Links
<1>2. IInv /\ [Next]_vars => [Lifecycle!Next]_Status
  <2> SUFFICES ASSUME IInv, [Next]_vars
               PROVE  LifecycleStep
    BY LifecycleIsKept
  <2>1. CASE Next
    BY <2>1, NextGood, MovesKeepLifecycle DEF Good
  <2>2. CASE UNCHANGED vars
    BY <2>2 DEF vars, LifecycleStep, Status, GetConnectionState, StateOf
  <2> QED
    BY <2>1, <2>2
<1> QED
  BY <1>1, <1>2, AlwaysOrderly, PTL
  DEF Spec, CallsKeepLifecycle, Lifecycle!Spec, Status, Links
=============================================================================
