------------------------------ MODULE MCCallbacks ------------------------------
EXTENDS Callbacks, TLC

CONSTANTS a, b

Symmetry == Permutations(Friend)

\* In the callback of a request or of a new connection anything is called,
\* after the end of a connection only sendConnectionRequest.
Calls ==
  [ e \in Event |-> IF Told[e] = "Disconnected" THEN {"Send"} ELSE Call ]

AnyCalls == [e \in Event |-> Call]
=============================================================================
