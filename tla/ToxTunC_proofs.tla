----------------------------- MODULE ToxTunC_proofs -----------------------------
(***************************************************************************)
(* What the C API keeps by address is right for every instance, for every   *)
(* allocator, and for every number of instances, errors and strings.        *)
(***************************************************************************)
EXTENDS ToxTunC, TLAPS

-----------------------------------------------------------------------------
(* The inductive invariant.                                                *)

ErrorOf(i, e) == [instance |-> i, error |-> e]

TypeOK ==
  /\ created \in 0 .. MaxInstances
  /\ instance \in [Address -> 0 .. created]
  /\ errorStrings \in [Address -> [instance : Nat, error : Nat]]
  /\ errorCStrings \in [Address -> Nat]
  /\ errors \in Nat /\ strings \in Nat
  /\ failed \in [Instance -> Nat]
  /\ held \in [Instance -> Nat]

\* An instance has one address.
OneAddress ==
  \A a, b \in Address : instance[a] = instance[b] /\ instance[a] # 0 => a = b

\* There is nothing to be found yet for instances still to come: what is left
\* from an instance under its address is not mistaken for theirs.
NothingBefore ==
  \A i \in Instance : i > created => failed[i] = 0 /\ held[i] = 0

IInv == TypeOK /\ OneAddress /\ NothingBefore /\ StringsStayValid /\ LastErrorKept

LEMMA InitIInv == Init => IInv
  BY BoundsAssumption
  DEF Init, IInv, TypeOK, OneAddress, NothingBefore, StringsStayValid, LastErrorKept, NoError

\* An instance that is alive is one that has been created.
LEMMA Alive ==
  ASSUME TypeOK, NEW a \in Address, instance[a] # 0
  PROVE  instance[a] \in Instance
  BY BoundsAssumption DEF TypeOK, Instance

LEMMA NewStep ==
  ASSUME IInv, NEW a \in Address, toxtun_new(a)
  PROVE  IInv'
<1> USE DEF IInv
<1>1. /\ created' = created + 1
      /\ created' \in 0 .. MaxInstances
      /\ created' \in Instance
      /\ \A i \in Instance : i > created' => i > created
      /\ created' > created /\ created' # 0
  BY BoundsAssumption DEF toxtun_new, TypeOK, Instance
<1>2. /\ \A b \in Address : b # a => instance'[b] = instance[b]
      /\ instance'[a] = created'
      /\ \A b \in Address : instance[b] \in 0 .. created'
      /\ \A b \in Address : instance[b] # created'
  BY <1>1 DEF toxtun_new, TypeOK
<1>3. UNCHANGED <<errorStrings, errors, failed, errorCStrings, strings, held>>
  BY DEF toxtun_new, errorVars, stringVars
<1>4. instance' \in [Address -> 0 .. created']
  BY <1>1, <1>2 DEF toxtun_new, TypeOK
<1>5. TypeOK'
  BY <1>1, <1>3, <1>4 DEF TypeOK
<1>6. OneAddress'
  BY <1>2 DEF OneAddress
<1>7. NothingBefore'
  BY <1>1, <1>3 DEF NothingBefore
<1>8. failed[created'] = 0 /\ held[created'] = 0
  BY <1>1 DEF NothingBefore
<1>9. StringsStayValid'
  BY <1>2, <1>3, <1>8 DEF StringsStayValid
<1>10. LastErrorKept'
  BY <1>2, <1>3, <1>8 DEF LastErrorKept
<1> QED
  BY <1>5, <1>6, <1>7, <1>9, <1>10

LEMMA KillStep ==
  ASSUME IInv, NEW a \in Address, toxtun_kill(a)
  PROVE  IInv'
<1> USE DEF IInv
<1>1. /\ instance' \in [Address -> 0 .. created]
      /\ \A b \in Address : instance'[b] \in {instance[b], 0}
  BY DEF toxtun_kill, TypeOK
<1>2. UNCHANGED <<created, errorStrings, errors, failed, errorCStrings, strings, held>>
  BY DEF toxtun_kill, errorVars, stringVars
<1>3. TypeOK' /\ OneAddress' /\ NothingBefore'
  BY <1>1, <1>2 DEF TypeOK, OneAddress, NothingBefore
<1>4. StringsStayValid' /\ LastErrorKept'
  BY <1>1, <1>2 DEF StringsStayValid, LastErrorKept
<1> QED
  BY <1>3, <1>4

LEMMA CallbackStep ==
  ASSUME IInv, UNCHANGED <<instance, created, errorVars, stringVars>>
  PROVE  IInv'
  BY DEF IInv, TypeOK, OneAddress, NothingBefore, StringsStayValid, LastErrorKept,
         errorVars, stringVars

LEMMA FailStep ==
  ASSUME IInv, NEW a \in Address, CallFails(a)
  PROVE  IInv'
<1> USE DEF IInv
<1> DEFINE i == instance[a]
<1>1. i # 0 /\ i \in Instance /\ i \in Nat /\ ~(i > created)
  BY Alive DEF CallFails, Instance, TypeOK
<1>2. /\ UNCHANGED <<instance, created, errorCStrings, strings, held>>
      /\ errors' = errors + 1 /\ errors' \in Nat
      /\ errorStrings' = [errorStrings EXCEPT ![a] = ErrorOf(i, errors')]
      /\ failed' = [failed EXCEPT ![i] = errors']
  BY DEF CallFails, stringVars, ErrorOf, TypeOK
<1>3. ErrorOf(i, errors') \in [instance : Nat, error : Nat]
  BY <1>1, <1>2 DEF ErrorOf
<1>4. TypeOK'
  BY <1>1, <1>2, <1>3 DEF TypeOK
<1>5. OneAddress' /\ StringsStayValid'
  BY <1>2 DEF OneAddress, StringsStayValid
<1>6. NothingBefore'
  BY <1>1, <1>2 DEF NothingBefore, TypeOK
<1>7. LastErrorKept'
  <2> SUFFICES ASSUME NEW b \in Address, instance[b] # 0, failed'[instance[b]] # 0
               PROVE  errorStrings'[b] = ErrorOf(instance[b], failed'[instance[b]])
    BY <1>2 DEF LastErrorKept, ErrorOf
  <2>1. CASE b = a
    BY <1>1, <1>2, <2>1 DEF TypeOK
  <2>2. CASE b # a
    <3>1. instance[b] # i /\ instance[b] \in Instance
      BY <1>1, <2>2, Alive DEF OneAddress
    <3> QED
      BY <1>2, <2>2, <3>1 DEF TypeOK, LastErrorKept, ErrorOf
  <2> QED
    BY <2>1, <2>2
<1> QED
  BY <1>4, <1>5, <1>6, <1>7

LEMMA StringStep ==
  ASSUME IInv, NEW a \in Address, toxtun_get_last_error(a)
  PROVE  IInv'
<1> USE DEF IInv
<1> DEFINE i == instance[a]
<1>1. i # 0 /\ i \in Instance /\ i \in Nat /\ ~(i > created)
  BY Alive DEF toxtun_get_last_error, Instance, TypeOK
<1>2. /\ UNCHANGED <<instance, created, errors>>
      /\ strings' = strings + 1 /\ strings' \in Nat
      /\ errorCStrings' = [errorCStrings EXCEPT ![a] = strings']
      /\ errorStrings' = [errorStrings EXCEPT ![a] = NoError]
      /\ held' = [held EXCEPT ![i] = strings']
      /\ failed' = [failed EXCEPT ![i] = 0]
  BY DEF toxtun_get_last_error, TypeOK
<1>3. NoError \in [instance : Nat, error : Nat]
  BY DEF NoError
<1>4. TypeOK'
  BY <1>1, <1>2, <1>3 DEF TypeOK
<1>5. OneAddress'
  BY <1>2 DEF OneAddress
<1>6. NothingBefore'
  BY <1>1, <1>2 DEF NothingBefore, TypeOK
<1>7. \A b \in Address : b # a /\ instance[b] # 0 => instance[b] # i /\ instance[b] \in Instance
  BY <1>1, Alive DEF OneAddress
<1>8. StringsStayValid'
  <2> SUFFICES ASSUME NEW b \in Address, instance[b] # 0, held'[instance[b]] # 0
               PROVE  errorCStrings'[b] = held'[instance[b]]
    BY <1>2 DEF StringsStayValid
  <2> QED
    BY <1>1, <1>2, <1>7 DEF TypeOK, StringsStayValid
<1>9. LastErrorKept'
  <2> SUFFICES ASSUME NEW b \in Address, instance[b] # 0, failed'[instance[b]] # 0
               PROVE  errorStrings'[b] = ErrorOf(instance[b], failed'[instance[b]])
    BY <1>2 DEF LastErrorKept, ErrorOf
  <2> QED
    BY <1>1, <1>2, <1>7 DEF TypeOK, LastErrorKept, ErrorOf
<1> QED
  BY <1>4, <1>5, <1>6, <1>8, <1>9

LEMMA NextIInv == IInv /\ [Next]_vars => IInv'
<1> SUFFICES ASSUME IInv, [Next]_vars
             PROVE  IInv'
  OBVIOUS
<1>1. CASE UNCHANGED vars
  BY <1>1, CallbackStep DEF vars
<1>2. ASSUME NEW a \in Address, NEW cb, toxtun_set_callback(a, cb)
      PROVE  IInv'
  BY <1>2, CallbackStep DEF toxtun_set_callback
<1> QED
  BY <1>1, <1>2, NewStep, KillStep, FailStep, StringStep DEF Next

THEOREM AlwaysTold == Spec => []IInv
  BY InitIInv, NextIInv, PTL DEF Spec

-----------------------------------------------------------------------------
\* The string toxtun_get_last_error has returned is freed by nothing but the
\* next call for the same instance, though all strings are kept by address and
\* the allocator gives the address of a killed instance to a new one.
THEOREM StringsAreValid == Spec => []StringsStayValid
  BY AlwaysTold, PTL DEF IInv

\* The text of an error is found under the address of its instance until it is
\* asked for, errors of other instances notwithstanding.
THEOREM ErrorsAreKept == Spec => []LastErrorKept
  BY AlwaysTold, PTL DEF IInv
=============================================================================
