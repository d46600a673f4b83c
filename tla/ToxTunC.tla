-------------------------------- MODULE ToxTunC --------------------------------
(***************************************************************************)
(* The C API.  A ToxTun is known to a C program by its address, and what    *)
(* the C++ API keeps in an exception or in the object is kept in variables  *)
(* of the file here: the callback, the text of the last error and the       *)
(* string the program was given, the latter two by address.                 *)
(*                                                                         *)
(* Instances are numbered in the order they are created, errors in the      *)
(* order they happen and strings in the order they are allocated: the       *)
(* properties need the numbers, the code does not have them.                *)
(***************************************************************************)
EXTENDS Integers, FiniteSets

CONSTANTS
  Address,       \* addresses the allocator may return
  Callback,      \* functions of the C program
  MaxInstances,  \* bound on the calls of toxtun_new
  MaxErrors,     \* bound on the calls that fail
  MaxStrings     \* bound on the calls of toxtun_get_last_error

ASSUME BoundsAssumption ==
  MaxInstances \in Nat /\ MaxErrors \in Nat /\ MaxStrings \in Nat

VARIABLES
  instance,       \* the ToxTun at an address, 0 for none
  created,        \* number of calls of toxtun_new
  cCallback,      \* the variable cCallback
  hasCallback,    \* whether an instance has intermediateCallback as its callback
  errorStrings,   \* the variable errorStrings
  errors,         \* number of calls that have failed
  errorCStrings,  \* the variable errorCStrings, 0 for no entry
  strings,        \* number of strings allocated
  failed,         \* the last error of an instance not asked for yet, 0 for none
  held            \* the string the program holds for an instance, 0 for none

callbackVars == <<cCallback, hasCallback>>
errorVars == <<errorStrings, errors, failed>>
stringVars == <<errorCStrings, strings, held>>
vars == <<instance, created, callbackVars, errorVars, stringVars>>

Instance == 1 .. MaxInstances
NULL == "NULL"
NoError == [instance |-> 0, error |-> 0]

toxtun_new(a) ==
  /\ instance[a] = 0
  /\ created < MaxInstances
  /\ created' = created + 1
  /\ instance' = [instance EXCEPT ![a] = created + 1]
  /\ UNCHANGED <<callbackVars, errorVars, stringVars>>

\* The entries of errorStrings and errorCStrings stay.
toxtun_kill(a) ==
  /\ instance[a] # 0
  /\ instance' = [instance EXCEPT ![a] = 0]
  /\ UNCHANGED <<created, callbackVars, errorVars, stringVars>>

\* intermediateCallback calls what cCallback holds, whichever instance set it,
\* and changes nothing here.
toxtun_set_callback(a, cb) ==
  /\ instance[a] # 0
  /\ cCallback' = cb
  /\ hasCallback' = [hasCallback EXCEPT ![instance[a]] = TRUE]
  /\ UNCHANGED <<instance, created, errorVars, stringVars>>

\* Mutant: an error does not replace one that was not asked for.
KeepFirstError(a) ==
  /\ instance[a] # 0
  /\ errors < MaxErrors
  /\ errors' = errors + 1
  /\ errorStrings' = [errorStrings EXCEPT ![a] =
       IF @ = NoError THEN [instance |-> instance[a], error |-> errors + 1] ELSE @]
  /\ failed' = [failed EXCEPT ![instance[a]] = errors + 1]
  /\ UNCHANGED <<instance, created, callbackVars, stringVars>>

\* toxtun_send_connection_request or toxtun_accept_connection returns false.
CallFails(a) ==
  /\ instance[a] # 0
  /\ errors < MaxErrors
  /\ errors' = errors + 1
  /\ errorStrings' =
       [errorStrings EXCEPT ![a] = [instance |-> instance[a], error |-> errors + 1]]
  /\ failed' = [failed EXCEPT ![instance[a]] = errors + 1]
  /\ UNCHANGED <<instance, created, callbackVars, stringVars>>

\* Mutant: there is one string for all instances.
OneStringForAll(a) ==
  /\ instance[a] # 0
  /\ strings < MaxStrings
  /\ strings' = strings + 1
  /\ errorCStrings' = [b \in Address |-> strings + 1]
  /\ errorStrings' = [errorStrings EXCEPT ![a] = NoError]
  /\ held' = [held EXCEPT ![instance[a]] = strings + 1]
  /\ failed' = [failed EXCEPT ![instance[a]] = 0]
  /\ UNCHANGED <<instance, created, callbackVars, errors>>

\* The string last returned for the address is freed.
toxtun_get_last_error(a) ==
  /\ instance[a] # 0
  /\ strings < MaxStrings
  /\ strings' = strings + 1
  /\ errorCStrings' = [errorCStrings EXCEPT ![a] = strings + 1]
  /\ errorStrings' = [errorStrings EXCEPT ![a] = NoError]
  /\ held' = [held EXCEPT ![instance[a]] = strings + 1]
  /\ failed' = [failed EXCEPT ![instance[a]] = 0]
  /\ UNCHANGED <<instance, created, callbackVars, errors>>

Init ==
  /\ instance = [a \in Address |-> 0] /\ created = 0
  /\ cCallback = NULL /\ hasCallback = [i \in Instance |-> FALSE]
  /\ errorStrings = [a \in Address |-> NoError] /\ errors = 0
  /\ failed = [i \in Instance |-> 0]
  /\ errorCStrings = [a \in Address |-> 0] /\ strings = 0
  /\ held = [i \in Instance |-> 0]

Next ==
  \E a \in Address :
    \/ toxtun_new(a)
    \/ toxtun_kill(a)
    \/ \E cb \in Callback \cup {NULL} : toxtun_set_callback(a, cb)
    \/ CallFails(a)
    \/ toxtun_get_last_error(a)

Spec == Init /\ [][Next]_vars

-----------------------------------------------------------------------------
\* A string returned by toxtun_get_last_error stays valid until the next call
\* for the same instance, whatever happens to others (ToxTunC.h).
StringsStayValid ==
  \A a \in Address :
    LET i == instance[a] IN i # 0 /\ held[i] # 0 => errorCStrings[a] = held[i]

\* The last error of an instance is kept until it is asked for, with errors
\* of other instances and of an earlier instance at its address in between.
LastErrorKept ==
  \A a \in Address :
    LET i == instance[a]
    IN  i # 0 /\ failed[i] # 0 => errorStrings[a] = [instance |-> i, error |-> failed[i]]
=============================================================================
