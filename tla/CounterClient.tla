---------------------------- MODULE CounterClient ---------------------------
(***************************************************************************)
(* A client that uses a StringCounter as a pool of strings, and of some    *)
(* texts sets the count itself.                                            *)
(***************************************************************************)
EXTENDS StringCounter

CONSTANTS
  Counts,     \* the numbers the client puts
  MaxCount    \* bound: references to a text

ASSUME CounterClientAssumption ==
  /\ Counts \subseteq Int
  /\ MaxCount \in Nat

VARIABLES
  owed,       \* ghost: the references to each text that the client has
  base,       \* ghost: the count that it gave the text before the first of them
  pointer     \* the pointer it was answered by its last sct_ref of each text

counterVars == <<heap, fault, owed, base, pointer>>

Settles(o) == heap' = o.heap /\ fault' = o.fault

ClientRef(t) ==
  /\ owed[t] < MaxCount
  /\ \E o \in Ref(heap, t) :
       /\ Settles(o)
       /\ owed' = IF o.pointer = Null THEN owed ELSE [owed EXCEPT ![t] = @ + 1]
       /\ pointer' = IF o.pointer = Null THEN pointer ELSE [pointer EXCEPT ![t] = o.pointer]
       /\ UNCHANGED base

\* Each reference is given back once.
ClientUnref(t) ==
  /\ owed[t] > 0
  /\ heap' = Unref(heap, t)
  /\ owed' = [owed EXCEPT ![t] = @ - 1]
  /\ base' = IF owed[t] = 1 /\ NodeFor(heap', t) = {} THEN [base EXCEPT ![t] = 0] ELSE base
  /\ UNCHANGED <<fault, pointer>>

ClientPut(t, n) ==
  /\ owed[t] = 0
  /\ \E o \in CounterPut(heap, t, n) :
       /\ Settles(o)
       /\ base' = [base EXCEPT ![t] = IF NodeFor(o.heap, t) = {} THEN 0 ELSE n]
  /\ UNCHANGED <<owed, pointer>>

\* sct_remove and sct_clear, of texts the client holds no reference to.
ClientRemove(t) ==
  /\ owed[t] = 0
  /\ heap' = CounterRemove(heap, t)
  /\ base' = [base EXCEPT ![t] = 0]
  /\ UNCHANGED <<fault, owed, pointer>>

ClientClear ==
  /\ \A t \in Texts : owed[t] = 0
  /\ heap' = CounterClear(heap)
  /\ base' = [t \in Texts |-> 0]
  /\ UNCHANGED <<fault, owed, pointer>>

-----------------------------------------------------------------------------

CounterInit ==
  /\ owed = [t \in Texts |-> 0]
  /\ base = [t \in Texts |-> 0]
  /\ pointer = [t \in Texts |-> Null]

CounterNext ==
  \/ \E t \in Texts :
       \/ ClientRef(t) \/ ClientUnref(t) \/ ClientRemove(t)
       \/ \E n \in Counts : ClientPut(t, n)
  \/ ClientClear

-----------------------------------------------------------------------------
(* Properties. *)

\* "Each invocation with the same string characters will return the same
\* pointer value and increment count by 1" (string_counter.c:206): as long as
\* the client has a reference to a text, every pointer it was answered for the
\* text leads to it, and its count is the number of references, on top of what
\* the client had put.  Not so where that was negative: the count then comes
\* from one to zero, and the string goes, while there are references.
ReferencesHold ==
  \A t \in Texts :
    owed[t] > 0 /\ base[t] >= 0 /\ fault = "none" =>
      /\ NodeFor(heap, t) = {pointer[t]}
      /\ GetCount(heap, t) = base[t] + owed[t]
=============================================================================
