---------------------------- MODULE JsonAndTextProofs --------------------------
(***************************************************************************)
(* Proofs about the globals of the JSON parser, its strings, and splitting *)
(* slices of text.                                                         *)
(*                                                                         *)
(* JsonGlobals, for any number of threads, configurations and addresses.   *)
(* With careful clients at most one thread is inside init or destroy       *)
(* beyond the flag, and then no other thread is in the library but in the  *)
(* part of a parse that uses its context alone; the inductive invariant    *)
(* says what the globals and the heap hold at each of its steps, and what  *)
(* a copying thread has copied at each of its own.                         *)
(*                                                                         *)
(* JsonString, for any texts of bytes.  First the code's table of lead and *)
(* second bytes is shown to be that of the encodings of scalar values, and *)
(* its hexadecimal numbers and encoder to be those of the reference; then  *)
(* each turn of the loop is shown to read one piece of the text as what it *)
(* means.  The recursive functions of the reference, and the folds, are    *)
(* shown to exist by taking the least number they would fail at.           *)
(*                                                                         *)
(* StringSlice, for any texts, delimiters and sizes of the slice buffer.   *)
(* The pieces of a text from each of its places on are characterised by    *)
(* where the next delimiter is; a chop takes the first piece off what is   *)
(* left, and a call of the splitting function takes as many as fit.  The   *)
(* inductive invariants say that the pieces read so far and those of what  *)
(* is left are the pieces of the text.                                     *)
(***************************************************************************)
EXTENDS JsonGlobals, JsonString, StringSlice, SequenceTheorems, NaturalsInduction, WellFoundedInduction, TLAPS

-----------------------------------------------------------------------------
(* The globals of the library. *)

Contexts == [flags : Settings, depth : Settings, ws : Settings \cup {FREE}]

\* What every step needs to know of the values, careful clients or not.
Types ==
  /\ is_initialized \in BOOLEAN
  /\ json_config_flags \in Settings /\ pvt_depth_max \in Settings
  /\ pvt_whitespace_chars \in Addresses \cup {NULL}
  /\ heap \in [Addresses -> Configs \cup {FREE}]
  /\ ready \in BOOLEAN
  /\ pc \in [Threads -> Labels]
  /\ arg \in [Threads -> Settings]
  /\ \A t \in Threads : pc[t] \in {"init", "init_ws", "init_flags", "init_depth", "init_done"}
                          => arg[t] \in Configs
  /\ ptr \in [Threads -> Addresses \cup {NULL}]
  /\ context \in [Threads -> Contexts]

\* The initial values have their types.
LEMMA InitTypes == GlobalsInit => Types
<1>1. NoContext \in Contexts
  BY DEF NoContext, Contexts, Settings
<1>2. QED
  BY <1>1 DEF GlobalsInit, Types, Settings, Labels

\* Every step of every thread keeps the types.
LEMMA NextTypes == Types /\ [GlobalsNext]_globalsVars => Types'
<1> SUFFICES ASSUME Types, [GlobalsNext]_globalsVars PROVE Types'
  OBVIOUS
<1> USE DEF Types, Settings, Labels, Goto, globals, locals
<1>1. ASSUME NEW t \in Threads, NEW c \in Configs, CallInit(t, c) PROVE Types'
  BY <1>1 DEF CallInit
<1>2. ASSUME NEW t \in Threads, InitCheck(t) PROVE Types'
  BY <1>2 DEF InitCheck
<1>3. ASSUME NEW t \in Threads, InitWhitespace(t) PROVE Types'
  BY <1>3 DEF InitWhitespace
<1>4. ASSUME NEW t \in Threads, InitNoMemory(t) PROVE Types'
  BY <1>4 DEF InitNoMemory
<1>5. ASSUME NEW t \in Threads, InitFlags(t) PROVE Types'
  BY <1>5 DEF InitFlags
<1>6. ASSUME NEW t \in Threads, InitDepth(t) PROVE Types'
  BY <1>6 DEF InitDepth
<1>7. ASSUME NEW t \in Threads, InitDone(t) PROVE Types'
  BY <1>7 DEF InitDone
<1>8. ASSUME NEW t \in Threads, CallDestroy(t) PROVE Types'
  BY <1>8 DEF CallDestroy
<1>9. ASSUME NEW t \in Threads, DestroyFlag(t) PROVE Types'
  BY <1>9 DEF DestroyFlag
<1>10. ASSUME NEW t \in Threads, DestroyWhitespace(t) PROVE Types'
  BY <1>10 DEF DestroyWhitespace
<1>11. ASSUME NEW t \in Threads, DestroyFree(t) PROVE Types'
  BY <1>11 DEF DestroyFree
<1>12. ASSUME NEW t \in Threads, CallParse(t) PROVE Types'
  BY <1>12 DEF CallParse
<1>13. ASSUME NEW t \in Threads, CopyFlags(t) PROVE Types'
  BY <1>13 DEF CopyFlags, Contexts
<1>14. ASSUME NEW t \in Threads, CopyDepth(t) PROVE Types'
  BY <1>14 DEF CopyDepth, Contexts
<1>15. ASSUME NEW t \in Threads, LoadWhitespace(t) PROVE Types'
  BY <1>15 DEF LoadWhitespace
<1>16. ASSUME NEW t \in Threads, CopyWhitespace(t) PROVE Types'
  BY <1>16 DEF CopyWhitespace, Contexts
<1>17. ASSUME NEW t \in Threads, Return(t) PROVE Types'
  BY <1>17 DEF Return
<1>18. CASE UNCHANGED globalsVars
  BY <1>18 DEF globalsVars
<1>19. QED
  BY <1>1, <1>2, <1>3, <1>4, <1>5, <1>6, <1>7, <1>8, <1>9, <1>10, <1>11, <1>12,
     <1>13, <1>14, <1>15, <1>16, <1>17, <1>18 DEF GlobalsNext

-----------------------------------------------------------------------------
(* What the globals and the heap hold, at each step of init and destroy.    *)

\* The white space string of configuration c is the one allocated string.
Holds(a, c) ==
  /\ a \in Addresses
  /\ heap = [x \in Addresses |-> IF x = a THEN c ELSE FREE]

Untouched ==
  /\ ~is_initialized
  /\ pvt_whitespace_chars = NULL
  /\ \A x \in Addresses : heap[x] = FREE

\* All the globals are those of configuration c.
Whole(c) ==
  /\ json_config_flags = c
  /\ pvt_depth_max = c
  /\ Holds(pvt_whitespace_chars, c)

SomeWhole == \E c \in Configs : Whole(c)

\* A thread that is in init or destroy, and found that it has work to do or
\* has not looked yet.
Writing(t) ==
  \/ pc[t] \in {"init_ws", "init_flags", "init_depth", "init_done",
                "destroy", "destroy_ws", "destroy_free"}
  \/ pc[t] = "init" /\ ~ready

Copying(t) == pc[t] \in {"copy_flags", "copy_depth", "load_ws", "copy_ws"}

\* A writer is alone, and no copy is made while there is no configuration.
Exclusive ==
  \A t \in Threads : /\ Writing(t) => ~ready /\ Alone(t)
                     /\ Copying(t) => ready

AtRest ==
  /\ ready => is_initialized /\ SomeWhole
  /\ ~ready /\ (\A t \in Threads : ~Writing(t)) => Untouched

\* The writer's progress.
Progress ==
  \A t \in Threads :
    /\ pc[t] = "init" /\ ~ready => Untouched
    /\ pc[t] = "init_ws" => Untouched
    /\ pc[t] = "init_flags" =>
         ~is_initialized /\ Holds(pvt_whitespace_chars, arg[t])
    /\ pc[t] = "init_depth" =>
         /\ ~is_initialized /\ Holds(pvt_whitespace_chars, arg[t])
         /\ json_config_flags = arg[t]
    /\ pc[t] = "init_done" => ~is_initialized /\ Whole(arg[t])
    /\ pc[t] = "destroy" => is_initialized /\ SomeWhole
    /\ pc[t] = "destroy_ws" => ~is_initialized /\ SomeWhole
    /\ pc[t] = "destroy_free" =>
         /\ ~is_initialized
         /\ pvt_whitespace_chars = NULL
         /\ \E c \in Configs : Holds(ptr[t], c)

\* A copying thread has copied the configuration there is.
Copied ==
  \A t \in Threads :
    /\ pc[t] \in {"copy_depth", "load_ws", "copy_ws"} => context[t].flags = json_config_flags
    /\ pc[t] \in {"load_ws", "copy_ws"} => context[t].depth = pvt_depth_max
    /\ pc[t] = "copy_ws" => ptr[t] = pvt_whitespace_chars

IInv ==
  /\ Types
  /\ Exclusive
  /\ AtRest
  /\ Progress
  /\ Copied
  /\ ContextOfOneInit

\* Nothing is initialized, and no thread is in a call.
LEMMA InitInv == GlobalsInit => IInv
  BY InitTypes
  DEF GlobalsInit, IInv, Exclusive, AtRest, Progress, Copied, ContextOfOneInit, Writing, Copying, Untouched

\* With careful clients every step of every thread keeps the invariant.
LEMMA NextInv == Careful /\ IInv /\ [GlobalsNext]_globalsVars => IInv'
<1> SUFFICES ASSUME Careful, IInv, [GlobalsNext]_globalsVars PROVE IInv'
  OBVIOUS
<1> USE DEF IInv
<1>1. Types'
  BY NextTypes
<1> USE JsonGlobalsAssumption
    DEF Types, Goto, globals, locals, Exclusive, AtRest, Progress, Copied, ContextOfOneInit,
        Writing, Copying, Alone, Untouched, Holds, Whole, SomeWhole
<1> DEFINE Inv == Exclusive /\ AtRest /\ Progress /\ Copied /\ ContextOfOneInit
<1>2. ASSUME NEW t \in Threads, NEW c \in Configs, CallInit(t, c) PROVE Inv'
  BY <1>2 DEF CallInit
<1>3. ASSUME NEW t \in Threads, InitCheck(t) PROVE Inv'
  BY <1>3 DEF InitCheck
<1>4. ASSUME NEW t \in Threads, InitWhitespace(t) PROVE Inv'
  <2>1. PICK a \in Addresses :
              /\ pvt_whitespace_chars' = a
              /\ heap' = [heap EXCEPT ![a] = arg[t]]
    BY <1>4 DEF InitWhitespace
  <2>2. Untouched
    BY <1>4 DEF InitWhitespace
  <2>3. heap' = [x \in Addresses |-> IF x = a THEN arg[t] ELSE FREE]
    BY <2>1, <2>2
  <2>4. arg'[t] = arg[t] /\ ~is_initialized'
    BY <1>4, <2>2 DEF InitWhitespace
  <2>5. \A u \in Threads \ {t} : pc[u] \in {"idle", "parsing"} /\ pc'[u] = pc[u]
    BY <1>4 DEF InitWhitespace
  <2>6. ~ready' /\ pc'[t] = "init_flags"
    BY <1>4 DEF InitWhitespace
  <2>7. Progress'
    <3>1. pvt_whitespace_chars' \in Addresses
      BY <2>1
    <3>2. heap' = [x \in Addresses |-> IF x = pvt_whitespace_chars' THEN arg'[t] ELSE FREE]
      BY <2>1, <2>3, <2>4
    <3>3. \A u \in Threads : (pc'[u] = "init_flags" /\ u = t) \/ pc'[u] \in {"idle", "parsing"}
      BY <2>5, <2>6
    <3>4. QED
      BY <2>4, <3>1, <3>2, <3>3
  <2>8. Exclusive'
    BY <1>4 DEF InitWhitespace
  <2>9. AtRest'
    BY <2>6
  <2>10. Copied'
    BY <2>5, <2>6
  <2>11. ContextOfOneInit'
    BY <1>4, <2>5, <2>6 DEF InitWhitespace
  <2>12. QED
    BY <2>7, <2>8, <2>9, <2>10, <2>11
<1>5. ASSUME NEW t \in Threads, InitNoMemory(t) PROVE Inv'
  BY <1>5 DEF InitNoMemory
<1>6. ASSUME NEW t \in Threads, InitFlags(t) PROVE Inv'
  BY <1>6 DEF InitFlags
<1>7. ASSUME NEW t \in Threads, InitDepth(t) PROVE Inv'
  BY <1>7 DEF InitDepth
<1>8. ASSUME NEW t \in Threads, InitDone(t) PROVE Inv'
  BY <1>8 DEF InitDone
<1>9. ASSUME NEW t \in Threads, CallDestroy(t) PROVE Inv'
  BY <1>9 DEF CallDestroy
<1>10. ASSUME NEW t \in Threads, DestroyFlag(t) PROVE Inv'
  BY <1>10 DEF DestroyFlag
<1>11. ASSUME NEW t \in Threads, DestroyWhitespace(t) PROVE Inv'
  BY <1>11 DEF DestroyWhitespace
<1>12. ASSUME NEW t \in Threads, DestroyFree(t) PROVE Inv'
  BY <1>12 DEF DestroyFree
<1>13. ASSUME NEW t \in Threads, CallParse(t) PROVE Inv'
  BY <1>13 DEF CallParse
<1>14. ASSUME NEW t \in Threads, CopyFlags(t) PROVE Inv'
  BY <1>14 DEF CopyFlags
<1>15. ASSUME NEW t \in Threads, CopyDepth(t) PROVE Inv'
  BY <1>15 DEF CopyDepth
<1>16. ASSUME NEW t \in Threads, LoadWhitespace(t) PROVE Inv'
  BY <1>16 DEF LoadWhitespace
<1>17. ASSUME NEW t \in Threads, CopyWhitespace(t) PROVE Inv'
  <2>1. PICK c \in Configs : Whole(c)
    BY <1>17 DEF CopyWhitespace
  <2>2. PICK ws \in Configs \cup {FREE} :
              /\ ptr[t] # NULL /\ heap[ptr[t]] # FREE => ws = heap[ptr[t]]
              /\ context' = [context EXCEPT ![t].ws = ws]
    BY <1>17 DEF CopyWhitespace
  <2>3. ws = c /\ context[t].flags = c /\ context[t].depth = c
    BY <1>17, <2>1, <2>2 DEF CopyWhitespace
  <2>4. context'[t] = [flags |-> c, depth |-> c, ws |-> c]
    BY <2>2, <2>3 DEF Contexts
  <2>5. ContextOfOneInit'
    BY <1>17, <2>2, <2>4 DEF CopyWhitespace
  <2>6. Exclusive' /\ AtRest' /\ Progress' /\ Copied'
    BY <1>17 DEF CopyWhitespace
  <2>7. QED
    BY <2>5, <2>6
<1>18. ASSUME NEW t \in Threads, Return(t) PROVE Inv'
  BY <1>18 DEF Return
<1>19. CASE UNCHANGED globalsVars
  BY <1>19 DEF globalsVars
<1>20. QED
  BY <1>1, <1>2, <1>3, <1>4, <1>5, <1>6, <1>7, <1>8, <1>9, <1>10, <1>11, <1>12, <1>13,
     <1>14, <1>15, <1>16, <1>17, <1>18, <1>19 DEF GlobalsNext

\* The two invariants hold in every run.
LEMMA Invariance == GlobalsSpec => [](Types /\ (Careful => IInv))
<1>1. GlobalsInit => Types /\ (Careful => IInv)
  BY InitTypes, InitInv
<1>2. Types /\ (Careful => IInv) /\ [GlobalsNext]_globalsVars => (Types /\ (Careful => IInv))'
  BY NextTypes, NextInv
<1>3. QED
  BY <1>1, <1>2, PTL DEF GlobalsSpec

-----------------------------------------------------------------------------

\* The globals, the heap and the contexts have their types, whatever clients
\* do; with careful ones the flag of jsonp_init is up only over a complete
\* configuration.
THEOREM JsonGlobalsTypeCorrect == GlobalsSpec => []GlobalsTypeOK
<1>1. Types /\ (Careful => IInv) => GlobalsTypeOK
  <2>1. ASSUME Careful, IInv, is_initialized PROVE SomeWhole
    <3>1. ready \/ \E t \in Threads : Writing(t)
      BY <2>1 DEF IInv, AtRest, Untouched
    <3>2. CASE ready
      BY <2>1, <3>2 DEF IInv, AtRest
    <3>3. ASSUME NEW t \in Threads, Writing(t) PROVE SomeWhole
      BY <2>1, <3>3 DEF IInv, Progress, Writing, Untouched, Exclusive
    <3>4. QED
      BY <3>1, <3>2, <3>3
  <2>2. ASSUME Careful, IInv, is_initialized PROVE NULL \notin {json_config_flags, pvt_depth_max}
    BY <2>1, <2>2, JsonGlobalsAssumption DEF SomeWhole, Whole
  <2>3. QED
    BY <2>2 DEF Types, GlobalsTypeOK, Contexts
<1>2. QED
  BY Invariance, <1>1, PTL

\* Where clients keep jsonp_init and jsonp_destroy apart from the calls that
\* copy the state, every parse copies a string that is allocated.
THEOREM ParsesReadLiveStrings == GlobalsSpec => [](Careful => ParseReadsLiveString)
<1>1. Careful /\ IInv => ParseReadsLiveString
  BY JsonGlobalsAssumption
  DEF IInv, Types, Exclusive, AtRest, Copied, Copying, SomeWhole, Whole, Holds, ParseReadsLiveString
<1>2. QED
  BY Invariance, <1>1, PTL

\* With the same clients every parse runs under the flags, the depth limit and
\* the white space of one jsonp_init, although it copies them one at a time and
\* the parser may be destroyed and initialized again before it returns.
THEOREM ParsesUseOneConfiguration == GlobalsSpec => [](Careful => ContextOfOneInit)
<1>1. IInv => ContextOfOneInit
  BY DEF IInv
<1>2. QED
  BY Invariance, <1>1, PTL

\* With careful clients no white space string is lost by init and destroy, and
\* when neither is under way there is one exactly if the parser is initialized.
THEOREM StringsAreFreed == GlobalsSpec => [](Careful => NoStringLeaks)
<1>1. Careful /\ IInv => NoStringLeaks
  <2> SUFFICES ASSUME Careful, IInv PROVE NoStringLeaks
    OBVIOUS
  <2> USE JsonGlobalsAssumption DEF IInv
  <2>1. CASE \A t \in Threads : ~Writing(t)
    BY <2>1 DEF Types, AtRest, Untouched, SomeWhole, Whole, Holds, NoStringLeaks, Writing
  <2>2. ASSUME NEW t \in Threads, Writing(t) PROVE NoStringLeaks
    <3>1. pc[t] \notin {"idle", "parsing"}
      BY <2>2 DEF Writing
    <3>2. \A a \in Addresses : heap[a] # FREE =>
             pvt_whitespace_chars = a \/ (pc[t] = "destroy_free" /\ ptr[t] = a)
      BY <2>2 DEF Types, Progress, Exclusive, Writing, Untouched, SomeWhole, Whole, Holds
    <3>3. QED
      BY <2>2, <3>1, <3>2 DEF NoStringLeaks
  <2>3. QED
    BY <2>1, <2>2
<1>2. QED
  BY Invariance, <1>1, PTL

-----------------------------------------------------------------------------
(* Folds of numbers. *)

LEMMA LeastNumber ==
  ASSUME NEW S \in SUBSET Nat, S # {}
  PROVE  \E n \in S : \A k \in S : n <= k
<1> DEFINE R == OpToRel(<, Nat)
<1>1. IsWellFoundedOn(R, Nat)
  BY NatLessThanWellFounded
<1> HIDE DEF R
<1>2. PICK n \in S : \A k \in S : ~ (<<k, n>> \in R)
  BY <1>1, WFMin
<1>3. \A p \in Nat \X Nat : p[1] < p[2] => p \in R
  BY DEF R, OpToRel
<1>4. ASSUME NEW k \in S
      PROVE  n <= k
  <2>1. <<k, n>> \in Nat \X Nat /\ <<k, n>>[1] = k /\ <<k, n>>[2] = n
    OBVIOUS
  <2>2. ~(k < n)
    BY <1>2, <1>3, <2>1
  <2>3. QED
    BY <2>2
<1>5. QED
  BY <1>4

\* FoldLeft of numbers to a base, as its definition recurses: on the set of the
\* places that are left, from the last one down.
Folds(g, n, base, k, v) ==
  g = [s \in SUBSET (1..n) |-> IF s = {} THEN base ELSE g[s \ {Max(s)}] * k + v[Max(s)]]

LEMMA MaxIs ==
  ASSUME NEW n \in Nat, NEW s \in SUBSET (1..n), n \in s
  PROVE  Max(s) = n
<1>1. \A y \in s : n >= y
  OBVIOUS
<1>2. \A x \in s : (\A y \in s : x >= y) => x = n
  OBVIOUS
<1>3. QED
  BY <1>1, <1>2 DEF Max

LEMMA MaxAmong ==
  ASSUME NEW n \in Nat, NEW s \in SUBSET (1..n), s # {}
  PROVE  Max(s) \in s
<1> DEFINE Above == {m \in Nat : \A y \in s : m >= y}
<1>1. n \in Above
  OBVIOUS
<1>2. PICK m \in Above : \A j \in Above : m <= j
  BY <1>1, LeastNumber
<1>3. m \in s
  <2>1. SUFFICES ASSUME m \notin s PROVE FALSE
    OBVIOUS
  <2>2. \A y \in s : m - 1 >= y
    BY <1>2, <2>1
  <2>3. m - 1 \in Nat
    <3>1. PICK y \in s : TRUE
      OBVIOUS
    <3>2. y \in Nat /\ m \in Nat
      OBVIOUS
    <3>3. QED
      BY <2>2, <3>2
  <2>4. QED
    BY <1>2, <2>2, <2>3
<1>4. \E x \in s : \A y \in s : x >= y
  BY <1>2, <1>3
<1>5. QED
  BY <1>4 DEF Max

LEMMA OnePlaceMore ==
  ASSUME NEW n \in Nat, NEW base, NEW k, NEW v, NEW f, Folds(f, n, base, k, v)
  PROVE  \E g : Folds(g, n + 1, base, k, v)
<1> DEFINE Turn(h, s) == IF s = {} THEN base ELSE h[s \ {Max(s)}] * k + v[Max(s)]
<1>1. \A s \in SUBSET (1..n) : f[s] = Turn(f, s)
  <2>1. f = [s \in SUBSET (1..n) |-> Turn(f, s)]
    BY DEF Folds
  <2> HIDE DEF Turn
  <2>2. QED
    BY <2>1
<1> DEFINE g == [s \in SUBSET (1..(n + 1)) |->
                   IF n + 1 \in s THEN f[s \ {n + 1}] * k + v[n + 1] ELSE f[s]]
<1>2. ASSUME NEW s \in SUBSET (1..(n + 1))
      PROVE  g[s] = Turn(g, s)
  <2>1. CASE n + 1 \in s
    <3>1. Max(s) = n + 1
      BY <2>1, MaxIs
    <3>2. s \ {n + 1} \in SUBSET (1..(n + 1)) /\ n + 1 \notin s \ {n + 1}
      BY <1>2
    <3>3. g[s \ {n + 1}] = f[s \ {n + 1}]
      BY <3>2
    <3>4. g[s] = f[s \ {n + 1}] * k + v[n + 1]
      BY <2>1
    <3> HIDE DEF g
    <3>5. QED
      BY <2>1, <3>1, <3>3, <3>4
  <2>2. CASE n + 1 \notin s
    <3>1. s \in SUBSET (1..n)
      BY <1>2, <2>2
    <3>2. g[s] = f[s]
      BY <2>2
    <3>3. s \ {Max(s)} \in SUBSET (1..(n + 1)) /\ n + 1 \notin s \ {Max(s)}
      BY <1>2, <2>2
    <3>4. g[s \ {Max(s)}] = f[s \ {Max(s)}]
      BY <3>3
    <3> HIDE DEF g
    <3>5. QED
      BY <1>1, <3>1, <3>2, <3>4
  <2>3. QED
    BY <2>1, <2>2
<1>3. g = [s \in SUBSET (1..(n + 1)) |-> Turn(g, s)]
  <2> HIDE DEF Turn
  <2>1. g = [s \in SUBSET (1..(n + 1)) |-> g[s]]
    OBVIOUS
  <2> HIDE DEF g
  <2>2. QED
    BY <1>2, <2>1
<1> HIDE DEF g
<1>4. QED
  BY <1>3 DEF Folds

LEMMA FoldsExist ==
  ASSUME NEW n \in Nat, NEW base, NEW k, NEW v
  PROVE  \E g : Folds(g, n, base, k, v)
<1> DEFINE None == {m \in Nat : ~\E g : Folds(g, m, base, k, v)}
<1>1. \E g : Folds(g, 0, base, k, v)
  <2>1. SUBSET (1..0) = {{}}
    OBVIOUS
  <2> DEFINE g == [s \in {{}} |-> base]
  <2>2. g = [s \in SUBSET (1..0) |-> IF s = {} THEN base ELSE g[s \ {Max(s)}] * k + v[Max(s)]]
    <3>1. \A s \in {{}} : s = {}
      OBVIOUS
    <3>2. QED
      BY <2>1, <3>1
  <2> HIDE DEF g
  <2>3. QED
    BY <2>2 DEF Folds
<1>2. SUFFICES ASSUME None # {} PROVE FALSE
  OBVIOUS
<1>3. PICK m \in None : \A j \in None : m <= j
  BY <1>2, LeastNumber
<1>4. m \in Nat /\ m # 0
  BY <1>1, <1>3
<1>5. m - 1 \in Nat /\ m - 1 \notin None
  BY <1>3, <1>4
<1>6. PICK f : Folds(f, m - 1, base, k, v)
  BY <1>5
<1>7. \E g : Folds(g, (m - 1) + 1, base, k, v)
  BY <1>5, <1>6, OnePlaceMore
<1>8. (m - 1) + 1 = m
  BY <1>4
<1>9. QED
  BY <1>3, <1>7, <1>8

LEMMA FoldIs ==
  ASSUME NEW n \in Nat, NEW base, NEW k, NEW v, NEW g, Folds(g, n, base, k, v)
  PROVE  /\ g[1..0] = base
         /\ \A m \in 1..n : g[1..m] = g[1..(m - 1)] * k + v[m]
<1>1. \A s \in SUBSET (1..n) :
        g[s] = IF s = {} THEN base ELSE g[s \ {Max(s)}] * k + v[Max(s)]
  BY DEF Folds
<1>2. 1..0 \in SUBSET (1..n) /\ 1..0 = {}
  OBVIOUS
<1>3. ASSUME NEW m \in 1..n
      PROVE  g[1..m] = g[1..(m - 1)] * k + v[m]
  <2>1. 1..m \in SUBSET (1..n) /\ m \in 1..m /\ 1..m # {} /\ 1..m \in SUBSET (1..m) /\ m \in Nat
    OBVIOUS
  <2>2. Max(1..m) = m
    BY <2>1, MaxIs
  <2>3. (1..m) \ {m} = 1..(m - 1)
    BY <2>1
  <2>4. QED
    BY <1>1, <2>1, <2>2, <2>3
<1>4. QED
  BY <1>1, <1>2, <1>3

-----------------------------------------------------------------------------
(* Characters. *)

Bytes == 0..255

LEMMA ByteAt ==
  ASSUME NEW s \in Seq(Bytes), NEW i \in 1..Len(s)
  PROVE  s[i] \in Bytes
  OBVIOUS

LEMMA CodePointFolds ==
  ASSUME NEW s \in Seq(Bytes), s # <<>>, NEW n \in Nat, Len(s) = n + 1
  PROVE  \E g : /\ Folds(g, n, s[1] - Mark[Len(s)], 64, [i \in 1..n |-> s[i + 1] - 128])
                /\ CodePoint(s) = g[1..n]
<1> DEFINE t == Tail(s)  base == s[1] - Mark[Len(s)]  v == [i \in 1..n |-> s[i + 1] - 128]
           Turn(h, u) == IF u = {} THEN base ELSE h[u \ {Max(u)}] * 64 + (t[Max(u)] - 128)
           g == CHOOSE h : h = [u \in SUBSET DOMAIN t |-> Turn(h, u)]
<1>1. DOMAIN t = 1..n /\ \A i \in 1..n : t[i] = s[i + 1]
  OBVIOUS
<1>2. CodePoint(s) = g[DOMAIN t]
  BY DEF CodePoint, FoldLeft, MapThenFoldSet
<1> HIDE DEF t
<1>3. ASSUME NEW h PROVE [u \in SUBSET DOMAIN t |-> Turn(h, u)] =
                         [u \in SUBSET (1..n) |-> IF u = {} THEN base ELSE h[u \ {Max(u)}] * 64 + v[Max(u)]]
  <2>1. ASSUME NEW u \in SUBSET (1..n)
        PROVE  Turn(h, u) = IF u = {} THEN base ELSE h[u \ {Max(u)}] * 64 + v[Max(u)]
    <3>1. CASE u = {}
      BY <3>1
    <3>2. CASE u # {}
      <4>1. Max(u) \in 1..n
        BY <3>2, MaxAmong
      <4>2. v[Max(u)] = t[Max(u)] - 128
        BY <1>1, <4>1
      <4> HIDE DEF v
      <4>3. QED
        BY <3>2, <4>2
    <3>3. QED
      BY <3>1, <3>2
  <2> HIDE DEF Turn, v
  <2>2. QED
    BY <1>1, <2>1
<1> HIDE DEF Turn, v
<1>4. PICK f : Folds(f, n, base, 64, v)
  BY FoldsExist
<1>5. f = [u \in SUBSET DOMAIN t |-> Turn(f, u)]
  BY <1>3, <1>4 DEF Folds
<1>6. g = [u \in SUBSET DOMAIN t |-> Turn(g, u)]
  BY <1>5
<1> HIDE DEF g
<1>7. Folds(g, n, base, 64, v)
  BY <1>3, <1>6 DEF Folds
<1>8. CodePoint(s) = g[1..n]
  BY <1>1, <1>2
<1>9. QED
  BY <1>7, <1>8 DEF v

\* The bits of the bytes, one after another.
LEMMA CodePointIs ==
  ASSUME NEW s \in Seq(Bytes)
  PROVE  /\ Len(s) = 1 => CodePoint(s) = s[1]
         /\ Len(s) = 2 => CodePoint(s) = (s[1] - 192) * 64 + (s[2] - 128)
         /\ Len(s) = 3 => CodePoint(s) = ((s[1] - 224) * 64 + (s[2] - 128)) * 64 + (s[3] - 128)
         /\ Len(s) = 4 => CodePoint(s) = (((s[1] - 240) * 64 + (s[2] - 128)) * 64 + (s[3] - 128)) * 64 + (s[4] - 128)
<1>1. ASSUME NEW n \in 0..3, Len(s) = n + 1
      PROVE  \E g : /\ g[1..0] = s[1] - Mark[n + 1]
                    /\ \A m \in 1..n : g[1..m] = g[1..(m - 1)] * 64 + (s[m + 1] - 128)
                    /\ CodePoint(s) = g[1..n]
  <2> DEFINE v == [i \in 1..n |-> s[i + 1] - 128]  base == s[1] - Mark[n + 1]
  <2>1. n \in Nat /\ s # <<>>
    BY <1>1
  <2>2. PICK g : Folds(g, n, base, 64, v) /\ CodePoint(s) = g[1..n]
    BY <1>1, <2>1, CodePointFolds
  <2>3. \A m \in 1..n : v[m] = s[m + 1] - 128
    OBVIOUS
  <2> HIDE DEF v, base
  <2>4. g[1..0] = base /\ \A m \in 1..n : g[1..m] = g[1..(m - 1)] * 64 + v[m]
    BY <2>1, <2>2, FoldIs
  <2>5. QED
    BY <2>2, <2>3, <2>4 DEF base
<1>2. CASE Len(s) = 1
  <2>1. PICK g : g[1..0] = s[1] - Mark[1] /\ CodePoint(s) = g[1..0]
    BY <1>1, <1>2
  <2>2. 1 \in 1..Len(s) /\ Mark[1] = 0
    BY <1>2 DEF Mark
  <2>3. s[1] \in Bytes
    BY <2>2, ByteAt
  <2>4. \A b \in Bytes : b - 0 = b
    BY DEF Bytes
  <2>5. QED
    BY <1>2, <2>1, <2>2, <2>3, <2>4
<1>3. CASE Len(s) = 2
  <2>1. PICK g : /\ g[1..0] = s[1] - Mark[2]
                 /\ \A m \in 1..1 : g[1..m] = g[1..(m - 1)] * 64 + (s[m + 1] - 128)
                 /\ CodePoint(s) = g[1..1]
    BY <1>1, <1>3
  <2>2. g[1..1] = g[1..0] * 64 + (s[2] - 128)
    BY <2>1
  <2>3. QED
    BY <1>3, <2>1, <2>2 DEF Mark
<1>4. CASE Len(s) = 3
  <2>1. PICK g : /\ g[1..0] = s[1] - Mark[3]
                 /\ \A m \in 1..2 : g[1..m] = g[1..(m - 1)] * 64 + (s[m + 1] - 128)
                 /\ CodePoint(s) = g[1..2]
    BY <1>1, <1>4
  <2>2. g[1..1] = g[1..0] * 64 + (s[2] - 128) /\ g[1..2] = g[1..1] * 64 + (s[3] - 128)
    BY <2>1
  <2>3. QED
    BY <1>4, <2>1, <2>2 DEF Mark
<1>5. CASE Len(s) = 4
  <2>1. PICK g : /\ g[1..0] = s[1] - Mark[4]
                 /\ \A m \in 1..3 : g[1..m] = g[1..(m - 1)] * 64 + (s[m + 1] - 128)
                 /\ CodePoint(s) = g[1..3]
    BY <1>1, <1>5
  <2>2. /\ g[1..1] = g[1..0] * 64 + (s[2] - 128) /\ g[1..2] = g[1..1] * 64 + (s[3] - 128)
        /\ g[1..3] = g[1..2] * 64 + (s[4] - 128)
    BY <2>1
  <2>3. QED
    BY <1>5, <2>1, <2>2 DEF Mark
<1>6. QED
  BY <1>2, <1>3, <1>4, <1>5

\* The four forms of an encoding.
LEMMA EncodingIs ==
  ASSUME NEW cp, IsScalar(cp)
  PROVE  /\ cp < 128 => Encoding(cp) = <<cp>>
         /\ cp \in 128..2047 => Encoding(cp) = <<192 + cp \div 64, 128 + (cp % 64)>>
         /\ 2047 < cp /\ cp <= 65535 => Encoding(cp) = <<224 + cp \div 4096, 128 + ((cp \div 64) % 64), 128 + (cp % 64)>>
         /\ 65535 < cp =>
              Encoding(cp) = <<240 + cp \div 262144, 128 + ((cp \div 4096) % 64),
                               128 + ((cp \div 64) % 64), 128 + (cp % 64)>>
<1>1. cp \in Nat /\ cp <= 1114111
  BY SMT DEF IsScalar
<1>2. 64^0 = 1 /\ 64^1 = 64 /\ 64^2 = 4096 /\ 64^3 = 262144 /\ cp \div 1 = cp
  BY SMT, <1>1
<1>3. CASE cp < 128
  <2>1. Size(cp) = 1
    BY SMT, <1>1, <1>3 DEF Size
  <2>2. Encoding(cp) = [i \in 1..1 |-> IF i = 1 THEN 0 + cp \div 64^0 ELSE 128 + ((cp \div 64^(1 - i)) % 64)]
    BY SMT, <2>1 DEF Encoding, Mark
  <2>3. QED
    BY SMT, <1>1, <1>2, <1>3, <2>2
<1>4. CASE cp \in 128..2047
  <2>1. Size(cp) = 2
    BY SMT, <1>1, <1>4 DEF Size
  <2>2. Encoding(cp) = [i \in 1..2 |-> IF i = 1 THEN 192 + cp \div 64^1 ELSE 128 + ((cp \div 64^(2 - i)) % 64)]
    BY SMT, <2>1 DEF Encoding, Mark
  <2>3. QED
    BY SMT, <1>1, <1>2, <1>4, <2>2
<1>5. CASE 2047 < cp /\ cp <= 65535
  <2>1. Size(cp) = 3
    BY SMT, <1>1, <1>5 DEF Size
  <2>2. Encoding(cp) = [i \in 1..3 |-> IF i = 1 THEN 224 + cp \div 64^2 ELSE 128 + ((cp \div 64^(3 - i)) % 64)]
    BY SMT, <2>1 DEF Encoding, Mark
  <2>3. QED
    BY SMT, <1>1, <1>2, <1>5, <2>2
<1>6. CASE 65535 < cp
  <2>1. Size(cp) = 4
    BY SMT, <1>1, <1>6 DEF Size
  <2>2. Encoding(cp) = [i \in 1..4 |-> IF i = 1 THEN 240 + cp \div 64^3 ELSE 128 + ((cp \div 64^(4 - i)) % 64)]
    BY SMT, <2>1 DEF Encoding, Mark
  <2>3. QED
    BY SMT, <1>1, <1>2, <1>6, <2>2
<1>7. QED
  BY SMT, <1>1, <1>3, <1>4, <1>5, <1>6

\* The bytes that a character may be.
WellFormed(s) ==
  \/ Len(s) = 1 /\ s[1] \in 0..127
  \/ Len(s) = 2 /\ s[1] \in 194..223 /\ s[2] \in 128..191
  \/ Len(s) = 3 /\ s[1] \in 224..239 /\ s[2] \in SecondOfThree(s[1]) /\ s[3] \in 128..191
  \/ Len(s) = 4 /\ s[1] \in 240..244 /\ s[2] \in SecondOfFour(s[1]) /\ s[3] \in 128..191 /\ s[4] \in 128..191

LEMMA EncodingsAreWellFormed ==
  ASSUME NEW cp, IsScalar(cp)
  PROVE  WellFormed(Encoding(cp))
<1> DEFINE s == Encoding(cp)
<1>1. cp \in Nat /\ cp <= 1114111 /\ (cp < 55296 \/ 57343 < cp)
  BY SMT DEF IsScalar
<1>2. CASE cp < 128
  <2>1. s = <<cp>>
    BY SMT, <1>2, EncodingIs
  <2> HIDE DEF s
  <2>2. QED
    BY SMT, <1>1, <1>2, <2>1 DEF WellFormed, s
<1>3. CASE cp \in 128..2047
  <2>1. s = <<192 + cp \div 64, 128 + (cp % 64)>>
    BY SMT, <1>3, EncodingIs
  <2> HIDE DEF s
  <2>2. Len(s) = 2 /\ s[1] = 192 + cp \div 64 /\ s[2] = 128 + (cp % 64)
    BY SMT, <2>1
  <2>3. 192 + cp \div 64 \in 194..223 /\ 128 + (cp % 64) \in 128..191
    BY SMT, <1>1, <1>3
  <2>4. QED
    BY SMT, <2>2, <2>3 DEF WellFormed, s
<1>4. CASE 2047 < cp /\ cp <= 65535
  <2> DEFINE a == 224 + cp \div 4096  b == 128 + ((cp \div 64) % 64)  c == 128 + (cp % 64)
  <2>1. s = <<a, b, c>>
    BY SMT, <1>4, EncodingIs
  <2> HIDE DEF s
  <2>2. Len(s) = 3 /\ s[1] = a /\ s[2] = b /\ s[3] = c
    BY SMT, <2>1
  <2>3. a \in 224..239 /\ b \in 128..191 /\ c \in 128..191
    BY SMT, <1>1, <1>4
  <2>4. a = 224 => b \in 160..191
    BY SMT, <1>1, <1>4
  <2>5. a = 237 => b \in 128..159
    BY SMT, <1>1, <1>4
  <2> HIDE DEF a, b, c
  <2>6. b \in SecondOfThree(a)
    BY SMT, <2>3, <2>4, <2>5 DEF SecondOfThree
  <2>7. QED
    BY SMT, <2>2, <2>3, <2>6 DEF WellFormed, s
<1>5. CASE 65535 < cp
  <2> DEFINE a == 240 + cp \div 262144  b == 128 + ((cp \div 4096) % 64)
             c == 128 + ((cp \div 64) % 64)  d == 128 + (cp % 64)
  <2>1. s = <<a, b, c, d>>
    BY SMT, <1>5, EncodingIs
  <2> HIDE DEF s
  <2>2. Len(s) = 4 /\ s[1] = a /\ s[2] = b /\ s[3] = c /\ s[4] = d
    BY SMT, <2>1
  <2>3. a \in 240..244 /\ b \in 128..191 /\ c \in 128..191 /\ d \in 128..191
    BY SMT, <1>1, <1>5
  <2>4. a = 240 => b \in 144..191
    BY SMT, <1>1, <1>5
  <2>5. a = 244 => b \in 128..143
    BY SMT, <1>1, <1>5
  <2> HIDE DEF a, b, c, d
  <2>6. b \in SecondOfFour(a)
    BY SMT, <2>3, <2>4, <2>5 DEF SecondOfFour
  <2>7. QED
    BY SMT, <2>2, <2>3, <2>6 DEF WellFormed, s
<1>6. QED
  BY SMT, <1>1, <1>2, <1>3, <1>4, <1>5

LEMMA WellFormedAreCharacters ==
  ASSUME NEW s \in Seq(Bytes), WellFormed(s)
  PROVE  IsCharacter(s)
<1> DEFINE cp == CodePoint(s)
<1>1. CASE Len(s) = 1
  <2>1. s = <<s[1]>>
    BY SMT, <1>1
  <2>2. cp = s[1]
    BY SMT, <1>1, CodePointIs
  <2> HIDE DEF cp
  <2>3. IsScalar(cp) /\ cp < 128
    <3>1. cp \in 0..127
      BY <1>1, <2>2 DEF WellFormed
    <3>2. QED
      BY SMT, <3>1 DEF IsScalar
  <2>4. Encoding(cp) = s
    BY SMT, <2>1, <2>2, <2>3, EncodingIs
  <2>5. QED
    BY SMT, <1>1, <2>3, <2>4 DEF IsCharacter, cp
<1>2. CASE Len(s) = 2
  <2>1. s[1] \in 194..223 /\ s[2] \in 128..191
    BY SMT, <1>2 DEF WellFormed
  <2>2. cp = (s[1] - 192) * 64 + (s[2] - 128)
    BY SMT, <1>2, CodePointIs
  <2>3. s = <<s[1], s[2]>>
    BY SMT, <1>2
  <2> HIDE DEF cp
  <2>4. cp \in 128..2047 /\ 192 + cp \div 64 = s[1] /\ 128 + (cp % 64) = s[2]
    <3>1. PICK a, b : a = s[1] /\ b = s[2]
      OBVIOUS
    <3>2. a \in 194..223 /\ b \in 128..191 /\ cp = (a - 192) * 64 + (b - 128)
      BY SMT, <2>1, <2>2, <3>1
    <3>3. cp \in 128..2047 /\ 192 + cp \div 64 = a /\ 128 + (cp % 64) = b
      BY SMT, <3>2
    <3>4. QED
      BY <3>1, <3>3
  <2>5. IsScalar(cp)
    BY SMT, <2>4 DEF IsScalar
  <2>6. Encoding(cp) = s
    BY SMT, <2>3, <2>4, <2>5, EncodingIs
  <2>7. QED
    BY SMT, <1>2, <2>5, <2>6 DEF IsCharacter, cp
<1>3. CASE Len(s) = 3
  <2>1. PICK a, b, c : a = s[1] /\ b = s[2] /\ c = s[3]
    OBVIOUS
  <2>2. a \in 224..239 /\ b \in SecondOfThree(a) /\ c \in 128..191
    BY SMT, <1>3, <2>1 DEF WellFormed
  <2>3. /\ b \in 128..191
        /\ a = 224 => b \in 160..191
        /\ a = 237 => b \in 128..159
    BY SMT, <2>2 DEF SecondOfThree
  <2>4. cp = ((a - 224) * 64 + (b - 128)) * 64 + (c - 128)
    BY SMT, <1>3, <2>1, CodePointIs
  <2>5. s = <<a, b, c>>
    BY SMT, <1>3, <2>1
  <2> HIDE DEF cp
  <2>6. cp \in Nat /\ 2047 < cp /\ cp <= 65535 /\ (cp < 55296 \/ 57343 < cp)
    BY SMT, <2>2, <2>3, <2>4
  <2>7. 224 + cp \div 4096 = a /\ 128 + ((cp \div 64) % 64) = b /\ 128 + (cp % 64) = c
    BY SMT, <2>2, <2>3, <2>4
  <2>8. IsScalar(cp)
    BY SMT, <2>6 DEF IsScalar
  <2>9. Encoding(cp) = s
    BY SMT, <2>5, <2>6, <2>7, <2>8, EncodingIs
  <2>10. QED
    BY SMT, <1>3, <2>8, <2>9 DEF IsCharacter, cp
<1>4. CASE Len(s) = 4
  <2>1. PICK a, b, c, d : a = s[1] /\ b = s[2] /\ c = s[3] /\ d = s[4]
    OBVIOUS
  <2>2. a \in 240..244 /\ b \in SecondOfFour(a) /\ c \in 128..191 /\ d \in 128..191
    BY SMT, <1>4, <2>1 DEF WellFormed
  <2>3. /\ b \in 128..191
        /\ a = 240 => b \in 144..191
        /\ a = 244 => b \in 128..143
    BY SMT, <2>2 DEF SecondOfFour
  <2>4. cp = (((a - 240) * 64 + (b - 128)) * 64 + (c - 128)) * 64 + (d - 128)
    BY SMT, <1>4, <2>1, CodePointIs
  <2>5. s = <<a, b, c, d>>
    BY SMT, <1>4, <2>1
  <2> HIDE DEF cp
  <2>6. cp \in Nat /\ 65535 < cp /\ cp <= 1114111
    <3>1. cp = 262144 * (a - 240) + 4096 * (b - 128) + 64 * (c - 128) + (d - 128)
      BY SMT, <2>2, <2>3, <2>4
    <3>2. CASE a = 240
      BY SMT, <2>2, <2>3, <3>1, <3>2
    <3>3. CASE a = 244
      BY SMT, <2>2, <2>3, <3>1, <3>3
    <3>4. CASE a \in 241..243
      BY SMT, <2>2, <2>3, <3>1, <3>4
    <3>5. QED
      BY <2>2, <3>2, <3>3, <3>4
  <2>7. /\ 240 + cp \div 262144 = a /\ 128 + ((cp \div 4096) % 64) = b
        /\ 128 + ((cp \div 64) % 64) = c /\ 128 + (cp % 64) = d
    <3>1. PICK w, x, y, z : w = a - 240 /\ x = b - 128 /\ y = c - 128 /\ z = d - 128
      OBVIOUS
    <3>2. w \in 0..4 /\ x \in 0..63 /\ y \in 0..63 /\ z \in 0..63
      BY SMT, <2>2, <2>3, <3>1
    <3>3. cp = 262144 * w + 4096 * x + 64 * y + z
      BY SMT, <2>2, <2>3, <2>4, <3>1
    <3>4. cp \div 262144 = w /\ cp \div 4096 = 64 * w + x /\ cp \div 64 = 4096 * w + 64 * x + y
      BY SMT, <3>2, <3>3
    <3>5. (64 * w + x) % 64 = x /\ (4096 * w + 64 * x + y) % 64 = y /\ cp % 64 = z
      BY SMT, <3>2, <3>3
    <3>6. QED
      BY SMT, <2>2, <2>3, <3>1, <3>4, <3>5
  <2>8. IsScalar(cp)
    BY SMT, <2>6 DEF IsScalar
  <2>9. Encoding(cp) = s
    BY SMT, <2>5, <2>6, <2>7, <2>8, EncodingIs
  <2>10. QED
    BY SMT, <1>4, <2>8, <2>9 DEF IsCharacter, cp
<1>5. QED
  BY SMT, <1>1, <1>2, <1>3, <1>4 DEF WellFormed

\* The validator's table of the bytes is the encoding of the scalar values.
LEMMA CharactersAre ==
  ASSUME NEW s \in Seq(Bytes)
  PROVE  IsCharacter(s) <=> WellFormed(s)
  BY EncodingsAreWellFormed, WellFormedAreCharacters DEF IsCharacter

-----------------------------------------------------------------------------
(* Validation. *)

TextOK == text \in Seq(Bytes) /\ end \in {NUL, 255}

\* Where a character that begins at p ends.
CharEnds(p) == {j \in p..Len(text) : j < p + 4 /\ IsCharacter(SubSeq(text, p, j))}

\* The byte at p + i may follow in the sequence that begins at p.
Follows(p, i) ==
  CurrentChar(p + i) \in
    CASE i = 1 /\ SequenceLength(CurrentChar(p)) = 3 -> SecondOfThree(CurrentChar(p))
      [] i = 1 /\ SequenceLength(CurrentChar(p)) = 4 -> SecondOfFour(CurrentChar(p))
      [] OTHER                                       -> 128..191

FollowsNot(p) ==
  {i \in 1..(SequenceLength(CurrentChar(p)) - 1) : ~Follows(p, i) /\ \A j \in 1..(i - 1) : Follows(p, j)}

LEMMA SequenceLengthIs ==
  ASSUME NEW b \in Bytes
  PROVE  /\ SequenceLength(b) \in 0..4
         /\ SequenceLength(b) = 1 <=> b \in 0..127
         /\ SequenceLength(b) = 2 <=> b \in 194..223
         /\ SequenceLength(b) = 3 <=> b \in 224..239
         /\ SequenceLength(b) = 4 <=> b \in 240..244
  BY DEF SequenceLength, Bytes

LEMMA CurrentCharIs ==
  ASSUME TextOK, NEW p \in Nat \ {0}
  PROVE  /\ CurrentChar(p) \in Bytes
         /\ p <= Len(text) => CurrentChar(p) = text[p]
         /\ p > Len(text) => CurrentChar(p) = end
<1>1. text \in Seq(Bytes) /\ Len(text) \in Nat
  BY DEF TextOK
<1>2. end \in Bytes
  BY DEF TextOK, Bytes, NUL
<1>3. CASE p <= Len(text)
  <2>1. p \in 1..Len(text)
    BY <1>1, <1>3
  <2>2. text[p] \in Bytes
    BY <1>1, <2>1, ByteAt
  <2>3. QED
    BY <1>3, <2>2 DEF CurrentChar
<1>4. CASE ~(p <= Len(text))
  BY <1>1, <1>2, <1>4 DEF CurrentChar
<1>5. QED
  BY <1>1, <1>3, <1>4

LEMMA FollowersAreInside ==
  ASSUME TextOK, NEW p \in Nat \ {0}, NEW i \in 1..3, Follows(p, i)
  PROVE  p + i <= Len(text) /\ CurrentChar(p + i) \in 128..191
<1>1. \A b : SecondOfThree(b) \subseteq 128..191 /\ SecondOfFour(b) \subseteq 128..191
  BY DEF SecondOfThree, SecondOfFour
<1>2. CurrentChar(p + i) \in 128..191
  BY <1>1 DEF Follows
<1>3. p + i \in Nat \ {0} /\ Len(text) \in Nat
  BY DEF TextOK
<1>4. p + i > Len(text) => CurrentChar(p + i) = end
  BY <1>3, CurrentCharIs
<1>5. end \notin 128..191
  BY DEF TextOK, NUL
<1>6. ~(p + i > Len(text))
  BY <1>2, <1>4, <1>5
<1>7. QED
  BY <1>2, <1>3, <1>6

\* The n bytes from p on.
LEMMA PieceIs ==
  ASSUME TextOK, NEW p \in 1..Len(text), NEW j \in p..Len(text)
  PROVE  /\ SubSeq(text, p, j) \in Seq(Bytes) /\ Len(SubSeq(text, p, j)) = j - p + 1
         /\ \A i \in 1..(j - p + 1) : SubSeq(text, p, j)[i] = text[p + i - 1]
         /\ SubSeq(text, p, j) = [i \in 1..(j - p + 1) |-> text[p + i - 1]]
<1>1. text \in Seq(Bytes) /\ Len(text) \in Nat
  BY DEF TextOK
<1>2. QED
  BY <1>1

LEMMA WellFormedFollows ==
  ASSUME TextOK, NEW p \in 1..Len(text), NEW j \in p..Len(text), j < p + 4
  PROVE  WellFormed(SubSeq(text, p, j)) <=>
           /\ SequenceLength(CurrentChar(p)) = j - p + 1
           /\ \A i \in 1..(j - p) : Follows(p, i)
<1> DEFINE s == SubSeq(text, p, j)
<1>1. /\ s \in Seq(Bytes) /\ Len(s) = j - p + 1
      /\ \A i \in 1..(j - p + 1) : s[i] = text[p + i - 1]
  BY PieceIs
<1> HIDE DEF s
<1>2. Len(text) \in Nat /\ j - p + 1 \in 1..4
  BY DEF TextOK
<1>3. \A i \in 0..(j - p) : CurrentChar(p + i) = s[i + 1] /\ s[i + 1] \in Bytes
  <2>1. ASSUME NEW i \in 0..(j - p)
        PROVE  CurrentChar(p + i) = s[i + 1] /\ s[i + 1] \in Bytes
    <3>1. p + i <= Len(text) /\ i + 1 \in 1..Len(s) /\ i + 1 \in 1..(j - p + 1) /\ p + (i + 1) - 1 = p + i
      BY <1>1, <1>2
    <3>2. s[i + 1] = text[p + i]
      BY <1>1, <3>1
    <3>3. s[i + 1] \in Bytes
      BY <1>1, <3>1, ByteAt
    <3>4. QED
      BY <3>1, <3>2, <3>3 DEF CurrentChar
  <2>2. QED
    BY <2>1
<1>4. PICK n, l : n = SequenceLength(l) /\ l = CurrentChar(p)
  OBVIOUS
<1>5. /\ l = s[1] /\ l \in Bytes
      /\ j - p >= 1 => CurrentChar(p + 1) = s[2]
      /\ j - p >= 2 => CurrentChar(p + 2) = s[3]
      /\ j - p >= 3 => CurrentChar(p + 3) = s[4]
  <2>1. /\ 0 \in 0..(j - p) /\ p + 0 = p /\ 0 + 1 = 1 /\ 1 + 1 = 2 /\ 2 + 1 = 3 /\ 3 + 1 = 4
        /\ j - p >= 1 => 1 \in 0..(j - p)
        /\ j - p >= 2 => 2 \in 0..(j - p)
        /\ j - p >= 3 => 3 \in 0..(j - p)
    BY <1>2
  <2>2. CurrentChar(p + 0) = s[0 + 1] /\ s[0 + 1] \in Bytes
    BY <1>3, <2>1
  <2>3. /\ j - p >= 1 => CurrentChar(p + 1) = s[1 + 1]
        /\ j - p >= 2 => CurrentChar(p + 2) = s[2 + 1]
        /\ j - p >= 3 => CurrentChar(p + 3) = s[3 + 1]
    BY <1>3, <2>1
  <2>4. QED
    BY <1>4, <2>1, <2>2, <2>3
<1>6. /\ n \in 0..4
      /\ n = 1 <=> l \in 0..127
      /\ n = 2 <=> l \in 194..223
      /\ n = 3 <=> l \in 224..239
      /\ n = 4 <=> l \in 240..244
  <2>1. l \in Bytes
    BY <1>5
  <2>2. /\ SequenceLength(l) \in 0..4
        /\ SequenceLength(l) = 1 <=> l \in 0..127
        /\ SequenceLength(l) = 2 <=> l \in 194..223
        /\ SequenceLength(l) = 3 <=> l \in 224..239
        /\ SequenceLength(l) = 4 <=> l \in 240..244
    BY <2>1, SequenceLengthIs
  <2>3. n = SequenceLength(l)
    BY <1>4
  <2>4. QED
    BY <2>2, <2>3
<1>7. n = SequenceLength(CurrentChar(p)) /\ l = CurrentChar(p)
  BY <1>4
<1>8. ASSUME NEW i, i # 1 PROVE Follows(p, i) <=> CurrentChar(p + i) \in 128..191
  BY <1>8 DEF Follows
<1>9. /\ n \notin {3, 4} => (Follows(p, 1) <=> CurrentChar(p + 1) \in 128..191)
      /\ n = 3 => (Follows(p, 1) <=> CurrentChar(p + 1) \in SecondOfThree(l))
      /\ n = 4 => (Follows(p, 1) <=> CurrentChar(p + 1) \in SecondOfFour(l))
  <2>1. PICK set : set = CASE n = 3 -> SecondOfThree(l) [] n = 4 -> SecondOfFour(l) [] OTHER -> 128..191
    OBVIOUS
  <2>2. Follows(p, 1) <=> CurrentChar(p + 1) \in set
    BY <1>7, <2>1 DEF Follows
  <2>3. /\ n \notin {3, 4} => set = 128..191
        /\ n = 3 => set = SecondOfThree(l)
        /\ n = 4 => set = SecondOfFour(l)
    BY <2>1
  <2>4. QED
    BY <2>2, <2>3
<1>10. Follows(p, 2) <=> CurrentChar(p + 2) \in 128..191
  <2>1. 2 # 1
    OBVIOUS
  <2>2. QED
    BY <1>8, <2>1
<1>11. Follows(p, 3) <=> CurrentChar(p + 3) \in 128..191
  <2>1. 3 # 1
    OBVIOUS
  <2>2. QED
    BY <1>8, <2>1
<1>12. WellFormed(s) <=>
         \/ Len(s) = 1 /\ l \in 0..127
         \/ Len(s) = 2 /\ l \in 194..223 /\ s[2] \in 128..191
         \/ Len(s) = 3 /\ l \in 224..239 /\ s[2] \in SecondOfThree(l) /\ s[3] \in 128..191
         \/ Len(s) = 4 /\ l \in 240..244 /\ s[2] \in SecondOfFour(l) /\ s[3] \in 128..191 /\ s[4] \in 128..191
  BY <1>5 DEF WellFormed
<1>13. WellFormed(s) <=> n = j - p + 1 /\ \A i \in 1..(j - p) : Follows(p, i)
  <2>1. PICK k : k = j - p
    OBVIOUS
  <2>2. k \in 0..3 /\ Len(s) = k + 1 /\ j - p + 1 = k + 1
    BY <1>1, <1>2, <2>1
  <2> DEFINE Says(m) == WellFormed(s) <=> n = m + 1 /\ \A i \in 1..m : Follows(p, i)
  <2>3. ASSUME k = 0 PROVE Says(k)
    <3>1. \A i \in 1..k : Follows(p, i)
      BY <2>3
    <3>2. Len(s) = 1
      BY <2>2, <2>3
    <3>3. QED
      BY <1>6, <1>12, <2>3, <3>1, <3>2
  <2>4. ASSUME k = 1 PROVE Says(k)
    <3>1. (\A i \in 1..k : Follows(p, i)) <=> Follows(p, 1)
      BY <2>4
    <3>2. Len(s) = 2 /\ CurrentChar(p + 1) = s[2]
      BY <1>5, <2>1, <2>2, <2>4
    <3>3. n = 2 => (Follows(p, 1) <=> s[2] \in 128..191)
      BY <1>9, <3>2
    <3>4. WellFormed(s) <=> l \in 194..223 /\ s[2] \in 128..191
      BY <1>12, <3>2
    <3>5. QED
      BY <1>6, <2>4, <3>1, <3>3, <3>4
  <2>5. ASSUME k = 2 PROVE Says(k)
    <3>1. (\A i \in 1..k : Follows(p, i)) <=> Follows(p, 1) /\ Follows(p, 2)
      BY <2>5
    <3>2. Len(s) = 3 /\ CurrentChar(p + 1) = s[2] /\ CurrentChar(p + 2) = s[3]
      BY <1>5, <2>1, <2>2, <2>5
    <3>3. n = 3 => (Follows(p, 1) <=> s[2] \in SecondOfThree(l)) /\ (Follows(p, 2) <=> s[3] \in 128..191)
      BY <1>9, <1>10, <3>2
    <3>4. WellFormed(s) <=> l \in 224..239 /\ s[2] \in SecondOfThree(l) /\ s[3] \in 128..191
      BY <1>12, <3>2
    <3>5. QED
      BY <1>6, <2>5, <3>1, <3>3, <3>4
  <2>6. ASSUME k = 3 PROVE Says(k)
    <3>1. (\A i \in 1..k : Follows(p, i)) <=> Follows(p, 1) /\ Follows(p, 2) /\ Follows(p, 3)
      BY <2>6
    <3>2. Len(s) = 4 /\ CurrentChar(p + 1) = s[2] /\ CurrentChar(p + 2) = s[3] /\ CurrentChar(p + 3) = s[4]
      BY <1>5, <2>1, <2>2, <2>6
    <3>3. n = 4 => /\ Follows(p, 1) <=> s[2] \in SecondOfFour(l)
                   /\ Follows(p, 2) <=> s[3] \in 128..191
                   /\ Follows(p, 3) <=> s[4] \in 128..191
      BY <1>9, <1>10, <1>11, <3>2
    <3>4. WellFormed(s) <=> l \in 240..244 /\ s[2] \in SecondOfFour(l) /\ s[3] \in 128..191 /\ s[4] \in 128..191
      BY <1>12, <3>2
    <3>5. QED
      BY <1>6, <2>6, <3>1, <3>3, <3>4
  <2>7. Says(k)
    BY <2>2, <2>3, <2>4, <2>5, <2>6
  <2>8. QED
    BY <2>1, <2>7
<1>14. QED
  BY <1>4, <1>13 DEF s

\* The character at p, if there is one, ends where its first byte says.
LEMMA OneEnd ==
  ASSUME TextOK, NEW p \in 1..Len(text)
  PROVE  LET n == SequenceLength(CurrentChar(p))
         IN  /\ \A j \in CharEnds(p) : j = p + n - 1 /\ n \in 1..4 /\ \A i \in 1..(n - 1) : Follows(p, i)
             /\ n # 0 /\ (\A i \in 1..(n - 1) : Follows(p, i)) => p + n - 1 \in CharEnds(p)
<1>1. PICK n : n = SequenceLength(CurrentChar(p))
  OBVIOUS
<1>2. n \in 0..4 /\ p \in Nat \ {0} /\ Len(text) \in Nat
  <2>1. p \in Nat \ {0} /\ Len(text) \in Nat
    BY DEF TextOK
  <2>2. CurrentChar(p) \in Bytes
    BY <2>1, CurrentCharIs
  <2>3. n \in 0..4
    BY <1>1, <2>2, SequenceLengthIs
  <2>4. QED
    BY <2>1, <2>3
<1>3. ASSUME NEW j \in CharEnds(p)
      PROVE  j = p + n - 1 /\ n \in 1..4 /\ \A i \in 1..(n - 1) : Follows(p, i)
  <2>1. j \in p..Len(text) /\ j < p + 4 /\ IsCharacter(SubSeq(text, p, j))
    BY DEF CharEnds
  <2>2. WellFormed(SubSeq(text, p, j))
    BY <2>1, PieceIs, CharactersAre
  <2>3. n = j - p + 1 /\ \A i \in 1..(j - p) : Follows(p, i)
    BY <1>1, <2>1, <2>2, WellFormedFollows
  <2>4. QED
    BY <1>2, <2>1, <2>3
<1>4. ASSUME n # 0, \A i \in 1..(n - 1) : Follows(p, i)
      PROVE  p + n - 1 \in CharEnds(p)
  <2>1. p + n - 1 <= Len(text)
    <3>1. CASE n = 1
      BY <1>2, <3>1
    <3>2. CASE n # 1
      <4>1. n - 1 \in 1..3 /\ Follows(p, n - 1)
        BY <1>2, <1>4, <3>2
      <4>2. p + (n - 1) <= Len(text)
        BY <1>2, <4>1, FollowersAreInside
      <4>3. QED
        BY <1>2, <4>2
    <3>3. QED
      BY <3>1, <3>2
  <2>2. PICK j : j = p + n - 1
    OBVIOUS
  <2>3. j \in p..Len(text) /\ j < p + 4 /\ n = j - p + 1 /\ n - 1 = j - p
    BY <1>2, <1>4, <2>1, <2>2
  <2>4. WellFormed(SubSeq(text, p, j))
    BY <1>1, <1>4, <2>3, WellFormedFollows
  <2>5. IsCharacter(SubSeq(text, p, j))
    BY <2>3, <2>4, PieceIs, CharactersAre
  <2>6. QED
    BY <2>2, <2>3, <2>5 DEF CharEnds
<1>5. QED
  BY <1>1, <1>3, <1>4

\* pvt_validate_utf8 accepts the character that begins at p, or there is none.
LEMMA ValidationIs ==
  ASSUME TextOK, NEW p \in 1..Len(text)
  PROVE  /\ \A j \in CharEnds(p) : ValidateUtf8(p) = Accept(j + 1, SubSeq(text, p, j))
         /\ CharEnds(p) = {} => ValidateUtf8(p).null = TRUE /\ ValidateUtf8(p).err # "NONE"
                                /\ ValidateUtf8(p).bytes = <<>>
<1>1. PICK n : n = SequenceLength(CurrentChar(p))
  OBVIOUS
<1>2. n \in 0..4 /\ p \in Nat \ {0} /\ Len(text) \in Nat
  <2>1. p \in Nat \ {0} /\ Len(text) \in Nat
    BY DEF TextOK
  <2>2. CurrentChar(p) \in Bytes
    BY <2>1, CurrentCharIs
  <2>3. n \in 0..4
    BY <1>1, <2>2, SequenceLengthIs
  <2>4. QED
    BY <2>1, <2>3
<1>3. /\ \A j \in CharEnds(p) : j = p + n - 1 /\ n \in 1..4 /\ \A i \in 1..(n - 1) : Follows(p, i)
      /\ n # 0 /\ (\A i \in 1..(n - 1) : Follows(p, i)) => p + n - 1 \in CharEnds(p)
  BY <1>1, OneEnd
<1>4. ValidateUtf8(p) =
        IF n = 0 THEN Reject(p, StartByteError(CurrentChar(p)))
        ELSE IF FollowsNot(p) = {} THEN Accept(p + n, [i \in 1..n |-> CurrentChar(p + i - 1)])
        ELSE Reject(p + (CHOOSE i \in FollowsNot(p) : TRUE),
                    IF (CHOOSE i \in FollowsNot(p) : TRUE) = 1 THEN SecondByteError(CurrentChar(p), CurrentChar(p + 1))
                    ELSE "INVALID_UTF8_CONTINUATION_BYTE")
  BY <1>1 DEF ValidateUtf8, FollowsNot, Follows
<1>5. FollowsNot(p) = {} <=> \A i \in 1..(n - 1) : Follows(p, i)
  <2>1. ASSUME FollowsNot(p) = {}, NEW i \in 1..(n - 1), ~Follows(p, i)
        PROVE  FALSE
    <3> DEFINE S == {k \in 1..(n - 1) : ~Follows(p, k)}
    <3>1. S \in SUBSET Nat /\ i \in S
      BY <1>2, <2>1
    <3>2. PICK k \in S : \A m \in S : k <= m
      BY <3>1, LeastNumber
    <3>3. k \in 1..(n - 1) /\ ~Follows(p, k)
      BY <3>2
    <3>4. ASSUME NEW m \in 1..(k - 1) PROVE Follows(p, m)
      <4>1. m \in 1..(n - 1) /\ ~(k <= m)
        BY <1>2, <3>3
      <4>2. QED
        BY <3>2, <4>1
    <3>5. k \in FollowsNot(p)
      BY <1>1, <3>3, <3>4 DEF FollowsNot
    <3>6. QED
      BY <2>1, <3>5
  <2>2. QED
    BY <1>1, <2>1 DEF FollowsNot
<1>6. ASSUME NEW j \in CharEnds(p)
      PROVE  ValidateUtf8(p) = Accept(j + 1, SubSeq(text, p, j))
  <2>1. n # 0 /\ FollowsNot(p) = {} /\ j = p + n - 1
    BY <1>3, <1>5
  <2>2. ValidateUtf8(p) = Accept(p + n, [i \in 1..n |-> CurrentChar(p + i - 1)])
    BY <1>4, <2>1
  <2>3. j \in p..Len(text) /\ j - p + 1 = n /\ p + n = j + 1
    BY <1>2, <2>1 DEF CharEnds
  <2>4. SubSeq(text, p, j) = [i \in 1..n |-> text[p + i - 1]]
    BY <2>3, PieceIs
  <2>5. \A i \in 1..n : CurrentChar(p + i - 1) = text[p + i - 1]
    BY <1>2, <2>3 DEF CurrentChar
  <2>6. [i \in 1..n |-> CurrentChar(p + i - 1)] = [i \in 1..n |-> text[p + i - 1]]
    BY <2>5
  <2>7. QED
    BY <2>2, <2>3, <2>4, <2>6
<1>7. ASSUME CharEnds(p) = {}
      PROVE  ValidateUtf8(p).null = TRUE /\ ValidateUtf8(p).err # "NONE"
                                /\ ValidateUtf8(p).bytes = <<>>
  <2>1. n = 0 \/ FollowsNot(p) # {}
    BY <1>3, <1>5, <1>7
  <2>2. \A l, b : StartByteError(l) # "NONE" /\ SecondByteError(l, b) # "NONE"
    BY DEF StartByteError, SecondByteError
  <2>3. PICK f : f = CHOOSE i \in FollowsNot(p) : TRUE
    OBVIOUS
  <2>4. \E e : e # "NONE" /\ ValidateUtf8(p) = Reject(IF n = 0 THEN p ELSE p + f, e)
    <3>1. CASE n = 0
      BY <1>4, <2>2, <3>1
    <3>2. CASE n # 0
      <4>1. FollowsNot(p) # {}
        BY <2>1, <3>2
      <4>2. PICK e : e = IF f = 1 THEN SecondByteError(CurrentChar(p), CurrentChar(p + 1)) ELSE "INVALID_UTF8_CONTINUATION_BYTE"
        OBVIOUS
      <4>3. ValidateUtf8(p) = Reject(p + f, e)
        BY <1>4, <2>3, <3>2, <4>1, <4>2
      <4>4. e # "NONE"
        BY <2>2, <4>2
      <4>5. QED
        BY <3>2, <4>3, <4>4
    <3>3. QED
      BY <3>1, <3>2
  <2>5. QED
    BY <2>4 DEF Reject
<1>8. QED
  BY <1>6, <1>7

-----------------------------------------------------------------------------
(* Texts read from left to right. *)

\* What each place p of n and the one behind makes of the rest, unless it stops:
\* val[p] before what the place nx[p] makes, if that makes something.
Turns(f, p, stops, val, nx) ==
  IF p \in stops THEN val[p]
  ELSE IF f[nx[p]] = IllFormed THEN IllFormed ELSE val[p] \o f[nx[p]]

Chained(f, k, n, stops, val, nx) == f = [p \in k..(n + 1) |-> Turns(f, p, stops, val, nx)]

LEMMA ChainsExist ==
  ASSUME NEW n \in Nat, NEW stops, NEW val, NEW nx,
         \A p \in 1..(n + 1) : p \in stops \/ nx[p] \in (p + 1)..(n + 1)
  PROVE  \E f : Chained(f, 1, n, stops, val, nx)
<1> DEFINE From == {k \in 1..(n + 1) : \E f : Chained(f, k, n, stops, val, nx)}
<1>1. n + 1 \in From
  <2> DEFINE f == [p \in (n + 1)..(n + 1) |-> val[p]]
  <2>1. n + 1 \in stops
    OBVIOUS
  <2>2. \A p \in (n + 1)..(n + 1) : p = n + 1
    OBVIOUS
  <2>3. Chained(f, n + 1, n, stops, val, nx)
    BY <2>1, <2>2 DEF Chained, Turns
  <2>4. QED
    BY <2>3
<1>2. PICK k \in From : \A j \in From : k <= j
  <2>1. From \in SUBSET Nat /\ From # {}
    BY <1>1
  <2> HIDE DEF From
  <2>2. QED
    BY <2>1, LeastNumber
<1>3. PICK f : Chained(f, k, n, stops, val, nx)
  BY <1>2
<1>4. k \in 1..(n + 1)
  BY <1>2
<1>5. CASE k = 1
  BY <1>3, <1>5
<1>6. CASE k # 1
  <2>1. k - 1 \in 1..(n + 1) /\ k - 1 \notin From
    BY <1>2, <1>4, <1>6
  <2>2. f = [p \in k..(n + 1) |-> Turns(f, p, stops, val, nx)]
    BY <1>3 DEF Chained
  <2> DEFINE g == [p \in (k - 1)..(n + 1) |->
                     IF p = k - 1 THEN Turns(f, p, stops, val, nx) ELSE f[p]]
  <2>3. \A p \in k..(n + 1) : p \in (k - 1)..(n + 1) /\ p # k - 1 /\ g[p] = f[p]
    BY <1>4
  <2>4. ASSUME NEW p \in (k - 1)..(n + 1)
        PROVE  g[p] = Turns(g, p, stops, val, nx)
    <3>1. p \in 1..(n + 1)
      BY <2>1
    <3>2. p \notin stops => nx[p] \in k..(n + 1)
      BY <1>4, <3>1
    <3>3. Turns(g, p, stops, val, nx) = Turns(f, p, stops, val, nx)
      <4> HIDE DEF g
      <4>1. QED
        BY <2>3, <3>2 DEF Turns
    <3>4. CASE p = k - 1
      BY <3>3, <3>4
    <3>5. CASE p # k - 1
      <4>1. p \in k..(n + 1)
        BY <1>4, <3>5
      <4>2. f[p] = Turns(f, p, stops, val, nx)
        <5>1. QED
          BY <2>2, <4>1
      <4>3. QED
        BY <2>3, <3>3, <4>1, <4>2
    <3>6. QED
      BY <3>4, <3>5
  <2>5. g = [p \in (k - 1)..(n + 1) |-> g[p]]
    OBVIOUS
  <2> HIDE DEF g
  <2>6. Chained(g, k - 1, n, stops, val, nx)
    BY <2>4, <2>5 DEF Chained
  <2>7. QED
    BY <2>1, <2>6
<1>7. QED
  BY <1>5, <1>6

\* What CodePoints makes of a text from each place on.
ReadsCodePoints(f) ==
  /\ f[Len(text) + 1] = <<>>
  /\ \A p \in 1..Len(text) :
       /\ CharEnds(p) = {} => f[p] = IllFormed
       /\ \A j \in CharEnds(p) :
            f[p] = IF f[j + 1] = IllFormed THEN IllFormed
                   ELSE <<CodePoint(SubSeq(text, p, j))>> \o f[j + 1]

LEMMA CodePointsRead ==
  ASSUME TextOK
  PROVE  \E f : ReadsCodePoints(f) /\ CodePoints(text) = f[1]
<1> DEFINE n == Len(text)
           Turn(f, i) ==
             IF i > n THEN <<>>
             ELSE LET ends == {j \in i..n : j < i + 4 /\ IsCharacter(SubSeq(text, i, j))}
                  IN  IF ends = {} THEN IllFormed
                      ELSE LET j == CHOOSE j \in ends : TRUE
                               others == f[j + 1]
                           IN  IF others = IllFormed THEN IllFormed
                               ELSE <<CodePoint(SubSeq(text, i, j))>> \o others
           g == CHOOSE f : f = [i \in 1..(n + 1) |-> Turn(f, i)]
           last == [i \in 1..(n + 1) |-> CHOOSE j \in CharEnds(i) : TRUE]
           stops == {i \in 1..(n + 1) : i > n \/ CharEnds(i) = {}}
           val == [i \in 1..(n + 1) |-> IF i > n THEN <<>> ELSE IF CharEnds(i) = {} THEN IllFormed
                                        ELSE <<CodePoint(SubSeq(text, i, last[i]))>>]
           nx == [i \in 1..(n + 1) |-> last[i] + 1]
<1>0. n \in Nat
  BY DEF TextOK
<1>1. CodePoints(text) = g[1]
  BY DEF CodePoints
<1>2. ASSUME NEW f, NEW i \in 1..(n + 1)
      PROVE  Turn(f, i) = Turns(f, i, stops, val, nx)
  <2>1. Turn(f, i) =
          IF i > n THEN <<>> ELSE IF CharEnds(i) = {} THEN IllFormed
          ELSE IF f[(CHOOSE j \in CharEnds(i) : TRUE) + 1] = IllFormed THEN IllFormed
          ELSE <<CodePoint(SubSeq(text, i, CHOOSE j \in CharEnds(i) : TRUE))>> \o f[(CHOOSE j \in CharEnds(i) : TRUE) + 1]
    BY DEF CharEnds
  <2>2. PICK l : l = CHOOSE j \in CharEnds(i) : TRUE
    OBVIOUS
  <2>3. /\ i \in stops <=> i > n \/ CharEnds(i) = {}
        /\ nx[i] = l + 1
        /\ val[i] = IF i > n THEN <<>> ELSE IF CharEnds(i) = {} THEN IllFormed
                    ELSE <<CodePoint(SubSeq(text, i, l))>>
    BY <2>2
  <2> HIDE DEF Turn, stops, val, nx, last
  <2>4. QED
    BY <2>1, <2>2, <2>3 DEF Turns
<1>3. \A p \in 1..(n + 1) : p \in stops \/ nx[p] \in (p + 1)..(n + 1)
  <2>1. ASSUME NEW p \in 1..(n + 1), p \notin stops
        PROVE  nx[p] \in (p + 1)..(n + 1)
    <3>1. last[p] \in CharEnds(p)
      BY <2>1
    <3>2. last[p] \in p..n
      BY <3>1 DEF CharEnds
    <3>3. nx[p] = last[p] + 1
      OBVIOUS
    <3> HIDE DEF last, nx
    <3>4. QED
      BY <1>0, <3>2, <3>3
  <2>2. QED
    BY <2>1
<1> HIDE DEF Turn, stops, val, nx, last
<1>4. PICK f : Chained(f, 1, n, stops, val, nx)
  BY <1>0, <1>3, ChainsExist
<1>5. f = [i \in 1..(n + 1) |-> Turn(f, i)]
  BY <1>2, <1>4 DEF Chained
<1>6. g = [i \in 1..(n + 1) |-> Turn(g, i)]
  BY <1>5
<1> HIDE DEF g
<1>7. \A i \in 1..(n + 1) : g[i] = Turn(g, i)
  BY <1>6
<1>8. g[n + 1] = <<>>
  <2>1. n + 1 \in 1..(n + 1) /\ n + 1 > n
    BY <1>0
  <2>2. g[n + 1] = Turn(g, n + 1)
    BY <1>7, <2>1
  <2>3. QED
    BY <2>1, <2>2 DEF Turn
<1>9. ASSUME NEW p \in 1..n
      PROVE  /\ CharEnds(p) = {} => g[p] = IllFormed
             /\ \A j \in CharEnds(p) :
                  g[p] = IF g[j + 1] = IllFormed THEN IllFormed
                         ELSE <<CodePoint(SubSeq(text, p, j))>> \o g[j + 1]
  <2>1. p \in 1..(n + 1) /\ ~(p > n)
    BY <1>0
  <2>2. g[p] = IF CharEnds(p) = {} THEN IllFormed
          ELSE IF g[(CHOOSE j \in CharEnds(p) : TRUE) + 1] = IllFormed THEN IllFormed
          ELSE <<CodePoint(SubSeq(text, p, CHOOSE j \in CharEnds(p) : TRUE))>> \o g[(CHOOSE j \in CharEnds(p) : TRUE) + 1]
    BY <1>7, <2>1 DEF Turn, CharEnds
  <2>3. ASSUME NEW j \in CharEnds(p)
        PROVE  (CHOOSE k \in CharEnds(p) : TRUE) = j
    <3>1. (CHOOSE k \in CharEnds(p) : TRUE) \in CharEnds(p)
      OBVIOUS
    <3>2. QED
      BY <3>1, OneEnd
  <2>4. QED
    BY <2>2, <2>3
<1>10. ReadsCodePoints(g)
  BY <1>8, <1>9 DEF ReadsCodePoints
<1>11. QED
  BY <1>1, <1>10

-----------------------------------------------------------------------------
(* Hexadecimal numbers. *)

IsHex(b) == b \in 48..57 \cup 65..70 \cup 97..102

\* n hexadecimal digits are in the text from p on.
HexRun(p, n) == p + n - 1 <= Len(text) /\ \A i \in 0..(n - 1) : IsHex(text[p + i])

LEMMA HexDigitIs ==
  ASSUME NEW b \in Bytes
  PROVE  /\ HexToDec(b) >= 0 <=> IsHex(b)
         /\ (\E d \in 0..15 : b \in HexDigits(d)) <=> IsHex(b)
         /\ IsHex(b) => (CHOOSE d \in 0..15 : b \in HexDigits(d)) = HexToDec(b) /\ HexToDec(b) \in 0..15
<1>1. HexToDec(b) >= 0 <=> IsHex(b)
  BY DEF HexToDec, IsHex, Bytes
<1>2. \A d \in 0..15 : b \in HexDigits(d) <=> IsHex(b) /\ d = HexToDec(b)
  BY DEF HexDigits, IsHex, HexToDec, Bytes
<1>3. IsHex(b) => HexToDec(b) \in 0..15
  BY DEF HexToDec, IsHex, Bytes
<1>4. QED
  BY <1>1, <1>2, <1>3

\* a is the number that the first digits of v make, for every number of them.
Numbers(a, n, v) == a[0] = 0 /\ \A m \in 1..n : a[m] = a[m - 1] * 16 + v[m]

LEMMA NumbersAgree ==
  ASSUME NEW n \in Nat, NEW v, NEW a, NEW b, Numbers(a, n, v), Numbers(b, n, v)
  PROVE  a[n] = b[n]
<1> DEFINE S == {m \in 0..n : a[m] # b[m]}
<1>1. SUFFICES ASSUME S # {} PROVE FALSE
  OBVIOUS
<1>2. S \in SUBSET Nat
  OBVIOUS
<1>3. PICK m \in S : \A j \in S : m <= j
  <2> HIDE DEF S
  <2>1. QED
    BY <1>1, <1>2, LeastNumber
<1>4. m \in 1..n /\ a[m] # b[m]
  BY <1>3 DEF Numbers
<1>5. a[m - 1] = b[m - 1]
  <2>1. m - 1 \in 0..n /\ m - 1 \notin S
    BY <1>3, <1>4
  <2>2. QED
    BY <2>1
<1>6. QED
  BY <1>4, <1>5 DEF Numbers

\* The fold that FoldLeft is, for a sequence of bytes and what each counts for.
Worth(h) == CHOOSE d \in 0..15 : h \in HexDigits(d)

HexNumber(s) == FoldLeft(LAMBDA v, h : (v * 16) + (CHOOSE d \in 0..15 : h \in HexDigits(d)), 0, s)

LEMMA HexFoldIs ==
  ASSUME NEW n \in Nat, NEW s, Len(s) = n, s \in Seq(Bytes)
  PROVE  \E a : Numbers(a, n, [i \in 1..n |-> Worth(s[i])]) /\ HexNumber(s) = a[n]
<1> DEFINE v == [i \in 1..n |-> Worth(s[i])]
           Turn(h, u) == IF u = {} THEN 0 ELSE h[u \ {Max(u)}] * 16 + Worth(s[Max(u)])
           g == CHOOSE h : h = [u \in SUBSET DOMAIN s |-> Turn(h, u)]
<1>1. DOMAIN s = 1..n
  OBVIOUS
<1>2. HexNumber(s) = g[DOMAIN s]
  BY DEF HexNumber, Worth, FoldLeft, MapThenFoldSet
<1>3. ASSUME NEW h PROVE [u \in SUBSET DOMAIN s |-> Turn(h, u)] =
                         [u \in SUBSET (1..n) |-> IF u = {} THEN 0 ELSE h[u \ {Max(u)}] * 16 + v[Max(u)]]
  <2>1. ASSUME NEW u \in SUBSET (1..n)
        PROVE  Turn(h, u) = IF u = {} THEN 0 ELSE h[u \ {Max(u)}] * 16 + v[Max(u)]
    <3>1. CASE u = {}
      BY <3>1
    <3>2. CASE u # {}
      <4>1. Max(u) \in 1..n
        BY <3>2, MaxAmong
      <4>2. v[Max(u)] = Worth(s[Max(u)])
        BY <4>1
      <4> HIDE DEF v
      <4>3. QED
        BY <3>2, <4>2
    <3>3. QED
      BY <3>1, <3>2
  <2> HIDE DEF Turn, v
  <2>2. QED
    BY <1>1, <2>1
<1> HIDE DEF Turn, v
<1>4. PICK f : Folds(f, n, 0, 16, v)
  BY FoldsExist
<1>5. f = [u \in SUBSET DOMAIN s |-> Turn(f, u)]
  BY <1>3, <1>4 DEF Folds
<1>6. g = [u \in SUBSET DOMAIN s |-> Turn(g, u)]
  BY <1>5
<1> HIDE DEF g
<1>7. Folds(g, n, 0, 16, v)
  BY <1>3, <1>6 DEF Folds
<1>8. g[1..0] = 0 /\ \A m \in 1..n : g[1..m] = g[1..(m - 1)] * 16 + v[m]
  BY <1>7, FoldIs
<1> DEFINE a == [m \in 0..n |-> g[1..m]]
<1>9. \A m \in 0..n : a[m] = g[1..m]
  OBVIOUS
<1>10. \A m \in 1..n : m \in 0..n /\ m - 1 \in 0..n /\ v[m] = Worth(s[m])
  BY DEF v
<1>11. 0 \in 0..n /\ n \in 0..n
  OBVIOUS
<1> HIDE DEF a
<1>12. Numbers(a, n, v)
  BY <1>8, <1>9, <1>10, <1>11 DEF Numbers
<1>13. HexNumber(s) = a[n]
  BY <1>1, <1>2, <1>9, <1>11
<1>14. QED
  BY <1>12, <1>13 DEF v

\* pvt_parse_hex_impl stops behind the digits, and computes their number.
LEMMA DigitsAre ==
  ASSUME TextOK, NEW p \in Nat \ {0}, NEW n \in Nat \ {0}
  PROVE  \E m \in 0..n :
           /\ ParseHex(p, n).pos = p + m
           /\ ParseHex(p, n).err = "NONE" <=> m = n
           /\ m = n <=> HexRun(p, n)
           /\ m = n => \E a : /\ a[0] = 0
                              /\ \A i \in 1..n : a[i] = a[i - 1] * 16 + HexToDec(CurrentChar(p + i - 1))
                              /\ ParseHex(p, n).value = a[n]
<1> DEFINE Hex(i) == HexToDec(CurrentChar(p + i)) >= 0
           Stop(m) == (\A i \in 0..(m - 1) : Hex(i)) /\ (m < n => ~Hex(m))
           m == CHOOSE m \in 0..n : Stop(m)
           value == CHOOSE f : f = [i \in 0..m |-> IF i = 0 THEN 0 ELSE f[i - 1] * 16 + HexToDec(CurrentChar(p + i - 1))]
<1>1. ParseHex(p, n) =
        [ pos |-> p + m,
          value |-> IF m = n THEN value[n] ELSE 0,
          err |-> IF m = n THEN "NONE" ELSE IF CurrentChar(p + m) = NUL THEN "UNEXPECTED_EOF"
                  ELSE "INVALID_UNICODE_ESCAPE" ]
  BY DEF ParseHex
<1>2. \E k \in 0..n : Stop(k)
  <2> DEFINE S == {k \in 0..n : k < n => ~Hex(k)}
  <2>1. S \in SUBSET Nat /\ n \in S
    OBVIOUS
  <2>2. PICK k \in S : \A j \in S : k <= j
    <3> HIDE DEF S
    <3>1. QED
      BY <2>1, LeastNumber
  <2>3. k \in 0..n /\ (k < n => ~Hex(k))
    BY <2>2
  <2>4. ASSUME NEW i \in 0..(k - 1) PROVE Hex(i)
    <3>1. i \in 0..n /\ i < n /\ ~(k <= i)
      BY <2>3
    <3>2. i \notin S
      BY <2>2, <3>1
    <3>3. QED
      BY <3>1, <3>2
  <2>5. QED
    BY <2>3, <2>4
<1>3. m \in 0..n /\ Stop(m)
  <2> HIDE DEF Stop
  <2>1. QED
    BY <1>2
<1> DEFINE v == [i \in 1..n |-> HexToDec(CurrentChar(p + i - 1))]
<1>4. m = n => \E a : /\ a[0] = 0
                      /\ \A i \in 1..n : a[i] = a[i - 1] * 16 + HexToDec(CurrentChar(p + i - 1))
                      /\ value[n] = a[n]
  <2>1. PICK k : k = m
    OBVIOUS
  <2>2. value = CHOOSE f : f = [i \in 0..k |-> IF i = 0 THEN 0 ELSE f[i - 1] * 16 + HexToDec(CurrentChar(p + i - 1))]
    BY <2>1
  <2>3. PICK g : Folds(g, n, 0, 16, v)
    BY FoldsExist
  <2> HIDE DEF v
  <2>4. g[1..0] = 0 /\ \A i \in 1..n : g[1..i] = g[1..(i - 1)] * 16 + v[i]
    BY <2>3, FoldIs
  <2>5. \A i \in 1..n : v[i] = HexToDec(CurrentChar(p + i - 1))
    BY DEF v
  <2> DEFINE h == [i \in 0..n |-> g[1..i]]
  <2>6. ASSUME NEW i \in 0..n
        PROVE  h[i] = IF i = 0 THEN 0 ELSE h[i - 1] * 16 + HexToDec(CurrentChar(p + i - 1))
    <3>1. CASE i = 0
      BY <2>4, <3>1
    <3>2. CASE i # 0
      <4>1. i \in 1..n /\ i - 1 \in 0..n
        BY <3>2
      <4>2. h[i] = g[1..i] /\ h[i - 1] = g[1..(i - 1)]
        BY <4>1
      <4> HIDE DEF h
      <4>3. QED
        BY <2>4, <2>5, <3>2, <4>1, <4>2
    <3>3. QED
      BY <3>1, <3>2
  <2>7. h = [i \in 0..n |-> h[i]]
    OBVIOUS
  <2> HIDE DEF h
  <2>8. h = [i \in 0..n |-> IF i = 0 THEN 0 ELSE h[i - 1] * 16 + HexToDec(CurrentChar(p + i - 1))]
    BY <2>6, <2>7
  <2> HIDE DEF value, m
  <2>9. ASSUME m = n
        PROVE  value = [i \in 0..n |-> IF i = 0 THEN 0 ELSE value[i - 1] * 16 + HexToDec(CurrentChar(p + i - 1))]
    BY <2>1, <2>2, <2>8, <2>9
  <2>10. ASSUME m = n
         PROVE  /\ value[0] = 0
                /\ \A i \in 1..n : value[i] = value[i - 1] * 16 + HexToDec(CurrentChar(p + i - 1))
    <3>1. \A i \in 0..n : value[i] = IF i = 0 THEN 0 ELSE value[i - 1] * 16 + HexToDec(CurrentChar(p + i - 1))
      BY <2>9, <2>10
    <3>2. \A i \in 1..n : i \in 0..n /\ i # 0
      OBVIOUS
    <3>3. 0 \in 0..n
      OBVIOUS
    <3>4. QED
      BY <3>1, <3>2, <3>3
  <2>11. QED
    BY <2>10
<1>5. m = n <=> HexRun(p, n)
  <2>1. PICK k : k = m /\ k \in 0..n /\ Stop(k)
    BY <1>3
  <2>2. ASSUME NEW i \in 0..n
        PROVE  Hex(i) <=> p + i <= Len(text) /\ IsHex(text[p + i])
    <3>1. p + i \in Nat \ {0} /\ Len(text) \in Nat
      BY DEF TextOK
    <3>2. CurrentChar(p + i) \in Bytes
      BY <3>1, CurrentCharIs
    <3>3. Hex(i) <=> IsHex(CurrentChar(p + i))
      BY <3>2, HexDigitIs
    <3>4. p + i > Len(text) => CurrentChar(p + i) = end
      BY <3>1, CurrentCharIs
    <3>5. ~IsHex(end)
      BY DEF TextOK, IsHex, NUL
    <3>6. p + i <= Len(text) => CurrentChar(p + i) = text[p + i]
      BY <3>1, CurrentCharIs
    <3>7. QED
      BY <3>1, <3>3, <3>4, <3>5, <3>6
  <2>3. ASSUME k = n PROVE HexRun(p, n)
    <3>1. \A i \in 0..(n - 1) : Hex(i)
      BY <2>1, <2>3
    <3>2. \A i \in 0..(n - 1) : p + i <= Len(text) /\ IsHex(text[p + i])
      BY <2>2, <3>1
    <3>3. p + n - 1 <= Len(text) \/ n = 0
      <4>1. CASE n = 0
        BY <4>1
      <4>2. CASE n # 0
        <5>1. n - 1 \in 0..(n - 1)
          BY <4>2
        <5>2. p + (n - 1) <= Len(text)
          BY <3>2, <5>1
        <5>3. QED
          BY <5>2
      <4>3. QED
        BY <4>1, <4>2
    <3>4. QED
      BY <3>2, <3>3 DEF HexRun
  <2>4. ASSUME HexRun(p, n), k # n PROVE FALSE
    <3>1. k \in 0..(n - 1) /\ k < n
      BY <2>1, <2>4
    <3>2. Len(text) \in Nat
      BY DEF TextOK
    <3>3. p + k <= Len(text) /\ IsHex(text[p + k])
      BY <2>4, <3>1, <3>2 DEF HexRun
    <3>4. k \in 0..n
      BY <2>1
    <3>5. Hex(k)
      BY <2>2, <3>3, <3>4
    <3>6. ~Hex(k)
      BY <2>1, <3>1
    <3>7. QED
      BY <3>5, <3>6
  <2>5. QED
    BY <2>1, <2>3, <2>4
<1>6. QED
  <2> HIDE DEF m, value, v
  <2>1. m \in 0..n
    BY <1>3
  <2>2. ParseHex(p, n).err = "NONE" <=> m = n
    BY <1>1
  <2>3. QED
    BY <1>1, <1>4, <1>5, <2>1, <2>2

\* The number that the text writes is the one the parser computes, or none.
LEMMA NumberIs ==
  ASSUME TextOK, NEW p \in Nat \ {0}, NEW n \in Nat \ {0}
  PROVE  /\ HexRun(p, n) => /\ ParseHex(p, n).pos = p + n /\ ParseHex(p, n).err = "NONE"
                            /\ ParseHex(p, n).value = Number(text, p, n)
         /\ ~HexRun(p, n) => ParseHex(p, n).err # "NONE" /\ Number(text, p, n) = -1
<1>1. text \in Seq(Bytes) /\ Len(text) \in Nat
  BY DEF TextOK
<1>2. PICK m \in 0..n :
           /\ ParseHex(p, n).pos = p + m
           /\ ParseHex(p, n).err = "NONE" <=> m = n
           /\ m = n <=> HexRun(p, n)
           /\ m = n => \E a : /\ a[0] = 0
                              /\ \A i \in 1..n : a[i] = a[i - 1] * 16 + HexToDec(CurrentChar(p + i - 1))
                              /\ ParseHex(p, n).value = a[n]
  BY DigitsAre
<1> DEFINE OnPage == p + n - 1 <= Len(text) /\ \A i \in p..(p + n - 1) : \E d \in 0..15 : text[i] \in HexDigits(d)
           s == SubSeq(text, p, p + n - 1)
           fold == HexNumber(s)
<1>3. Number(text, p, n) = IF OnPage THEN fold ELSE -1
  BY DEF Number, HexNumber
<1>4. OnPage <=> HexRun(p, n)
  <2>1. SUFFICES ASSUME p + n - 1 <= Len(text)
                 PROVE  (\A i \in p..(p + n - 1) : \E d \in 0..15 : text[i] \in HexDigits(d))
                          <=> \A i \in 0..(n - 1) : IsHex(text[p + i])
    BY DEF HexRun
  <2>2. ASSUME NEW i \in p..(p + n - 1)
        PROVE  (\E d \in 0..15 : text[i] \in HexDigits(d)) <=> IsHex(text[i])
    <3>1. i \in 1..Len(text)
      BY <1>1, <2>1
    <3>2. text[i] \in Bytes
      BY <1>1, <3>1, ByteAt
    <3>3. QED
      BY <3>2, HexDigitIs
  <2>3. (\A i \in p..(p + n - 1) : IsHex(text[i])) <=> \A i \in 0..(n - 1) : IsHex(text[p + i])
    <3>1. \A i \in 0..(n - 1) : p + i \in p..(p + n - 1)
      OBVIOUS
    <3>2. \A i \in p..(p + n - 1) : i - p \in 0..(n - 1) /\ p + (i - p) = i
      OBVIOUS
    <3>3. ASSUME \A i \in 0..(n - 1) : IsHex(text[p + i]), NEW i \in p..(p + n - 1)
          PROVE  IsHex(text[i])
      <4>1. IsHex(text[p + (i - p)])
        BY <3>2, <3>3
      <4>2. QED
        BY <3>2, <4>1
    <3>4. QED
      BY <3>1, <3>3
  <2>4. QED
    BY <2>2, <2>3
<1> HIDE DEF OnPage
<1>5. ASSUME HexRun(p, n)
      PROVE  ParseHex(p, n).value = fold
  <2>1. PICK a : /\ a[0] = 0
                 /\ \A i \in 1..n : a[i] = a[i - 1] * 16 + HexToDec(CurrentChar(p + i - 1))
                 /\ ParseHex(p, n).value = a[n]
    BY <1>2, <1>5
  <2>2. p + n - 1 <= Len(text) /\ \A i \in 0..(n - 1) : IsHex(text[p + i])
    BY <1>5 DEF HexRun
  <2>3. s \in Seq(Bytes) /\ Len(s) = n /\ \A i \in 1..n : s[i] = text[p + i - 1]
    <3>1. p \in 1..Len(text) /\ p + n - 1 \in p..Len(text) /\ (p + n - 1) - p + 1 = n
      BY <1>1, <2>2
    <3>2. PICK j \in p..Len(text) : j = p + n - 1
      BY <3>1
    <3>3. QED
      BY <3>1, <3>2, PieceIs
  <2>4. PICK b : Numbers(b, n, [i \in 1..n |-> Worth(s[i])]) /\ fold = b[n]
    <3>1. PICK t : t = s
      OBVIOUS
    <3>2. n \in Nat /\ Len(t) = n /\ t \in Seq(Bytes)
      BY <2>3, <3>1
    <3>3. \E b : Numbers(b, n, [i \in 1..n |-> Worth(t[i])]) /\ HexNumber(t) = b[n]
      BY <3>2, HexFoldIs
    <3> HIDE DEF s
    <3>4. QED
      BY <3>1, <3>3
  <2> DEFINE v == [i \in 1..n |-> HexToDec(CurrentChar(p + i - 1))]
  <2>5. ASSUME NEW i \in 1..n
        PROVE  v[i] = HexToDec(CurrentChar(p + i - 1)) /\ v[i] = Worth(s[i])
    <3>1. i - 1 \in 0..(n - 1) /\ p + (i - 1) = p + i - 1 /\ p + i - 1 \in 1..Len(text)
      BY <1>1, <2>2
    <3>2. PICK c : c = text[p + i - 1]
      OBVIOUS
    <3>3. c \in Bytes /\ IsHex(c)
      <4>1. c \in Bytes
        BY <1>1, <3>1, <3>2, ByteAt
      <4>2. IsHex(text[p + (i - 1)])
        BY <2>2, <3>1
      <4>3. QED
        BY <3>1, <3>2, <4>1, <4>2
    <3>4. Worth(c) = HexToDec(c)
      BY <3>3, HexDigitIs DEF Worth
    <3>5. s[i] = c /\ CurrentChar(p + i - 1) = c
      BY <2>3, <3>1, <3>2 DEF CurrentChar
    <3>6. v[i] = HexToDec(CurrentChar(p + i - 1))
      OBVIOUS
    <3> HIDE DEF v, s
    <3>7. QED
      BY <3>4, <3>5, <3>6
  <2> HIDE DEF v, s, fold
  <2>6. Numbers(a, n, v)
    BY <2>1, <2>5 DEF Numbers
  <2>7. Numbers(b, n, v)
    <3>1. v = [i \in 1..n |-> Worth(s[i])]
      <4>1. \A i \in 1..n : HexToDec(CurrentChar(p + i - 1)) = Worth(s[i])
        BY <2>5
      <4>2. QED
        BY <4>1 DEF v
    <3>2. QED
      BY <2>4, <3>1
  <2>8. a[n] = b[n]
    BY <2>6, <2>7, NumbersAgree
  <2>9. QED
    BY <2>1, <2>4, <2>8
<1>6. QED
  <2> HIDE DEF fold
  <2>1. QED
    BY <1>2, <1>3, <1>4, <1>5

-----------------------------------------------------------------------------
(* Code points and the builder. *)

\* What pvt_encode_utf8 appends is the encoding, but of a NUL nothing.
LEMMA EncodeIs ==
  ASSUME NEW cp
  PROVE  /\ IsScalar(cp) => EncodeUtf8(cp) = Accept(0, IF cp = 0 THEN <<>> ELSE Encoding(cp))
         /\ cp \in Int /\ ~IsScalar(cp) => \E e : e # "NONE" /\ EncodeUtf8(cp) = Reject(0, e)
<1>1. ASSUME IsScalar(cp)
      PROVE  EncodeUtf8(cp) = Accept(0, IF cp = 0 THEN <<>> ELSE Encoding(cp))
  <2>1. cp \in Nat /\ cp <= 1114111 /\ ~HighSurrogate(cp) /\ ~LowSurrogate(cp)
    BY SMT, <1>1 DEF IsScalar, HighSurrogate, LowSurrogate
  <2> DEFINE Tl(shift) == 128 + ((cp \div shift) % 64)
             E == CASE cp = 0                        -> Accept(0, <<>>)
             [] 0 < cp /\ cp <= 127           -> Accept(0, <<cp>>)
             [] 127 < cp /\ cp <= 2047        -> Accept(0, <<192 + cp \div 64, Tl(1)>>)
             [] 2047 < cp /\ cp <= 65535      -> Accept(0, <<224 + cp \div 4096, Tl(64), Tl(1)>>)
             [] 65535 < cp /\ cp <= 1114111   -> Accept(0, <<240 + cp \div 262144, Tl(4096), Tl(64), Tl(1)>>)
             [] OTHER                         -> Reject(0, "CODEPOINT_OUT_OF_RANGE")
  <2>2. EncodeUtf8(cp) = E
    BY SMT, <2>1 DEF EncodeUtf8
  <2>3. Tl(1) = 128 + (cp % 64)
    BY SMT, <2>1
  <2> HIDE DEF Tl
  <2>4. CASE cp = 0
    BY SMT, <2>2, <2>4
  <2>5. CASE 0 < cp /\ cp <= 127
    <3>1. E = Accept(0, <<cp>>)
      BY SMT, <2>1, <2>5
    <3>2. Encoding(cp) = <<cp>> /\ cp # 0
      BY SMT, <1>1, <2>1, <2>5, EncodingIs
    <3>3. QED
      BY <2>2, <3>1, <3>2
  <2>6. CASE 127 < cp /\ cp <= 2047
    <3>1. E = Accept(0, <<192 + cp \div 64, Tl(1)>>)
      BY SMT, <2>1, <2>6
    <3>2. cp \in 128..2047 /\ cp # 0
      BY SMT, <2>1, <2>6
    <3>3. Encoding(cp) = <<192 + cp \div 64, Tl(1)>>
      BY SMT, <1>1, <2>3, <3>2, EncodingIs
    <3>4. QED
      BY <2>2, <3>1, <3>2, <3>3
  <2>7. CASE 2047 < cp /\ cp <= 65535
    <3>1. E = Accept(0, <<224 + cp \div 4096, Tl(64), Tl(1)>>) /\ cp # 0
      BY SMT, <2>1, <2>7
    <3>2. Encoding(cp) = <<224 + cp \div 4096, Tl(64), Tl(1)>>
      BY SMT, <1>1, <2>3, <2>7, EncodingIs DEF Tl
    <3>3. QED
      BY SMT, <2>2, <3>1, <3>2
  <2>8. CASE 65535 < cp
    <3>1. E = Accept(0, <<240 + cp \div 262144, Tl(4096), Tl(64), Tl(1)>>) /\ cp # 0
      BY SMT, <2>1, <2>8
    <3>2. Encoding(cp) = <<240 + cp \div 262144, Tl(4096), Tl(64), Tl(1)>>
      BY SMT, <1>1, <2>3, <2>8, EncodingIs DEF Tl
    <3>3. QED
      BY SMT, <2>2, <3>1, <3>2
  <2>9. QED
    BY SMT, <2>1, <2>4, <2>5, <2>6, <2>7, <2>8
<1>2. ASSUME cp \in Int, ~IsScalar(cp)
      PROVE  \E e : e # "NONE" /\ EncodeUtf8(cp) = Reject(0, e)
  <2>1. HighSurrogate(cp) \/ LowSurrogate(cp) \/ cp < 0 \/ 1114111 < cp
    BY SMT, <1>2 DEF IsScalar, HighSurrogate, LowSurrogate
  <2>2. \E e : e # "NONE" /\ EncodeUtf8(cp) = Reject(0, e)
    <3>1. CASE HighSurrogate(cp)
      BY SMT, <3>1 DEF EncodeUtf8
    <3>2. CASE ~HighSurrogate(cp) /\ LowSurrogate(cp)
      BY SMT, <3>2 DEF EncodeUtf8
    <3>3. CASE ~HighSurrogate(cp) /\ ~LowSurrogate(cp)
      <4>1. cp < 0 \/ 1114111 < cp
        BY SMT, <2>1, <3>3
      <4>2. ~(cp = 0) /\ ~(0 < cp /\ cp <= 127) /\ ~(127 < cp /\ cp <= 2047)
            /\ ~(2047 < cp /\ cp <= 65535) /\ ~(65535 < cp /\ cp <= 1114111)
        BY SMT, <1>2, <4>1
      <4>3. EncodeUtf8(cp) = Reject(0, "CODEPOINT_OUT_OF_RANGE")
        BY SMT, <3>3, <4>2 DEF EncodeUtf8
      <4>4. QED
        BY <4>3
    <3>4. QED
      BY <3>1, <3>2, <3>3
  <2>3. QED
    BY <2>2
<1>3. QED
  BY <1>1, <1>2

\* What WithoutNul keeps of the first places of the bytes.
Keeps(k, bytes) ==
  /\ k[0] = <<>>
  /\ \A m \in 1..Len(bytes) : k[m] = IF bytes[m] = NUL THEN k[m - 1] ELSE Append(k[m - 1], bytes[m])

KeptOf(k, bytes, n) ==
  k = [m \in 0..n |-> IF m = 0 THEN <<>> ELSE IF bytes[m] = NUL THEN k[m - 1] ELSE Append(k[m - 1], bytes[m])]

LEMMA KeptExists ==
  ASSUME NEW bytes, NEW n \in Nat
  PROVE  \E k : KeptOf(k, bytes, n)
<1> DEFINE None == {m \in Nat : ~\E k : KeptOf(k, bytes, m)}
<1>1. 0 \notin None
  <2> DEFINE k == [m \in 0..0 |-> <<>>]
  <2>1. \A m \in 0..0 : m = 0
    OBVIOUS
  <2>2. KeptOf(k, bytes, 0)
    BY <2>1 DEF KeptOf
  <2>3. QED
    BY <2>2
<1>2. SUFFICES ASSUME None # {} PROVE FALSE
  OBVIOUS
<1>3. PICK m \in None : \A j \in None : m <= j
  <2>1. None \in SUBSET Nat
    OBVIOUS
  <2> HIDE DEF None
  <2>2. QED
    BY <1>2, <2>1, LeastNumber
<1>4. m \in Nat \ {0}
  BY <1>1, <1>3
<1>5. m - 1 \in Nat /\ m - 1 \notin None
  BY <1>3, <1>4
<1>6. PICK f : KeptOf(f, bytes, m - 1)
  BY <1>5
<1> DEFINE Turn(k, i) == IF i = 0 THEN <<>> ELSE IF bytes[i] = NUL THEN k[i - 1] ELSE Append(k[i - 1], bytes[i])
           g == [i \in 0..m |-> IF i = m THEN Turn(f, m) ELSE f[i]]
<1>7. f = [i \in 0..(m - 1) |-> Turn(f, i)]
  BY <1>6 DEF KeptOf
<1>8. ASSUME NEW i \in 0..m
      PROVE  g[i] = Turn(g, i)
  <2>1. i # 0 => i - 1 \in 0..m /\ i - 1 # m
    BY <1>4
  <2>2. i # 0 => g[i - 1] = f[i - 1]
    BY <2>1
  <2>3. g[i] = IF i = m THEN Turn(f, m) ELSE f[i]
    OBVIOUS
  <2> HIDE DEF g
  <2>4. Turn(g, i) = Turn(f, i)
    BY <2>2
  <2> HIDE DEF Turn
  <2>5. i # m => f[i] = Turn(f, i)
    <3>1. i # m => i \in 0..(m - 1)
      BY <1>4
    <3>2. \A j \in 0..(m - 1) : f[j] = Turn(f, j)
      BY <1>7
    <3>3. QED
      BY <3>1, <3>2
  <2>6. QED
    BY <2>3, <2>4, <2>5
<1>9. g = [i \in 0..m |-> g[i]]
  OBVIOUS
<1> HIDE DEF g
<1>10. g = [i \in 0..m |-> Turn(g, i)]
  <2> HIDE DEF Turn
  <2>1. QED
    BY <1>8, <1>9
<1>11. KeptOf(g, bytes, m)
  BY <1>10 DEF KeptOf
<1>12. QED
  BY <1>3, <1>11

LEMMA WithoutNulReads ==
  ASSUME NEW bytes \in Seq(Bytes)
  PROVE  \E k : Keeps(k, bytes) /\ WithoutNul(bytes) = k[Len(bytes)]
<1> DEFINE k == CHOOSE f : KeptOf(f, bytes, Len(bytes))
<1>1. Len(bytes) \in Nat
  OBVIOUS
<1>2. KeptOf(k, bytes, Len(bytes))
  BY <1>1, KeptExists
<1>3. WithoutNul(bytes) = k[Len(bytes)]
  BY DEF WithoutNul, KeptOf
<1> HIDE DEF k
<1>4. Keeps(k, bytes)
  <2> DEFINE Turn(m) == IF m = 0 THEN <<>> ELSE IF bytes[m] = NUL THEN k[m - 1] ELSE Append(k[m - 1], bytes[m])
  <2>1. k = [m \in 0..Len(bytes) |-> Turn(m)]
    BY <1>2 DEF KeptOf
  <2>2. \A m \in 0..Len(bytes) : k[m] = Turn(m)
    <3> HIDE DEF Turn
    <3>1. QED
      BY <2>1
  <2>3. 0 \in 0..Len(bytes) /\ \A m \in 1..Len(bytes) : m \in 0..Len(bytes) /\ m # 0
    BY <1>1
  <2>4. QED
    BY <2>2, <2>3 DEF Keeps
<1>5. QED
  BY <1>3, <1>4

\* An invariant of what is kept.
LEMMA KeptAre ==
  ASSUME NEW bytes \in Seq(Bytes), NEW k, Keeps(k, bytes)
  PROVE  \A m \in 0..Len(bytes) : k[m] \in Seq(Bytes)
<1> DEFINE S == {m \in 0..Len(bytes) : k[m] \notin Seq(Bytes)}
<1>0. Len(bytes) \in Nat
  OBVIOUS
<1>1. SUFFICES ASSUME S # {} PROVE FALSE
  OBVIOUS
<1>2. PICK m \in S : \A j \in S : m <= j
  <2>1. S \in SUBSET Nat
    OBVIOUS
  <2> HIDE DEF S
  <2>2. QED
    BY <1>1, <2>1, LeastNumber
<1>3. m \in 1..Len(bytes) /\ k[m] \notin Seq(Bytes)
  <2>1. k[0] = <<>> /\ <<>> \in Seq(Bytes)
    BY EmptySeq DEF Keeps
  <2>2. m \in 0..Len(bytes) /\ k[m] \notin Seq(Bytes)
    BY <1>2
  <2>3. m # 0
    BY <2>1, <2>2
  <2>4. QED
    BY <1>0, <2>2, <2>3
<1>4. k[m - 1] \in Seq(Bytes)
  <2>1. m - 1 \in 0..Len(bytes) /\ m - 1 \notin S
    BY <1>2, <1>3
  <2>2. QED
    BY <2>1
<1>5. bytes[m] \in Bytes
  BY <1>3, ByteAt
<1>6. k[m] = IF bytes[m] = NUL THEN k[m - 1] ELSE Append(k[m - 1], bytes[m])
  BY <1>3 DEF Keeps
<1>7. k[m] \in Seq(Bytes)
  BY <1>4, <1>5, <1>6
<1>8. QED
  BY <1>3, <1>7

LEMMA WithoutNulType ==
  ASSUME NEW bytes \in Seq(Bytes)
  PROVE  WithoutNul(bytes) \in Seq(Bytes)
<1>1. PICK k : Keeps(k, bytes) /\ WithoutNul(bytes) = k[Len(bytes)]
  BY WithoutNulReads
<1>2. Len(bytes) \in 0..Len(bytes)
  OBVIOUS
<1>3. QED
  BY <1>1, <1>2, KeptAre

LEMMA WithoutNulOfConcat ==
  ASSUME NEW a \in Seq(Bytes), NEW b \in Seq(Bytes)
  PROVE  WithoutNul(a \o b) = WithoutNul(a) \o WithoutNul(b)
<1>1. /\ a \o b \in Seq(Bytes) /\ Len(a \o b) = Len(a) + Len(b) /\ Len(a) \in Nat /\ Len(b) \in Nat
      /\ \A i \in 1..Len(a) : (a \o b)[i] = a[i]
      /\ \A i \in 1..Len(b) : (a \o b)[Len(a) + i] = b[i]
  OBVIOUS
<1>2. PICK c : c = a \o b
  OBVIOUS
<1>3. PICK ka : Keeps(ka, a) /\ WithoutNul(a) = ka[Len(a)]
  BY WithoutNulReads
<1>4. PICK kb : Keeps(kb, b) /\ WithoutNul(b) = kb[Len(b)]
  BY WithoutNulReads
<1>5. c \in Seq(Bytes)
  BY <1>1, <1>2
<1>6. PICK kc : Keeps(kc, c) /\ WithoutNul(c) = kc[Len(c)]
  BY <1>5, WithoutNulReads
<1>7. PICK n : n = Len(a) /\ n \in Nat
  BY <1>1
<1>8. PICK l : l = Len(b) /\ l \in Nat
  BY <1>1
<1>9. Len(c) = n + l /\ (\A i \in 1..n : c[i] = a[i]) /\ \A i \in 1..l : c[n + i] = b[i]
  BY <1>1, <1>2, <1>7, <1>8
<1>10. kc[0] = <<>> /\ \A m \in 1..(n + l) : kc[m] = IF c[m] = NUL THEN kc[m - 1] ELSE Append(kc[m - 1], c[m])
  BY <1>6, <1>9 DEF Keeps
<1>11. ka[0] = <<>> /\ \A m \in 1..n : ka[m] = IF a[m] = NUL THEN ka[m - 1] ELSE Append(ka[m - 1], a[m])
  BY <1>3, <1>7 DEF Keeps
<1>12. kb[0] = <<>> /\ \A m \in 1..l : kb[m] = IF b[m] = NUL THEN kb[m - 1] ELSE Append(kb[m - 1], b[m])
  BY <1>4, <1>8 DEF Keeps
<1>13. kc[n] = ka[n]
  <2> DEFINE S == {m \in 0..n : kc[m] # ka[m]}
  <2>1. SUFFICES ASSUME S # {} PROVE FALSE
    BY <1>7
  <2>2. PICK m \in S : \A j \in S : m <= j
    <3>1. S \in SUBSET Nat
      OBVIOUS
    <3> HIDE DEF S
    <3>2. QED
      BY <2>1, <3>1, LeastNumber
  <2>3. m \in 1..n /\ kc[m] # ka[m]
    BY <1>7, <1>10, <1>11, <2>2
  <2>4. kc[m - 1] = ka[m - 1]
    <3>1. m - 1 \in 0..n /\ m - 1 \notin S
      BY <1>7, <2>2, <2>3
    <3>2. QED
      BY <3>1
  <2>5. m \in 1..(n + l) /\ c[m] = a[m]
    BY <1>7, <1>8, <1>9, <2>3
  <2>6. kc[m] = ka[m]
    BY <1>10, <1>11, <2>3, <2>4, <2>5
  <2>7. QED
    BY <2>3, <2>6
<1>14. /\ ka[n] \in Seq(Bytes)
       /\ \A m \in 0..l : kb[m] \in Seq(Bytes)
  <2>1. n \in 0..Len(a)
    BY <1>7
  <2>2. \A m \in 0..Len(a) : ka[m] \in Seq(Bytes)
    BY <1>3, KeptAre
  <2>3. \A m \in 0..Len(b) : kb[m] \in Seq(Bytes)
    BY <1>4, KeptAre
  <2>4. QED
    BY <1>8, <2>1, <2>2, <2>3
<1>15. kc[n + l] = ka[n] \o kb[l]
  <2>1. PICK d : \A m \in 0..l : d[m] = ka[n] \o kb[m]
    <3> DEFINE d == [m \in 0..l |-> ka[n] \o kb[m]]
    <3>1. \A m \in 0..l : d[m] = ka[n] \o kb[m]
      OBVIOUS
    <3> HIDE DEF d
    <3>2. QED
      BY <3>1
  <2> DEFINE S == {m \in 0..l : kc[n + m] # d[m]}
  <2>2. SUFFICES ASSUME S # {} PROVE FALSE
    <3>1. l \in 0..l
      BY <1>8
    <3>2. S = {} => kc[n + l] = d[l]
      BY <3>1
    <3> HIDE DEF S
    <3>3. QED
      BY <2>1, <3>1, <3>2
  <2>3. PICK m \in S : \A j \in S : m <= j
    <3>1. S \in SUBSET Nat
      OBVIOUS
    <3> HIDE DEF S
    <3>2. QED
      BY <2>2, <3>1, LeastNumber
  <2>4. m \in 0..l /\ kc[n + m] # d[m]
    BY <2>3
  <2>5. m # 0
    <3>1. ka[n] \o <<>> = ka[n]
      BY <1>14, ConcatEmptySeq
    <3>2. 0 \in 0..l /\ n + 0 = n
      BY <1>7, <1>8
    <3>3. d[0] = kc[n + 0]
      BY <1>12, <1>13, <2>1, <3>1, <3>2
    <3>4. QED
      BY <2>4, <3>3
  <2>6. m \in 1..l /\ m - 1 \in 0..l
    BY <1>8, <2>4, <2>5
  <2>7. kc[n + (m - 1)] = d[m - 1]
    <3>1. m - 1 \notin S
      BY <1>8, <2>3, <2>6
    <3>2. QED
      BY <2>6, <3>1
  <2>8. n + m \in 1..(n + l) /\ (n + m) - 1 = n + (m - 1) /\ c[n + m] = b[m]
    BY <1>7, <1>8, <1>9, <2>6
  <2>9. kc[n + m] = IF b[m] = NUL THEN kc[n + (m - 1)] ELSE Append(kc[n + (m - 1)], b[m])
    BY <1>10, <2>8
  <2>10. kb[m] = IF b[m] = NUL THEN kb[m - 1] ELSE Append(kb[m - 1], b[m])
    BY <1>12, <2>6
  <2>11. b[m] \in Bytes
    BY <1>8, <2>6, ByteAt
  <2>12. PICK x, y, z : x = ka[n] /\ y = kb[m - 1] /\ z = b[m]
    OBVIOUS
  <2>13. x \in Seq(Bytes) /\ y \in Seq(Bytes) /\ z \in Bytes
    BY <1>14, <2>6, <2>11, <2>12
  <2>14. Append(x \o y, z) = x \o Append(y, z)
    <3>1. \A t \in Seq(Bytes) : Append(t, z) = t \o <<z>>
      BY <2>13
    <3>2. x \o y \in Seq(Bytes) /\ <<z>> \in Seq(Bytes)
      BY <2>13
    <3>3. (x \o y) \o <<z>> = x \o (y \o <<z>>)
      BY <2>13, <3>2, ConcatAssociative
    <3>4. QED
      BY <2>13, <3>1, <3>2, <3>3
  <2>15. d[m] = x \o kb[m] /\ d[m - 1] = x \o y
    BY <2>1, <2>6, <2>12
  <2>16. kc[n + m] = d[m]
    <3>1. CASE z = NUL
      BY <2>7, <2>9, <2>10, <2>12, <2>15, <3>1
    <3>2. CASE z # NUL
      BY <2>7, <2>9, <2>10, <2>12, <2>14, <2>15, <3>2
    <3>3. QED
      BY <3>1, <3>2
  <2>17. QED
    BY <2>4, <2>16
<1>16. QED
  BY <1>2, <1>3, <1>4, <1>6, <1>7, <1>8, <1>9, <1>13, <1>15

LEMMA WithoutNulKeeps ==
  ASSUME NEW s \in Seq(Bytes), \A i \in 1..Len(s) : s[i] # NUL
  PROVE  WithoutNul(s) = s
<1>1. PICK k : Keeps(k, s) /\ WithoutNul(s) = k[Len(s)]
  BY WithoutNulReads
<1>2. Len(s) \in Nat
  OBVIOUS
<1>3. k[0] = <<>> /\ \A m \in 1..Len(s) : k[m] = Append(k[m - 1], s[m])
  BY <1>1 DEF Keeps
<1> DEFINE S == {m \in 0..Len(s) : k[m] # SubSeq(s, 1, m)}
<1>4. S = {}
  <2>1. SUFFICES ASSUME S # {} PROVE FALSE
    OBVIOUS
  <2>2. PICK m \in S : \A j \in S : m <= j
    <3>1. S \in SUBSET Nat
      OBVIOUS
    <3> HIDE DEF S
    <3>2. QED
      BY <2>1, <3>1, LeastNumber
  <2>3. m \in 1..Len(s) /\ k[m] # SubSeq(s, 1, m)
    <3>1. SubSeq(s, 1, 0) = <<>>
      <4>1. 1 \in Int /\ 0 \in Int /\ 0 < 1
        OBVIOUS
      <4>2. QED
        BY <4>1, SubSeqEmpty
    <3>2. m \in 0..Len(s) /\ k[m] # SubSeq(s, 1, m)
      BY <2>2
    <3>3. m # 0
      BY <1>3, <3>1, <3>2
    <3>4. QED
      BY <1>2, <3>2, <3>3
  <2>4. k[m - 1] = SubSeq(s, 1, m - 1)
    <3>1. m - 1 \in 0..Len(s) /\ m - 1 \notin S
      BY <1>2, <2>2, <2>3
    <3>2. QED
      BY <3>1
  <2>5. Append(SubSeq(s, 1, m - 1), s[m]) = SubSeq(s, 1, m)
    BY <1>2, <2>3
  <2>6. QED
    BY <1>3, <2>3, <2>4, <2>5
<1>5. k[Len(s)] = SubSeq(s, 1, Len(s))
  BY <1>2, <1>4
<1>6. QED
  BY <1>1, <1>5

-----------------------------------------------------------------------------
(* The pieces of a text. *)

\* What a number of the text is: an integer, and not one without its digits.
LEMMA NumberType ==
  ASSUME TextOK, NEW p \in Nat \ {0}, NEW n \in Nat \ {0}
  PROVE  Number(text, p, n) \in Int
<1>1. CASE ~HexRun(p, n)
  <2>1. Number(text, p, n) = -1
    BY <1>1, NumberIs
  <2>2. QED
    BY <2>1
<1>2. CASE HexRun(p, n)
  <2>1. PICK m \in 0..n :
           /\ ParseHex(p, n).pos = p + m
           /\ ParseHex(p, n).err = "NONE" <=> m = n
           /\ m = n <=> HexRun(p, n)
           /\ m = n => \E a : /\ a[0] = 0
                              /\ \A i \in 1..n : a[i] = a[i - 1] * 16 + HexToDec(CurrentChar(p + i - 1))
                              /\ ParseHex(p, n).value = a[n]
    BY DigitsAre
  <2>2. PICK a : /\ a[0] = 0
                 /\ \A i \in 1..n : a[i] = a[i - 1] * 16 + HexToDec(CurrentChar(p + i - 1))
                 /\ ParseHex(p, n).value = a[n]
    BY <1>2, <2>1
  <2> DEFINE S == {i \in 0..n : a[i] \notin Int}
  <2>3. S = {}
    <3>1. SUFFICES ASSUME S # {} PROVE FALSE
      OBVIOUS
    <3>2. PICK i \in S : \A j \in S : i <= j
      <4>1. S \in SUBSET Nat
        OBVIOUS
      <4> HIDE DEF S
      <4>2. QED
        BY <3>1, <4>1, LeastNumber
    <3>3. i \in 1..n /\ a[i] \notin Int
      BY <2>2, <3>2
    <3>4. a[i - 1] \in Int
      <4>1. i - 1 \in 0..n /\ i - 1 \notin S
        BY <3>2, <3>3
      <4>2. QED
        BY <4>1
    <3>5. HexToDec(CurrentChar(p + i - 1)) \in Int
      <4>1. p + i - 1 \in Nat \ {0}
        BY <3>3
      <4>2. CurrentChar(p + i - 1) \in Bytes
        BY <4>1, CurrentCharIs
      <4>3. \A b \in Bytes : HexToDec(b) \in Int
        BY DEF HexToDec, Bytes
      <4>4. QED
        BY <4>2, <4>3
    <3>6. QED
      BY <2>2, <3>3, <3>4, <3>5
  <2>4. a[n] \in Int
    BY <2>3
  <2>5. ParseHex(p, n).value = Number(text, p, n)
    BY <1>2, NumberIs
  <2>6. QED
    BY <2>2, <2>4, <2>5
<1>3. QED
  BY <1>1, <1>2

\* Two bytes of an escape are in the text if they are the current and the next.
LEMMA StartsIs ==
  ASSUME TextOK, NEW p \in Nat \ {0}, NEW b \in 1..254
  PROVE  Starts(text, p, <<92, b>>) <=> CurrentChar(p) = 92 /\ CurrentChar(p + 1) = b
<1>1. text \in Seq(Bytes) /\ Len(text) \in Nat /\ end \notin 1..254
  BY DEF TextOK, NUL
<1>2. p + 1 <= Len(text) => CurrentChar(p) = text[p] /\ CurrentChar(p + 1) = text[p + 1]
  BY <1>1 DEF CurrentChar
<1>3. p + 1 > Len(text) => CurrentChar(p + 1) = end
  <2>1. p + 1 \in Nat \ {0}
    OBVIOUS
  <2>2. QED
    BY <2>1, CurrentCharIs
<1>4. Starts(text, p, <<92, b>>) <=> p + 1 <= Len(text) /\ SubSeq(text, p, p + 1) = <<92, b>>
  <2>1. Len(<<92, b>>) = 2 /\ p + 2 - 1 = p + 1
    OBVIOUS
  <2>2. QED
    BY <2>1 DEF Starts
<1>5. ASSUME p + 1 <= Len(text)
      PROVE  SubSeq(text, p, p + 1) = <<92, b>> <=> text[p] = 92 /\ text[p + 1] = b
  <2>1. PICK s : s = SubSeq(text, p, p + 1)
    OBVIOUS
  <2>2. p \in 1..Len(text) /\ p + 1 \in p..Len(text) /\ (p + 1) - p + 1 = 2 /\ p + 1 - 1 = p /\ p + 2 - 1 = p + 1
    <3>1. PICK l : l = Len(text)
      OBVIOUS
    <3>2. l \in Nat /\ p + 1 <= l
      BY <1>1, <1>5, <3>1
    <3>3. p \in 1..l /\ p + 1 \in p..l
      BY <3>2
    <3>4. QED
      BY <3>1, <3>3
  <2>3. s \in Seq(Bytes) /\ Len(s) = 2 /\ \A i \in 1..2 : s[i] = text[p + i - 1]
    <3>1. PICK j \in p..Len(text) : j = p + 1
      BY <2>2
    <3>2. QED
      BY <2>1, <2>2, <3>1, PieceIs
  <2>4. s = <<text[p], text[p + 1]>>
    BY <2>2, <2>3
  <2>5. \A x, y : <<x, y>> = <<92, b>> <=> x = 92 /\ y = b
    OBVIOUS
  <2>6. <<text[p], text[p + 1]>> = <<92, b>> <=> text[p] = 92 /\ text[p + 1] = b
    BY <2>5
  <2>7. QED
    BY <2>1, <2>4, <2>6
<1>6. CASE p + 1 <= Len(text)
  BY <1>2, <1>4, <1>5, <1>6
<1>7. CASE ~(p + 1 <= Len(text))
  <2>1. CurrentChar(p + 1) = end
    BY <1>1, <1>3, <1>7
  <2>2. QED
    BY <1>1, <1>4, <1>7, <2>1
<1>8. QED
  BY <1>6, <1>7

RawPieces(p) ==
  {[next |-> j + 1, means |-> SubSeq(text, p, j)] :
     j \in {j \in p..Len(text) : j < p + 4 /\ text[p] >= 32 /\ text[p] # REVERSE_SOLIDUS
                                  /\ IsCharacter(SubSeq(text, p, j))}}
LetterPieces(p) ==
  {[next |-> p + 2, means |-> <<Escapes[b]>>] : b \in {b \in DOMAIN Escapes : Starts(text, p, <<92, b>>)}}
ShortPieces(p) ==
  {[next |-> p + 6, means |-> Encoding(v)] :
     v \in {v \in {Number(text, p + 2, 4)} : Starts(text, p, <<92, 117>>) /\ IsScalar(v)}}
LongPieces(p) ==
  {[next |-> p + 8, means |-> Encoding(v)] :
     v \in {v \in {Number(text, p + 2, 6)} : AllowU /\ Starts(text, p, <<92, 85>>) /\ IsScalar(v)}}

\* The code point of a pair of surrogates.
Joined(v, w) == 65536 + (v - 55296) * 1024 + (w - 56320)

\* A pair of surrogates is written from p on.
Paired(p) ==
  /\ Starts(text, p, <<92, 117>>) /\ Starts(text, p + 6, <<92, 117>>)
  /\ HighSurrogate(Number(text, p + 2, 4)) /\ LowSurrogate(Number(text, p + 8, 4))

PairPieces(p) ==
  {[next |-> p + 12, means |-> Encoding(65536 + (w[1] - 55296) * 1024 + (w[2] - 56320))] :
     w \in {w \in {<<Number(text, p + 2, 4), Number(text, p + 8, 4)>>} :
             /\ Starts(text, p, <<92, 117>>) /\ Starts(text, p + 6, <<92, 117>>)
             /\ 55296 <= w[1] /\ w[1] <= 56319 /\ 56320 <= w[2] /\ w[2] <= 57343}}

LEMMA PiecesUnion ==
  ASSUME NEW p
  PROVE  Pieces(text, p) = RawPieces(p) \cup LetterPieces(p) \cup ShortPieces(p) \cup LongPieces(p) \cup PairPieces(p)
  BY DEF Pieces, RawPieces, LetterPieces, ShortPieces, LongPieces, PairPieces

LEMMA RawPiecesAre ==
  ASSUME TextOK, NEW p \in 1..Len(text)
  PROVE  /\ \A j \in CharEnds(p) : text[p] >= 32 /\ text[p] # 92 => RawPieces(p) = {[next |-> j + 1, means |-> SubSeq(text, p, j)]}
         /\ CharEnds(p) = {} \/ ~(text[p] >= 32) \/ text[p] = 92 => RawPieces(p) = {}
<1> DEFINE ends == {j \in p..Len(text) : j < p + 4 /\ text[p] >= 32 /\ text[p] # REVERSE_SOLIDUS
                                          /\ IsCharacter(SubSeq(text, p, j))}
<1>1. RawPieces(p) = {[next |-> j + 1, means |-> SubSeq(text, p, j)] : j \in ends}
  BY DEF RawPieces
<1>2. \A j : j \in ends <=> j \in CharEnds(p) /\ text[p] >= 32 /\ text[p] # 92
  BY DEF CharEnds, REVERSE_SOLIDUS
<1> HIDE DEF ends
<1>3. ASSUME NEW j \in CharEnds(p), text[p] >= 32, text[p] # 92
      PROVE  RawPieces(p) = {[next |-> j + 1, means |-> SubSeq(text, p, j)]}
  <2>1. \A k \in CharEnds(p) : k = j
    BY OneEnd
  <2>2. ends = {j}
    BY <1>2, <1>3, <2>1
  <2>3. QED
    BY Zenon, <1>1, <2>2
<1>4. ASSUME CharEnds(p) = {} \/ ~(text[p] >= 32) \/ text[p] = 92
      PROVE  RawPieces(p) = {}
  <2>1. ends = {}
    BY <1>2, <1>4
  <2>2. QED
    BY Zenon, <1>1, <2>1
<1>5. QED
  BY <1>3, <1>4

LEMMA LetterPiecesAre ==
  ASSUME TextOK, NEW p \in Nat \ {0}
  PROVE  LetterPieces(p) =
           IF CurrentChar(p) = 92 /\ CurrentChar(p + 1) \in DOMAIN Escapes
           THEN {[next |-> p + 2, means |-> <<Escapes[CurrentChar(p + 1)]>>]} ELSE {}
<1> DEFINE letters == {b \in DOMAIN Escapes : Starts(text, p, <<92, b>>)}
<1>1. LetterPieces(p) = {[next |-> p + 2, means |-> <<Escapes[b]>>] : b \in letters}
  BY DEF LetterPieces
<1>2. DOMAIN Escapes \subseteq 1..254
  BY DEF Escapes
<1>3. \A b \in DOMAIN Escapes : Starts(text, p, <<92, b>>) <=> CurrentChar(p) = 92 /\ CurrentChar(p + 1) = b
  BY <1>2, StartsIs
<1>4. CASE CurrentChar(p) = 92 /\ CurrentChar(p + 1) \in DOMAIN Escapes
  <2>1. letters = {CurrentChar(p + 1)}
    BY <1>3, <1>4
  <2> HIDE DEF letters
  <2>2. LetterPieces(p) = {[next |-> p + 2, means |-> <<Escapes[CurrentChar(p + 1)]>>]}
    BY Zenon, <1>1, <2>1
  <2>3. QED
    BY <1>4, <2>2
<1>5. CASE ~(CurrentChar(p) = 92 /\ CurrentChar(p + 1) \in DOMAIN Escapes)
  <2>1. letters = {}
    BY <1>3, <1>5
  <2> HIDE DEF letters
  <2>2. LetterPieces(p) = {}
    BY Zenon, <1>1, <2>1
  <2>3. QED
    BY <1>5, <2>2
<1>6. QED
  BY <1>4, <1>5

LEMMA EncodedPiecesAre ==
  ASSUME NEW p
  PROVE  /\ ShortPieces(p) = IF Starts(text, p, <<92, 117>>) /\ IsScalar(Number(text, p + 2, 4))
                             THEN {[next |-> p + 6, means |-> Encoding(Number(text, p + 2, 4))]} ELSE {}
         /\ LongPieces(p) = IF AllowU /\ Starts(text, p, <<92, 85>>) /\ IsScalar(Number(text, p + 2, 6))
                            THEN {[next |-> p + 8, means |-> Encoding(Number(text, p + 2, 6))]} ELSE {}
         /\ PairPieces(p) = IF Paired(p) THEN {[next |-> p + 12, means |-> Encoding(Joined(Number(text, p + 2, 4), Number(text, p + 8, 4)))]}
                            ELSE {}
<1>1. ShortPieces(p) = IF Starts(text, p, <<92, 117>>) /\ IsScalar(Number(text, p + 2, 4))
                       THEN {[next |-> p + 6, means |-> Encoding(Number(text, p + 2, 4))]} ELSE {}
  BY Zenon DEF ShortPieces
<1>2. LongPieces(p) = IF AllowU /\ Starts(text, p, <<92, 85>>) /\ IsScalar(Number(text, p + 2, 6))
                      THEN {[next |-> p + 8, means |-> Encoding(Number(text, p + 2, 6))]} ELSE {}
  BY Zenon DEF LongPieces
<1>3. PairPieces(p) = IF Paired(p) THEN {[next |-> p + 12, means |-> Encoding(Joined(Number(text, p + 2, 4), Number(text, p + 8, 4)))]}
                            ELSE {}
  <2> DEFINE both == <<Number(text, p + 2, 4), Number(text, p + 8, 4)>>
             Ok(w) == /\ Starts(text, p, <<92, 117>>) /\ Starts(text, p + 6, <<92, 117>>)
                      /\ HighSurrogate(w[1]) /\ LowSurrogate(w[2])
             Piece(w) == [next |-> p + 12, means |-> Encoding(Joined(w[1], w[2]))]
  <2>1. PairPieces(p) = {Piece(w) : w \in {w \in {both} : Ok(w)}}
    BY SMT DEF PairPieces, Joined, HighSurrogate, LowSurrogate
  <2>2. both[1] = Number(text, p + 2, 4) /\ both[2] = Number(text, p + 8, 4)
    OBVIOUS
  <2>3. Ok(both) <=> Paired(p)
    BY <2>2 DEF Paired
  <2>4. Piece(both) = [next |-> p + 12, means |-> Encoding(Joined(Number(text, p + 2, 4), Number(text, p + 8, 4)))]
    BY <2>2
  <2> HIDE DEF Ok, Piece, both
  <2>5. {Piece(w) : w \in {w \in {both} : Ok(w)}} = IF Ok(both) THEN {Piece(both)} ELSE {}
    BY Zenon
  <2>6. QED
    BY <2>1, <2>3, <2>4, <2>5
<1>4. QED
  BY Zenon, <1>1, <1>2, <1>3

-----------------------------------------------------------------------------
(* Escapes. *)

\* A function of the loop has refused with an error and a null.
Refused(r) == r.null = TRUE /\ r.err # "NONE" /\ r.bytes = <<>>

\* What stands for a code point behind an escape that ends before q.
Stands(r, q, cp) ==
  /\ r.null = FALSE
  /\ r.pos = q
  /\ IsScalar(cp) => r.err = "NONE" /\ r.bytes = IF cp = 0 THEN <<>> ELSE Encoding(cp)
  /\ ~IsScalar(cp) => r.err # "NONE" /\ r.bytes = <<>>

LEMMA RejectRefuses ==
  ASSUME NEW q, NEW e, e # "NONE"
  PROVE  Refused(Reject(q, e))
  BY DEF Refused, Reject

LEMMA EncodedStands ==
  ASSUME NEW q, NEW cp \in Int
  PROVE  Stands(Encoded(q, cp), q, cp)
<1>1. \E b, e : /\ EncodeUtf8(cp) = [pos |-> 0, bytes |-> b, err |-> e, null |-> EncodeUtf8(cp).null]
                /\ IsScalar(cp) => e = "NONE" /\ b = IF cp = 0 THEN <<>> ELSE Encoding(cp)
                /\ ~IsScalar(cp) => e # "NONE" /\ b = <<>>
  <2>1. CASE IsScalar(cp)
    <3>1. EncodeUtf8(cp) = Accept(0, IF cp = 0 THEN <<>> ELSE Encoding(cp))
      BY <2>1, EncodeIs
    <3>2. PICK b : b = IF cp = 0 THEN <<>> ELSE Encoding(cp)
      OBVIOUS
    <3>3. EncodeUtf8(cp) = [pos |-> 0, bytes |-> b, err |-> "NONE", null |-> FALSE]
      BY <3>1, <3>2 DEF Accept
    <3>4. EncodeUtf8(cp) = [pos |-> 0, bytes |-> b, err |-> "NONE", null |-> EncodeUtf8(cp).null]
      BY <3>3
    <3>5. QED
      BY <2>1, <3>2, <3>4
  <2>2. CASE ~IsScalar(cp)
    <3>1. PICK e : e # "NONE" /\ EncodeUtf8(cp) = Reject(0, e)
      BY <2>2, EncodeIs
    <3>2. EncodeUtf8(cp) = [pos |-> 0, bytes |-> <<>>, err |-> e, null |-> TRUE]
      BY <3>1 DEF Reject
    <3>3. EncodeUtf8(cp) = [pos |-> 0, bytes |-> <<>>, err |-> e, null |-> EncodeUtf8(cp).null]
      BY <3>2
    <3>4. QED
      BY <2>2, <3>1, <3>3
  <2>3. QED
    BY <2>1, <2>2
<1>2. PICK b, e : /\ EncodeUtf8(cp) = [pos |-> 0, bytes |-> b, err |-> e, null |-> EncodeUtf8(cp).null]
                  /\ IsScalar(cp) => e = "NONE" /\ b = IF cp = 0 THEN <<>> ELSE Encoding(cp)
                  /\ ~IsScalar(cp) => e # "NONE" /\ b = <<>>
  BY <1>1
<1>3. PICK u : u = EncodeUtf8(cp).null
  OBVIOUS
<1>4. Encoded(q, cp) = [[pos |-> 0, bytes |-> b, err |-> e, null |-> u] EXCEPT !.pos = q, !.null = FALSE]
  BY <1>2, <1>3 DEF Encoded
<1>5. Encoded(q, cp) = [pos |-> q, bytes |-> b, err |-> e, null |-> FALSE]
  BY <1>4
<1>6. QED
  BY <1>2, <1>5 DEF Stands

\* An escape of n digits whose number is used: they are there, and no earlier
\* escape recorded an error.
Usable(p, n) == HexRun(p, n) /\ err = "NONE"

LEMMA UsableIs ==
  ASSUME TextOK, NEW p \in Nat \ {0}, NEW n \in Nat \ {0}
  PROVE  /\ Recorded(ParseHex(p, n)) = "NONE" <=> Usable(p, n)
         /\ Usable(p, n) => ParseHex(p, n).pos = p + n /\ ParseHex(p, n).value = Number(text, p, n)
  BY NumberIs DEF Recorded, Usable

LEMMA LongEscapeIs ==
  ASSUME TextOK, NEW p \in Nat \ {0}
  PROVE  /\ AllowU /\ Usable(p + 1, 6) => Stands(LongEscape(p), p + 7, Number(text, p + 1, 6))
         /\ ~(AllowU /\ Usable(p + 1, 6)) => Refused(LongEscape(p))
<1>1. PICK hex : hex = ParseHex(p + 1, 6)
  OBVIOUS
<1>2. LongEscape(p) = IF ~AllowU THEN Reject(p, "INVALID_ESCAPE_SEQUENCE")
                      ELSE IF Recorded(hex) # "NONE" THEN Reject(hex.pos, Recorded(hex))
                      ELSE Encoded(hex.pos, hex.value)
  BY <1>1 DEF LongEscape
<1>3. p + 1 \in Nat \ {0} /\ 6 \in Nat \ {0} /\ p + 1 + 6 = p + 7
  OBVIOUS
<1>4. /\ Recorded(hex) = "NONE" <=> Usable(p + 1, 6)
      /\ Usable(p + 1, 6) => hex.pos = p + 1 + 6 /\ hex.value = Number(text, p + 1, 6)
  BY <1>1, <1>3, UsableIs
<1>5. Number(text, p + 1, 6) \in Int
  BY <1>3, NumberType
<1>6. AllowU /\ Usable(p + 1, 6) => Stands(LongEscape(p), p + 7, Number(text, p + 1, 6))
  BY <1>2, <1>3, <1>4, <1>5, EncodedStands
<1>7. ~(AllowU /\ Usable(p + 1, 6)) => Refused(LongEscape(p))
  BY <1>2, <1>4, RejectRefuses
<1>8. QED
  BY <1>6, <1>7

LEMMA SurrogatePairIs ==
  ASSUME TextOK, NEW p \in Nat \ {0}, NEW cp1 \in Int, HighSurrogate(cp1), err = "NONE"
  PROVE  /\ Starts(text, p, <<92, 117>>) /\ HexRun(p + 2, 4) /\ LowSurrogate(Number(text, p + 2, 4))
              => Stands(SurrogatePair(p, cp1), p + 6, Joined(cp1, Number(text, p + 2, 4)))
                 /\ IsScalar(Joined(cp1, Number(text, p + 2, 4)))
         /\ ~(Starts(text, p, <<92, 117>>) /\ LowSurrogate(Number(text, p + 2, 4)))
              => Refused(SurrogatePair(p, cp1))
         /\ ~HexRun(p + 2, 4) => Refused(SurrogatePair(p, cp1))
<1>1. PICK hex : hex = ParseHex(p + 2, 4)
  OBVIOUS
<1>2. SurrogatePair(p, cp1) =
        IF CurrentChar(p) # 92 \/ PeekNextChar(p) # 117 THEN Reject(p, "NO_FOLLOWING_LOW_SURROGATE")
        ELSE IF Recorded(hex) # "NONE" THEN Reject(hex.pos, Recorded(hex))
        ELSE IF ~LowSurrogate(hex.value) THEN Reject(hex.pos, "NO_FOLLOWING_LOW_SURROGATE")
        ELSE Encoded(hex.pos, Joined(cp1, hex.value))
  BY <1>1 DEF SurrogatePair, Joined, REVERSE_SOLIDUS, LOWER_U
<1>3. p + 2 \in Nat \ {0} /\ 4 \in Nat \ {0} /\ p + 2 + 4 = p + 6 /\ 117 \in 1..254
  OBVIOUS
<1>4. PICK v : v = Number(text, p + 2, 4) /\ v \in Int
  BY <1>3, NumberType
<1>5. /\ Recorded(hex) = "NONE" <=> HexRun(p + 2, 4)
      /\ HexRun(p + 2, 4) => hex.pos = p + 6 /\ hex.value = v
  <2>1. /\ Recorded(hex) = "NONE" <=> Usable(p + 2, 4)
        /\ Usable(p + 2, 4) => hex.pos = p + 2 + 4 /\ hex.value = Number(text, p + 2, 4)
    BY <1>1, <1>3, UsableIs
  <2>2. Usable(p + 2, 4) <=> HexRun(p + 2, 4)
    BY DEF Usable
  <2>3. QED
    BY <1>3, <1>4, <2>1, <2>2
<1>6. Starts(text, p, <<92, 117>>) <=> CurrentChar(p) = 92 /\ PeekNextChar(p) = 117
  <2>1. Starts(text, p, <<92, 117>>) <=> CurrentChar(p) = 92 /\ CurrentChar(p + 1) = 117
    BY <1>3, StartsIs
  <2>2. CurrentChar(p + 1) = 117 <=> PeekNextChar(p) = 117
    BY DEF CurrentChar, PeekNextChar, TextOK, NUL
  <2>3. QED
    BY <2>1, <2>2
<1>7. LowSurrogate(v) => Joined(cp1, v) \in Int /\ IsScalar(Joined(cp1, v))
  <2>1. PICK h : h = cp1
    OBVIOUS
  <2>2. h \in Int /\ 55296 <= h /\ h <= 56319
    BY SMT, <2>1 DEF HighSurrogate
  <2>3. ASSUME 56320 <= v, v <= 57343
        PROVE  Joined(h, v) \in Nat /\ 57343 < Joined(h, v) /\ Joined(h, v) <= 1114111
    BY SMT, <1>4, <2>2, <2>3 DEF Joined
  <2>4. QED
    BY SMT, <2>1, <2>3 DEF LowSurrogate, IsScalar
<1>8. ASSUME Starts(text, p, <<92, 117>>), HexRun(p + 2, 4), LowSurrogate(v)
      PROVE  Stands(SurrogatePair(p, cp1), p + 6, Joined(cp1, v)) /\ IsScalar(Joined(cp1, v))
  <2>1. SurrogatePair(p, cp1) = Encoded(p + 6, Joined(cp1, v))
    BY <1>2, <1>5, <1>6, <1>8
  <2>2. QED
    BY <1>7, <1>8, <2>1, EncodedStands
<1>9. ASSUME ~(Starts(text, p, <<92, 117>>) /\ LowSurrogate(v)) \/ ~HexRun(p + 2, 4)
      PROVE  Refused(SurrogatePair(p, cp1))
  <2>1. \E q, e : e # "NONE" /\ SurrogatePair(p, cp1) = Reject(q, e)
    <3>1. CASE ~Starts(text, p, <<92, 117>>)
      BY <1>2, <1>6, <3>1
    <3>2. CASE Starts(text, p, <<92, 117>>) /\ ~HexRun(p + 2, 4)
      <4>1. SurrogatePair(p, cp1) = Reject(hex.pos, Recorded(hex)) /\ Recorded(hex) # "NONE"
        BY <1>2, <1>5, <1>6, <3>2
      <4>2. QED
        BY <4>1
    <3>3. CASE Starts(text, p, <<92, 117>>) /\ HexRun(p + 2, 4)
      BY <1>2, <1>5, <1>6, <1>9, <3>3
    <3>4. QED
      BY <3>1, <3>2, <3>3
  <2>2. QED
    BY <2>1, RejectRefuses
<1>10. QED
  BY <1>4, <1>8, <1>9

LEMMA EncodingBytes ==
  ASSUME NEW cp, IsScalar(cp)
  PROVE  /\ Encoding(cp) \in Seq(Bytes) /\ Len(Encoding(cp)) \in 1..4
         /\ cp # 0 => \A i \in 1..Len(Encoding(cp)) : Encoding(cp)[i] # NUL
<1>1. PICK s : s = Encoding(cp)
  OBVIOUS
<1>2. cp \in Nat /\ (cp < 128 \/ cp \in 128..2047 \/ (2047 < cp /\ cp <= 65535) \/ 65535 < cp) /\ cp <= 1114111
  BY SMT DEF IsScalar
<1>3. WellFormed(s)
  BY <1>1, EncodingsAreWellFormed
<1>4. \A b : SecondOfThree(b) \subseteq 128..191 /\ SecondOfFour(b) \subseteq 128..191
  BY DEF SecondOfThree, SecondOfFour
<1>5. CASE cp < 128
  <2>1. s = <<cp>>
    BY SMT, <1>1, <1>5, EncodingIs
  <2>2. cp \in Bytes
    BY <1>2, <1>5 DEF Bytes
  <2>3. s \in Seq(Bytes) /\ Len(s) = 1 /\ s[1] = cp
    BY <2>1, <2>2
  <2>4. QED
    BY <1>1, <2>3 DEF NUL
<1>6. CASE ~(cp < 128)
  <2>1. \E n \in 2..4 : Len(s) = n /\ \A i \in 1..n : s[i] \in 128..255
    <3>1. CASE cp \in 128..2047
      <4>1. s = <<192 + cp \div 64, 128 + (cp % 64)>>
        BY SMT, <1>1, <3>1, EncodingIs
      <4>2. Len(s) = 2
        BY <4>1
      <4>3. s[1] \in 194..223 /\ s[2] \in 128..191
        BY <1>3, <4>2 DEF WellFormed
      <4>4. QED
        BY <4>2, <4>3
    <3>2. CASE 2047 < cp /\ cp <= 65535
      <4>1. s = <<224 + cp \div 4096, 128 + ((cp \div 64) % 64), 128 + (cp % 64)>>
        BY SMT, <1>1, <3>2, EncodingIs
      <4>2. Len(s) = 3
        BY <4>1
      <4>3. s[1] \in 224..239 /\ s[2] \in 128..191 /\ s[3] \in 128..191
        BY <1>3, <1>4, <4>2 DEF WellFormed
      <4>4. QED
        BY <4>2, <4>3
    <3>3. CASE 65535 < cp
      <4>1. s = <<240 + cp \div 262144, 128 + ((cp \div 4096) % 64), 128 + ((cp \div 64) % 64), 128 + (cp % 64)>>
        BY SMT, <1>1, <3>3, EncodingIs
      <4>2. Len(s) = 4
        BY SMT, <4>1
      <4>3. s[1] \in 240..244 /\ s[2] \in 128..191 /\ s[3] \in 128..191 /\ s[4] \in 128..191
        BY <1>3, <1>4, <4>2 DEF WellFormed
      <4>4. QED
        BY <4>2, <4>3
    <3>4. QED
      BY SMT, <1>2, <1>6, <3>1, <3>2, <3>3
  <2>2. PICK n \in 2..4 : Len(s) = n /\ \A i \in 1..n : s[i] \in 128..255
    BY <2>1
  <2>3. s = [i \in 1..n |-> s[i]]
    <3>1. s = [i \in 1..Size(cp) |-> IF i = 1 THEN Mark[Size(cp)] + cp \div 64^(Size(cp) - 1)
                               ELSE 128 + ((cp \div 64^(Size(cp) - i)) % 64)]
      BY <1>1 DEF Encoding
    <3>2. PICK m : m = Size(cp)
      OBVIOUS
    <3>3. m \in 1..4
      BY SMT, <3>2 DEF Size
    <3>4. s = [i \in 1..m |-> s[i]]
      BY <3>1, <3>2
    <3>5. Len(s) = m
      BY <3>3, <3>4
    <3>6. QED
      BY <2>2, <3>4, <3>5
  <2>4. \A i \in 1..n : s[i] \in Bytes
    BY <2>2 DEF Bytes
  <2>5. s \in Seq(Bytes)
    BY <2>2, <2>3, <2>4
  <2>6. \A i \in 1..Len(s) : s[i] # NUL
    <3>1. ASSUME NEW i \in 1..n PROVE s[i] # NUL
      <4>1. PICK b : b = s[i]
        OBVIOUS
      <4>2. b \in 128..255
        BY <2>2, <4>1
      <4>3. QED
        BY <4>1, <4>2 DEF NUL
    <3>2. Len(s) = n
      BY <2>2
    <3>3. QED
      BY <3>1, <3>2
  <2>7. Len(s) \in 1..4
    BY <2>2
  <2>8. QED
    BY <1>1, <2>5, <2>6, <2>7
<1>7. QED
  BY <1>5, <1>6

LEMMA EncodingWithoutNul ==
  ASSUME NEW cp, IsScalar(cp)
  PROVE  WithoutNul(Encoding(cp)) = IF cp = 0 THEN <<>> ELSE Encoding(cp)
<1>1. CASE cp # 0
  BY <1>1, EncodingBytes, WithoutNulKeeps
<1>2. CASE cp = 0
  <2>1. Encoding(cp) = <<0>>
    BY SMT, <1>2, EncodingIs
  <2>2. PICK s : s = Encoding(cp) /\ s \in Seq(Bytes)
    BY EncodingBytes
  <2>3. Len(s) = 1 /\ s[1] = 0
    BY <2>1, <2>2
  <2>4. PICK k : Keeps(k, s) /\ WithoutNul(s) = k[Len(s)]
    BY <2>2, WithoutNulReads
  <2>5. k[1] = <<>>
    BY <2>3, <2>4 DEF Keeps, NUL
  <2>6. QED
    BY <1>2, <2>2, <2>3, <2>4, <2>5
<1>3. QED
  BY <1>1, <1>2

\* The function that reads \u and \U, p at the letter.
LEMMA UnicodeEscapeIs ==
  ASSUME TextOK, NEW p \in Nat \ {0}, CurrentChar(p) # 85, err = "NONE"
  PROVE  LET v == Number(text, p + 1, 4)
         IN  /\ ~HexRun(p + 1, 4) => Refused(UnicodeEscape(p))
             /\ LowSurrogate(v) => Refused(UnicodeEscape(p))
             /\ HexRun(p + 1, 4) /\ HighSurrogate(v) => UnicodeEscape(p) = SurrogatePair(p + 5, v)
             /\ HexRun(p + 1, 4) /\ ~HighSurrogate(v) /\ ~LowSurrogate(v) => Stands(UnicodeEscape(p), p + 5, v)
<1>1. PICK hex : hex = ParseHex(p + 1, 4)
  OBVIOUS
<1>2. UnicodeEscape(p) =
        IF Recorded(hex) # "NONE" THEN Reject(hex.pos, Recorded(hex))
        ELSE IF LowSurrogate(hex.value) THEN Reject(hex.pos, "NO_PRECEDING_HIGH_SURROGATE")
        ELSE IF HighSurrogate(hex.value) THEN SurrogatePair(hex.pos, hex.value)
        ELSE Encoded(hex.pos, hex.value)
  BY <1>1 DEF UnicodeEscape, UPPER_U
<1>3. p + 1 \in Nat \ {0} /\ 4 \in Nat \ {0} /\ p + 1 + 4 = p + 5
  OBVIOUS
<1>4. PICK v : v = Number(text, p + 1, 4) /\ v \in Int
  BY <1>3, NumberType
<1>5. /\ Recorded(hex) = "NONE" <=> HexRun(p + 1, 4)
      /\ HexRun(p + 1, 4) => hex.pos = p + 5 /\ hex.value = v
  <2>1. /\ Recorded(hex) = "NONE" <=> Usable(p + 1, 4)
        /\ Usable(p + 1, 4) => hex.pos = p + 1 + 4 /\ hex.value = Number(text, p + 1, 4)
    BY <1>1, <1>3, UsableIs
  <2>2. Usable(p + 1, 4) <=> HexRun(p + 1, 4)
    BY DEF Usable
  <2>3. QED
    BY <1>3, <1>4, <2>1, <2>2
<1>6. ~HexRun(p + 1, 4) => Refused(UnicodeEscape(p))
  BY <1>2, <1>5, RejectRefuses
<1>7. LowSurrogate(v) => Refused(UnicodeEscape(p))
  <2>1. ASSUME HexRun(p + 1, 4), LowSurrogate(v) PROVE Refused(UnicodeEscape(p))
    <3>1. UnicodeEscape(p) = Reject(hex.pos, "NO_PRECEDING_HIGH_SURROGATE")
      BY <1>2, <1>5, <2>1
    <3>2. "NO_PRECEDING_HIGH_SURROGATE" # "NONE"
      OBVIOUS
    <3>3. QED
      BY <3>1, <3>2, RejectRefuses
  <2>2. QED
    BY <1>6, <2>1
<1>8. HexRun(p + 1, 4) /\ HighSurrogate(v) => UnicodeEscape(p) = SurrogatePair(p + 5, v)
  <2>1. HighSurrogate(v) => ~LowSurrogate(v)
    BY SMT, <1>4 DEF HighSurrogate, LowSurrogate
  <2>2. QED
    BY <1>2, <1>5, <2>1
<1>9. HexRun(p + 1, 4) /\ ~HighSurrogate(v) /\ ~LowSurrogate(v) => Stands(UnicodeEscape(p), p + 5, v)
  BY <1>2, <1>4, <1>5, EncodedStands
<1>10. QED
  BY <1>4, <1>6, <1>7, <1>8, <1>9

\* The n bytes from p on are in the text, and none is of a longer character.
Plain(p, n) == p + n - 1 <= Len(text) /\ \A i \in p..(p + n - 1) : text[i] \in 0..127

LEMMA HexRunIsPlain ==
  ASSUME NEW p \in Nat, NEW n \in Nat, HexRun(p, n)
  PROVE  Plain(p, n)
<1>1. ASSUME NEW i \in p..(p + n - 1) PROVE text[i] \in 0..127
  <2>1. PICK b : b = text[i]
    OBVIOUS
  <2>2. i - p \in 0..(n - 1) /\ p + (i - p) = i
    OBVIOUS
  <2>3. IsHex(b)
    BY <2>1, <2>2 DEF HexRun
  <2>4. b \in 0..127
    BY <2>3 DEF IsHex
  <2>5. QED
    BY <2>1, <2>4
<1>2. QED
  BY <1>1 DEF Plain, HexRun

LEMMA PlainJoins ==
  ASSUME NEW p \in Nat, NEW m \in Nat, NEW n \in Nat, Plain(p, m), Plain(p + m, n)
  PROVE  Plain(p, m + n)
<1>1. PICK q \in Nat : q = p + m
  OBVIOUS
<1>2. q + n - 1 <= Len(text) /\ \A i \in q..(q + n - 1) : text[i] \in 0..127
  BY <1>1 DEF Plain
<1>3. \A i \in p..(p + m - 1) : text[i] \in 0..127
  BY DEF Plain
<1>4. p + (m + n) - 1 = q + n - 1
  BY <1>1
<1>5. ASSUME NEW i \in p..(p + (m + n) - 1) PROVE text[i] \in 0..127
  <2>1. i \in p..(p + m - 1) \/ i \in q..(q + n - 1)
    BY <1>1, <1>4
  <2>2. QED
    BY <1>2, <1>3, <2>1
<1>6. p + (m + n) - 1 <= Len(text)
  BY <1>2, <1>4
<1>7. QED
  BY <1>5, <1>6 DEF Plain

LEMMA TwoArePlain ==
  ASSUME TextOK, NEW p \in Nat \ {0}, NEW a, NEW b, a \in 1..127, b \in 1..127,
         CurrentChar(p) = a, CurrentChar(p + 1) = b
  PROVE  Plain(p, 2) /\ text[p + 1] = b
<1>1. text \in Seq(Bytes) /\ Len(text) \in Nat /\ end \in {0, 255} /\ p + 1 \in Nat \ {0}
  BY DEF TextOK, NUL
<1>2. p <= Len(text) /\ text[p] = a
  BY <1>1, CurrentCharIs
<1>3. p + 1 <= Len(text) /\ text[p + 1] = b
  BY <1>1, CurrentCharIs
<1>4. ASSUME NEW i \in p..(p + 1) PROVE text[i] \in 0..127
  <2>1. i = p \/ i = p + 1
    OBVIOUS
  <2>2. text[i] = a \/ text[i] = b
    BY <1>2, <1>3, <2>1
  <2>3. QED
    BY <2>2
<1>5. p + 2 - 1 = p + 1
  OBVIOUS
<1>6. QED
  BY <1>3, <1>4, <1>5 DEF Plain

LEMMA EncodedPosition ==
  ASSUME NEW q, NEW cp \in Int
  PROVE  Encoded(q, cp).pos = q
  BY EncodedStands DEF Stands

\* Where an escape ends that the parser reads on behind: all its bytes are
\* in the text, and none is of a longer character.
LEMMA EscapeIsPlain ==
  ASSUME TextOK, NEW p \in 1..Len(text), text[p] = 92, BackslashEscape(p).null # TRUE
  PROVE  \E n \in 1..12 : BackslashEscape(p).pos = p + n /\ Plain(p, n)
<1>0. /\ text \in Seq(Bytes) /\ Len(text) \in Nat /\ p \in Nat \ {0} /\ p + 1 \in Nat \ {0}
      /\ p + 2 \in Nat \ {0} /\ p + 6 \in Nat \ {0} /\ p + 8 \in Nat \ {0} /\ end \in {0, 255}
      /\ p + 1 + 1 = p + 2 /\ p + 1 + 5 = p + 6 /\ p + 6 + 2 = p + 8 /\ p + 6 + 1 = p + 7
      /\ p + 2 + 4 = p + 6 /\ p + 2 + 6 = p + 8 /\ p + 8 + 4 = p + 12
  BY DEF TextOK, NUL
<1>1. PICK r : r = BackslashEscape(p)
  OBVIOUS
<1>2. PICK b : b = CurrentChar(p + 1)
  OBVIOUS
<1>3. CurrentChar(p) = 92
  BY <1>0 DEF CurrentChar
<1>4. r = CASE b = NUL -> Reject(p + 1, "UNEXPECTED_EOF")
            [] b \in DOMAIN Escapes -> Accept(p + 2, <<Escapes[b]>>)
            [] b \in {117, 85} -> UnicodeEscape(p + 1)
            [] OTHER -> Reject(p + 1, "INVALID_ESCAPE_SEQUENCE")
  BY <1>1, <1>2 DEF BackslashEscape, LOWER_U, UPPER_U
<1>5. \A q, e : Reject(q, e).null = TRUE
  BY DEF Reject
<1>6. r.null # TRUE
  BY <1>1
<1>7. CASE b \in DOMAIN Escapes
  <2>1. b \in {34, 92, 47, 98, 102, 110, 114, 116}
    BY <1>7 DEF Escapes
  <2>2. b \in 1..127 /\ b # NUL /\ b \notin {117, 85}
    BY <2>1 DEF NUL
  <2>3. r = Accept(p + 2, <<Escapes[b]>>)
    BY <1>4, <1>7, <2>2
  <2>4. r.pos = p + 2
    BY <2>3 DEF Accept
  <2>5. Plain(p, 2)
    BY <1>0, <1>2, <1>3, <2>2, TwoArePlain
  <2>6. QED
    BY <1>1, <2>4, <2>5
<1>8. CASE b \in {117, 85}
  <2>1. b # NUL /\ b \notin DOMAIN Escapes /\ b \in 1..127
    BY <1>8 DEF Escapes, NUL
  <2>2. r = UnicodeEscape(p + 1)
    BY <1>4, <1>8, <2>1
  <2>3. Plain(p, 2)
    BY <1>0, <1>2, <1>3, <2>1, TwoArePlain
  <2>4. CASE b = 85
    <3>1. PICK hex : hex = ParseHex(p + 2, 6)
      OBVIOUS
    <3>2. r = IF ~AllowU THEN Reject(p + 1, "INVALID_ESCAPE_SEQUENCE")
              ELSE IF Recorded(hex) # "NONE" THEN Reject(hex.pos, Recorded(hex))
              ELSE Encoded(hex.pos, hex.value)
      BY <1>0, <1>2, <2>2, <2>4, <3>1 DEF UnicodeEscape, LongEscape, UPPER_U
    <3>3. r = Encoded(hex.pos, hex.value) /\ Recorded(hex) = "NONE"
      BY <1>5, <1>6, <3>2
    <3>4. Usable(p + 2, 6) /\ hex.pos = p + 8 /\ hex.value \in Int
        <4>1. Usable(p + 2, 6) /\ hex.pos = p + 8 /\ hex.value = Number(text, p + 2, 6)
          BY <1>0, <3>1, <3>3, UsableIs
        <4>2. Number(text, p + 2, 6) \in Int
          BY <1>0, NumberType
        <4>3. QED
          BY <4>1, <4>2
    <3>5. Plain(p + 2, 6)
      BY <1>0, <3>4, HexRunIsPlain DEF Usable
    <3>6. Plain(p, 8)
      BY <1>0, <2>3, <3>5, PlainJoins
    <3>7. r.pos = p + 8
      BY <3>3, <3>4, EncodedPosition
    <3>8. QED
      BY <1>1, <3>6, <3>7
  <2>5. CASE b # 85
    <3>1. PICK hex : hex = ParseHex(p + 2, 4)
      OBVIOUS
    <3>2. r = IF Recorded(hex) # "NONE" THEN Reject(hex.pos, Recorded(hex))
              ELSE IF LowSurrogate(hex.value) THEN Reject(hex.pos, "NO_PRECEDING_HIGH_SURROGATE")
              ELSE IF HighSurrogate(hex.value) THEN SurrogatePair(hex.pos, hex.value)
              ELSE Encoded(hex.pos, hex.value)
      BY <1>0, <1>2, <2>2, <2>5, <3>1 DEF UnicodeEscape, UPPER_U
    <3>3. Recorded(hex) = "NONE" /\ ~LowSurrogate(hex.value)
      BY <1>5, <1>6, <3>2
    <3>4. Usable(p + 2, 4) /\ hex.pos = p + 6 /\ hex.value \in Int
        <4>1. Usable(p + 2, 4) /\ hex.pos = p + 6 /\ hex.value = Number(text, p + 2, 4)
          BY <1>0, <3>1, <3>3, UsableIs
        <4>2. Number(text, p + 2, 4) \in Int
          BY <1>0, NumberType
        <4>3. QED
          BY <4>1, <4>2
    <3>5. Plain(p + 2, 4)
      BY <1>0, <3>4, HexRunIsPlain DEF Usable
    <3>6. Plain(p, 6)
      BY <1>0, <2>3, <3>5, PlainJoins
    <3>7. CASE ~HighSurrogate(hex.value)
      <4>1. r = Encoded(hex.pos, hex.value)
        BY <3>2, <3>3, <3>7
      <4>2. r.pos = p + 6
        BY <3>4, <4>1, EncodedPosition
      <4>3. QED
        BY <1>1, <3>6, <4>2
    <3>8. CASE HighSurrogate(hex.value)
      <4>1. PICK v : v = hex.value
        OBVIOUS
      <4>2. r = SurrogatePair(p + 6, v)
        BY <3>2, <3>3, <3>4, <3>8, <4>1
      <4>3. PICK low : low = ParseHex(p + 8, 4)
        OBVIOUS
      <4>4. r = IF CurrentChar(p + 6) # 92 \/ PeekNextChar(p + 6) # 117 THEN Reject(p + 6, "NO_FOLLOWING_LOW_SURROGATE")
                ELSE IF Recorded(low) # "NONE" THEN Reject(low.pos, Recorded(low))
                ELSE IF ~LowSurrogate(low.value) THEN Reject(low.pos, "NO_FOLLOWING_LOW_SURROGATE")
                ELSE Encoded(low.pos, Joined(v, low.value))
        BY <1>0, <4>2, <4>3 DEF SurrogatePair, Joined, REVERSE_SOLIDUS, LOWER_U
      <4>5. /\ CurrentChar(p + 6) = 92 /\ PeekNextChar(p + 6) = 117 /\ Recorded(low) = "NONE"
            /\ r = Encoded(low.pos, Joined(v, low.value))
        BY <1>5, <1>6, <4>4
      <4>6. Usable(p + 8, 4) /\ low.pos = p + 12 /\ low.value \in Int
          <5>1. Usable(p + 8, 4) /\ low.pos = p + 12 /\ low.value = Number(text, p + 8, 4)
            BY <1>0, <4>3, <4>5, UsableIs
          <5>2. Number(text, p + 8, 4) \in Int
            BY <1>0, NumberType
          <5>3. QED
            BY <5>1, <5>2
      <4>7. r.pos = p + 12
        <5>1. \A x, y \in Int : Joined(x, y) \in Int
          BY SMT DEF Joined
        <5>2. Joined(v, low.value) \in Int
          BY <3>4, <4>1, <4>6, <5>1
        <5>3. QED
          BY <4>5, <4>6, <5>2, EncodedPosition
      <4>8. CurrentChar(p + 6 + 1) = 117
        BY <1>0, <4>5 DEF CurrentChar, PeekNextChar
      <4>9. Plain(p + 6, 2)
        BY <1>0, <4>5, <4>8, TwoArePlain
      <4>10. Plain(p, 8)
        BY <1>0, <3>6, <4>9, PlainJoins
      <4>11. Plain(p + 8, 4)
        BY <1>0, <4>6, HexRunIsPlain DEF Usable
      <4>12. Plain(p, 12)
        BY <1>0, <4>10, <4>11, PlainJoins
      <4>13. QED
        BY <1>1, <4>7, <4>12
    <3>9. QED
      BY <3>7, <3>8
  <2>6. QED
    BY <2>4, <2>5
<1>9. CASE b \notin DOMAIN Escapes /\ b \notin {117, 85}
  BY <1>4, <1>5, <1>6, <1>9
<1>10. QED
  BY <1>7, <1>8, <1>9

\* The parser reads on at q, with what m adds to the builder.
GoesOn(r, q, m) ==
  m \in Seq(Bytes) /\ r.null = FALSE /\ r.err = "NONE" /\ r.pos = q /\ r.bytes = WithoutNul(m)

\* The text goes on at p with m, up to q.
Means(p, q, m) == Pieces(text, p) = {[next |-> q, means |-> m]}

LEMMA StandsForOne ==
  ASSUME NEW r, NEW q, NEW cp, Stands(r, q, cp), IsScalar(cp)
  PROVE  GoesOn(r, q, Encoding(cp))
<1>1. Encoding(cp) \in Seq(Bytes)
  BY EncodingBytes
<1>2. r.bytes = WithoutNul(Encoding(cp))
  BY EncodingWithoutNul DEF Stands
<1>3. QED
  BY <1>1, <1>2 DEF Stands, GoesOn

LEMMA NotScalars ==
  /\ ~IsScalar(-1) /\ ~HighSurrogate(-1) /\ ~LowSurrogate(-1)
  /\ \A v \in Int : ~(HighSurrogate(v) /\ LowSurrogate(v))
  /\ \A v \in Int : HighSurrogate(v) \/ LowSurrogate(v) => ~IsScalar(v)
<1>1. ~IsScalar(-1) /\ ~HighSurrogate(-1) /\ ~LowSurrogate(-1)
  BY SMT DEF IsScalar, HighSurrogate, LowSurrogate
<1>2. \A v \in Int : ~(HighSurrogate(v) /\ LowSurrogate(v))
  BY SMT DEF HighSurrogate, LowSurrogate
<1>3. \A v \in Int : HighSurrogate(v) \/ LowSurrogate(v) => ~IsScalar(v)
  BY SMT DEF IsScalar, HighSurrogate, LowSurrogate
<1>4. QED
  BY <1>1, <1>2, <1>3

LEMMA LettersAre ==
  ASSUME NEW b \in DOMAIN Escapes
  PROVE  b \in 34..116 /\ b # NUL /\ b # 117 /\ b # 85 /\ Escapes[b] \in 1..127
<1>1. b \in {34, 92, 47, 98, 102, 110, 114, 116}
  BY DEF Escapes
<1>2. QED
  BY <1>1 DEF Escapes, NUL

LEMMA StartsWithU ==
  ASSUME TextOK, NEW p \in Nat \ {0}, CurrentChar(p) = 92
  PROVE  /\ Starts(text, p, <<92, 117>>) <=> CurrentChar(p + 1) = 117
         /\ Starts(text, p, <<92, 85>>) <=> CurrentChar(p + 1) = 85
<1>1. \A b \in 1..254 :
        Starts(text, p, <<92, b>>) <=> CurrentChar(p) = 92 /\ CurrentChar(p + 1) = b
  BY StartsIs
<1>2. 117 \in 1..254 /\ 85 \in 1..254
  OBVIOUS
<1>3. Starts(text, p, <<92, 117>>) <=> CurrentChar(p) = 92 /\ CurrentChar(p + 1) = 117
  BY <1>1, <1>2
<1>4. Starts(text, p, <<92, 85>>) <=> CurrentChar(p) = 92 /\ CurrentChar(p + 1) = 85
  BY <1>1, <1>2
<1>5. QED
  BY <1>3, <1>4

LEMMA PiecesBehindBackslash ==
  ASSUME TextOK, NEW p \in 1..Len(text), text[p] = 92
  PROVE  /\ CurrentChar(p + 1) \in DOMAIN Escapes =>
              Means(p, p + 2, <<Escapes[CurrentChar(p + 1)]>>)
         /\ CurrentChar(p + 1) = 117 => Pieces(text, p) = ShortPieces(p) \cup PairPieces(p)
         /\ CurrentChar(p + 1) = 85 => Pieces(text, p) = LongPieces(p)
         /\ CurrentChar(p + 1) \notin DOMAIN Escapes \cup {117, 85} => Pieces(text, p) = {}
<1>1. Len(text) \in Nat /\ p \in Nat \ {0} /\ 117 \in 1..254 /\ 85 \in 1..254
  BY DEF TextOK
<1>2. PICK b : b = CurrentChar(p + 1)
  OBVIOUS
<1>3. CurrentChar(p) = 92
  BY <1>1 DEF CurrentChar
<1>4. RawPieces(p) = {}
  BY RawPiecesAre
<1>5. LetterPieces(p) = IF b \in DOMAIN Escapes THEN {[next |-> p + 2, means |-> <<Escapes[b]>>]} ELSE {}
  BY <1>1, <1>2, <1>3, LetterPiecesAre
<1>6. Starts(text, p, <<92, 117>>) <=> b = 117
  BY <1>1, <1>2, <1>3, StartsWithU
<1>7. Starts(text, p, <<92, 85>>) <=> b = 85
  BY <1>1, <1>2, <1>3, StartsWithU
<1>8. b # 117 => ShortPieces(p) = {} /\ PairPieces(p) = {}
  BY <1>6, EncodedPiecesAre DEF Paired
<1>9. b # 85 => LongPieces(p) = {}
  BY <1>7, EncodedPiecesAre
<1>10. Pieces(text, p) = RawPieces(p) \cup LetterPieces(p) \cup ShortPieces(p) \cup LongPieces(p) \cup PairPieces(p)
  BY PiecesUnion
<1>11. b \in DOMAIN Escapes => b # 117 /\ b # 85
  BY LettersAre
<1>12. ASSUME b \in DOMAIN Escapes PROVE Means(p, p + 2, <<Escapes[b]>>)
  BY <1>4, <1>5, <1>8, <1>9, <1>10, <1>11, <1>12 DEF Means
<1>13. ASSUME b = 117 PROVE Pieces(text, p) = ShortPieces(p) \cup PairPieces(p)
  BY <1>4, <1>5, <1>9, <1>10, <1>11, <1>13
<1>14. ASSUME b = 85 PROVE Pieces(text, p) = LongPieces(p)
  BY <1>4, <1>5, <1>8, <1>10, <1>11, <1>14
<1>15. ASSUME b \notin DOMAIN Escapes, b # 117, b # 85 PROVE Pieces(text, p) = {}
  BY <1>4, <1>5, <1>8, <1>9, <1>10, <1>15
<1>16. QED
  BY <1>2, <1>12, <1>13, <1>14, <1>15

\* The parser reads an escape as what the text means, or refuses it or records
\* an error if it means nothing.
LEMMA EscapeIs ==
  ASSUME TextOK, NEW p \in 1..Len(text), text[p] = 92, err = "NONE"
  PROVE  \/ \E q, m : Means(p, q, m) /\ GoesOn(BackslashEscape(p), q, m)
         \/ Pieces(text, p) = {} /\ BackslashEscape(p).err # "NONE" /\ BackslashEscape(p).bytes = <<>>
<1>1. /\ Len(text) \in Nat /\ p \in Nat \ {0} /\ p + 1 \in Nat \ {0} /\ p + 2 \in Nat \ {0}
      /\ p + 6 \in Nat \ {0} /\ p + 8 \in Nat \ {0} /\ 4 \in Nat \ {0} /\ 6 \in Nat \ {0}
      /\ p + 1 + 1 = p + 2 /\ p + 1 + 5 = p + 6 /\ p + 1 + 7 = p + 8 /\ p + 6 + 2 = p + 8 /\ p + 6 + 6 = p + 12
  BY DEF TextOK
<1>2. PICK b : b = CurrentChar(p + 1)
  OBVIOUS
<1>3. PICK r : r = BackslashEscape(p)
  OBVIOUS
<1>4. r = CASE b = NUL -> Reject(p + 1, "UNEXPECTED_EOF")
            [] b \in DOMAIN Escapes -> Accept(p + 2, <<Escapes[b]>>)
            [] b \in {117, 85} -> UnicodeEscape(p + 1)
            [] OTHER -> Reject(p + 1, "INVALID_ESCAPE_SEQUENCE")
  BY <1>2, <1>3 DEF BackslashEscape, LOWER_U, UPPER_U
<1>5. ASSUME NEW e, e # "NONE", NEW q, r = Reject(q, e)
      PROVE  r.err # "NONE" /\ r.bytes = <<>>
  BY <1>5 DEF Reject
<1>6. ASSUME b \in DOMAIN Escapes
      PROVE  \E q, m : Means(p, q, m) /\ GoesOn(r, q, m)
  <2>1. b \in 34..116 /\ Escapes[b] \in 1..127
    BY <1>6, LettersAre
  <2>2. b # NUL /\ b \notin {117, 85}
    BY <1>6, LettersAre
  <2>3. PICK x \in 1..127 : x = Escapes[b]
    BY <2>1
  <2>4. r = Accept(p + 2, <<x>>)
    BY <1>4, <1>6, <2>2, <2>3
  <2>5. <<x>> \in Seq(Bytes)
    BY DEF Bytes
  <2>6. WithoutNul(<<x>>) = <<x>>
    <3>1. \A i \in 1..Len(<<x>>) : <<x>>[i] # NUL
      BY DEF NUL
    <3>2. QED
      BY <2>5, <3>1, WithoutNulKeeps
  <2>7. GoesOn(r, p + 2, <<x>>)
    BY <2>4, <2>5, <2>6 DEF GoesOn, Accept
  <2>8. Means(p, p + 2, <<x>>)
    BY <1>2, <1>6, <2>3, PiecesBehindBackslash
  <2>9. QED
    BY <2>7, <2>8
<1>7. ASSUME b = 117
      PROVE  \/ \E q, m : Means(p, q, m) /\ GoesOn(r, q, m)
             \/ Pieces(text, p) = {} /\ r.err # "NONE" /\ r.bytes = <<>>
  <2>1. b # NUL /\ b \notin DOMAIN Escapes
    BY <1>7, LettersAre DEF NUL
  <2>2. r = UnicodeEscape(p + 1)
    BY <1>4, <1>7, <2>1
  <2>3. PICK v : v = Number(text, p + 2, 4) /\ v \in Int
    BY <1>1, NumberType
  <2>4. PICK w : w = Number(text, p + 8, 4) /\ w \in Int
    BY <1>1, NumberType
  <2>5. /\ ~HexRun(p + 2, 4) => Refused(r) /\ v = -1
        /\ LowSurrogate(v) => Refused(r)
        /\ HexRun(p + 2, 4) /\ HighSurrogate(v) => r = SurrogatePair(p + 6, v)
        /\ HexRun(p + 2, 4) /\ ~HighSurrogate(v) /\ ~LowSurrogate(v) => Stands(r, p + 6, v)
    <3>1. CurrentChar(p + 1) # 85
      BY <1>2, <1>7
    <3>2. ~HexRun(p + 2, 4) => v = -1
      BY <1>1, <2>3, NumberIs
    <3>3. /\ ~HexRun(p + 1 + 1, 4) => Refused(r)
          /\ LowSurrogate(Number(text, p + 1 + 1, 4)) => Refused(r)
          /\ HexRun(p + 1 + 1, 4) /\ HighSurrogate(Number(text, p + 1 + 1, 4))
               => r = SurrogatePair(p + 1 + 5, Number(text, p + 1 + 1, 4))
          /\ HexRun(p + 1 + 1, 4) /\ ~HighSurrogate(Number(text, p + 1 + 1, 4)) /\ ~LowSurrogate(Number(text, p + 1 + 1, 4))
               => Stands(r, p + 1 + 5, Number(text, p + 1 + 1, 4))
      BY <1>1, <2>2, <3>1, UnicodeEscapeIs
    <3>4. QED
      BY <1>1, <2>3, <3>2, <3>3
  <2>6. ShortPieces(p) = IF IsScalar(v) THEN {[next |-> p + 6, means |-> Encoding(v)]} ELSE {}
    <3>1. Starts(text, p, <<92, 117>>)
      <4>1. CurrentChar(p) = 92
        BY <1>1 DEF CurrentChar
      <4>2. QED
        BY <1>1, <1>2, <1>7, <4>1, StartsWithU
    <3>2. QED
      BY <2>3, <3>1, EncodedPiecesAre
  <2>7. /\ Paired(p) <=> Starts(text, p + 6, <<92, 117>>) /\ HighSurrogate(v) /\ LowSurrogate(w)
        /\ PairPieces(p) = IF Paired(p) THEN {[next |-> p + 12, means |-> Encoding(Joined(v, w))]} ELSE {}
    <3>1. Starts(text, p, <<92, 117>>)
      <4>1. CurrentChar(p) = 92
        BY <1>1 DEF CurrentChar
      <4>2. QED
        BY <1>1, <1>2, <1>7, <4>1, StartsWithU
    <3>2. Paired(p) <=> Starts(text, p + 6, <<92, 117>>) /\ HighSurrogate(v) /\ LowSurrogate(w)
      BY <2>3, <2>4, <3>1 DEF Paired
    <3>3. PairPieces(p) = IF Paired(p) THEN {[next |-> p + 12, means |-> Encoding(Joined(v, w))]} ELSE {}
      BY <2>3, <2>4, EncodedPiecesAre
    <3>4. QED
      BY <3>2, <3>3
  <2>8. Pieces(text, p) = ShortPieces(p) \cup PairPieces(p)
    BY <1>2, <1>7, PiecesBehindBackslash
  <2>9. CASE ~HexRun(p + 2, 4) \/ LowSurrogate(v)
    <3>1. Refused(r) /\ ~IsScalar(v) /\ ~HighSurrogate(v)
      BY <2>3, <2>5, <2>9, NotScalars
    <3>2. Pieces(text, p) = {}
      BY <2>6, <2>7, <2>8, <3>1
    <3>3. QED
      BY <3>1, <3>2 DEF Refused
  <2>10. CASE HexRun(p + 2, 4) /\ HighSurrogate(v)
    <3>1. r = SurrogatePair(p + 6, v) /\ ~IsScalar(v)
      BY <2>3, <2>5, <2>10, NotScalars
    <3>2. Pieces(text, p) = PairPieces(p)
      BY <2>6, <2>8, <3>1
    <3>3. /\ Starts(text, p + 6, <<92, 117>>) /\ HexRun(p + 8, 4) /\ LowSurrogate(w)
               => Stands(r, p + 12, Joined(v, w)) /\ IsScalar(Joined(v, w))
          /\ ~(Starts(text, p + 6, <<92, 117>>) /\ LowSurrogate(w)) => Refused(r)
      <4>1. /\ Starts(text, p + 6, <<92, 117>>) /\ HexRun(p + 6 + 2, 4) /\ LowSurrogate(Number(text, p + 6 + 2, 4))
                 => Stands(SurrogatePair(p + 6, v), p + 6 + 6, Joined(v, Number(text, p + 6 + 2, 4)))
                    /\ IsScalar(Joined(v, Number(text, p + 6 + 2, 4)))
            /\ ~(Starts(text, p + 6, <<92, 117>>) /\ LowSurrogate(Number(text, p + 6 + 2, 4)))
                 => Refused(SurrogatePair(p + 6, v))
        BY <1>1, <2>3, <2>10, SurrogatePairIs
      <4>2. QED
        BY <1>1, <2>4, <3>1, <4>1
    <3>4. ~HexRun(p + 8, 4) => ~LowSurrogate(w)
      <4>1. ~HexRun(p + 8, 4) => w = -1
        BY <1>1, <2>4, NumberIs
      <4>2. QED
        BY <4>1, NotScalars
    <3>5. CASE Starts(text, p + 6, <<92, 117>>) /\ LowSurrogate(w)
      <4>1. Stands(r, p + 12, Joined(v, w)) /\ IsScalar(Joined(v, w))
        BY <3>3, <3>4, <3>5
      <4>2. GoesOn(r, p + 12, Encoding(Joined(v, w)))
        BY <4>1, StandsForOne
      <4>3. Means(p, p + 12, Encoding(Joined(v, w)))
        BY <2>7, <2>10, <3>2, <3>5 DEF Means
      <4>4. QED
        BY <4>2, <4>3
    <3>6. CASE ~(Starts(text, p + 6, <<92, 117>>) /\ LowSurrogate(w))
      <4>1. Pieces(text, p) = {}
        BY <2>7, <3>2, <3>6
      <4>2. QED
        BY <3>3, <3>6, <4>1 DEF Refused
    <3>7. QED
      BY <3>5, <3>6
  <2>11. CASE HexRun(p + 2, 4) /\ ~HighSurrogate(v) /\ ~LowSurrogate(v)
    <3>1. Stands(r, p + 6, v)
      BY <2>5, <2>11
    <3>2. Pieces(text, p) = ShortPieces(p)
      BY <2>7, <2>8, <2>11
    <3>3. CASE IsScalar(v)
      <4>1. GoesOn(r, p + 6, Encoding(v))
        BY <3>1, <3>3, StandsForOne
      <4>2. Means(p, p + 6, Encoding(v))
        BY <2>6, <3>2, <3>3 DEF Means
      <4>3. QED
        BY <4>1, <4>2
    <3>4. CASE ~IsScalar(v)
      <4>1. Pieces(text, p) = {}
        BY <2>6, <3>2, <3>4
      <4>2. QED
        BY <3>1, <3>4, <4>1 DEF Stands
    <3>5. QED
      BY <3>3, <3>4
  <2>12. QED
    BY <2>9, <2>10, <2>11
<1>8. ASSUME b = 85
      PROVE  \/ \E q, m : Means(p, q, m) /\ GoesOn(r, q, m)
             \/ Pieces(text, p) = {} /\ r.err # "NONE" /\ r.bytes = <<>>
  <2>1. b # NUL /\ b \notin DOMAIN Escapes
    BY <1>8, LettersAre DEF NUL
  <2>2. r = UnicodeEscape(p + 1)
    BY <1>4, <1>8, <2>1
  <2>3. r = LongEscape(p + 1)
    BY <1>2, <1>8, <2>2 DEF UnicodeEscape, UPPER_U
  <2>4. PICK v : v = Number(text, p + 2, 6) /\ v \in Int
    BY <1>1, NumberType
  <2>5. LongPieces(p) = IF AllowU /\ IsScalar(v) THEN {[next |-> p + 8, means |-> Encoding(v)]} ELSE {}
    <3>1. Starts(text, p, <<92, 85>>)
      <4>1. CurrentChar(p) = 92
        BY <1>1 DEF CurrentChar
      <4>2. QED
        BY <1>1, <1>2, <1>8, <4>1, StartsWithU
    <3>2. QED
      BY <2>4, <3>1, EncodedPiecesAre
  <2>6. Pieces(text, p) = LongPieces(p)
    BY <1>2, <1>8, PiecesBehindBackslash
  <2>7. /\ AllowU /\ HexRun(p + 2, 6) => Stands(r, p + 8, v)
        /\ ~(AllowU /\ HexRun(p + 2, 6)) => Refused(r)
    <3>1. /\ AllowU /\ Usable(p + 1 + 1, 6) => Stands(LongEscape(p + 1), p + 1 + 7, Number(text, p + 1 + 1, 6))
          /\ ~(AllowU /\ Usable(p + 1 + 1, 6)) => Refused(LongEscape(p + 1))
      BY <1>1, LongEscapeIs
    <3>2. Usable(p + 2, 6) <=> HexRun(p + 2, 6)
      BY DEF Usable
    <3>3. QED
      BY <1>1, <2>3, <2>4, <3>1, <3>2
  <2>8. ~HexRun(p + 2, 6) => ~IsScalar(v)
    <3>1. ~HexRun(p + 2, 6) => v = -1
      BY <1>1, <2>4, NumberIs
    <3>2. QED
      BY <3>1, NotScalars
  <2>9. CASE AllowU /\ IsScalar(v)
    <3>1. GoesOn(r, p + 8, Encoding(v))
      BY <2>7, <2>8, <2>9, StandsForOne
    <3>2. Means(p, p + 8, Encoding(v))
      BY <2>5, <2>6, <2>9 DEF Means
    <3>3. QED
      BY <3>1, <3>2
  <2>10. CASE ~(AllowU /\ IsScalar(v))
    <3>1. Pieces(text, p) = {}
      BY <2>5, <2>6, <2>10
    <3>2. r.err # "NONE" /\ r.bytes = <<>>
      <4>1. CASE AllowU /\ HexRun(p + 2, 6)
        BY <2>7, <2>10, <4>1 DEF Stands
      <4>2. CASE ~(AllowU /\ HexRun(p + 2, 6))
        BY <2>7, <4>2 DEF Refused
      <4>3. QED
        BY <4>1, <4>2
    <3>3. QED
      BY <3>1, <3>2
  <2>11. QED
    BY <2>9, <2>10
<1>9. ASSUME b \notin DOMAIN Escapes, b # 117, b # 85
      PROVE  Pieces(text, p) = {} /\ r.err # "NONE" /\ r.bytes = <<>>
  <2>1. Pieces(text, p) = {}
    BY <1>2, <1>9, PiecesBehindBackslash
  <2>2. CASE b = NUL
    <3>1. r = Reject(p + 1, "UNEXPECTED_EOF")
      BY <1>4, <1>9, <2>2
    <3>2. QED
      BY <1>5, <2>1, <3>1
  <2>3. CASE b # NUL
    <3>1. r = Reject(p + 1, "INVALID_ESCAPE_SEQUENCE")
      BY <1>4, <1>9, <2>3
    <3>2. QED
      BY <1>5, <2>1, <3>1
  <2>4. QED
    BY <2>2, <2>3
<1>10. QED
  BY <1>3, <1>6, <1>7, <1>8, <1>9

-----------------------------------------------------------------------------
(* What a text denotes. *)

LEMMA StartsNot ==
  ASSUME TextOK, NEW p \in Nat \ {0}, CurrentChar(p) # 92
  PROVE  LetterPieces(p) = {} /\ ShortPieces(p) = {} /\ LongPieces(p) = {} /\ PairPieces(p) = {}
<1>1. 117 \in 1..254 /\ 85 \in 1..254
  OBVIOUS
<1>2. ~Starts(text, p, <<92, 117>>)
  BY <1>1, StartsIs
<1>3. ~Starts(text, p, <<92, 85>>)
  BY <1>1, StartsIs
<1>4. LetterPieces(p) = {}
  BY LetterPiecesAre
<1>5. QED
  BY <1>2, <1>3, <1>4, EncodedPiecesAre DEF Paired

\* The parser reads a character as what the text means, or refuses it if it
\* means nothing.
LEMMA CharacterIs ==
  ASSUME TextOK, NEW p \in 1..Len(text), text[p] \in 32..255, text[p] # 34, text[p] # 92
  PROVE  \/ \E q, m : q \in (p + 1)..(Len(text) + 1) /\ Means(p, q, m) /\ GoesOn(ValidateUtf8(p), q, m)
         \/ Pieces(text, p) = {} /\ CharEnds(p) = {} /\ Refused(ValidateUtf8(p))
<1>1. Len(text) \in Nat /\ p \in Nat \ {0}
  BY DEF TextOK
<1>2. CurrentChar(p) # 92
  BY <1>1 DEF CurrentChar
<1>3. LetterPieces(p) = {} /\ ShortPieces(p) = {} /\ LongPieces(p) = {} /\ PairPieces(p) = {}
  BY <1>1, <1>2, StartsNot
<1>6. Pieces(text, p) = RawPieces(p)
  BY <1>3, PiecesUnion
<1>7. text[p] >= 32
  <2>1. PICK b \in 32..255 : b = text[p]
    OBVIOUS
  <2>2. b >= 32
    OBVIOUS
  <2>3. QED
    BY <2>1, <2>2
<1>8. ASSUME NEW j \in CharEnds(p)
      PROVE  \E q, m : q \in (p + 1)..(Len(text) + 1) /\ Means(p, q, m) /\ GoesOn(ValidateUtf8(p), q, m)
  <2>1. j \in p..Len(text)
    BY DEF CharEnds
  <2>2. PICK s : s = SubSeq(text, p, j)
    OBVIOUS
  <2>3. s \in Seq(Bytes) /\ Len(s) = j - p + 1 /\ \A i \in 1..(j - p + 1) : s[i] = text[p + i - 1]
    BY <2>1, <2>2, PieceIs
  <2>4. Means(p, j + 1, s)
    BY <1>6, <1>7, <2>2, RawPiecesAre DEF Means
  <2>5. ValidateUtf8(p) = Accept(j + 1, s)
    BY <2>2, ValidationIs
  <2>6. \A i \in 1..Len(s) : s[i] # NUL
    <3>1. /\ j = p + SequenceLength(CurrentChar(p)) - 1 /\ SequenceLength(CurrentChar(p)) \in 1..4
          /\ \A i \in 1..(SequenceLength(CurrentChar(p)) - 1) : Follows(p, i)
      BY OneEnd
    <3>2. ASSUME NEW i \in 1..Len(s) PROVE s[i] # NUL
      <4>1. s[i] = text[p + i - 1]
        BY <2>3
      <4>2. CASE i = 1
        <5>1. s[1] = text[p]
          BY <1>1, <4>1, <4>2
        <5>2. QED
          BY <1>7, <4>2, <5>1 DEF NUL
      <4>3. CASE i # 1
        <5>1. i - 1 \in 1..3 /\ i - 1 \in 1..(SequenceLength(CurrentChar(p)) - 1) /\ p + (i - 1) = p + i - 1
          <6>1. PICK n \in 1..4 : n = SequenceLength(CurrentChar(p)) /\ j = p + n - 1
            BY <3>1
          <6>2. i \in 1..n
            BY <1>1, <2>1, <2>3, <6>1
          <6>3. i - 1 \in 1..3 /\ i - 1 \in 1..(n - 1) /\ p + (i - 1) = p + i - 1
            BY <1>1, <4>3, <6>2
          <6>4. QED
            BY <6>1, <6>3
        <5>2. Follows(p, i - 1)
          BY <3>1, <5>1
        <5>3. p + (i - 1) <= Len(text) /\ CurrentChar(p + (i - 1)) \in 128..191
          BY <1>1, <5>1, <5>2, FollowersAreInside
        <5>4. PICK b : b = text[p + i - 1]
          OBVIOUS
        <5>5. b \in 128..191
          BY <5>1, <5>3, <5>4 DEF CurrentChar
        <5>6. b # 0
          BY <5>5
        <5>7. QED
          BY <4>1, <5>4, <5>6 DEF NUL
      <4>4. QED
        BY <4>2, <4>3
    <3>3. QED
      BY <3>2
  <2>7. WithoutNul(s) = s
    BY <2>3, <2>6, WithoutNulKeeps
  <2>8. GoesOn(ValidateUtf8(p), j + 1, s)
    BY <2>3, <2>5, <2>7 DEF GoesOn, Accept
  <2>9. j + 1 \in (p + 1)..(Len(text) + 1)
    BY <1>1, <2>1
  <2>10. QED
    BY <2>4, <2>8, <2>9
<1>9. ASSUME CharEnds(p) = {}
      PROVE  Pieces(text, p) = {} /\ Refused(ValidateUtf8(p))
  <2>1. RawPieces(p) = {}
    BY <1>9, RawPiecesAre
  <2>2. QED
    BY <1>6, <1>9, <2>1, ValidationIs DEF Refused
<1>10. QED
  BY <1>8, <1>9

LEMMA NothingBelowSpace ==
  ASSUME TextOK, NEW p \in 1..Len(text), text[p] \in 0..31
  PROVE  Pieces(text, p) = {}
<1>1. Len(text) \in Nat /\ p \in Nat \ {0}
  BY DEF TextOK
<1>2. PICK b \in 0..31 : b = text[p]
  OBVIOUS
<1>3. CurrentChar(p) # 92 /\ ~(text[p] >= 32)
  <2>1. CurrentChar(p) = b
    BY <1>1, <1>2 DEF CurrentChar
  <2>2. b # 92 /\ ~(b >= 32)
    OBVIOUS
  <2>3. QED
    BY <1>2, <2>1, <2>2
<1>4. LetterPieces(p) = {} /\ ShortPieces(p) = {} /\ LongPieces(p) = {} /\ PairPieces(p) = {}
  BY <1>1, <1>3, StartsNot
<1>7. RawPieces(p) = {}
  BY <1>3, RawPiecesAre
<1>8. QED
  BY <1>4, <1>7, PiecesUnion

\* A text goes on with one piece, or with none.
LEMMA PiecesAreOne ==
  ASSUME TextOK, err = "NONE", NEW p \in 1..Len(text), text[p] # 34
  PROVE  Pieces(text, p) = {} \/ \E q \in (p + 1)..(Len(text) + 1), m \in Seq(Bytes) : Means(p, q, m)
<1>1. text \in Seq(Bytes) /\ Len(text) \in Nat
  BY DEF TextOK
<1>2. PICK b \in Bytes : b = text[p]
  BY <1>1, ByteAt
<1>3. CASE b \in 0..31
  BY <1>2, <1>3, NothingBelowSpace
<1>4. CASE b = 92
  <2>1. text[p] = 92
    BY <1>2, <1>4
  <2>2. ASSUME NEW q, NEW m, Means(p, q, m), GoesOn(BackslashEscape(p), q, m)
        PROVE  q \in (p + 1)..(Len(text) + 1) /\ m \in Seq(Bytes)
    <3>1. BackslashEscape(p).null # TRUE /\ BackslashEscape(p).pos = q /\ m \in Seq(Bytes)
      BY <2>2 DEF GoesOn
    <3>2. PICK n \in 1..12 : BackslashEscape(p).pos = p + n /\ Plain(p, n)
      BY <2>1, <3>1, EscapeIsPlain
    <3>3. q = p + n /\ p + n - 1 <= Len(text)
      BY <3>1, <3>2 DEF Plain
    <3>4. QED
      BY <1>1, <3>1, <3>3
  <2>3. QED
    BY <2>1, <2>2, EscapeIs
<1>5. CASE b \in 32..255 /\ b # 92
  <2>1. text[p] \in 32..255 /\ text[p] # 34 /\ text[p] # 92
    BY <1>2, <1>5
  <2>2. \/ \E q, m : q \in (p + 1)..(Len(text) + 1) /\ Means(p, q, m) /\ GoesOn(ValidateUtf8(p), q, m)
        \/ Pieces(text, p) = {}
    BY <2>1, CharacterIs
  <2>3. QED
    BY <2>2 DEF GoesOn
<1>6. b \in 0..31 \/ b = 92 \/ (b \in 32..255 /\ b # 92)
  BY DEF Bytes
<1>7. QED
  BY <1>3, <1>4, <1>5, <1>6

\* What Denoted makes of the text from each place on.
Denotes(g) ==
  /\ g[Len(text) + 1] = IllFormed
  /\ \A p \in 1..Len(text) :
       /\ text[p] = 34 => g[p] = <<>>
       /\ text[p] # 34 /\ Pieces(text, p) = {} => g[p] = IllFormed
       /\ \A q, m : text[p] # 34 /\ Means(p, q, m) =>
                      g[p] = IF g[q] = IllFormed THEN IllFormed ELSE m \o g[q]

LEMMA DenotedReads ==
  ASSUME TextOK, err = "NONE"
  PROVE  \E g : Denotes(g) /\ Denoted(text) = g[1]
<1> DEFINE n == Len(text)
           Turn(f, p) ==
             IF p > n THEN IllFormed
             ELSE IF text[p] = QUOTE THEN <<>>
             ELSE IF Pieces(text, p) = {} THEN IllFormed
             ELSE LET piece == CHOOSE piece \in Pieces(text, p) : TRUE
                      tail == f[piece.next]
                  IN  IF tail = IllFormed THEN IllFormed ELSE piece.means \o tail
           g == CHOOSE f : f = [p \in 1..(n + 1) |-> Turn(f, p)]
           stops == {p \in 1..(n + 1) : p > n \/ text[p] = 34 \/ Pieces(text, p) = {}}
           val == [p \in 1..(n + 1) |-> IF p > n THEN IllFormed ELSE IF text[p] = 34 THEN <<>>
                                        ELSE IF Pieces(text, p) = {} THEN IllFormed
                                        ELSE (CHOOSE piece \in Pieces(text, p) : TRUE).means]
           nx == [p \in 1..(n + 1) |-> (CHOOSE piece \in Pieces(text, p) : TRUE).next]
<1>0. n \in Nat
  BY DEF TextOK
<1>1. Denoted(text) = g[1]
  BY DEF Denoted
<1>2. ASSUME NEW f, NEW p \in 1..(n + 1)
      PROVE  Turn(f, p) = Turns(f, p, stops, val, nx)
  <2>1. PICK one : one = CHOOSE piece \in Pieces(text, p) : TRUE
    OBVIOUS
  <2>2. Turn(f, p) =
          IF p > n THEN IllFormed ELSE IF text[p] = 34 THEN <<>> ELSE IF Pieces(text, p) = {} THEN IllFormed
          ELSE IF f[one.next] = IllFormed THEN IllFormed ELSE one.means \o f[one.next]
    BY <2>1 DEF QUOTE
  <2>3. /\ p \in stops <=> p > n \/ text[p] = 34 \/ Pieces(text, p) = {}
        /\ nx[p] = one.next
        /\ val[p] = IF p > n THEN IllFormed ELSE IF text[p] = 34 THEN <<>>
                    ELSE IF Pieces(text, p) = {} THEN IllFormed ELSE one.means
    BY <2>1
  <2> HIDE DEF Turn, stops, val, nx
  <2>4. QED
    BY <2>2, <2>3 DEF Turns
<1>3. ASSUME NEW p \in 1..n, NEW q, NEW m, Means(p, q, m)
      PROVE  (CHOOSE piece \in Pieces(text, p) : TRUE) = [next |-> q, means |-> m] /\ Pieces(text, p) # {}
  <2>1. Pieces(text, p) = {[next |-> q, means |-> m]}
    BY <1>3 DEF Means
  <2>2. QED
    BY <2>1
<1>4. \A p \in 1..(n + 1) : p \in stops \/ nx[p] \in (p + 1)..(n + 1)
  <2>1. ASSUME NEW p \in 1..(n + 1), p \notin stops
        PROVE  nx[p] \in (p + 1)..(n + 1)
    <3>1. p \in 1..n /\ text[p] # 34 /\ Pieces(text, p) # {}
      BY <1>0, <2>1
    <3>2. PICK q \in (p + 1)..(n + 1), m \in Seq(Bytes) : Means(p, q, m)
      BY <3>1, PiecesAreOne
    <3>3. (CHOOSE piece \in Pieces(text, p) : TRUE) = [next |-> q, means |-> m]
      BY <1>3, <3>1, <3>2
    <3>4. PICK one : one = CHOOSE piece \in Pieces(text, p) : TRUE
      OBVIOUS
    <3>5. nx[p] = one.next
      BY <3>4
    <3>6. one = [next |-> q, means |-> m]
      BY <3>3, <3>4
    <3> HIDE DEF nx, stops, val, Turn
    <3>7. one.next = q
      BY <3>6
    <3>8. QED
      BY <3>5, <3>7
  <2>2. QED
    BY <2>1
<1> HIDE DEF Turn, stops, val, nx
<1>5. PICK f : Chained(f, 1, n, stops, val, nx)
  BY <1>0, <1>4, ChainsExist
<1>6. f = [p \in 1..(n + 1) |-> Turn(f, p)]
  BY <1>2, <1>5 DEF Chained
<1>7. g = [p \in 1..(n + 1) |-> Turn(g, p)]
  BY <1>6
<1> HIDE DEF g
<1>8. \A p \in 1..(n + 1) : g[p] = Turn(g, p)
  BY <1>7
<1>9. g[n + 1] = IllFormed
  <2>1. n + 1 \in 1..(n + 1) /\ n + 1 > n
    BY <1>0
  <2>2. g[n + 1] = Turn(g, n + 1)
    BY <1>8, <2>1
  <2>3. QED
    BY <2>1, <2>2 DEF Turn
<1>10. ASSUME NEW p \in 1..n
       PROVE  /\ text[p] = 34 => g[p] = <<>>
              /\ text[p] # 34 /\ Pieces(text, p) = {} => g[p] = IllFormed
              /\ \A q, m : text[p] # 34 /\ Means(p, q, m) =>
                             g[p] = IF g[q] = IllFormed THEN IllFormed ELSE m \o g[q]
  <2>1. p \in 1..(n + 1) /\ ~(p > n)
    BY <1>0
  <2>2. PICK one : one = CHOOSE piece \in Pieces(text, p) : TRUE
    OBVIOUS
  <2>3. g[p] = IF text[p] = 34 THEN <<>> ELSE IF Pieces(text, p) = {} THEN IllFormed
               ELSE IF g[one.next] = IllFormed THEN IllFormed ELSE one.means \o g[one.next]
    BY <1>8, <2>1, <2>2 DEF Turn, QUOTE
  <2>4. ASSUME NEW q, NEW m, text[p] # 34, Means(p, q, m)
        PROVE  g[p] = IF g[q] = IllFormed THEN IllFormed ELSE m \o g[q]
    <3>1. one = [next |-> q, means |-> m] /\ Pieces(text, p) # {}
      BY <1>3, <2>2, <2>4
    <3>2. one.next = q /\ one.means = m
      BY <3>1
    <3>3. QED
      BY <2>3, <2>4, <3>1, <3>2
  <2>5. QED
    BY <2>3, <2>4
<1>11. Denotes(g)
  BY <1>9, <1>10 DEF Denotes
<1>12. QED
  BY <1>1, <1>11

\* What a text denotes from a place on is a sequence of bytes, or nothing.
LEMMA DenotedType ==
  ASSUME TextOK, err = "NONE", NEW g, Denotes(g)
  PROVE  \A p \in 1..(Len(text) + 1) : g[p] = IllFormed \/ g[p] \in Seq(Bytes)
<1> DEFINE n == Len(text)
           S == {k \in 0..n : ~(g[n + 1 - k] = IllFormed \/ g[n + 1 - k] \in Seq(Bytes))}
<1>0. n \in Nat
  BY DEF TextOK
<1>1. ASSUME S # {} PROVE FALSE
  <2>1. S \in SUBSET Nat
    BY <1>0
  <2>2. PICK k \in S : \A j \in S : k <= j
    <3> HIDE DEF S
    <3>1. QED
      BY <1>1, <2>1, LeastNumber
  <2>3. PICK p : p = n + 1 - k
    OBVIOUS
  <2>4. k \in 0..n /\ p \in 1..(n + 1) /\ ~(g[p] = IllFormed \/ g[p] \in Seq(Bytes))
    BY <1>0, <2>2, <2>3
  <2>5. p # n + 1
    BY <2>4 DEF Denotes
  <2>6. p \in 1..n
    BY <1>0, <2>4, <2>5
  <2>7. text[p] # 34
    <3>1. <<>> \in Seq(Bytes)
      OBVIOUS
    <3>2. QED
      BY <2>4, <2>6, <3>1 DEF Denotes
  <2>8. Pieces(text, p) # {}
    BY <2>4, <2>6, <2>7 DEF Denotes
  <2>9. PICK q \in (p + 1)..(n + 1), m \in Seq(Bytes) : Means(p, q, m)
    BY <2>6, <2>7, <2>8, PiecesAreOne
  <2>10. g[p] = IF g[q] = IllFormed THEN IllFormed ELSE m \o g[q]
    BY <2>6, <2>7, <2>9 DEF Denotes
  <2>11. n + 1 - q \in 0..n /\ n + 1 - (n + 1 - q) = q /\ ~(k <= n + 1 - q)
    BY <1>0, <2>3, <2>4, <2>6
  <2>12. n + 1 - q \notin S
    BY <2>2, <2>11
  <2>13. g[q] = IllFormed \/ g[q] \in Seq(Bytes)
    BY <2>11, <2>12
  <2>14. PICK t : t = g[q]
    OBVIOUS
  <2>15. t \in Seq(Bytes) => m \o t \in Seq(Bytes)
    OBVIOUS
  <2>16. QED
    BY <2>4, <2>10, <2>13, <2>14, <2>15
<1>2. ASSUME NEW p \in 1..(n + 1) PROVE g[p] = IllFormed \/ g[p] \in Seq(Bytes)
  <2>1. n + 1 - p \in 0..n /\ n + 1 - (n + 1 - p) = p
    BY <1>0
  <2>2. n + 1 - p \notin S
    BY <1>1
  <2>3. QED
    BY <2>1, <2>2
<1>3. QED
  BY <1>2

-----------------------------------------------------------------------------
(* The loop of the string parser, for any texts. *)

StringSpec == StringInit /\ [][StringNext]_stringVars

\* If the text is UTF-8, so is what is left of it from p on.
ReadsOn(p) ==
  /\ p \in 1..(Len(text) + 1)
  /\ \A f : ReadsCodePoints(f) /\ f[1] # IllFormed => f[p] # IllFormed

LEMMA ReadsOnAfterCharacter ==
  ASSUME TextOK, NEW p \in 1..Len(text), ReadsOn(p), NEW j \in CharEnds(p)
  PROVE  ReadsOn(j + 1)
<1>1. j + 1 \in 1..(Len(text) + 1)
  BY DEF TextOK, CharEnds
<1>2. ASSUME NEW f, ReadsCodePoints(f), f[1] # IllFormed PROVE f[j + 1] # IllFormed
  <2>1. f[p] # IllFormed
    BY <1>2 DEF ReadsOn
  <2>2. f[p] = IF f[j + 1] = IllFormed THEN IllFormed
               ELSE <<CodePoint(SubSeq(text, p, j))>> \o f[j + 1]
    BY <1>2 DEF ReadsCodePoints
  <2>3. QED
    BY <2>1, <2>2
<1>3. QED
  BY <1>1, <1>2 DEF ReadsOn

LEMMA AsciiIsCharacter ==
  ASSUME TextOK, NEW p \in 1..Len(text), text[p] \in 0..127
  PROVE  p \in CharEnds(p)
<1>1. Len(text) \in Nat /\ p \in Nat \ {0}
  BY DEF TextOK
<1>2. PICK b \in 0..127 : b = text[p]
  OBVIOUS
<1>3. CurrentChar(p) = b /\ b \in Bytes
  BY <1>1, <1>2 DEF CurrentChar, Bytes
<1>4. SequenceLength(b) = 1
  BY <1>3, SequenceLengthIs
<1>5. p + 1 - 1 \in CharEnds(p)
  BY <1>3, <1>4, OneEnd
<1>6. QED
  BY <1>1, <1>5

LEMMA ReadsOnAfterPlain ==
  ASSUME TextOK, NEW p \in Nat \ {0}, ReadsOn(p), NEW n \in Nat, Plain(p, n)
  PROVE  ReadsOn(p + n)
<1> DEFINE S == {k \in 0..n : ~ReadsOn(p + k)}
<1>0. Len(text) \in Nat
  BY DEF TextOK
<1>1. ASSUME S # {} PROVE FALSE
  <2>1. S \in SUBSET Nat
    OBVIOUS
  <2>2. PICK k \in S : \A j \in S : k <= j
    <3> HIDE DEF S
    <3>1. QED
      BY <1>1, <2>1, LeastNumber
  <2>3. k \in 0..n /\ ~ReadsOn(p + k)
    BY <2>2
  <2>4. k # 0
    <3>1. p + 0 = p
      OBVIOUS
    <3>2. QED
      BY <2>3, <3>1
  <2>5. k - 1 \in 0..n /\ ~(k <= k - 1)
    BY <2>3, <2>4
  <2>6. ReadsOn(p + (k - 1))
    BY <2>2, <2>5
  <2>7. PICK q : q = p + (k - 1)
    OBVIOUS
  <2>8. q \in p..(p + n - 1) /\ q + 1 = p + k /\ q \in 1..Len(text)
    BY <1>0, <2>3, <2>4, <2>7 DEF Plain
  <2>9. text[q] \in 0..127
    BY <2>8 DEF Plain
  <2>10. q \in CharEnds(q)
    BY <2>8, <2>9, AsciiIsCharacter
  <2>11. ReadsOn(q + 1)
    BY <2>6, <2>7, <2>8, <2>10, ReadsOnAfterCharacter
  <2>12. QED
    BY <2>3, <2>8, <2>11
<1>2. n \in 0..n /\ n \notin S
  BY <1>1
<1>3. QED
  BY <1>2

LEMMA ReadsOnNoFurther ==
  ASSUME TextOK, NEW p \in 1..Len(text), ReadsOn(p), CharEnds(p) = {}
  PROVE  CodePoints(text) = IllFormed
<1>1. PICK f : ReadsCodePoints(f) /\ CodePoints(text) = f[1]
  BY CodePointsRead
<1>2. f[p] = IllFormed
  BY <1>1 DEF ReadsCodePoints
<1>3. f[1] = IllFormed
  BY <1>1, <1>2 DEF ReadsOn
<1>4. QED
  BY <1>1, <1>3

\* Where the loop finds a byte that neither end of a text has, it is in the text.
LEMMA InsideText ==
  ASSUME TextOK, NEW p \in 1..(Len(text) + 1), CurrentChar(p) \notin {0, 255}
  PROVE  p \in 1..Len(text) /\ text[p] = CurrentChar(p)
<1>1. Len(text) \in Nat /\ end \in {0, 255}
  BY DEF TextOK, NUL
<1>2. QED
  BY <1>1 DEF CurrentChar

\* Behind the end of a file the validation refuses the byte it finds.
LEMMA RefusedBehindEnd ==
  ASSUME TextOK, NEW p, p = Len(text) + 1, CurrentChar(p) # 0
  PROVE  end = 255 /\ ValidateUtf8(p) = Reject(p, StartByteError(255))
<1>1. Len(text) \in Nat /\ end \in {0, 255}
  BY DEF TextOK, NUL
<1>2. CurrentChar(p) = end
  BY <1>1 DEF CurrentChar
<1>3. end = 255 /\ CurrentChar(p) = 255
  BY <1>1, <1>2
<1>4. SequenceLength(255) = 0
  BY DEF SequenceLength
<1>5. QED
  BY <1>3, <1>4 DEF ValidateUtf8

\* The validation has accepted what ends before q.
Accepts(r, q) == r.null = FALSE /\ r.pos = q

LEMMA CharacterAccepted ==
  ASSUME TextOK, NEW p \in 1..Len(text), CharEnds(p) # {}
  PROVE  \E j : j \in CharEnds(p) /\ Accepts(ValidateUtf8(p), j + 1)
<1>1. PICK j : j \in CharEnds(p)
  OBVIOUS
<1>2. PICK s : s = SubSeq(text, p, j)
  OBVIOUS
<1>3. ValidateUtf8(p) = Accept(j + 1, s)
  BY <1>1, <1>2, ValidationIs
<1>4. PICK r : r = ValidateUtf8(p)
  OBVIOUS
<1>5. Accepts(r, j + 1)
  BY <1>3, <1>4 DEF Accept, Accepts
<1>6. QED
  BY <1>1, <1>4, <1>5

LEMMA TextStays ==
  ASSUME UNCHANGED <<text, end>>
  PROVE  /\ TextOK' <=> TextOK
         /\ \A f : ReadsCodePoints(f)' <=> ReadsCodePoints(f)
         /\ \A g : Denotes(g)' <=> Denotes(g)
<1>1. TextOK' <=> TextOK
  BY DEF TextOK
<1>2. \A f : ReadsCodePoints(f)' <=> ReadsCodePoints(f)
  BY DEF ReadsCodePoints, CharEnds
<1>3. \A g : Denotes(g)' <=> Denotes(g)
  BY DEF Denotes, Means
<1>4. QED
  BY <1>1, <1>2, <1>3

LEMMA ReadsOnStays ==
  ASSUME UNCHANGED <<text, end>>, NEW p, ReadsOn(p), pos' = p
  PROVE  ReadsOn(pos)'
<1>1. \A f : ReadsCodePoints(f)' <=> ReadsCodePoints(f)
  BY TextStays
<1>2. QED
  BY <1>1 DEF ReadsOn

ReleaseInv ==
  /\ TextOK
  /\ ret = "none" => ReadsOn(pos)
  /\ ScratchReleased

LEMMA ReleaseStays ==
  ASSUME TextOK, UNCHANGED <<text, end>>, ret' # "none" => ScratchReleased', ret' = "none" => ReadsOn(pos)'
  PROVE  ReleaseInv'
  BY TextStays DEF ReleaseInv, ScratchReleased

LEMMA ReleaseInit == StringInit => ReleaseInv
<1>1. SUFFICES ASSUME StringInit PROVE ReleaseInv
  OBVIOUS
<1>2. TextOK
  <2>1. Texts \subseteq Seq(Bytes)
    BY JsonStringAssumption DEF Bytes
  <2>2. text \in Seq(Bytes)
    BY <1>1, <2>1 DEF StringInit
  <2>3. QED
    BY <1>1, <2>2 DEF StringInit, TextOK
<1>3. ReadsOn(1)
  <2>1. Len(text) \in Nat
    BY <1>2 DEF TextOK
  <2>2. 1 \in 1..(Len(text) + 1)
    BY <2>1
  <2>3. QED
    BY <2>2 DEF ReadsOn
<1>4. QED
  BY <1>1, <1>2, <1>3 DEF ReleaseInv, StringInit, ScratchReleased

LEMMA ReleaseNext == ReleaseInv /\ [StringNext]_stringVars => ReleaseInv'
<1> SUFFICES ASSUME ReleaseInv, [StringNext]_stringVars PROVE ReleaseInv'
  OBVIOUS
<1>0. TextOK /\ Len(text) \in Nat /\ end \in {0, 255}
  BY DEF ReleaseInv, TextOK, NUL
<1>1. ASSUME UNCHANGED <<text, end>>, ret' # "none", scratch' = FALSE
      PROVE  ReleaseInv'
  BY <1>0, <1>1, ReleaseStays DEF ScratchReleased
<1>2. CASE ClosingQuote
  BY <1>1, <1>2 DEF ClosingQuote, Continue, Finish
<1>3. CASE ControlChar
  BY <1>1, <1>3 DEF ControlChar, Continue, Finish
<1>4. CASE Unterminated
  BY <1>1, <1>4 DEF Unterminated, Continue, Finish
<1>5. CASE Escape
  <2>1. PICK r : r = BackslashEscape(pos)
    OBVIOUS
  <2>2. ret = "none" /\ CurrentChar(pos) = 92 /\ ReadsOn(pos) /\ UNCHANGED <<text, end>> /\ pos' = r.pos
    BY <1>5, <2>1 DEF Escape, Continue, ReleaseInv, REVERSE_SOLIDUS
  <2>3. CASE r.null = TRUE
    <3>1. ret' = "null" /\ scratch' = FALSE
      BY <1>5, <2>1, <2>3 DEF Escape, Finish
    <3>2. QED
      BY <1>1, <2>2, <3>1
  <2>4. CASE r.null # TRUE
    <3>1. ret' = ret
      BY <1>5, <2>1, <2>4 DEF Escape
    <3>2. pos \in 1..Len(text) /\ text[pos] = 92
      BY <1>0, <2>2, InsideText DEF ReadsOn
    <3>3. PICK n \in 1..12 : r.pos = pos + n /\ Plain(pos, n)
      BY <1>0, <2>1, <2>4, <3>2, EscapeIsPlain
    <3>4. ReadsOn(pos + n)
      BY <1>0, <2>2, <3>2, <3>3, ReadsOnAfterPlain
    <3>5. ReadsOn(pos)'
      BY <2>2, <3>3, <3>4, ReadsOnStays
    <3>6. QED
      BY <1>0, <2>2, <3>1, <3>5, ReleaseStays
  <2>5. QED
    BY <2>3, <2>4
<1>6. CASE Character
  <2>1. PICK r : r = ValidateUtf8(pos)
    OBVIOUS
  <2>2. /\ ret = "none" /\ CurrentChar(pos) \in 32..255 /\ ReadsOn(pos) /\ UNCHANGED <<text, end>>
        /\ pos' = r.pos /\ ret' = IF r.null THEN "null" ELSE "none"
    BY <1>6, <2>1 DEF Character, Continue, ReleaseInv
  <2>3. CASE pos = Len(text) + 1
    <3>1. PICK b \in 32..255 : b = CurrentChar(pos)
      BY <2>2
    <3>2. CurrentChar(pos) # 0
      BY <3>1
    <3>3. end = 255 /\ r = Reject(pos, StartByteError(255))
      BY <1>0, <2>1, <2>3, <3>2, RefusedBehindEnd
    <3>4. pos' = pos /\ ret' = "null" /\ end' = 255 /\ pos' > Len(text')
      BY <1>0, <2>2, <2>3, <3>3 DEF Reject
    <3>5. ret' # "none" /\ ScratchReleased'
      BY <3>4 DEF ScratchReleased
    <3>6. QED
      BY <1>0, <2>2, <3>5, ReleaseStays
  <2>4. CASE pos # Len(text) + 1
    <3>1. pos \in 1..Len(text)
      BY <1>0, <2>2, <2>4 DEF ReadsOn
    <3>2. CASE CharEnds(pos) = {}
      <4>1. r.null = TRUE
        <5>1. ValidateUtf8(pos).null = TRUE
          BY <1>0, <3>1, <3>2, ValidationIs
        <5>2. QED
          BY <2>1, <5>1
      <4>2. CodePoints(text) = IllFormed
        BY <1>0, <2>2, <3>1, <3>2, ReadsOnNoFurther
      <4>3. ret' = "null"
        BY <2>2, <4>1
      <4>4. ret' # "none" /\ ScratchReleased'
        BY <2>2, <4>2, <4>3 DEF ScratchReleased
      <4>5. QED
        BY <1>0, <2>2, <4>4, ReleaseStays
    <3>3. CASE CharEnds(pos) # {}
      <4>1. PICK j : j \in CharEnds(pos) /\ Accepts(r, j + 1)
        <5>1. \E j : j \in CharEnds(pos) /\ Accepts(ValidateUtf8(pos), j + 1)
          BY <1>0, <3>1, <3>3, CharacterAccepted
        <5>2. QED
          BY <2>1, <5>1
      <4>2. j \in CharEnds(pos)
        BY <4>1
      <4>3. ret' = "none" /\ pos' = j + 1
        BY <2>2, <4>1 DEF Accepts
      <4>4. ReadsOn(j + 1)
        BY <1>0, <2>2, <3>1, <4>2, ReadsOnAfterCharacter
      <4>5. ReadsOn(pos)'
        BY <2>2, <4>3, <4>4, ReadsOnStays
      <4>6. QED
        BY <1>0, <2>2, <4>3, <4>5, ReleaseStays
    <3>4. QED
      BY <3>2, <3>3
  <2>5. QED
    BY <2>3, <2>4
<1>7. CASE UNCHANGED stringVars
  <2>1. UNCHANGED <<text, end, pos, ret, scratch>>
    BY <1>7 DEF stringVars
  <2>2. ret' # "none" => ScratchReleased'
    BY <2>1 DEF ReleaseInv, ScratchReleased
  <2>3. ret' = "none" => ReadsOn(pos)'
    BY <2>1, ReadsOnStays DEF ReleaseInv
  <2>4. QED
    BY <1>0, <2>1, <2>2, <2>3, ReleaseStays
<1>8. QED
  BY <1>2, <1>3, <1>4, <1>5, <1>6, <1>7 DEF StringNext

\* pvt_parse_string, for every text: its scratch arena is held after the return
\* only if the text is not UTF-8 (json_parser.c:1584) or a file ends inside the
\* string.  The path that returns without releasing it is taken on no text that
\* is UTF-8, since the escapes read before it took no part of a character.
THEOREM StringsReleaseScratch == StringSpec => []ScratchReleased
<1>1. ReleaseInv => ScratchReleased
  BY DEF ReleaseInv
<1>2. QED
  BY ReleaseInit, ReleaseNext, <1>1, PTL DEF StringSpec

\* The builder holds s, what the text up to p means, and the meaning of the text
\* is that before the meaning of what is left of it.
ReadSoFar(p, s) ==
  /\ p \in 1..(Len(text) + 1)
  /\ \E pre \in Seq(Bytes) :
       /\ s = WithoutNul(pre)
       /\ \A g : Denotes(g) => g[1] = IF g[p] = IllFormed THEN IllFormed ELSE pre \o g[p]

LEMMA BytesAreNotIllFormed ==
  ASSUME NEW s \in Seq(Bytes)
  PROVE  s # IllFormed
<1>1. ASSUME s = <<-1>> PROVE FALSE
  <2>1. 1 \in 1..Len(s) /\ s[1] = -1
    BY <1>1
  <2>2. s[1] \in Bytes
    BY <2>1, ByteAt
  <2>3. QED
    BY <2>1, <2>2 DEF Bytes
<1>2. QED
  BY <1>1 DEF IllFormed

LEMMA ConcatsAgree ==
  ASSUME NEW a \in Seq(Bytes), NEW b \in Seq(Bytes), NEW c \in Seq(Bytes)
  PROVE  a \o (b \o c) = (a \o b) \o c
<1>1. PICK n, m, l : n = Len(a) /\ m = Len(b) /\ l = Len(c)
  OBVIOUS
<1>2. n \in Nat /\ m \in Nat /\ l \in Nat
  BY <1>1
<1>3. PICK x, y, u, v : x = b \o c /\ y = a \o b /\ u = a \o x /\ v = y \o c
  OBVIOUS
<1>4. x \in Seq(Bytes) /\ y \in Seq(Bytes) /\ Len(x) = m + l /\ Len(y) = n + m
  BY <1>1, <1>3
<1>5. u \in Seq(Bytes) /\ v \in Seq(Bytes) /\ Len(u) = n + m + l /\ Len(v) = n + m + l
  BY <1>1, <1>2, <1>3, <1>4
<1>6. ASSUME NEW i \in 1..(n + m + l) PROVE u[i] = v[i]
  <2>1. CASE i \in 1..n
    <3>1. u[i] = a[i] /\ y[i] = a[i] /\ v[i] = y[i]
      BY <1>1, <1>2, <1>3, <1>4, <2>1
    <3>2. QED
      BY <3>1
  <2>2. CASE i \in (n + 1)..(n + m)
    <3>1. u[i] = x[i - n] /\ x[i - n] = b[i - n]
      BY <1>1, <1>2, <1>3, <1>4, <2>2
    <3>2. v[i] = y[i] /\ y[i] = b[i - n]
      BY <1>1, <1>2, <1>3, <1>4, <2>2
    <3>3. QED
      BY <3>1, <3>2
  <2>3. CASE i \in (n + m + 1)..(n + m + l)
    <3>1. u[i] = x[i - n] /\ x[i - n] = c[i - n - m]
      BY <1>1, <1>2, <1>3, <1>4, <2>3
    <3>2. v[i] = c[i - (n + m)] /\ i - n - m = i - (n + m)
      BY <1>1, <1>2, <1>3, <1>4, <2>3
    <3>3. QED
      BY <3>1, <3>2
  <2>4. QED
    BY <1>2, <2>1, <2>2, <2>3
<1>7. u = v
  BY <1>5, <1>6
<1>8. QED
  BY <1>3, <1>7

LEMMA NothingRead ==
  ASSUME TextOK, err = "NONE"
  PROVE  ReadSoFar(1, <<>>)
<1>1. 1 \in 1..(Len(text) + 1)
  BY DEF TextOK
<1>2. <<>> \in Seq(Bytes) /\ <<>> = WithoutNul(<<>>)
  <2>1. <<>> \in Seq(Bytes)
    OBVIOUS
  <2>2. \A i \in 1..Len(<<>>) : <<>>[i] # NUL
    OBVIOUS
  <2>3. QED
    BY <2>1, <2>2, WithoutNulKeeps
<1>3. ASSUME NEW g, Denotes(g)
      PROVE  g[1] = IF g[1] = IllFormed THEN IllFormed ELSE <<>> \o g[1]
  <2>1. g[1] = IllFormed \/ g[1] \in Seq(Bytes)
    BY <1>1, <1>3, DenotedType
  <2>2. PICK t : t = g[1]
    OBVIOUS
  <2>3. t \in Seq(Bytes) => <<>> \o t = t
    OBVIOUS
  <2>4. QED
    BY <2>1, <2>2, <2>3
<1>4. QED
  BY <1>1, <1>2, <1>3 DEF ReadSoFar

LEMMA ReadOn ==
  ASSUME TextOK, err = "NONE", NEW p \in 1..Len(text), text[p] # 34, NEW s, ReadSoFar(p, s),
         NEW q \in (p + 1)..(Len(text) + 1), NEW m \in Seq(Bytes), Means(p, q, m)
  PROVE  ReadSoFar(q, s \o WithoutNul(m))
<1>1. PICK pre \in Seq(Bytes) :
        /\ s = WithoutNul(pre)
        /\ \A g : Denotes(g) => g[1] = IF g[p] = IllFormed THEN IllFormed ELSE pre \o g[p]
  BY DEF ReadSoFar
<1>2. q \in 1..(Len(text) + 1)
  BY DEF TextOK
<1>3. pre \o m \in Seq(Bytes) /\ s \o WithoutNul(m) = WithoutNul(pre \o m)
  <2>1. pre \o m \in Seq(Bytes)
    OBVIOUS
  <2>2. WithoutNul(pre \o m) = WithoutNul(pre) \o WithoutNul(m)
    BY WithoutNulOfConcat
  <2>3. QED
    BY <1>1, <2>1, <2>2
<1>4. ASSUME NEW g, Denotes(g)
      PROVE  g[1] = IF g[q] = IllFormed THEN IllFormed ELSE (pre \o m) \o g[q]
  <2>1. g[1] = IF g[p] = IllFormed THEN IllFormed ELSE pre \o g[p]
    BY <1>1, <1>4
  <2>2. g[p] = IF g[q] = IllFormed THEN IllFormed ELSE m \o g[q]
    BY <1>4 DEF Denotes
  <2>3. PICK t : t = g[q]
    OBVIOUS
  <2>4. t = IllFormed \/ t \in Seq(Bytes)
    BY <1>2, <1>4, <2>3, DenotedType
  <2>5. CASE t = IllFormed
    BY <2>1, <2>2, <2>3, <2>5
  <2>6. CASE t # IllFormed
    <3>1. m \o t \in Seq(Bytes) /\ pre \o (m \o t) = (pre \o m) \o t
      <4>1. t \in Seq(Bytes)
        BY <2>4, <2>6
      <4>2. m \o t \in Seq(Bytes)
        BY <4>1
      <4>3. pre \o (m \o t) = (pre \o m) \o t
        BY <4>1, ConcatsAgree
      <4>4. QED
        BY <4>2, <4>3
    <3>2. m \o t # IllFormed
      BY <3>1, BytesAreNotIllFormed
    <3>3. g[p] = m \o t
      BY <2>2, <2>3, <2>6
    <3>4. g[1] = pre \o (m \o t)
      BY <2>1, <3>2, <3>3
    <3>5. QED
      BY <2>3, <2>6, <3>1, <3>4
  <2>7. QED
    BY <2>5, <2>6
<1>5. QED
  BY <1>2, <1>3, <1>4 DEF ReadSoFar

LEMMA ReadToNothing ==
  ASSUME TextOK, err = "NONE", NEW p, NEW s, ReadSoFar(p, s),
         p \in 1..Len(text) => text[p] # 34 /\ Pieces(text, p) = {}
  PROVE  Denoted(text) = IllFormed
<1>1. PICK g : Denotes(g) /\ Denoted(text) = g[1]
  BY DenotedReads
<1>2. p \in 1..(Len(text) + 1) /\ Len(text) \in Nat
  BY DEF ReadSoFar, TextOK
<1>3. g[p] = IllFormed
  <2>1. CASE p \in 1..Len(text)
    BY <1>1, <2>1 DEF Denotes
  <2>2. CASE p \notin 1..Len(text)
    <3>1. p = Len(text) + 1
      BY <1>2, <2>2
    <3>2. QED
      BY <1>1, <3>1 DEF Denotes
  <2>3. QED
    BY <2>1, <2>2
<1>4. g[1] = IllFormed
  BY <1>1, <1>3 DEF ReadSoFar
<1>5. QED
  BY <1>1, <1>4

LEMMA ReadToQuote ==
  ASSUME TextOK, err = "NONE", NEW p \in 1..Len(text), text[p] = 34, NEW s, ReadSoFar(p, s)
  PROVE  Denoted(text) # IllFormed /\ s = WithoutNul(Denoted(text))
<1>1. PICK g : Denotes(g) /\ Denoted(text) = g[1]
  BY DenotedReads
<1>2. PICK pre \in Seq(Bytes) :
        /\ s = WithoutNul(pre)
        /\ \A h : Denotes(h) => h[1] = IF h[p] = IllFormed THEN IllFormed ELSE pre \o h[p]
  BY DEF ReadSoFar
<1>3. g[p] = <<>>
  BY <1>1 DEF Denotes
<1>4. <<>> # IllFormed
  <2>1. <<>> \in Seq(Bytes)
    OBVIOUS
  <2>2. QED
    BY <2>1, BytesAreNotIllFormed
<1>5. g[1] = pre \o <<>>
  BY <1>1, <1>2, <1>3, <1>4
<1>6. pre \o <<>> = pre
  OBVIOUS
<1>7. pre # IllFormed
  BY BytesAreNotIllFormed
<1>8. QED
  BY <1>1, <1>2, <1>5, <1>6, <1>7

LEMMA SoFarStays ==
  ASSUME UNCHANGED <<text, end>>, NEW p, NEW s, ReadSoFar(p, s), pos' = p, sb' = s
  PROVE  ReadSoFar(pos, sb)'
<1>1. \A g : Denotes(g)' <=> Denotes(g)
  BY TextStays
<1>2. PICK pre \in Seq(Bytes) :
        /\ s = WithoutNul(pre)
        /\ \A g : Denotes(g) => g[1] = IF g[p] = IllFormed THEN IllFormed ELSE pre \o g[p]
  BY DEF ReadSoFar
<1>3. p \in 1..(Len(text') + 1)
  BY DEF ReadSoFar
<1>4. \A g : Denotes(g)' => g[1] = IF g[pos'] = IllFormed THEN IllFormed ELSE pre \o g[pos']
  BY <1>1, <1>2
<1>5. QED
  BY <1>2, <1>3, <1>4 DEF ReadSoFar

DecodeInv ==
  /\ TextOK
  /\ ret \in {"none", "value", "null"}
  /\ ret = "none" => ReadsOn(pos)
  /\ ret = "none" /\ err = "NONE" => ReadSoFar(pos, sb)
  /\ err # "NONE" => Denoted(text) = IllFormed
  /\ ret = "null" => err # "NONE"
  /\ ret = "value" /\ err = "NONE" => Denoted(text) # IllFormed /\ sb = WithoutNul(Denoted(text))

LEMMA DecodeInit == StringInit => DecodeInv
<1>1. SUFFICES ASSUME StringInit PROVE DecodeInv
  OBVIOUS
<1>2. ReleaseInv
  BY <1>1, ReleaseInit
<1>3. TextOK /\ ReadsOn(pos) /\ err = "NONE" /\ ret = "none" /\ pos = 1 /\ sb = <<>>
  BY <1>1, <1>2 DEF ReleaseInv, StringInit
<1>4. ReadSoFar(1, <<>>)
  BY <1>3, NothingRead
<1>5. QED
  BY <1>3, <1>4 DEF DecodeInv

\* A turn that an error is recorded in, or was before.
LEMMA DecodeFails ==
  ASSUME DecodeInv, UNCHANGED <<text, end>>, err' # "NONE", ret' \in {"none", "value", "null"},
         ret' = "none" => ReadsOn(pos)',
         err = "NONE" => Denoted(text) = IllFormed
  PROVE  DecodeInv'
<1>1. TextOK'
  BY TextStays DEF DecodeInv
<1>2. Denoted(text') = IllFormed
  BY DEF DecodeInv
<1>3. QED
  BY <1>1, <1>2 DEF DecodeInv

LEMMA DecodeGoesOn ==
  ASSUME DecodeInv, UNCHANGED <<text, end>>, err = "NONE", err' = "NONE", ret' = "none", ReadsOn(pos)',
         ReadSoFar(pos, sb)'
  PROVE  DecodeInv'
<1>1. TextOK'
  BY TextStays DEF DecodeInv
<1>2. QED
  BY <1>1 DEF DecodeInv

\* An error that one turn records stays recorded.
LEMMA ErrorStays ==
  ASSUME NEW r, Continue(r), err # "NONE" \/ r.err # "NONE"
  PROVE  err' # "NONE"
  BY DEF Continue

LEMMA DecodeNext == DecodeInv /\ ReleaseInv' /\ [StringNext]_stringVars => DecodeInv'
<1> SUFFICES ASSUME DecodeInv, ReleaseInv', [StringNext]_stringVars PROVE DecodeInv'
  OBVIOUS
<1>0. /\ TextOK /\ Len(text) \in Nat /\ end \in {0, 255}
      /\ ret' = "none" => ReadsOn(pos)'
  BY DEF DecodeInv, ReleaseInv, TextOK, NUL
<1>1. ASSUME ret = "none" PROVE ReadsOn(pos) /\ pos \in 1..(Len(text) + 1)
  BY <1>1 DEF DecodeInv, ReadsOn
<1>2. ASSUME NEW r, Continue(r), err # "NONE" \/ r.err # "NONE", ret' \in {"none", "value", "null"},
             err = "NONE" => Denoted(text) = IllFormed
      PROVE  DecodeInv'
  <2>1. err' # "NONE" /\ UNCHANGED <<text, end>>
    BY <1>2, ErrorStays DEF Continue
  <2>2. QED
    BY <1>0, <1>2, <2>1, DecodeFails
<1>3. CASE ClosingQuote
  <2>1. ret = "none" /\ CurrentChar(pos) = 34 /\ ret' = "value" /\ UNCHANGED <<text, end>> /\ err' = err
    BY <1>3 DEF ClosingQuote, Continue, Finish, Accept, QUOTE
  <2>2. CASE err # "NONE"
    BY <1>0, <2>1, <2>2, DecodeFails
  <2>3. CASE err = "NONE"
    <3>1. ReadSoFar(pos, sb)
      BY <2>1, <2>3 DEF DecodeInv
    <3>2. pos \in 1..Len(text) /\ text[pos] = 34
      BY <1>0, <1>1, <2>1, InsideText
    <3>3. Denoted(text) # IllFormed /\ sb = WithoutNul(Denoted(text)) /\ sb \in Seq(Bytes)
      <4>1. Denoted(text) # IllFormed /\ sb = WithoutNul(Denoted(text))
        BY <1>0, <2>3, <3>1, <3>2, ReadToQuote
      <4>2. sb \in Seq(Bytes)
        BY <3>1, WithoutNulType DEF ReadSoFar
      <4>3. QED
        BY <4>1, <4>2
    <3>4. sb' = sb
      <4>1. sb' = sb \o <<>>
        BY <1>3 DEF ClosingQuote, Continue, Accept
      <4>2. QED
        BY <3>3, <4>1
    <3>5. TextOK'
      BY <1>0, <2>1, TextStays
    <3>6. QED
      BY <2>1, <2>3, <3>3, <3>4, <3>5 DEF DecodeInv
  <2>4. QED
    BY <2>2, <2>3
<1>4. CASE ControlChar
  <2>1. PICK r : r = Reject(pos, "UNESCAPED_CONTROL_CHAR")
    OBVIOUS
  <2>2. Continue(r) /\ r.err # "NONE" /\ ret' = "null" /\ ret = "none"
    <3>1. r.err = "UNESCAPED_CONTROL_CHAR"
      BY <2>1 DEF Reject
    <3>2. QED
      BY <1>4, <2>1, <3>1 DEF ControlChar, Finish
  <2>3. ASSUME err = "NONE" PROVE Denoted(text) = IllFormed
    <3>1. PICK b \in 1..31 : b = CurrentChar(pos)
      BY <1>4 DEF ControlChar
    <3>2. CurrentChar(pos) \notin {0, 255} /\ b # 34 /\ b \in 0..31
      BY <3>1
    <3>3. pos \in 1..Len(text) /\ text[pos] = b
      BY <1>0, <1>1, <2>2, <3>1, <3>2, InsideText
    <3>4. Pieces(text, pos) = {}
      <4>1. text[pos] \in 0..31
        BY <3>2, <3>3
      <4>2. QED
        BY <1>0, <3>3, <4>1, NothingBelowSpace
    <3>5. ReadSoFar(pos, sb)
      BY <2>2, <2>3 DEF DecodeInv
    <3>6. QED
      BY <1>0, <2>3, <3>2, <3>3, <3>4, <3>5, ReadToNothing
  <2>4. QED
    BY <1>2, <2>2, <2>3
<1>5. CASE Unterminated
  <2>1. PICK r : r = Reject(pos, "UNTERMINATED_STRING")
    OBVIOUS
  <2>2. Continue(r) /\ r.err # "NONE" /\ ret' = "null" /\ ret = "none" /\ CurrentChar(pos) = 0
    <3>1. r.err = "UNTERMINATED_STRING"
      BY <2>1 DEF Reject
    <3>2. QED
      BY <1>5, <2>1, <3>1 DEF Unterminated, Finish, NUL
  <2>3. ASSUME err = "NONE" PROVE Denoted(text) = IllFormed
    <3>1. ASSUME pos \in 1..Len(text) PROVE text[pos] # 34 /\ Pieces(text, pos) = {}
      <4>1. text[pos] = 0
        BY <2>2, <3>1 DEF CurrentChar
      <4>2. text[pos] \in 0..31 /\ text[pos] # 34
        BY <4>1
      <4>3. QED
        BY <1>0, <3>1, <4>2, NothingBelowSpace
    <3>2. ReadSoFar(pos, sb)
      BY <2>2, <2>3 DEF DecodeInv
    <3>3. QED
      BY <1>0, <2>3, <3>1, <3>2, ReadToNothing
  <2>4. QED
    BY <1>2, <2>2, <2>3
<1>6. CASE Escape
  <2>1. PICK r : r = BackslashEscape(pos)
    OBVIOUS
  <2>2. /\ ret = "none" /\ CurrentChar(pos) = 92 /\ Continue(r)
        /\ IF r.null THEN Finish("null") ELSE UNCHANGED <<ret, scratch>>
    BY <1>6, <2>1 DEF Escape, REVERSE_SOLIDUS
  <2>3. ret' \in {"none", "value", "null"}
    BY <2>2 DEF Finish
  <2>4. pos \in 1..Len(text) /\ text[pos] = 92
    BY <1>0, <1>1, <2>2, InsideText
  <2>5. CASE err # "NONE"
    BY <1>2, <2>2, <2>3, <2>5
  <2>6. CASE err = "NONE"
    <3>1. ReadSoFar(pos, sb)
      BY <2>2, <2>6 DEF DecodeInv
    <3>2. \/ \E q, m : Means(pos, q, m) /\ GoesOn(r, q, m)
          \/ Pieces(text, pos) = {} /\ r.err # "NONE" /\ r.bytes = <<>>
      BY <1>0, <2>1, <2>4, <2>6, EscapeIs
    <3>3. CASE Pieces(text, pos) = {} /\ r.err # "NONE" /\ r.bytes = <<>>
      <4>1. Denoted(text) = IllFormed
        BY <1>0, <2>4, <2>6, <3>1, <3>3, ReadToNothing
      <4>2. QED
        BY <1>2, <2>2, <2>3, <3>3, <4>1
    <3>4. ASSUME NEW q, NEW m, Means(pos, q, m), GoesOn(r, q, m)
          PROVE  DecodeInv'
      <4>1. /\ pos' = q /\ sb' = sb \o WithoutNul(m) /\ err' = "NONE" /\ ret' = "none"
            /\ UNCHANGED <<text, end>> /\ m \in Seq(Bytes)
        BY <2>2, <2>6, <3>4 DEF GoesOn, Continue
      <4>2. r.null # TRUE /\ r.pos = q
        BY <3>4 DEF GoesOn
      <4>3. PICK n \in 1..12 : BackslashEscape(pos).pos = pos + n /\ Plain(pos, n)
        BY <1>0, <2>1, <2>4, <4>2, EscapeIsPlain
      <4>4. q = pos + n /\ pos + n - 1 <= Len(text)
        BY <2>1, <4>2, <4>3 DEF Plain
      <4>5. q \in (pos + 1)..(Len(text) + 1)
        BY <1>0, <2>4, <4>4
      <4>6. ReadSoFar(q, sb \o WithoutNul(m))
        BY <1>0, <2>4, <2>6, <3>1, <3>4, <4>1, <4>5, ReadOn
      <4>7. ReadSoFar(pos, sb)'
        BY <4>1, <4>6, SoFarStays
      <4>8. QED
        BY <1>0, <2>6, <4>1, <4>7, DecodeGoesOn
    <3>5. QED
      BY <3>2, <3>3, <3>4
  <2>7. QED
    BY <2>5, <2>6
<1>7. CASE Character
  <2>1. PICK r : r = ValidateUtf8(pos)
    OBVIOUS
  <2>2. PICK b \in 32..255 : b = CurrentChar(pos) /\ b # 34 /\ b # 92
    BY <1>7 DEF Character, QUOTE, REVERSE_SOLIDUS
  <2>3. ret = "none" /\ Continue(r) /\ ret' = IF r.null THEN "null" ELSE "none"
    BY <1>7, <2>1 DEF Character
  <2>4. ret' \in {"none", "value", "null"}
    BY <2>3
  <2>5. CASE err # "NONE"
    BY <1>2, <2>3, <2>4, <2>5
  <2>6. CASE err = "NONE" /\ pos = Len(text) + 1
    <3>1. ReadSoFar(pos, sb)
      BY <2>3, <2>6 DEF DecodeInv
    <3>2. CurrentChar(pos) # 0
      BY <2>2
    <3>3. r = Reject(pos, StartByteError(255))
      BY <1>0, <2>1, <2>6, <3>2, RefusedBehindEnd
    <3>4. StartByteError(255) # "NONE"
      BY DEF StartByteError
    <3>5. r.err # "NONE"
      BY <3>3, <3>4 DEF Reject
    <3>6. Denoted(text) = IllFormed
      <4>1. pos \notin 1..Len(text)
        BY <1>0, <2>6
      <4>2. QED
        BY <1>0, <2>6, <3>1, <4>1, ReadToNothing
    <3>7. QED
      BY <1>2, <2>3, <2>4, <3>5, <3>6
  <2>7. CASE err = "NONE" /\ pos # Len(text) + 1
    <3>1. ReadSoFar(pos, sb)
      BY <2>3, <2>7 DEF DecodeInv
    <3>2. pos \in 1..Len(text)
      BY <1>0, <1>1, <2>3, <2>7
    <3>3. text[pos] = b
      BY <2>2, <3>2 DEF CurrentChar
    <3>4. \/ \E q, m : q \in (pos + 1)..(Len(text) + 1) /\ Means(pos, q, m) /\ GoesOn(r, q, m)
          \/ Pieces(text, pos) = {} /\ Refused(r)
      <4>1. text[pos] \in 32..255 /\ text[pos] # 34 /\ text[pos] # 92
        BY <2>2, <3>3
      <4>2. QED
        BY <1>0, <2>1, <3>2, <4>1, CharacterIs
    <3>5. CASE Pieces(text, pos) = {} /\ Refused(r)
      <4>1. text[pos] # 34
        BY <2>2, <3>3
      <4>2. Denoted(text) = IllFormed
        BY <1>0, <2>7, <3>1, <3>5, <4>1, ReadToNothing
      <4>3. QED
        BY <1>2, <2>3, <2>4, <3>5, <4>2 DEF Refused
    <3>6. ASSUME NEW q, NEW m, q \in (pos + 1)..(Len(text) + 1), Means(pos, q, m), GoesOn(r, q, m)
          PROVE  DecodeInv'
      <4>1. /\ pos' = q /\ sb' = sb \o WithoutNul(m) /\ err' = "NONE" /\ ret' = "none"
            /\ UNCHANGED <<text, end>> /\ m \in Seq(Bytes)
        BY <2>3, <2>7, <3>6 DEF GoesOn, Continue
      <4>2. text[pos] # 34
        BY <2>2, <3>3
      <4>3. ReadSoFar(q, sb \o WithoutNul(m))
        BY <1>0, <2>7, <3>1, <3>2, <3>6, <4>1, <4>2, ReadOn
      <4>4. ReadSoFar(pos, sb)'
        BY <4>1, <4>3, SoFarStays
      <4>5. QED
        BY <1>0, <2>7, <4>1, <4>4, DecodeGoesOn
    <3>7. QED
      BY <3>4, <3>5, <3>6
  <2>8. QED
    BY <2>5, <2>6, <2>7
<1>8. CASE UNCHANGED stringVars
  <2>1. UNCHANGED <<text, end, pos, sb, err, ret>>
    BY <1>8 DEF stringVars
  <2>2. TextOK'
    BY <1>0, <2>1, TextStays
  <2>3. ret = "none" /\ err = "NONE" => ReadSoFar(pos, sb)'
    BY <2>1, SoFarStays DEF DecodeInv
  <2>4. QED
    BY <1>0, <2>1, <2>2, <2>3 DEF DecodeInv
<1>9. QED
  BY <1>3, <1>4, <1>5, <1>6, <1>7, <1>8 DEF StringNext

\* pvt_parse_string and the parser's verdict, for every text: a string is
\* accepted exactly if the standard gives it a meaning, and the builder then
\* holds the UTF-8 of that meaning but for its NULs.  The code's table of lead
\* and second bytes, its two encoders and its combination of surrogates are
\* compared with the scalar values and their encodings for all of them, and an
\* error that an escape records without refusing reaches the verdict.
THEOREM StringsDecodeAsUnicodeSays == StringSpec => []DecodesAsUnicodeSays
<1>1. StringInit => ReleaseInv /\ DecodeInv
  BY ReleaseInit, DecodeInit
<1>2. (ReleaseInv /\ DecodeInv) /\ [StringNext]_stringVars => (ReleaseInv /\ DecodeInv)'
  BY ReleaseNext, DecodeNext
<1>3. DecodeInv => DecodesAsUnicodeSays
  BY DEF DecodeInv, DecodesAsUnicodeSays, Accepted
<1>4. QED
  BY <1>1, <1>2, <1>3, PTL DEF StringSpec

-----------------------------------------------------------------------------
(* Slices. *)

\* The client of chopping and of splitting, without fairness: all here is safety.
SplitSpec == SplitInit /\ [][SplitNext]_splitVars

\* The slices there are.
SliceType == [buffer : Seq(Bytes), at : Nat, length : Nat]

\* A slice that lies in its buffer.
Inside(s) == s \in SliceType /\ s.at + s.length <= Len(s.buffer)

\* The characters of a slice that lies in its buffer.
LEMMA CharsAre ==
  ASSUME NEW s, Inside(s)
  PROVE  /\ Chars(s) \in Seq(Bytes) /\ Len(Chars(s)) = s.length
         /\ \A i \in 0..(s.length - 1) : Data(s, i) = Chars(s)[i + 1] /\ Data(s, i) = s.buffer[s.at + i + 1]
<1>1. s.buffer \in Seq(Bytes) /\ s.at \in Nat /\ s.length \in Nat /\ s.at + s.length <= Len(s.buffer)
  BY DEF Inside, SliceType
<1>2. ASSUME NEW i \in 0..(s.length - 1)
      PROVE  Data(s, i) = s.buffer[s.at + i + 1] /\ Data(s, i) \in Bytes
  BY <1>1 DEF Data
<1>3. \A i \in 1..s.length : Data(s, i - 1) \in Bytes
  BY <1>1, <1>2
<1>4. Chars(s) \in Seq(Bytes) /\ Len(Chars(s)) = s.length
  BY <1>1, <1>3 DEF Chars
<1>5. \A i \in 0..(s.length - 1) : Chars(s)[i + 1] = Data(s, i)
  BY <1>1 DEF Chars
<1>6. QED
  BY <1>2, <1>4, <1>5

\* What View makes.
LEMMA ViewIs ==
  ASSUME NEW s \in SliceType, NEW i \in Nat, NEW n \in Nat
  PROVE  /\ View(s, i, n) \in SliceType
         /\ View(s, i, n).buffer = s.buffer
         /\ View(s, i, n).at = s.at + i
         /\ View(s, i, n).length = n
BY DEF View, SliceType

\* A view of a view is one of the slice under it.
LEMMA ViewOfView ==
  ASSUME NEW s \in SliceType, NEW i \in Nat, NEW n, NEW j \in Nat, NEW m
  PROVE  View(View(s, i, n), j, m) = View(s, i + j, m)
<1>1. s.at + i + j = s.at + (i + j)
  BY DEF SliceType
<1>2. QED
  BY <1>1 DEF View

\* The view of all of a slice is the slice.
LEMMA WholeView ==
  ASSUME NEW s \in SliceType
  PROVE  View(s, 0, s.length) = s
<1>1. s.at + 0 = s.at
  BY DEF SliceType
<1>2. QED
  BY <1>1 DEF View, SliceType

\* A view of a part reads that part of the characters.
LEMMA CharsOfView ==
  ASSUME NEW s, Inside(s), NEW i \in Nat, NEW n \in Nat, i + n <= s.length
  PROVE  /\ Inside(View(s, i, n))
         /\ Chars(View(s, i, n)) = SubSeq(Chars(s), i + 1, i + n)
<1>1. s \in SliceType /\ s.at \in Nat /\ s.length \in Nat
  BY DEF Inside, SliceType
<1> DEFINE v == View(s, i, n)
<1>2. v \in SliceType /\ v.buffer = s.buffer /\ v.at = s.at + i /\ v.length = n
  BY <1>1, ViewIs
<1> HIDE DEF v
<1>3. Inside(v)
  BY <1>1, <1>2 DEF Inside
<1>4. Chars(v) \in Seq(Bytes) /\ Len(Chars(v)) = n
  BY <1>2, <1>3, CharsAre
<1>5. Chars(s) \in Seq(Bytes) /\ Len(Chars(s)) = s.length
  BY CharsAre
<1> DEFINE sub == SubSeq(Chars(s), i + 1, i + n)
<1>6. sub \in Seq(Bytes) /\ Len(sub) = n /\ \A k \in 1..n : sub[k] = Chars(s)[i + k]
  BY <1>1, <1>5
<1>7. ASSUME NEW k \in 1..n
      PROVE  Chars(v)[k] = Chars(s)[i + k]
  <2>1. k - 1 \in 0..(v.length - 1) /\ i + k - 1 \in 0..(s.length - 1)
    BY <1>1, <1>2
  <2>2. Chars(v)[k - 1 + 1] = v.buffer[v.at + (k - 1) + 1]
    BY <1>3, <2>1, CharsAre
  <2>3. Chars(s)[i + k - 1 + 1] = s.buffer[s.at + (i + k - 1) + 1]
    BY <2>1, CharsAre
  <2>4. k - 1 + 1 = k /\ i + k - 1 + 1 = i + k /\ v.at + (k - 1) + 1 = s.at + (i + k - 1) + 1
    BY <1>1, <1>2
  <2>5. QED
    BY <1>2, <2>2, <2>3, <2>4
<1> HIDE DEF sub
<1>8. Chars(v) = sub
  BY <1>4, <1>6, <1>7, SeqEqual
<1>9. QED
  BY <1>3, <1>8 DEF v, sub

\* Dropping characters leaves a view of the others.
LEMMA DropIs ==
  ASSUME NEW s \in SliceType, NEW i \in 0..s.length
  PROVE  Drop(s, i) = View(s, i, s.length - i)
<1>1. s.length \in Nat
  BY DEF SliceType
<1>2. Least(i, s.length) = i
  BY <1>1 DEF Least
<1>3. QED
  BY <1>2 DEF Drop

\* Taking characters is a view of them.
LEMMA TakeIs ==
  ASSUME NEW s \in SliceType, NEW i \in 0..s.length
  PROVE  Take(s, i) = View(s, 0, i)
<1>1. s.length \in Nat
  BY DEF SliceType
<1>2. Least(i, s.length) = i
  BY <1>1 DEF Least
<1>3. QED
  BY <1>2 DEF Take

\* The C string dl is in cs, i characters on.
HitAt(cs, dl, i) == i + Len(dl) <= Len(cs) /\ \A k \in 1..Len(dl) : cs[i + k] = dl[k]

\* A slice starts with the delimiter where the text has it.
LEMMA HitIs ==
  ASSUME NEW s, Inside(s), NEW d, Inside(d), NEW i \in 0..s.length
  PROVE  StartsWith(View(s, i, s.length - i), d) <=> HitAt(Chars(s), Chars(d), i)
<1>1. /\ s \in SliceType /\ d \in SliceType /\ s.at \in Nat /\ s.length \in Nat /\ d.length \in Nat
      /\ i \in Nat /\ s.length - i \in Nat /\ i + (s.length - i) <= s.length
  BY DEF Inside, SliceType
<1> DEFINE v == View(s, i, s.length - i)
<1>2. Inside(v) /\ v.length = s.length - i /\ v.at = s.at + i /\ v.buffer = s.buffer
  <2>1. Inside(v)
    BY <1>1, CharsOfView
  <2>2. QED
    BY <2>1 DEF View
<1> HIDE DEF v
<1>3. Len(Chars(s)) = s.length /\ Len(Chars(d)) = d.length
  BY CharsAre
<1>4. d.length <= v.length <=> i + d.length <= s.length
  BY <1>1, <1>2
<1>5. ASSUME i + d.length <= s.length, NEW j \in 0..(d.length - 1)
      PROVE  Data(v, j) = Chars(s)[i + (j + 1)] /\ Data(d, j) = Chars(d)[j + 1]
  <2>1. j \in 0..(v.length - 1) /\ i + j \in 0..(s.length - 1)
    BY <1>1, <1>2, <1>5
  <2>2. Data(v, j) = v.buffer[v.at + j + 1] /\ Data(d, j) = Chars(d)[j + 1]
    BY <1>2, <2>1, CharsAre
  <2>3. Chars(s)[i + j + 1] = s.buffer[s.at + (i + j) + 1]
    BY <2>1, CharsAre
  <2>4. v.at + j + 1 = s.at + (i + j) + 1 /\ i + j + 1 = i + (j + 1)
    BY <1>1, <1>2
  <2>5. QED
    BY <1>2, <2>2, <2>3, <2>4
<1>6. ASSUME i + d.length <= s.length
      PROVE  (\A j \in 0..(d.length - 1) : Data(v, j) = Data(d, j))
               <=> \A k \in 1..d.length : Chars(s)[i + k] = Chars(d)[k]
  <2>1. ASSUME \A j \in 0..(d.length - 1) : Data(v, j) = Data(d, j), NEW k \in 1..d.length
        PROVE  Chars(s)[i + k] = Chars(d)[k]
    <3>1. k - 1 \in 0..(d.length - 1) /\ k - 1 + 1 = k
      BY <1>1
    <3>2. QED
      BY <1>5, <1>6, <2>1, <3>1
  <2>2. ASSUME \A k \in 1..d.length : Chars(s)[i + k] = Chars(d)[k], NEW j \in 0..(d.length - 1)
        PROVE  Data(v, j) = Data(d, j)
    <3>1. j + 1 \in 1..d.length
      BY <1>1
    <3>2. QED
      BY <1>5, <1>6, <2>2, <3>1
  <2>3. QED
    BY <2>1, <2>2
<1>7. QED
  BY <1>3, <1>4, <1>6 DEF StartsWith, HitAt, v

-----------------------------------------------------------------------------
(* The pieces of a text. *)

\* The delimiter is at i if it is the part of the text there.
LEMMA HitsAre ==
  ASSUME NEW cs \in Seq(Bytes), NEW dl \in Seq(Bytes), NEW i \in Nat, i + Len(dl) <= Len(cs)
  PROVE  SubSeq(cs, i + 1, i + Len(dl)) = dl <=> HitAt(cs, dl, i)
<1> DEFINE sub == SubSeq(cs, i + 1, i + Len(dl))
<1>1. sub \in Seq(Bytes) /\ Len(sub) = Len(dl) /\ \A k \in 1..Len(dl) : sub[k] = cs[i + k]
  <2>1. PICK n \in Nat : n = Len(dl)
    OBVIOUS
  <2>2. SubSeq(cs, i + 1, i + n) \in Seq(Bytes) /\ Len(SubSeq(cs, i + 1, i + n)) = n
    BY <2>1
  <2>3. \A k \in 1..n : SubSeq(cs, i + 1, i + n)[k] = cs[i + k]
    BY <2>1
  <2>4. QED
    BY <2>1, <2>2, <2>3
<1> HIDE DEF sub
<1>2. sub = dl <=> \A k \in 1..Len(dl) : sub[k] = dl[k]
  BY <1>1, SeqEqual
<1>3. QED
  BY <1>1, <1>2 DEF HitAt, sub

\* Where the delimiter is, from i on, as Split has it.
Hits(cs, dl, i) == {j \in i..(Len(cs) - Len(dl)) : SubSeq(cs, j + 1, j + Len(dl)) = dl}

\* The least number of S, as Split and FindSlice choose it.
FirstOf(S) == CHOOSE j \in S : \A k \in S : j <= k

\* What f makes of the text from i on.
Cut(f, cs, dl, i) ==
  IF Hits(cs, dl, i) = {} THEN <<SubSeq(cs, i + 1, Len(cs))>>
  ELSE <<SubSeq(cs, i + 1, FirstOf(Hits(cs, dl, i)))>> \o f[FirstOf(Hits(cs, dl, i)) + Len(dl)]

\* f is the pieces of cs from k on.
Splits(f, cs, dl, k) == f = [i \in k..Len(cs) |-> Cut(f, cs, dl, i)]

\* These places are those of HitAt.
LEMMA HitsFrom ==
  ASSUME NEW cs \in Seq(Bytes), NEW dl \in Seq(Bytes), NEW i \in 0..Len(cs)
  PROVE  \A j : j \in Hits(cs, dl, i) <=> j \in i..Len(cs) /\ HitAt(cs, dl, j)
<1>1. ASSUME NEW j, j \in Hits(cs, dl, i)
      PROVE  j \in i..Len(cs) /\ HitAt(cs, dl, j)
  <2>1. j \in i..(Len(cs) - Len(dl)) /\ SubSeq(cs, j + 1, j + Len(dl)) = dl
    BY <1>1 DEF Hits
  <2>2. j \in Nat /\ j + Len(dl) <= Len(cs)
    BY <2>1
  <2>3. QED
    BY <2>1, <2>2, HitsAre
<1>2. ASSUME NEW j \in i..Len(cs), HitAt(cs, dl, j)
      PROVE  j \in Hits(cs, dl, i)
  <2>1. j \in Nat /\ j + Len(dl) <= Len(cs)
    BY <1>2 DEF HitAt
  <2>2. j \in i..(Len(cs) - Len(dl))
    BY <2>1
  <2>3. QED
    BY <1>2, <2>1, <2>2, HitsAre DEF Hits
<1>3. QED
  BY <1>1, <1>2

\* There is a first one where there is one.
LEMMA FirstHit ==
  ASSUME NEW cs \in Seq(Bytes), NEW dl \in Seq(Bytes), NEW i \in 0..Len(cs), Hits(cs, dl, i) # {}
  PROVE  /\ FirstOf(Hits(cs, dl, i)) \in Hits(cs, dl, i)
         /\ \A j \in Hits(cs, dl, i) : FirstOf(Hits(cs, dl, i)) <= j
<1>1. Hits(cs, dl, i) \in SUBSET Nat
  BY HitsFrom
<1>2. \E n \in Hits(cs, dl, i) : \A k \in Hits(cs, dl, i) : n <= k
  BY <1>1, LeastNumber
<1>3. QED
  BY <1>2 DEF FirstOf

\* The function Split is defined by exists: each place asks only what is behind it.
LEMMA SplitsExist ==
  ASSUME NEW cs \in Seq(Bytes), NEW dl \in Seq(Bytes), dl # <<>>
  PROVE  \E f : Splits(f, cs, dl, 0)
<1> DEFINE n == Len(cs)
           From == {k \in 0..n : \E f : Splits(f, cs, dl, k)}
<1>0. n \in Nat /\ Len(dl) \in Nat \ {0}
  OBVIOUS
<1>1. n \in From
  <2> DEFINE f == [i \in n..n |-> <<SubSeq(cs, i + 1, n)>>]
  <2>1. \A i \in n..n : Hits(cs, dl, i) = {}
    <3>1. \A j \in n..n : ~HitAt(cs, dl, j)
      BY <1>0 DEF HitAt
    <3>2. n \in 0..Len(cs) /\ \A i \in n..n : i = n
      BY <1>0
    <3>3. QED
      BY <3>1, <3>2, HitsFrom
  <2>2. \A i \in n..n : Cut(f, cs, dl, i) = <<SubSeq(cs, i + 1, n)>>
    <3> HIDE DEF f
    <3>1. QED
      BY <2>1 DEF Cut
  <2>3. f = [i \in n..n |-> Cut(f, cs, dl, i)]
    BY <2>2
  <2>4. Splits(f, cs, dl, n)
    BY <2>3 DEF Splits
  <2>5. QED
    BY <1>0, <2>4
<1>2. PICK k \in From : \A j \in From : k <= j
  <2>1. From \in SUBSET Nat /\ From # {}
    BY <1>1
  <2> HIDE DEF From
  <2>2. QED
    BY <2>1, LeastNumber
<1>3. PICK f : Splits(f, cs, dl, k)
  BY <1>2
<1>4. k \in 0..n
  BY <1>2
<1>5. CASE k = 0
  BY <1>3, <1>5
<1>6. CASE k # 0
  <2>1. k - 1 \in 0..n /\ k - 1 \notin From
    BY <1>0, <1>2, <1>4, <1>6
  <2> DEFINE g == [i \in (k - 1)..n |-> IF i = k - 1 THEN Cut(f, cs, dl, i) ELSE f[i]]
  <2>2. \A i \in k..n : i \in (k - 1)..n /\ i # k - 1 /\ g[i] = f[i]
    BY <1>0, <1>4
  <2>3. ASSUME NEW i \in (k - 1)..n
        PROVE  Cut(g, cs, dl, i) = Cut(f, cs, dl, i)
    <3>1. ASSUME Hits(cs, dl, i) # {}
          PROVE  FirstOf(Hits(cs, dl, i)) + Len(dl) \in k..n
      <4>1. i \in 0..Len(cs)
        BY <1>0, <1>4, <2>1
      <4>2. FirstOf(Hits(cs, dl, i)) \in i..Len(cs) /\ HitAt(cs, dl, FirstOf(Hits(cs, dl, i)))
        BY <3>1, <4>1, FirstHit, HitsFrom
      <4>3. QED
        BY <1>0, <1>4, <4>2 DEF HitAt
    <3> HIDE DEF g
    <3>2. QED
      BY <2>2, <3>1 DEF Cut
  <2>4. f = [i \in k..n |-> Cut(f, cs, dl, i)]
    BY <1>3 DEF Splits
  <2>5. ASSUME NEW i \in (k - 1)..n
        PROVE  g[i] = Cut(g, cs, dl, i)
    <3>1. CASE i = k - 1
      BY <2>3, <3>1
    <3>2. CASE i # k - 1
      <4>1. i \in k..n
        BY <1>0, <1>4, <3>2
      <4>2. f[i] = Cut(f, cs, dl, i)
        BY <2>4, <4>1
      <4>3. QED
        BY <2>2, <2>3, <4>1, <4>2
    <3>3. QED
      BY <3>1, <3>2
  <2>6. g = [i \in (k - 1)..n |-> g[i]]
    OBVIOUS
  <2> HIDE DEF g
  <2>7. g = [i \in (k - 1)..n |-> Cut(g, cs, dl, i)]
    BY <2>5, <2>6
  <2>8. Splits(g, cs, dl, k - 1)
    BY <2>7 DEF Splits
  <2>9. QED
    BY <2>1, <2>8
<1>7. QED
  BY <1>5, <1>6

\* What it is at a place.
LEMMA CutIs ==
  ASSUME NEW cs, NEW dl, NEW f, Splits(f, cs, dl, 0), NEW i \in 0..Len(cs)
  PROVE  f[i] = Cut(f, cs, dl, i)
BY DEF Splits

\* Where no delimiter follows, the rest is one piece.
LEMMA LastPiece ==
  ASSUME NEW cs \in Seq(Bytes), NEW dl \in Seq(Bytes), NEW f, Splits(f, cs, dl, 0), NEW i \in 0..Len(cs),
         \A j \in i..Len(cs) : ~HitAt(cs, dl, j)
  PROVE  f[i] = <<SubSeq(cs, i + 1, Len(cs))>>
<1>1. Hits(cs, dl, i) = {}
  BY HitsFrom
<1>2. QED
  BY <1>1, CutIs DEF Cut

\* Up to the next delimiter is a piece, and then come those behind it.
LEMMA NextPiece ==
  ASSUME NEW cs \in Seq(Bytes), NEW dl \in Seq(Bytes), dl # <<>>, NEW f, Splits(f, cs, dl, 0),
         NEW i \in 0..Len(cs), NEW j \in i..Len(cs), HitAt(cs, dl, j), \A k \in i..(j - 1) : ~HitAt(cs, dl, k)
  PROVE  f[i] = <<SubSeq(cs, i + 1, j)>> \o f[j + Len(dl)] /\ j + Len(dl) \in (j + 1)..Len(cs)
<1>1. j \in Hits(cs, dl, i)
  BY HitsFrom
<1>2. FirstOf(Hits(cs, dl, i)) = j
  <2>1. FirstOf(Hits(cs, dl, i)) \in Hits(cs, dl, i) /\ FirstOf(Hits(cs, dl, i)) <= j
    BY <1>1, FirstHit
  <2>2. FirstOf(Hits(cs, dl, i)) \in i..Len(cs) /\ HitAt(cs, dl, FirstOf(Hits(cs, dl, i)))
    BY <2>1, HitsFrom
  <2>3. QED
    BY <2>1, <2>2
<1>3. f[i] = <<SubSeq(cs, i + 1, j)>> \o f[j + Len(dl)]
  BY <1>1, <1>2, CutIs DEF Cut
<1>4. Len(dl) \in Nat \ {0}
  OBVIOUS
<1>5. QED
  BY <1>3, <1>4 DEF HitAt

\* Where the next delimiter is, if there is one.
LEMMA NextPieceHere ==
  ASSUME NEW cs \in Seq(Bytes), NEW dl \in Seq(Bytes), dl # <<>>, NEW f, Splits(f, cs, dl, 0),
         NEW i \in 0..Len(cs), HitAt(cs, dl, i)
  PROVE  f[i] = <<<<>>>> \o f[i + Len(dl)] /\ i + Len(dl) \in (i + 1)..Len(cs)
<1>1. i \in i..Len(cs) /\ \A k \in i..(i - 1) : ~HitAt(cs, dl, k)
  OBVIOUS
<1>2. f[i] = <<SubSeq(cs, i + 1, i)>> \o f[i + Len(dl)] /\ i + Len(dl) \in (i + 1)..Len(cs)
  BY <1>1, NextPiece
<1>3. SubSeq(cs, i + 1, i) = <<>>
  OBVIOUS
<1>4. QED
  BY <1>2, <1>3

\* There is a next delimiter or none.
LEMMA NextHit ==
  ASSUME NEW cs, NEW dl, Len(cs) \in Nat, NEW i \in 0..Len(cs)
  PROVE  \/ \A j \in i..Len(cs) : ~HitAt(cs, dl, j)
         \/ \E j \in i..Len(cs) : HitAt(cs, dl, j) /\ \A k \in i..(j - 1) : ~HitAt(cs, dl, k)
<1> DEFINE At == {j \in i..Len(cs) : HitAt(cs, dl, j)}
<1>1. CASE At = {}
  BY <1>1
<1>2. CASE At # {}
  <2>1. At \in SUBSET Nat
    OBVIOUS
  <2>2. PICK j \in At : \A k \in At : j <= k
    <3> HIDE DEF At
    <3>1. QED
      BY <1>2, <2>1, LeastNumber
  <2>3. j \in i..Len(cs) /\ HitAt(cs, dl, j) /\ \A k \in i..(j - 1) : ~HitAt(cs, dl, k)
    BY <2>2
  <2>4. QED
    BY <2>3
<1>3. QED
  BY <1>1, <1>2

\* At least one text.
Texts0 == Seq(Seq(Bytes)) \ {<<>>}

\* From every place on there is at least one piece.
LEMMA PiecesAreTexts ==
  ASSUME NEW cs \in Seq(Bytes), NEW dl \in Seq(Bytes), dl # <<>>, NEW f, Splits(f, cs, dl, 0)
  PROVE  \A i \in 0..Len(cs) : f[i] \in Texts0
<1> DEFINE Wrong == {k \in 0..Len(cs) : f[Len(cs) - k] \notin Texts0}
<1>1. SUFFICES ASSUME Wrong # {} PROVE FALSE
  <2>1. \A i \in 0..Len(cs) : Len(cs) - i \in 0..Len(cs) /\ Len(cs) - (Len(cs) - i) = i
    OBVIOUS
  <2>2. QED
    BY <1>1, <2>1
<1>2. PICK k \in Wrong : \A m \in Wrong : k <= m
  <2>1. Wrong \in SUBSET Nat
    OBVIOUS
  <2> HIDE DEF Wrong
  <2>2. QED
    BY <1>1, <2>1, LeastNumber
<1> DEFINE i == Len(cs) - k
<1>3. i \in 0..Len(cs) /\ f[i] \notin Texts0 /\ k \in 0..Len(cs)
  BY <1>2
<1>4. ASSUME NEW m \in (i + 1)..Len(cs)
      PROVE  f[m] \in Texts0
  <2>1. Len(cs) - m \in 0..Len(cs) /\ Len(cs) - m < k /\ Len(cs) - (Len(cs) - m) = m
    BY <1>3
  <2>2. Len(cs) - m \notin Wrong
    BY <1>2, <2>1
  <2>3. QED
    BY <2>1, <2>2
<1> HIDE DEF i, Wrong
<1>5. CASE \A j \in i..Len(cs) : ~HitAt(cs, dl, j)
  <2>1. f[i] = <<SubSeq(cs, i + 1, Len(cs))>>
    BY <1>3, <1>5, LastPiece
  <2>2. SubSeq(cs, i + 1, Len(cs)) \in Seq(Bytes)
    BY <1>3
  <2>3. QED
    BY <1>3, <2>1, <2>2 DEF Texts0
<1>6. ASSUME NEW j \in i..Len(cs), HitAt(cs, dl, j), \A m \in i..(j - 1) : ~HitAt(cs, dl, m)
      PROVE  FALSE
  <2>1. f[i] = <<SubSeq(cs, i + 1, j)>> \o f[j + Len(dl)] /\ j + Len(dl) \in (j + 1)..Len(cs)
    BY <1>3, <1>6, NextPiece
  <2>2. f[j + Len(dl)] \in Texts0
    BY <1>3, <1>4, <2>1
  <2>3. SubSeq(cs, i + 1, j) \in Seq(Bytes)
    BY <1>3
  <2> DEFINE x == SubSeq(cs, i + 1, j)
             t == f[j + Len(dl)]
  <2> HIDE DEF x, t
  <2>4. <<x>> \o t \in Texts0
    <3>1. x \in Seq(Bytes) /\ t \in Seq(Seq(Bytes))
      BY <2>2, <2>3 DEF x, t, Texts0
    <3>2. QED
      BY <3>1 DEF Texts0
  <2>5. QED
    BY <1>3, <2>1, <2>4 DEF x, t
<1>7. QED
  BY <1>3, <1>5, <1>6, NextHit

-----------------------------------------------------------------------------
(* Chopping. *)

\* The rest of the slice w behind its first p characters.
RestOf(w, p) == View(w, p, w.length - p)

\* What is left behind p and i more characters.
LEMMA RestStarts ==
  ASSUME NEW w, Inside(w), NEW d, Inside(d), NEW p \in 0..w.length, NEW i \in 0..(w.length - p)
  PROVE  /\ Drop(RestOf(w, p), i) = RestOf(w, p + i)
         /\ StartsWith(RestOf(w, p + i), d) <=> HitAt(Chars(w), Chars(d), p + i)
<1>1. w \in SliceType /\ w.length \in Nat /\ p \in Nat /\ w.length - p \in Nat /\ i \in Nat
  BY DEF Inside, SliceType
<1>2. RestOf(w, p) \in SliceType /\ RestOf(w, p).length = w.length - p
  BY <1>1, ViewIs DEF RestOf
<1>3. Drop(RestOf(w, p), i) = View(RestOf(w, p), i, w.length - p - i)
  BY <1>2, DropIs
<1>4. View(RestOf(w, p), i, w.length - p - i) = View(w, p + i, w.length - p - i)
  BY <1>1, ViewOfView DEF RestOf
<1>5. w.length - p - i = w.length - (p + i) /\ p + i \in 0..w.length
  BY <1>1
<1>6. StartsWith(RestOf(w, p + i), d) <=> HitAt(Chars(w), Chars(d), p + i)
  BY <1>5, HitIs DEF RestOf
<1>7. QED
  BY <1>3, <1>4, <1>5, <1>6 DEF RestOf

\* What is left behind p.
LEMMA RestIs ==
  ASSUME NEW w, Inside(w), NEW p \in 0..w.length
  PROVE  /\ Inside(RestOf(w, p)) /\ RestOf(w, p).length = w.length - p
         /\ Chars(RestOf(w, p)) = SubSeq(Chars(w), p + 1, w.length)
<1>1. w \in SliceType /\ w.length \in Nat /\ p \in Nat /\ w.length - p \in Nat /\ p + (w.length - p) = w.length
  BY DEF Inside, SliceType
<1>2. p + (w.length - p) <= w.length
  BY <1>1
<1>3. Inside(View(w, p, w.length - p)) /\ Chars(View(w, p, w.length - p)) = SubSeq(Chars(w), p + 1, p + (w.length - p))
  BY <1>1, <1>2, CharsOfView
<1>4. View(w, p, w.length - p).length = w.length - p
  BY <1>1, ViewIs
<1>5. QED
  BY <1>1, <1>3, <1>4 DEF RestOf

\* The places that the loop of slice_chop_by_delimiter finds.
ChopPlaces(s, d) == {i \in 0..(s.length - d.length - 1) : StartsWith(Drop(s, i), d)}

\* The places a chop looks at are those of the delimiter, but one at the very end.
LEMMA ChopPlacesAre ==
  ASSUME NEW w, Inside(w), NEW d, Inside(d), NEW p \in 0..w.length
  PROVE  \A i : i \in ChopPlaces(RestOf(w, p), d)
                  <=> i \in 0..(w.length - p - d.length - 1) /\ HitAt(Chars(w), Chars(d), p + i)
<1>1. w.length \in Nat /\ d.length \in Nat /\ p \in Nat
  BY DEF Inside, SliceType
<1>2. RestOf(w, p).length = w.length - p
  BY RestIs
<1>3. ASSUME NEW i \in 0..(w.length - p - d.length - 1)
      PROVE  StartsWith(Drop(RestOf(w, p), i), d) <=> HitAt(Chars(w), Chars(d), p + i)
  <2>1. i \in 0..(w.length - p)
    BY <1>1
  <2>2. QED
    BY <2>1, RestStarts
<1>4. QED
  BY <1>2, <1>3 DEF ChopPlaces

\* A delimiter that is longer than the slice: all is chopped off.
LEMMA ChopTooLong ==
  ASSUME NEW s, NEW d, s.length \in Nat, d.length \in Nat, d.length > s.length
  PROVE  ChopByDelimiter(s, d) = [result |-> s, rest |-> Empty]
<1>1. d.length # s.length
  OBVIOUS
<1>2. QED
  BY <1>1 DEF ChopByDelimiter, ChopPlaces, FirstOf

\* So it is with an empty one.
LEMMA ChopAtNothing ==
  ASSUME NEW s, NEW d, d.length = 0, s.length \in Nat, s.length > 0
  PROVE  ChopByDelimiter(s, d) = [result |-> s, rest |-> Empty]
<1>1. d.length # s.length
  OBVIOUS
<1>2. QED
  BY <1>1 DEF ChopByDelimiter, ChopPlaces, FirstOf

\* Otherwise the chop is at the first place, if there is one.
LEMMA ChopIs ==
  ASSUME NEW s, NEW d, s.length # 0, d.length # 0, ~(d.length > s.length)
  PROVE  ChopByDelimiter(s, d) =
           IF d.length = s.length /\ s.length > 0 /\ Equal(s, d, FALSE)
           THEN [result |-> Empty, rest |-> Empty]
           ELSE IF ChopPlaces(s, d) = {} THEN [result |-> s, rest |-> Empty]
           ELSE [result |-> Take(s, FirstOf(ChopPlaces(s, d))), rest |-> Drop(s, FirstOf(ChopPlaces(s, d)) + d.length)]
BY DEF ChopByDelimiter, ChopPlaces, FirstOf

\* What one turn of slice_split does with the rest behind p, of a text whose
\* pieces are f: it takes the next piece, or the last; or, where the delimiter
\* ends the text, the piece with it, or, if that piece is empty, the piece.
ChopsAt(w, d, f, p, r) ==
  LET cs == Chars(w)
      dl == Chars(d)
  IN  \/ \E j \in p..w.length :
           /\ j + d.length < w.length
           /\ r = [result |-> View(w, p, j - p), rest |-> RestOf(w, j + d.length)]
           /\ f[p] = <<SubSeq(cs, p + 1, j)>> \o f[j + d.length]
      \/ /\ r = [result |-> RestOf(w, p), rest |-> Empty]
         /\ f[p] = <<SubSeq(cs, p + 1, w.length)>>
      \/ \E x \in Seq(Bytes) :
           /\ x # <<>> /\ SubSeq(cs, p + 1, w.length) = x \o dl
           /\ r = [result |-> RestOf(w, p), rest |-> Empty]
           /\ f[p] = <<x, <<>>>>
      \/ /\ r = [result |-> Empty, rest |-> Empty]
         /\ f[p] = <<<<>>, <<>>>>

\* A part of the text and the delimiter behind it.
LEMMA PieceThenHit ==
  ASSUME NEW cs \in Seq(Bytes), NEW dl \in Seq(Bytes), NEW p \in Nat, NEW j \in Nat, p <= j, HitAt(cs, dl, j)
  PROVE  SubSeq(cs, p + 1, j + Len(dl)) = SubSeq(cs, p + 1, j) \o dl
<1>1. PICK n \in Nat : n = Len(dl)
  OBVIOUS
<1>2. j + n <= Len(cs) /\ \A k \in 1..n : cs[j + k] = dl[k]
  BY <1>1 DEF HitAt
<1> DEFINE a == SubSeq(cs, p + 1, j + n)
           b == SubSeq(cs, p + 1, j)
<1>3. /\ a \in Seq(Bytes) /\ Len(a) = j + n - p
      /\ b \in Seq(Bytes) /\ Len(b) = j - p
  BY <1>2
<1>4. /\ \A k \in 1..(j + n - p) : a[k] = cs[p + k]
      /\ \A k \in 1..(j - p) : b[k] = cs[p + k]
  BY <1>2
<1> HIDE DEF a, b
<1>5. Len(b \o dl) = j + n - p /\ b \o dl \in Seq(Bytes)
  BY <1>1, <1>3
<1>6. ASSUME NEW k \in 1..(j + n - p)
      PROVE  a[k] = (b \o dl)[k]
  <2>1. CASE k <= j - p
    <3>1. k \in 1..Len(b) /\ k \in 1..(j - p)
      BY <1>3, <2>1
    <3>2. (b \o dl)[k] = b[k]
      BY <1>3, <3>1
    <3>3. QED
      BY <1>4, <3>1, <3>2
  <2>2. CASE ~(k <= j - p)
    <3>1. k - (j - p) \in 1..n /\ k \in (Len(b) + 1)..(Len(b) + Len(dl)) /\ j + (k - (j - p)) = p + k
      BY <1>1, <1>3, <2>2
    <3>2. (b \o dl)[k] = dl[k - Len(b)]
      BY <1>3, <3>1
    <3>3. dl[k - (j - p)] = cs[p + k]
      BY <1>2, <3>1
    <3>4. QED
      BY <1>3, <1>4, <3>2, <3>3
  <2>3. QED
    BY <2>1, <2>2
<1>7. a = b \o dl
  BY <1>3, <1>5, <1>6, SeqEqual
<1>8. QED
  BY <1>1, <1>7 DEF a, b

\* Two lists of one are a list of two.
LEMMA TwoPieces ==
  ASSUME NEW x, NEW y
  PROVE  <<x>> \o <<y>> = <<x, y>>
<1> DEFINE a == <<x>> \o <<y>>
           b == <<x, y>>
           S == {x, y}
<1>1. <<x>> \in Seq(S) /\ <<y>> \in Seq(S) /\ Len(<<x>>) = 1 /\ Len(<<y>>) = 1
  OBVIOUS
<1>2. b \in Seq(S) /\ Len(b) = 2 /\ b[1] = x /\ b[2] = y
  OBVIOUS
<1>3. a \in Seq(S) /\ Len(a) = 2 /\ a[1] = x /\ a[2] = y
  BY <1>1
<1> HIDE DEF a, b, S
<1>4. \A i \in 1..2 : a[i] = b[i]
  <2>1. \A i \in 1..2 : i = 1 \/ i = 2
    OBVIOUS
  <2>2. QED
    BY <1>2, <1>3, <2>1
<1>5. a = b
  BY <1>2, <1>3, <1>4, SeqEqual
<1>6. QED
  BY <1>5 DEF a, b

\* At the end of the text there is one piece, an empty one.
LEMMA NothingBehindEnd ==
  ASSUME NEW cs \in Seq(Bytes), NEW dl \in Seq(Bytes), dl # <<>>, NEW f, Splits(f, cs, dl, 0)
  PROVE  f[Len(cs)] = <<<<>>>>
<1>1. Len(dl) \in Nat \ {0} /\ Len(cs) \in 0..Len(cs)
  OBVIOUS
<1>2. \A j \in Len(cs)..Len(cs) : ~HitAt(cs, dl, j)
  BY <1>1 DEF HitAt
<1>3. f[Len(cs)] = <<SubSeq(cs, Len(cs) + 1, Len(cs))>>
  BY <1>1, <1>2, LastPiece
<1>4. SubSeq(cs, Len(cs) + 1, Len(cs)) = <<>>
  OBVIOUS
<1>5. QED
  BY <1>3, <1>4

\* What one chop does to the pieces of what is left.
LEMMA OneTurn ==
  ASSUME NEW w, Inside(w), NEW d, Inside(d), d.length > 0, NEW p \in 0..(w.length - 1),
         NEW f, Splits(f, Chars(w), Chars(d), 0)
  PROVE  ChopsAt(w, d, f, p, ChopByDelimiter(RestOf(w, p), d))
<1> DEFINE s == RestOf(w, p)
           r == ChopByDelimiter(s, d)
           cs == Chars(w)
           dl == Chars(d)
<1>1. /\ w.length \in Nat /\ d.length \in Nat \ {0} /\ p \in Nat /\ p < w.length /\ p \in 0..w.length
      /\ w \in SliceType /\ d \in SliceType
  BY DEF Inside, SliceType
<1>2. /\ cs \in Seq(Bytes) /\ Len(cs) = w.length /\ dl \in Seq(Bytes) /\ Len(dl) = d.length /\ dl # <<>>
  BY <1>1, CharsAre
<1>3. Inside(s) /\ s \in SliceType /\ s.length = w.length - p /\ Chars(s) = SubSeq(cs, p + 1, w.length)
  BY <1>1, RestIs DEF Inside
<1>4. p \in 0..Len(cs)
  BY <1>1, <1>2
<1>5. Splits(f, cs, dl, 0)
  OBVIOUS
<1>6. \A i : i \in ChopPlaces(s, d) <=> i \in 0..(w.length - p - d.length - 1) /\ HitAt(cs, dl, p + i)
  BY <1>1, ChopPlacesAre
<1> HIDE DEF s, cs, dl
<1>7. CASE d.length > s.length
  <2>1. r = [result |-> s, rest |-> Empty]
    BY <1>1, <1>3, <1>7, ChopTooLong
  <2>2. \A j \in p..Len(cs) : ~HitAt(cs, dl, j)
    BY <1>1, <1>2, <1>3, <1>7 DEF HitAt
  <2>3. f[p] = <<SubSeq(cs, p + 1, Len(cs))>>
    BY <1>2, <1>4, <1>5, <2>2, LastPiece
  <2>4. QED
    BY <1>2, <2>1, <2>3 DEF ChopsAt, s, cs
<1>8. CASE ~(d.length > s.length)
  <2>0. s.length # 0 /\ d.length # 0 /\ s.length > 0
    BY <1>1, <1>3
  <2>1. r = IF d.length = s.length /\ s.length > 0 /\ Equal(s, d, FALSE)
            THEN [result |-> Empty, rest |-> Empty]
            ELSE IF ChopPlaces(s, d) = {} THEN [result |-> s, rest |-> Empty]
            ELSE [result |-> Take(s, FirstOf(ChopPlaces(s, d))), rest |-> Drop(s, FirstOf(ChopPlaces(s, d)) + d.length)]
    BY <1>8, <2>0, ChopIs
  <2>2. d.length = s.length => (Equal(s, d, FALSE) <=> HitAt(cs, dl, p))
    <3> SUFFICES ASSUME d.length = s.length PROVE Equal(s, d, FALSE) <=> HitAt(cs, dl, p)
      OBVIOUS
    <3>1. StartsWith(s, d) <=> HitAt(cs, dl, p)
      <4>1. 0 \in 0..(w.length - p) /\ p + 0 = p
        BY <1>1
      <4>2. QED
        BY <1>1, <4>1, RestStarts DEF s, cs, dl
    <3>2. Equal(s, d, FALSE) <=> StartsWith(s, d)
      BY <1>1, <1>3 DEF Equal, StartsWith, Fold
    <3>3. QED
      BY <3>1, <3>2
  <2>3. CASE \A j \in p..Len(cs) : ~HitAt(cs, dl, j)
    <3>1. f[p] = <<SubSeq(cs, p + 1, Len(cs))>>
      BY <1>2, <1>4, <1>5, <2>3, LastPiece
    <3>2. ChopPlaces(s, d) = {}
      <4>1. ASSUME NEW i \in ChopPlaces(s, d) PROVE FALSE
        <5>1. i \in 0..(w.length - p - d.length - 1) /\ HitAt(cs, dl, p + i)
          BY <1>6, <4>1
        <5>2. p + i \in p..Len(cs)
          BY <1>1, <1>2, <5>1
        <5>3. QED
          BY <2>3, <5>1, <5>2
      <4>2. QED
        BY <4>1
    <3>3. p \in p..Len(cs)
      BY <1>1, <1>2
    <3>4. r = [result |-> s, rest |-> Empty]
      BY <2>1, <2>2, <2>3, <3>2, <3>3
    <3>5. QED
      BY <1>2, <3>1, <3>4 DEF ChopsAt, s, cs
  <2>4. ASSUME NEW j \in p..Len(cs), HitAt(cs, dl, j), \A k \in p..(j - 1) : ~HitAt(cs, dl, k)
        PROVE  ChopsAt(w, d, f, p, r)
    <3>1. f[p] = <<SubSeq(cs, p + 1, j)>> \o f[j + Len(dl)] /\ j + Len(dl) \in (j + 1)..Len(cs)
      BY <1>2, <1>4, <1>5, <2>4, NextPiece
    <3>2. j \in Nat /\ j \in p..w.length
      BY <1>1, <1>2
    <3>3. CASE j + d.length < w.length
      <4>1. j - p \in ChopPlaces(s, d)
        <5>1. j - p \in 0..(w.length - p - d.length - 1) /\ p + (j - p) = j
          BY <1>1, <3>2, <3>3
        <5>2. QED
          BY <1>6, <2>4, <5>1
      <4>2. \A i \in ChopPlaces(s, d) : i \in Nat /\ j - p <= i
        <5>1. SUFFICES ASSUME NEW i \in ChopPlaces(s, d) PROVE i \in Nat /\ j - p <= i
          OBVIOUS
        <5>2. i \in Nat /\ HitAt(cs, dl, p + i)
          BY <1>6, <5>1
        <5>3. ~(p + i \in p..(j - 1))
          BY <2>4, <5>2
        <5>4. QED
          BY <1>1, <3>2, <5>2, <5>3
      <4>3. FirstOf(ChopPlaces(s, d)) = j - p
        <5>1. \A i \in ChopPlaces(s, d) : (\A m \in ChopPlaces(s, d) : i <= m) => i = j - p
          BY <1>1, <3>2, <4>1, <4>2
        <5>2. QED
          BY <4>1, <4>2, <5>1 DEF FirstOf
      <4>4. ~(d.length = s.length)
        BY <1>1, <1>3, <3>2, <3>3
      <4>5. r = [result |-> Take(s, j - p), rest |-> Drop(s, j - p + d.length)]
        BY <2>1, <4>1, <4>3, <4>4
      <4>6. Take(s, j - p) = View(w, p, j - p)
        <5>1. j - p \in 0..s.length
          BY <1>1, <1>3, <3>2, <3>3
        <5>2. Take(s, j - p) = View(s, 0, j - p)
          BY <1>3, <5>1, TakeIs
        <5>3. View(s, 0, j - p) = View(w, p + 0, j - p)
          BY <1>1, ViewOfView DEF s, RestOf
        <5>4. p + 0 = p
          BY <1>1
        <5>5. QED
          BY <5>2, <5>3, <5>4
      <4>7. Drop(s, j - p + d.length) = RestOf(w, j + d.length)
        <5>1. j - p + d.length \in 0..(w.length - p) /\ p + (j - p + d.length) = j + d.length
          BY <1>1, <3>2, <3>3
        <5>2. QED
          BY <1>1, <5>1, RestStarts DEF s
      <4>8. QED
        BY <1>2, <3>1, <3>2, <3>3, <4>5, <4>6, <4>7 DEF ChopsAt, cs
    <3>4. CASE j + d.length = w.length
      <4>1. f[j + Len(dl)] = <<<<>>>>
        BY <1>2, <1>5, <3>4, NothingBehindEnd
      <4>2. f[p] = <<SubSeq(cs, p + 1, j), <<>>>>
        <5>1. <<SubSeq(cs, p + 1, j)>> \o <<<<>>>> = <<SubSeq(cs, p + 1, j), <<>>>>
          BY TwoPieces
        <5>2. QED
          BY <3>1, <4>1, <5>1
      <4>3. ChopPlaces(s, d) = {}
        <5>1. ASSUME NEW i \in ChopPlaces(s, d) PROVE FALSE
          <6>1. i \in 0..(w.length - p - d.length - 1) /\ HitAt(cs, dl, p + i)
            BY <1>6, <5>1
          <6>2. p + i \in p..(j - 1)
            BY <1>1, <3>2, <3>4, <6>1
          <6>3. QED
            BY <2>4, <6>1, <6>2
        <5>2. QED
          BY <5>1
      <4>4. CASE j = p
        <5>1. d.length = s.length
          BY <1>1, <1>3, <3>4, <4>4
        <5>2. r = [result |-> Empty, rest |-> Empty]
          BY <2>0, <2>1, <2>2, <2>4, <4>4, <5>1
        <5>3. SubSeq(cs, p + 1, p) = <<>>
          BY <1>1
        <5>4. QED
          BY <4>2, <4>4, <5>2, <5>3 DEF ChopsAt
      <4>5. CASE j # p
        <5>1. ~(d.length = s.length)
          BY <1>1, <1>3, <3>2, <3>4, <4>5
        <5>2. r = [result |-> s, rest |-> Empty]
          BY <2>1, <4>3, <5>1
        <5> DEFINE x == SubSeq(cs, p + 1, j)
        <5>3. x \in Seq(Bytes) /\ Len(x) = j - p
          BY <1>1, <1>2, <3>2
        <5>4. x # <<>>
          BY <1>1, <3>2, <4>5, <5>3
        <5>5. SubSeq(cs, p + 1, w.length) = x \o dl
          <6>0. p \in Nat /\ j \in Nat /\ p <= j /\ HitAt(cs, dl, j)
            BY <1>1, <2>4, <3>2
          <6>1. SubSeq(cs, p + 1, j + Len(dl)) = SubSeq(cs, p + 1, j) \o dl
            BY <1>2, <6>0, PieceThenHit
          <6>2. j + Len(dl) = w.length
            BY <1>2, <3>4
          <6>3. QED
            BY <6>1, <6>2
        <5>6. QED
          BY <4>2, <5>2, <5>3, <5>4, <5>5 DEF ChopsAt, s, cs, dl
      <4>6. QED
        BY <4>4, <4>5
    <3>5. QED
      BY <1>1, <1>2, <3>1, <3>2, <3>3, <3>4
  <2>5. Len(cs) \in Nat
    BY <1>1, <1>2
  <2>6. QED
    BY <1>4, <2>3, <2>4, <2>5, NextHit DEF s
<1>9. QED
  BY <1>7, <1>8 DEF s

\* The pieces of cs behind each of its places.
PiecesOf(cs, dl) == CHOOSE f : Splits(f, cs, dl, 0)

\* PiecesOf is such a function, and Split its value at the beginning.
LEMMA PiecesAre ==
  ASSUME NEW cs \in Seq(Bytes), NEW dl \in Seq(Bytes), dl # <<>>
  PROVE  Splits(PiecesOf(cs, dl), cs, dl, 0) /\ Split(cs, dl) = PiecesOf(cs, dl)[0]
<1>1. Splits(PiecesOf(cs, dl), cs, dl, 0)
  BY SplitsExist DEF PiecesOf
<1>2. Split(cs, dl) = PiecesOf(cs, dl)[0]
  BY DEF Split, PiecesOf, Splits, Cut, Hits, FirstOf
<1>3. QED
  BY <1>1, <1>2

\* What the slices of ss read.
Read(ss) == [i \in 1..Len(ss) |-> Chars(ss[i])]

\* Appending a slice appends its characters.
LEMMA ReadsOneMore ==
  ASSUME NEW ss, NEW v, Inside(v), ss \in Seq(SliceType), \A i \in 1..Len(ss) : Inside(ss[i])
  PROVE  /\ Append(ss, v) \in Seq(SliceType)
         /\ \A i \in 1..Len(Append(ss, v)) : Inside(Append(ss, v)[i])
         /\ Read(ss) \in Seq(Seq(Bytes)) /\ Read(Append(ss, v)) = Append(Read(ss), Chars(v))
<1>1. v \in SliceType /\ Chars(v) \in Seq(Bytes)
  BY CharsAre DEF Inside
<1>2. \A i \in 1..Len(ss) : Chars(ss[i]) \in Seq(Bytes)
  BY CharsAre
<1>3. Read(ss) \in Seq(Seq(Bytes)) /\ Len(Read(ss)) = Len(ss)
  BY <1>2 DEF Read
<1>4. /\ Append(ss, v) \in Seq(SliceType) /\ Len(Append(ss, v)) = Len(ss) + 1
      /\ \A i \in 1..Len(ss) : Append(ss, v)[i] = ss[i]
      /\ Append(ss, v)[Len(ss) + 1] = v
  BY <1>1
<1>5. ASSUME NEW i \in 1..(Len(ss) + 1)
      PROVE  Inside(Append(ss, v)[i])
  <2>1. i \in 1..Len(ss) \/ i = Len(ss) + 1
    OBVIOUS
  <2>2. CASE i \in 1..Len(ss)
    <3>1. Append(ss, v)[i] = ss[i] /\ Inside(ss[i])
      BY <1>4, <2>2
    <3>2. QED
      BY <3>1
  <2>3. CASE i = Len(ss) + 1
    <3>1. Append(ss, v)[i] = v
      BY <1>4, <2>3
    <3>2. QED
      BY <3>1
  <2>4. QED
    BY <2>1, <2>2, <2>3
<1>6. /\ Append(Read(ss), Chars(v)) \in Seq(Seq(Bytes)) /\ Len(Append(Read(ss), Chars(v))) = Len(ss) + 1
      /\ \A i \in 1..Len(ss) : Append(Read(ss), Chars(v))[i] = Read(ss)[i]
      /\ Append(Read(ss), Chars(v))[Len(ss) + 1] = Chars(v)
  BY <1>1, <1>3
<1> DEFINE more == Append(ss, v)
<1> HIDE DEF more
<1>7. Read(more) \in Seq(Seq(Bytes)) /\ Len(Read(more)) = Len(ss) + 1
  <2>1. \A i \in 1..(Len(ss) + 1) : Chars(more[i]) \in Seq(Bytes)
    BY <1>5, CharsAre DEF more
  <2>2. Len(more) = Len(ss) + 1 /\ Len(ss) + 1 \in Nat
    BY <1>4 DEF more
  <2>3. Read(more) = [i \in 1..(Len(ss) + 1) |-> Chars(more[i])]
    BY <2>2 DEF Read
  <2>4. QED
    BY <2>1, <2>2, <2>3
<1>8. ASSUME NEW i \in 1..(Len(ss) + 1)
      PROVE  Read(more)[i] = Append(Read(ss), Chars(v))[i]
  <2>1. Read(more)[i] = Chars(more[i])
    BY <1>4 DEF Read, more
  <2>2. CASE i \in 1..Len(ss)
    BY <1>4, <1>6, <2>1, <2>2 DEF Read, more
  <2>3. CASE i = Len(ss) + 1
    BY <1>4, <1>6, <2>1, <2>3 DEF more
  <2>4. i \in 1..Len(ss) \/ i = Len(ss) + 1
    OBVIOUS
  <2>5. QED
    BY <2>2, <2>3, <2>4
<1>9. Read(more) = Append(Read(ss), Chars(v))
  BY <1>6, <1>7, <1>8, SeqEqual
<1>10. QED
  BY <1>3, <1>4, <1>5, <1>9 DEF more

\* The slice chop leaves when nothing is left.
LEMMA TheEmptySlice == Inside(Empty) /\ Empty.length = 0 /\ Chars(Empty) = <<>>
<1>1. Inside(Empty) /\ Empty.length = 0
  BY DEF Inside, SliceType, Empty, FromCString
<1>2. QED
  BY <1>1 DEF Chars

\* A slice of a C string reads all of it.
LEMMA TextsOfC ==
  ASSUME NEW b \in Seq(Bytes)
  PROVE  Inside(FromCString(b)) /\ FromCString(b).length = Len(b) /\ Chars(FromCString(b)) = b
<1> DEFINE d == FromCString(b)
<1>1. Inside(d) /\ d.length = Len(b) /\ d.at = 0 /\ d.buffer = b
  BY DEF Inside, SliceType, FromCString
<1> HIDE DEF d
<1>2. Chars(d) \in Seq(Bytes) /\ Len(Chars(d)) = Len(b)
  BY <1>1, CharsAre
<1>3. ASSUME NEW k \in 1..Len(b)
      PROVE  Chars(d)[k] = b[k]
  <2>1. k - 1 \in 0..(d.length - 1) /\ k - 1 + 1 = k /\ d.at + (k - 1) + 1 = k
    BY <1>1
  <2>2. Data(d, k - 1) = Chars(d)[k - 1 + 1] /\ Data(d, k - 1) = d.buffer[d.at + (k - 1) + 1]
    BY <1>1, <2>1, CharsAre
  <2>3. QED
    BY <1>1, <2>1, <2>2
<1>4. QED
  BY <1>1, <1>2, <1>3, SeqEqual DEF d

\* What is split never changes.
SplitTypes ==
  /\ Inside(whole) /\ Inside(delimiter) /\ Chars(delimiter) = delimiter.buffer
  /\ outCount \in Nat \ {0}

\* What chopping gives, of every text: a delimiter at its end stays in the last
\* piece, or, where that piece would be the delimiter alone, is dropped.
ChopsExactly ==
  LET ref == Split(chars, delimiter.buffer)
      n == Len(ref)
      got == [i \in 1..Len(pieces) |-> Chars(pieces[i])]
  IN  rest.length = 0 =>
        /\ chars = <<>> => got = <<>>
        /\ chars # <<>> /\ delimiter.length = 0 => got = <<chars>>
        /\ chars # <<>> /\ delimiter.length > 0 =>
             got = IF ref[n] = <<>> /\ ref[n - 1] = <<>> THEN SubSeq(ref, 1, n - 1)
                   ELSE IF ref[n] = <<>> THEN Append(SubSeq(ref, 1, n - 2), ref[n - 1] \o delimiter.buffer)
                   ELSE ref

\* While something is left it is the end of the text, and the pieces of the
\* text are those chopped off and then its pieces.
ChopInv ==
  /\ SplitTypes
  /\ Inside(rest)
  /\ pieces \in Seq(SliceType) /\ \A i \in 1..Len(pieces) : Inside(pieces[i])
  /\ rest.length > 0 =>
       \E p \in 0..(whole.length - 1) :
         /\ rest = RestOf(whole, p)
         /\ delimiter.length = 0 => p = 0 /\ pieces = <<>>
         /\ delimiter.length > 0 =>
              Split(chars, delimiter.buffer) = Read(pieces) \o PiecesOf(chars, delimiter.buffer)[p]
  /\ ChopsExactly

\* The initial states.
LEMMA SplitInitIs ==
  ASSUME SplitInit
  PROVE  SplitTypes /\ consumed = 0 /\ parts = <<>> /\ rest = whole /\ pieces = <<>>
<1>1. PICK b \in Buffers : \E i \in 0..Len(b) : \E n \in 0..(Len(b) - i) :
        whole = [buffer |-> b, at |-> i, length |-> n]
  BY DEF SplitInit
<1>10. PICK i \in 0..Len(b) : \E n \in 0..(Len(b) - i) : whole = [buffer |-> b, at |-> i, length |-> n]
  BY <1>1
<1>11. PICK n \in 0..(Len(b) - i) : whole = [buffer |-> b, at |-> i, length |-> n]
  BY <1>10
<1>2. b \in Seq(Bytes)
  BY StringSliceAssumption DEF Bytes
<1>3. Inside(whole)
  <2>1. /\ whole.buffer = b /\ whole.at = i /\ whole.length = n
        /\ i \in Nat /\ n \in Nat /\ i + n <= Len(b)
    BY <1>2, <1>11
  <2>2. whole \in SliceType
    BY <1>2, <1>11, <2>1 DEF SliceType
  <2>3. QED
    BY <2>1, <2>2 DEF Inside
<1>4. PICK d \in Delimiters : delimiter = FromCString(d)
  BY DEF SplitInit
<1>5. d \in Seq(Bytes)
  BY StringSliceAssumption DEF Bytes
<1>6. Inside(delimiter) /\ Chars(delimiter) = delimiter.buffer
  <2>1. delimiter.buffer = d
    BY <1>4 DEF FromCString
  <2>2. QED
    BY <1>4, <1>5, <2>1, TextsOfC
<1>7. outCount \in Nat \ {0}
  BY StringSliceAssumption DEF SplitInit
<1>8. QED
  BY <1>3, <1>6, <1>7 DEF SplitInit, SplitTypes

\* The text and the delimiter of a client that has one.
LEMMA TextsAre ==
  ASSUME SplitTypes
  PROVE  /\ whole \in SliceType /\ whole.length \in Nat /\ delimiter.length \in Nat
         /\ chars \in Seq(Bytes) /\ Len(chars) = whole.length
         /\ delimiter.buffer \in Seq(Bytes) /\ Len(delimiter.buffer) = delimiter.length
         /\ delimiter.length > 0 =>
              /\ delimiter.buffer # <<>>
              /\ Splits(PiecesOf(chars, delimiter.buffer), chars, delimiter.buffer, 0)
              /\ Split(chars, delimiter.buffer) = PiecesOf(chars, delimiter.buffer)[0]
              /\ \A i \in 0..whole.length : PiecesOf(chars, delimiter.buffer)[i] \in Texts0
<1>1. /\ whole \in SliceType /\ whole.length \in Nat /\ delimiter.length \in Nat
  BY DEF SplitTypes, Inside, SliceType
<1>2. /\ chars \in Seq(Bytes) /\ Len(chars) = whole.length
      /\ delimiter.buffer \in Seq(Bytes) /\ Len(delimiter.buffer) = delimiter.length
  BY CharsAre DEF SplitTypes, chars
<1>3. ASSUME delimiter.length > 0
      PROVE  delimiter.buffer # <<>>
  BY <1>2, <1>3
<1>4. QED
  BY <1>1, <1>2, <1>3, PiecesAre, PiecesAreTexts

\* The invariant of chopping holds initially.
LEMMA ChopStarts ==
  ASSUME SplitInit
  PROVE  ChopInv
<1>1. SplitTypes /\ rest = whole /\ pieces = <<>>
  BY SplitInitIs
<1>2. Inside(whole) /\ whole \in SliceType /\ whole.length \in Nat
  BY <1>1, TextsAre DEF SplitTypes
<1>3. pieces \in Seq(SliceType) /\ \A i \in 1..Len(pieces) : Inside(pieces[i])
  BY <1>1
<1>4. Read(pieces) = <<>>
  BY <1>1 DEF Read
<1>5. ASSUME rest.length > 0
      PROVE  \E p \in 0..(whole.length - 1) :
               /\ rest = RestOf(whole, p)
               /\ delimiter.length = 0 => p = 0 /\ pieces = <<>>
               /\ delimiter.length > 0 =>
                    Split(chars, delimiter.buffer) = Read(pieces) \o PiecesOf(chars, delimiter.buffer)[p]
  <2>1. 0 \in 0..(whole.length - 1) /\ 0 \in 0..whole.length
    BY <1>1, <1>2, <1>5
  <2>2. rest = RestOf(whole, 0)
    <3>1. whole.length - 0 = whole.length
      BY <1>2
    <3>2. QED
      BY <1>1, <1>2, <3>1, WholeView DEF RestOf
  <2>3. ASSUME delimiter.length > 0
        PROVE  Split(chars, delimiter.buffer) = Read(pieces) \o PiecesOf(chars, delimiter.buffer)[0]
    <3>1. /\ Split(chars, delimiter.buffer) = PiecesOf(chars, delimiter.buffer)[0]
          /\ PiecesOf(chars, delimiter.buffer)[0] \in Texts0
      BY <1>1, <2>1, <2>3, TextsAre
    <3>2. QED
      BY <1>4, <3>1 DEF Texts0
  <2>4. QED
    BY <1>1, <2>1, <2>2, <2>3
<1>6. ChopsExactly
  <2>1. rest.length = 0 => chars = <<>>
    BY <1>1, TextsAre
  <2>2. QED
    BY <1>1, <2>1, <1>4 DEF ChopsExactly, Read
<1>7. QED
  BY <1>1, <1>2, <1>3, <1>5, <1>6 DEF ChopInv

\* Sequences: what is in front of the last two.
LEMMA BeforeTheLastTwo ==
  ASSUME NEW S, NEW g \in Seq(S), NEW x \in S, NEW y \in S
  PROVE  /\ g \o <<x, y>> \in Seq(S) /\ Len(g \o <<x, y>>) = Len(g) + 2
         /\ (g \o <<x, y>>)[Len(g) + 2] = y /\ (g \o <<x, y>>)[Len(g) + 1] = x
         /\ SubSeq(g \o <<x, y>>, 1, Len(g)) = g
         /\ SubSeq(g \o <<x, y>>, 1, Len(g) + 1) = Append(g, x)
<1> DEFINE h == g \o <<x, y>>
<1>1. <<x, y>> \in Seq(S) /\ Len(<<x, y>>) = 2 /\ <<x, y>>[1] = x /\ <<x, y>>[2] = y
  OBVIOUS
<1>2. h \in Seq(S) /\ Len(h) = Len(g) + 2
  BY <1>1
<1>3. \A i \in 1..Len(g) : h[i] = g[i]
  BY <1>1
<1>4. h[Len(g) + 1] = x /\ h[Len(g) + 2] = y
  BY <1>1
<1> HIDE DEF h
<1>5. SubSeq(h, 1, Len(g)) = g
  <2>1. /\ SubSeq(h, 1, Len(g)) \in Seq(S) /\ Len(SubSeq(h, 1, Len(g))) = Len(g)
        /\ \A i \in 1..Len(g) : SubSeq(h, 1, Len(g))[i] = h[i]
    BY <1>2
  <2>2. QED
    BY <1>3, <2>1, SeqEqual
<1>6. SubSeq(h, 1, Len(g) + 1) = Append(g, x)
  <2>1. /\ SubSeq(h, 1, Len(g) + 1) \in Seq(S) /\ Len(SubSeq(h, 1, Len(g) + 1)) = Len(g) + 1
        /\ \A i \in 1..(Len(g) + 1) : SubSeq(h, 1, Len(g) + 1)[i] = h[i]
    BY <1>2
  <2>2. /\ Append(g, x) \in Seq(S) /\ Len(Append(g, x)) = Len(g) + 1 /\ Append(g, x)[Len(g) + 1] = x
        /\ \A i \in 1..Len(g) : Append(g, x)[i] = g[i]
    OBVIOUS
  <2>3. ASSUME NEW i \in 1..(Len(g) + 1)
        PROVE  SubSeq(h, 1, Len(g) + 1)[i] = Append(g, x)[i]
    <3>1. i \in 1..Len(g) \/ i = Len(g) + 1
      OBVIOUS
    <3>2. QED
      BY <1>3, <1>4, <2>1, <2>2, <3>1
  <2>4. QED
    BY <2>1, <2>2, <2>3, SeqEqual
<1>7. QED
  BY <1>2, <1>4, <1>5, <1>6 DEF h

\* An element in front of a list may as well be appended to the list before.
AppendsTo(S, g, x, t) == g \o (<<x>> \o t) = Append(g, x) \o t

LEMMA AppendThen ==
  ASSUME NEW S, NEW g \in Seq(S), NEW x \in S, NEW t \in Seq(S)
  PROVE  AppendsTo(S, g, x, t)
<1>1. <<x>> \in Seq(S) /\ Append(g, x) = g \o <<x>>
  BY DEF AppendsTo
<1>2. g \o (<<x>> \o t) = (g \o <<x>>) \o t
  BY <1>1
<1>3. QED
  BY <1>1, <1>2 DEF AppendsTo

\* What SubSeq makes of a part within a list.
LEMMA LengthOfPart ==
  ASSUME NEW S, NEW x \in Seq(S), NEW a \in 1..(Len(x) + 1), NEW b \in 0..Len(x)
  PROVE  Len(SubSeq(x, a, b)) = (IF a <= b THEN b - a + 1 ELSE 0) /\ SubSeq(x, a, b) \in Seq(S)
OBVIOUS

\* Lists may be joined in any order.
LEMMA ThreeTexts ==
  ASSUME NEW x \in Seq(Seq(Bytes)), NEW y \in Seq(Seq(Bytes)), NEW z \in Seq(Seq(Bytes))
  PROVE  x \o (y \o z) = (x \o y) \o z
OBVIOUS

LEMMA ThreeBytes ==
  ASSUME NEW x \in Seq(Bytes), NEW y \in Seq(Bytes), NEW z \in Seq(Bytes)
  PROVE  x \o (y \o z) = (x \o y) \o z
OBVIOUS

\* A chop keeps it.
LEMMA EachChop ==
  ASSUME ChopInv, Chop
  PROVE  ChopInv'
<1> DEFINE d == delimiter.buffer
           F == PiecesOf(chars, d)
           got == Read(pieces)
           r == ChopByDelimiter(rest, delimiter)
<1>1. /\ SplitTypes /\ rest.length > 0 /\ UNCHANGED <<whole, delimiter, outCount>>
      /\ rest' = r.rest /\ pieces' = Append(pieces, r.result)
  BY DEF ChopInv, Chop
<1>2. /\ Inside(whole) /\ Inside(delimiter) /\ whole \in SliceType /\ whole.length \in Nat /\ delimiter.length \in Nat
      /\ chars \in Seq(Bytes) /\ Len(chars) = whole.length /\ d \in Seq(Bytes) /\ Len(d) = delimiter.length
      /\ d = Chars(delimiter)
  BY <1>1, TextsAre DEF SplitTypes
<1>3. PICK p \in 0..(whole.length - 1) :
         /\ rest = RestOf(whole, p)
         /\ delimiter.length = 0 => p = 0 /\ pieces = <<>>
         /\ delimiter.length > 0 => Split(chars, d) = got \o F[p]
  BY <1>1 DEF ChopInv
<1>4. SplitTypes' /\ chars' = chars /\ d' = d
  BY <1>1 DEF SplitTypes, Inside, SliceType, Chars, Data, chars
<1>5. pieces \in Seq(SliceType) /\ (\A i \in 1..Len(pieces) : Inside(pieces[i])) /\ Inside(rest)
  BY DEF ChopInv
<1>6. /\ Chars(rest) = SubSeq(chars, p + 1, whole.length) /\ SubSeq(chars, p + 1, whole.length) \in Seq(Bytes)
      /\ Len(SubSeq(chars, p + 1, whole.length)) = whole.length - p
  <2>1. p \in 0..whole.length /\ p \in Nat
    BY <1>2
  <2>2. Chars(rest) = SubSeq(chars, p + 1, whole.length)
    BY <1>2, <1>3, <2>1, RestIs DEF chars
  <2>3. QED
    BY <1>2, <2>1, <2>2
<1>7. chars # <<>>
  BY <1>2, <1>3
<1>8. ASSUME Inside(r.result)
      PROVE  /\ pieces' \in Seq(SliceType) /\ \A i \in 1..Len(pieces') : Inside(pieces'[i])
             /\ got \in Seq(Seq(Bytes)) /\ Read(pieces)' = Append(got, Chars(r.result))
  BY <1>1, <1>5, <1>8, ReadsOneMore DEF Read
<1>9. ASSUME r.rest = Empty, Inside(r.result),
             \/ delimiter.length = 0 /\ Append(got, Chars(r.result)) = <<chars>>
             \/ /\ delimiter.length > 0
                /\ LET ref == Split(chars, d)
                       n == Len(ref)
                   IN  Append(got, Chars(r.result))
                         = IF ref[n] = <<>> /\ ref[n - 1] = <<>> THEN SubSeq(ref, 1, n - 1)
                           ELSE IF ref[n] = <<>> THEN Append(SubSeq(ref, 1, n - 2), ref[n - 1] \o d)
                           ELSE ref
      PROVE  ChopInv'
  <2>1. Inside(rest') /\ rest'.length = 0 /\ ~(rest'.length > 0)
    BY <1>1, <1>9, TheEmptySlice
  <2>2. Read(pieces)' = Append(got, Chars(r.result))
    BY <1>8, <1>9
  <2>3. ChopsExactly'
    <3>1. Read(pieces)' = [i \in 1..Len(pieces) |-> Chars(pieces[i])]'
      BY DEF Read
    <3>2. delimiter.buffer' = d /\ delimiter.length' = delimiter.length /\ chars' = chars
      BY <1>1, <1>4
    <3> DEFINE got2 == [i \in 1..Len(pieces) |-> Chars(pieces[i])]'
    <3>3. got2 = Append(got, Chars(r.result))
      BY <2>2, <3>1
    <3> HIDE DEF got, r, F, got2
    <3>4. /\ chars = <<>> => got2 = <<>>
          /\ chars # <<>> /\ delimiter.length = 0 => got2 = <<chars>>
          /\ chars # <<>> /\ delimiter.length > 0 =>
               LET ref == Split(chars, d)
                   n == Len(ref)
               IN  got2 = IF ref[n] = <<>> /\ ref[n - 1] = <<>> THEN SubSeq(ref, 1, n - 1)
                          ELSE IF ref[n] = <<>> THEN Append(SubSeq(ref, 1, n - 2), ref[n - 1] \o d)
                          ELSE ref
      BY <1>2, <1>7, <1>9, <3>3
    <3> HIDE DEF d
    <3>5. QED
      BY <3>2, <3>4 DEF ChopsExactly, got2
  <2>4. QED
    BY <1>4, <1>8, <1>9, <2>1, <2>3 DEF ChopInv, Inside
<1>10. CASE delimiter.length = 0
  <2>1. r = [result |-> rest, rest |-> Empty]
    <3>1. rest.length \in Nat
      BY <1>5 DEF Inside, SliceType
    <3>2. QED
      BY <1>1, <1>10, <3>1, ChopAtNothing
  <2>2. p = 0 /\ pieces = <<>>
    BY <1>3, <1>10
  <2>3. Chars(rest) = chars
    <3>1. SubSeq(chars, 1, Len(chars)) = chars
      BY <1>2
    <3>2. QED
      BY <1>2, <1>6, <2>2, <3>1
  <2>4. got = <<>>
    BY <2>2 DEF Read
  <2>5. Append(got, Chars(rest)) = <<chars>>
    BY <2>3, <2>4
  <2>6. QED
    BY <1>5, <1>9, <1>10, <2>1, <2>5
<1>11. CASE delimiter.length > 0
  <2>1. Splits(F, chars, d, 0) /\ Split(chars, d) = F[0] /\ \A i \in 0..whole.length : F[i] \in Texts0
    BY <1>1, <1>11, TextsAre
  <2>2. ChopsAt(whole, delimiter, F, p, r)
    <3> HIDE DEF F
    <3>1. QED
      BY <1>2, <1>3, <1>11, <2>1, OneTurn DEF chars
  <2>3. got \in Seq(Seq(Bytes))
    BY <1>5, ReadsOneMore
  <2> DEFINE ref == Split(chars, d)
  <2>4. ref = got \o F[p]
    BY <1>3, <1>11
  <2> HIDE DEF F, d, got, r, ref
  <2>5. ASSUME NEW j \in p..whole.length, j + delimiter.length < whole.length,
               r = [result |-> View(whole, p, j - p), rest |-> RestOf(whole, j + delimiter.length)],
               F[p] = <<SubSeq(chars, p + 1, j)>> \o F[j + delimiter.length]
        PROVE  ChopInv'
    <3> DEFINE q == j + delimiter.length
    <3>1. q \in 0..(whole.length - 1) /\ q \in 0..whole.length /\ p \in Nat /\ j - p \in Nat /\ p + (j - p) = j /\ j <= whole.length
      BY <1>2, <2>5
    <3>2. r.result = View(whole, p, j - p) /\ r.rest = RestOf(whole, q)
      BY <2>5
    <3>3. Inside(r.result) /\ Chars(r.result) = SubSeq(chars, p + 1, j)
      <4>1. p + (j - p) <= whole.length
        BY <3>1
      <4>2. /\ Inside(View(whole, p, j - p))
            /\ Chars(View(whole, p, j - p)) = SubSeq(Chars(whole), p + 1, p + (j - p))
        BY <1>2, <3>1, <4>1, CharsOfView
      <4>3. QED
        BY <3>1, <3>2, <4>2 DEF chars
    <3> HIDE DEF q
    <3>4. Inside(rest') /\ rest'.length = whole.length - q
      BY <1>1, <1>2, <3>1, <3>2, RestIs DEF r
    <3>5. ~(rest'.length = 0)
      BY <1>2, <3>1, <3>4
    <3>6. ref = Append(got, Chars(r.result)) \o F[q]
      <4>1. F[q] \in Seq(Seq(Bytes)) /\ Chars(r.result) \in Seq(Bytes)
        BY <1>2, <2>1, <3>1, <3>3, CharsAre DEF Texts0, F, d
      <4>2. F[p] = <<Chars(r.result)>> \o F[q]
        BY <2>5, <3>3 DEF q
      <4> DEFINE x == Chars(r.result)
                 t == F[q]
      <4> HIDE DEF x, t
      <4>3. got \o (<<x>> \o t) = Append(got, x) \o t
        <5>1. x \in Seq(Bytes) /\ t \in Seq(Seq(Bytes))
          BY <4>1 DEF x, t
        <5>2. AppendsTo(Seq(Bytes), got, x, t)
          BY <2>3, <5>1, AppendThen
        <5>3. QED
          BY <5>2 DEF AppendsTo
      <4>4. QED
        BY <2>4, <4>2, <4>3 DEF x, t
    <3>7. Read(pieces)' = Append(got, Chars(r.result))
      BY <1>8, <3>3 DEF r, got
    <3>8. Split(chars, delimiter.buffer)' = Read(pieces)' \o PiecesOf(chars, delimiter.buffer)'[q]
      BY <1>4, <3>6, <3>7 DEF ref, F, d
    <3>9. rest' = RestOf(whole', q) /\ q \in 0..(whole'.length - 1)
      <4>1. rest' = RestOf(whole, q)
        BY <1>1, <3>2 DEF r
      <4>2. whole' = whole
        BY <1>1
      <4>3. RestOf(whole', q) = RestOf(whole, q)
        BY <4>2
      <4>4. QED
        BY <3>1, <4>1, <4>2, <4>3
    <3>10. ChopsExactly'
      BY <3>5 DEF ChopsExactly
    <3>11. /\ pieces' \in Seq(SliceType) /\ \A i \in 1..Len(pieces') : Inside(pieces'[i])
      BY <1>8, <3>3 DEF r
    <3>12. ~(delimiter'.length = 0)
      BY <1>1, <1>2, <1>11
    <3>13. \E a \in 0..(whole'.length - 1) :
              /\ rest' = RestOf(whole', a)
              /\ (delimiter.length = 0)' => a = 0 /\ pieces' = <<>>
              /\ (delimiter.length > 0)' =>
                   Split(chars, delimiter.buffer)' = Read(pieces)' \o PiecesOf(chars, delimiter.buffer)'[a]
      BY <3>8, <3>9, <3>12
    <3>14. QED
      BY <1>4, <3>4, <3>10, <3>11, <3>13 DEF ChopInv, Inside
  <2>6. ASSUME r = [result |-> RestOf(whole, p), rest |-> Empty],
               F[p] = <<SubSeq(chars, p + 1, whole.length)>>
        PROVE  ChopInv'
    <3> DEFINE x == SubSeq(chars, p + 1, whole.length)
    <3>0. r.result = RestOf(whole, p) /\ r.rest = Empty
      BY <2>6
    <3>1. r.result = rest /\ r.rest = Empty /\ Chars(r.result) = x
      BY <1>3, <1>6, <3>0
    <3>2. x \in Seq(Bytes) /\ x # <<>> /\ F[p] = <<x>>
      <4>1. whole.length - p > 0 /\ Len(x) = whole.length - p /\ x \in Seq(Bytes)
        BY <1>2, <1>3, <1>6
      <4>2. F[p] = <<x>>
        BY <2>6
      <4> HIDE DEF x
      <4>3. x # <<>>
        <5>1. Len(<<>>) = 0
          OBVIOUS
        <5>2. QED
          BY <4>1, <5>1
      <4>4. QED
        BY <4>1, <4>2, <4>3
    <3> HIDE DEF x
    <3>3. ref = Append(got, x) /\ Len(ref) = Len(got) + 1 /\ ref[Len(got) + 1] = x
      BY <2>3, <2>4, <3>2
    <3>4. ref[Len(ref)] # <<>>
      BY <3>2, <3>3
    <3>5. QED
      BY <1>5, <1>9, <1>11, <3>1, <3>3, <3>4 DEF r, ref, got, d
  <2>7. ASSUME NEW x \in Seq(Bytes), x # <<>>, SubSeq(chars, p + 1, whole.length) = x \o d,
               r = [result |-> RestOf(whole, p), rest |-> Empty], F[p] = <<x, <<>>>>
        PROVE  ChopInv'
    <3>1. r.result = rest /\ r.rest = Empty /\ Chars(r.result) = x \o d
      BY <1>3, <1>6, <2>7
    <3> DEFINE e == <<>>
    <3>2. e \in Seq(Bytes) /\ ref = got \o <<x, e>>
      BY <2>4, <2>7
    <3> HIDE DEF e
    <3>3. /\ Len(ref) = Len(got) + 2 /\ ref[Len(got) + 2] = e /\ ref[Len(got) + 1] = x
          /\ SubSeq(ref, 1, Len(got)) = got
      BY <2>3, <3>2, BeforeTheLastTwo
    <3>4. Len(ref) - 1 = Len(got) + 1 /\ Len(ref) - 2 = Len(got)
      BY <2>3, <3>3
    <3>5. ref[Len(ref)] = <<>> /\ ref[Len(ref) - 1] # <<>>
      BY <2>7, <3>3, <3>4 DEF e
    <3>6. Append(got, Chars(r.result)) = Append(SubSeq(ref, 1, Len(ref) - 2), ref[Len(ref) - 1] \o d)
      BY <3>1, <3>3, <3>4
    <3>7. QED
      BY <1>5, <1>9, <1>11, <3>1, <3>5, <3>6 DEF r, ref, got, d
  <2>8. ASSUME r = [result |-> Empty, rest |-> Empty], F[p] = <<<<>>, <<>>>>
        PROVE  ChopInv'
    <3>1. r.result = Empty /\ r.rest = Empty /\ Chars(r.result) = <<>> /\ Inside(r.result)
      BY <2>8, TheEmptySlice
    <3> DEFINE e == <<>>
    <3>2. e \in Seq(Bytes) /\ ref = got \o <<e, e>>
      BY <2>4, <2>8
    <3> HIDE DEF e
    <3>3. /\ Len(ref) = Len(got) + 2 /\ ref[Len(got) + 2] = e /\ ref[Len(got) + 1] = e
          /\ SubSeq(ref, 1, Len(got) + 1) = Append(got, e)
      BY <2>3, <3>2, BeforeTheLastTwo
    <3>4. Len(ref) - 1 = Len(got) + 1
      BY <2>3, <3>3
    <3>5. ref[Len(ref)] = <<>> /\ ref[Len(ref) - 1] = <<>>
      BY <3>3, <3>4 DEF e
    <3>6. Append(got, Chars(r.result)) = SubSeq(ref, 1, Len(ref) - 1)
      BY <3>1, <3>3, <3>4 DEF e
    <3>7. QED
      BY <1>9, <1>11, <3>1, <3>5, <3>6 DEF r, ref, got, d
  <2>9. \/ \E j \in p..whole.length :
             /\ j + delimiter.length < whole.length
             /\ r = [result |-> View(whole, p, j - p), rest |-> RestOf(whole, j + delimiter.length)]
             /\ F[p] = <<SubSeq(chars, p + 1, j)>> \o F[j + delimiter.length]
        \/ /\ r = [result |-> RestOf(whole, p), rest |-> Empty]
           /\ F[p] = <<SubSeq(chars, p + 1, whole.length)>>
        \/ \E x \in Seq(Bytes) :
             /\ x # <<>> /\ SubSeq(chars, p + 1, whole.length) = x \o d
             /\ r = [result |-> RestOf(whole, p), rest |-> Empty]
             /\ F[p] = <<x, <<>>>>
        \/ /\ r = [result |-> Empty, rest |-> Empty]
           /\ F[p] = <<<<>>, <<>>>>
    BY <1>2, <2>2 DEF ChopsAt, chars
  <2>10. QED
    BY <2>5, <2>6, <2>7, <2>8, <2>9
<1>12. QED
  BY <1>2, <1>10, <1>11

\* So does every step.
LEMMA ChopInvKept ==
  ASSUME ChopInv, [SplitNext]_splitVars
  PROVE  ChopInv'
<1>1. CASE Chop
  BY <1>1, EachChop
<1>2. CASE Batch \/ UNCHANGED splitVars
  <2>1. UNCHANGED <<whole, delimiter, rest, pieces, outCount>>
    BY <1>2 DEF Batch, splitVars
  <2>2. chars' = chars /\ SplitTypes' = SplitTypes
    BY <2>1 DEF SplitTypes, Inside, SliceType, Chars, Data, chars
  <2>3. ChopsExactly' = ChopsExactly
    BY <2>1, <2>2 DEF ChopsExactly
  <2>4. QED
    BY <2>1, <2>2, <2>3 DEF ChopInv
<1>3. QED
  BY <1>1, <1>2 DEF SplitNext

\* Chopping a text until nothing is left gives its pieces, for any texts and
\* delimiters; but nothing is said of a text that ends in a delimiter with
\* something before it.
THEOREM ChopsAreSplits == SplitSpec => []ChopsLikeSplit
<1>1. SplitInit => ChopInv
  BY ChopStarts
<1>2. ChopInv /\ [SplitNext]_splitVars => ChopInv'
  BY ChopInvKept
<1>3. ChopInv => ChopsLikeSplit
  BY DEF ChopInv, ChopsExactly, ChopsLikeSplit, Chopped, Promised, EndsInDelimiter
<1>4. QED
  BY <1>1, <1>2, <1>3, PTL DEF SplitSpec

-----------------------------------------------------------------------------
(* Splitting into a buffer.                                                 *)

\* What a call does from the i-th character on, for each number of slices that
\* may still begin, if g is what it does from there on.
Turn(g, s, d, count, i) ==
  [left \in 0..count |->
    IF i = s.length \/ left = 0 THEN [parts |-> <<View(s, i, 0)>>, used |-> i]
    ELSE IF ~StartsWith(Drop(s, i), d)
    THEN [g[i + 1][left] EXCEPT !.parts[1] = View(s, i, @.length + 1)]
    ELSE IF left = 1 THEN [parts |-> <<View(s, i, 0)>>, used |-> i + d.length]
    ELSE [g[i + d.length][left - 1] EXCEPT !.parts = <<View(s, i, 0)>> \o @]]

\* The function that SplitToOutBuffer is defined by.
Fills(g, s, d, count, k) == g = [i \in k..s.length |-> Turn(g, s, d, count, i)]

\* A turn looks only at what comes after it.
LEMMA TurnLooksAhead ==
  ASSUME NEW s \in SliceType, NEW d \in SliceType, d.length > 0, NEW count, NEW i \in 0..s.length, NEW f, NEW g,
         \A j \in (i + 1)..s.length : f[j] = g[j]
  PROVE  Turn(f, s, d, count, i) = Turn(g, s, d, count, i)
<1>1. s.length \in Nat /\ d.length \in Nat \ {0}
  BY DEF SliceType
<1>2. ASSUME i # s.length
      PROVE  f[i + 1] = g[i + 1]
  BY <1>1, <1>2
<1>3. ASSUME StartsWith(Drop(s, i), d)
      PROVE  f[i + d.length] = g[i + d.length]
  <2>1. Drop(s, i) = View(s, i, s.length - i)
    BY DropIs
  <2>2. Drop(s, i).length = s.length - i
    BY <2>1 DEF View
  <2>3. d.length <= s.length - i
    BY <1>3, <2>2 DEF StartsWith
  <2>4. i + d.length \in (i + 1)..s.length
    BY <1>1, <2>3
  <2>5. QED
    BY <2>4
<1>4. QED
  BY <1>2, <1>3 DEF Turn

\* It exists: each turn asks only for places behind its own.
LEMMA FillsExist ==
  ASSUME NEW s \in SliceType, NEW d \in SliceType, d.length > 0, NEW count
  PROVE  \E g : Fills(g, s, d, count, 0)
<1> DEFINE n == s.length
           From == {k \in 0..n : \E g : Fills(g, s, d, count, k)}
<1>0. n \in Nat
  BY DEF SliceType
<1>1. n \in From
  <2> DEFINE e == <<>>
             g == [i \in n..n |-> Turn(e, s, d, count, i)]
  <2>1. ASSUME NEW i \in n..n
        PROVE  Turn(e, s, d, count, i) = Turn(g, s, d, count, i)
    <3> HIDE DEF g, e
    <3>1. i \in 0..s.length /\ \A j \in (i + 1)..s.length : e[j] = g[j]
      BY <1>0
    <3>2. QED
      BY <3>1, TurnLooksAhead
  <2>2. g = [i \in n..n |-> Turn(g, s, d, count, i)]
    BY <2>1
  <2> HIDE DEF g
  <2>3. Fills(g, s, d, count, n)
    BY <2>2 DEF Fills
  <2>4. QED
    BY <1>0, <2>3
<1>2. PICK k \in From : \A j \in From : k <= j
  <2>1. From \in SUBSET Nat /\ From # {}
    BY <1>1
  <2> HIDE DEF From
  <2>2. QED
    BY <2>1, LeastNumber
<1>3. PICK f : Fills(f, s, d, count, k)
  BY <1>2
<1>4. k \in 0..n
  BY <1>2
<1>5. CASE k = 0
  BY <1>3, <1>5
<1>6. CASE k # 0
  <2>1. k - 1 \in 0..n /\ k - 1 \notin From
    BY <1>0, <1>2, <1>4, <1>6
  <2> DEFINE g == [i \in (k - 1)..n |-> IF i = k - 1 THEN Turn(f, s, d, count, i) ELSE f[i]]
  <2>2. \A i \in k..n : i \in (k - 1)..n /\ i # k - 1 /\ g[i] = f[i]
    BY <1>0, <1>4
  <2>3. ASSUME NEW i \in (k - 1)..n
        PROVE  Turn(g, s, d, count, i) = Turn(f, s, d, count, i)
    <3>1. i \in 0..s.length /\ \A j \in (i + 1)..s.length : j \in k..n
      BY <1>0, <1>4, <2>1
    <3>2. \A j \in (i + 1)..s.length : g[j] = f[j]
      BY <2>2, <3>1
    <3> HIDE DEF g
    <3>3. QED
      BY <3>1, <3>2, TurnLooksAhead
  <2>4. f = [i \in k..n |-> Turn(f, s, d, count, i)]
    BY <1>3 DEF Fills
  <2>5. ASSUME NEW i \in (k - 1)..n
        PROVE  g[i] = Turn(g, s, d, count, i)
    <3>1. CASE i = k - 1
      BY <2>3, <3>1
    <3>2. CASE i # k - 1
      <4>1. i \in k..n
        BY <1>0, <1>4, <3>2
      <4>2. f[i] = Turn(f, s, d, count, i)
        BY <2>4, <4>1
      <4>3. QED
        BY <2>2, <2>3, <4>1, <4>2
    <3>3. QED
      BY <3>1, <3>2
  <2>6. g = [i \in (k - 1)..n |-> g[i]]
    OBVIOUS
  <2> HIDE DEF g
  <2>7. g = [i \in (k - 1)..n |-> Turn(g, s, d, count, i)]
    BY <2>5, <2>6
  <2>8. Fills(g, s, d, count, k - 1)
    BY <2>7 DEF Fills
  <2>9. QED
    BY <2>1, <2>8
<1>7. QED
  BY <1>5, <1>6

\* A call with room for slices, something to split and something to split at.
LEMMA CallIs ==
  ASSUME NEW s \in SliceType, NEW d \in SliceType, s.length > 0, d.length > 0, NEW count \in Nat \ {0}
  PROVE  \E g : /\ Fills(g, s, d, count, 0)
                /\ SplitToOutBuffer(s, d, count) = [g[0][count] EXCEPT !.parts[1] = View(s, 0, @.length + s.length)]
<1> DEFINE g == CHOOSE g : Fills(g, s, d, count, 0)
<1>1. Fills(g, s, d, count, 0)
  BY FillsExist
<1>2. s.length # 0 /\ count # 0 /\ d.length # 0
  BY DEF SliceType
<1>3. SplitToOutBuffer(s, d, count) = [g[0][count] EXCEPT !.parts[1] = View(s, 0, @.length + s.length)]
  BY <1>2 DEF SplitToOutBuffer, Fills, Turn
<1>4. QED
  BY <1>1, <1>3

\* Where there is no delimiter, the first piece of what follows grows by one.
GrowsAt(cs, dl, f, i) ==
  \E e \in (i + 1)..Len(cs), t \in Seq(Seq(Bytes)) :
    f[i + 1] = <<SubSeq(cs, i + 2, e)>> \o t /\ f[i] = <<SubSeq(cs, i + 1, e)>> \o t

LEMMA PieceGrows ==
  ASSUME NEW cs \in Seq(Bytes), NEW dl \in Seq(Bytes), dl # <<>>, NEW f, Splits(f, cs, dl, 0),
         NEW i \in 0..(Len(cs) - 1), ~HitAt(cs, dl, i)
  PROVE  GrowsAt(cs, dl, f, i)
<1>1. Len(cs) \in Nat /\ i \in 0..Len(cs) /\ i + 1 \in 0..Len(cs) /\ i + 1 + 1 = i + 2
  OBVIOUS
<1>2. CASE \A j \in (i + 1)..Len(cs) : ~HitAt(cs, dl, j)
  <2>1. \A j \in i..Len(cs) : ~HitAt(cs, dl, j)
    BY <1>1, <1>2
  <2>2. f[i + 1] = <<SubSeq(cs, i + 2, Len(cs))>>
    <3>1. PICK p \in 0..Len(cs) : p = i + 1
      BY <1>1
    <3>2. f[p] = <<SubSeq(cs, p + 1, Len(cs))>>
      BY <1>2, <3>1, LastPiece
    <3>3. p + 1 = i + 2
      BY <1>1, <3>1
    <3>4. QED
      BY <3>1, <3>2, <3>3
  <2>3. f[i] = <<SubSeq(cs, i + 1, Len(cs))>>
    BY <1>1, <2>1, LastPiece
  <2>4. <<>> \in Seq(Seq(Bytes)) /\ Len(cs) \in (i + 1)..Len(cs)
    BY <1>1
  <2>5. \A x \in Seq(Bytes) : <<x>> \o <<>> = <<x>>
    OBVIOUS
  <2>6. SubSeq(cs, i + 2, Len(cs)) \in Seq(Bytes) /\ SubSeq(cs, i + 1, Len(cs)) \in Seq(Bytes)
    BY <1>1
  <2>7. /\ f[i + 1] = <<SubSeq(cs, i + 2, Len(cs))>> \o <<>>
        /\ f[i] = <<SubSeq(cs, i + 1, Len(cs))>> \o <<>>
    BY <2>2, <2>3, <2>5, <2>6
  <2>8. QED
    BY <2>4, <2>7 DEF GrowsAt
<1>3. ASSUME NEW j \in (i + 1)..Len(cs), HitAt(cs, dl, j), \A k \in (i + 1)..(j - 1) : ~HitAt(cs, dl, k)
      PROVE  GrowsAt(cs, dl, f, i)
  <2>1. (\A k \in i..(j - 1) : ~HitAt(cs, dl, k)) /\ j \in i..Len(cs)
    BY <1>1, <1>3
  <2>2. f[i] = <<SubSeq(cs, i + 1, j)>> \o f[j + Len(dl)] /\ j + Len(dl) \in (j + 1)..Len(cs)
    BY <1>1, <1>3, <2>1, NextPiece
  <2>3. f[i + 1] = <<SubSeq(cs, i + 2, j)>> \o f[j + Len(dl)]
    <3>1. PICK p \in 0..Len(cs) : p = i + 1
      BY <1>1
    <3>2. f[p] = <<SubSeq(cs, p + 1, j)>> \o f[j + Len(dl)]
      <4>1. j \in p..Len(cs) /\ HitAt(cs, dl, j) /\ \A k \in p..(j - 1) : ~HitAt(cs, dl, k)
        BY <1>3, <3>1
      <4>2. QED
        BY <4>1, NextPiece
    <3>3. p + 1 = i + 2
      BY <1>1, <3>1
    <3>4. QED
      BY <3>1, <3>2, <3>3
  <2>4. f[j + Len(dl)] \in Seq(Seq(Bytes))
    <3>1. j + Len(dl) \in 0..Len(cs)
      BY <1>1, <2>2
    <3>2. QED
      BY <3>1, PiecesAreTexts DEF Texts0
  <2>5. QED
    BY <2>2, <2>3, <2>4 DEF GrowsAt
<1>4. QED
  BY <1>1, <1>2, <1>3, NextHit

\* Changing the first element of a list is changing that of its first part.
Regrown(a, b, t, x, y) == a[1] = x /\ <<y>> \o t = [a EXCEPT ![1] = y] \o b

LEMMA Regrow ==
  ASSUME NEW S, NEW a \in Seq(S), Len(a) >= 1, NEW b \in Seq(S), NEW t \in Seq(S), NEW x \in S, NEW y \in S,
         <<x>> \o t = a \o b
  PROVE  Regrown(a, b, t, x, y)
<1> DEFINE a2 == [a EXCEPT ![1] = y]
           l == <<x>> \o t
           m == <<y>> \o t
<1>1. /\ l \in Seq(S) /\ Len(l) = Len(t) + 1 /\ l[1] = x
      /\ m \in Seq(S) /\ Len(m) = Len(t) + 1 /\ m[1] = y
      /\ \A k \in 2..(Len(t) + 1) : l[k] = t[k - 1] /\ m[k] = t[k - 1]
  OBVIOUS
<1>2. Len(a \o b) = Len(a) + Len(b) /\ (a \o b)[1] = a[1]
  OBVIOUS
<1>3. Len(t) + 1 = Len(a) + Len(b) /\ a[1] = x
  BY <1>1, <1>2
<1>4. a2 \in Seq(S) /\ Len(a2) = Len(a) /\ a2[1] = y /\ \A k \in 2..Len(a) : a2[k] = a[k]
  OBVIOUS
<1> HIDE DEF a2, l, m
<1>5. Len(a2 \o b) = Len(a2) + Len(b) /\ a2 \o b \in Seq(S)
  <2>1. a2 \in Seq(S) /\ b \in Seq(S)
    BY <1>4
  <2>2. QED
    BY <2>1
<1>6. ASSUME NEW k \in 1..(Len(a) + Len(b))
      PROVE  m[k] = (a2 \o b)[k]
  <2>1. CASE k = 1
    BY <1>1, <1>4, <2>1
  <2>2. CASE k \in 2..Len(a)
    <3>1. (a2 \o b)[k] = a2[k] /\ (a \o b)[k] = a[k]
      BY <1>4, <2>2
    <3>2. k \in 2..(Len(t) + 1)
      BY <1>3, <2>2
    <3>3. QED
      BY <1>1, <1>4, <2>2, <3>1, <3>2 DEF l
  <2>3. CASE k > Len(a)
    <3>1. (a2 \o b)[k] = b[k - Len(a)] /\ (a \o b)[k] = b[k - Len(a)]
      BY <1>4, <2>3
    <3>2. k \in 2..(Len(t) + 1)
      BY <1>3, <2>3
    <3>3. QED
      BY <1>1, <3>1, <3>2 DEF l
  <2>4. k = 1 \/ k \in 2..Len(a) \/ k > Len(a)
    OBVIOUS
  <2>5. QED
    BY <2>1, <2>2, <2>3, <2>4
<1>7. m = a2 \o b
  <2> DEFINE z == a2 \o b
  <2>1. m \in Seq(S) /\ z \in Seq(S) /\ Len(m) = Len(z)
    BY <1>1, <1>3, <1>4, <1>5
  <2>2. \A k \in 1..Len(m) : m[k] = z[k]
    BY <1>1, <1>3, <1>6
  <2> HIDE DEF z
  <2>3. m = z
    BY <2>1, <2>2, SeqEqual
  <2>4. QED
    BY <2>3 DEF z
<1>8. QED
  BY <1>3, <1>7 DEF m, a2, Regrown

LEMMA RegrowTexts ==
  ASSUME NEW a \in Seq(Seq(Bytes)), Len(a) >= 1, NEW b \in Seq(Seq(Bytes)), NEW t \in Seq(Seq(Bytes)),
         NEW x \in Seq(Bytes), NEW y \in Seq(Bytes), <<x>> \o t = a \o b
  PROVE  Regrown(a, b, t, x, y)
BY Regrow

\* What a list of slices reads.
LEMMA ReadsOf ==
  ASSUME NEW ss \in Seq(SliceType), \A k \in 1..Len(ss) : Inside(ss[k])
  PROVE  /\ Read(ss) \in Seq(Seq(Bytes)) /\ Len(Read(ss)) = Len(ss)
         /\ \A k \in 1..Len(ss) : Read(ss)[k] = Chars(ss[k])
<1>1. \A k \in 1..Len(ss) : Chars(ss[k]) \in Seq(Bytes)
  BY CharsAre
<1>2. QED
  BY <1>1 DEF Read

\* A slice put in front.
LEMMA ReadsFirst ==
  ASSUME NEW ss \in Seq(SliceType), \A k \in 1..Len(ss) : Inside(ss[k]), NEW v, Inside(v)
  PROVE  /\ <<v>> \o ss \in Seq(SliceType) /\ Len(<<v>> \o ss) = Len(ss) + 1 /\ (<<v>> \o ss)[1] = v
         /\ \A k \in 1..Len(<<v>> \o ss) : Inside((<<v>> \o ss)[k])
         /\ Read(<<v>> \o ss) = <<Chars(v)>> \o Read(ss)
<1> DEFINE m == <<v>> \o ss
           x == Chars(v)
           t == Read(ss)
           n == <<x>> \o t
<1>1. v \in SliceType /\ x \in Seq(Bytes)
  BY CharsAre DEF Inside
<1>2. t \in Seq(Seq(Bytes)) /\ Len(t) = Len(ss) /\ \A k \in 1..Len(ss) : t[k] = Chars(ss[k])
  BY ReadsOf
<1>3. m \in Seq(SliceType) /\ Len(m) = Len(ss) + 1 /\ m[1] = v /\ \A k \in 2..(Len(ss) + 1) : m[k] = ss[k - 1]
  BY <1>1
<1> HIDE DEF x, t
<1>4. n \in Seq(Seq(Bytes)) /\ Len(n) = Len(t) + 1 /\ n[1] = x /\ \A k \in 2..(Len(t) + 1) : n[k] = t[k - 1]
  BY <1>1, <1>2
<1> HIDE DEF m, n
<1>5. ASSUME NEW k \in 1..(Len(ss) + 1)
      PROVE  Inside(m[k]) /\ Chars(m[k]) = n[k]
  <2>1. CASE k = 1
    BY <1>3, <1>4, <2>1 DEF x
  <2>2. CASE k # 1
    <3>1. k \in 2..(Len(ss) + 1) /\ k - 1 \in 1..Len(ss)
      BY <2>2
    <3>2. QED
      BY <1>2, <1>3, <1>4, <3>1
  <2>3. QED
    BY <2>1, <2>2
<1>6. Read(m) \in Seq(Seq(Bytes)) /\ Len(Read(m)) = Len(m) /\ \A k \in 1..Len(m) : Read(m)[k] = Chars(m[k])
  BY <1>3, <1>5, ReadsOf
<1>7. Read(m) = n
  BY <1>2, <1>3, <1>4, <1>5, <1>6, SeqEqual
<1>8. QED
  BY <1>3, <1>5, <1>7 DEF m, n, x, t

\* The first slice replaced.
LEMMA ReadsChanged ==
  ASSUME NEW ss \in Seq(SliceType), \A k \in 1..Len(ss) : Inside(ss[k]), Len(ss) >= 1, NEW v, Inside(v)
  PROVE  /\ [ss EXCEPT ![1] = v] \in Seq(SliceType) /\ Len([ss EXCEPT ![1] = v]) = Len(ss) /\ [ss EXCEPT ![1] = v][1] = v
         /\ \A k \in 1..Len(ss) : Inside([ss EXCEPT ![1] = v][k])
         /\ Read([ss EXCEPT ![1] = v]) = [Read(ss) EXCEPT ![1] = Chars(v)]
<1> DEFINE m == [ss EXCEPT ![1] = v]
           x == Chars(v)
           t == Read(ss)
           n == [t EXCEPT ![1] = x]
<1>1. v \in SliceType /\ x \in Seq(Bytes)
  BY CharsAre DEF Inside
<1>2. t \in Seq(Seq(Bytes)) /\ Len(t) = Len(ss) /\ \A k \in 1..Len(ss) : t[k] = Chars(ss[k])
  BY ReadsOf
<1>3. m \in Seq(SliceType) /\ Len(m) = Len(ss) /\ m[1] = v /\ \A k \in 2..Len(ss) : m[k] = ss[k]
  BY <1>1
<1> HIDE DEF x, t
<1>4. n \in Seq(Seq(Bytes)) /\ Len(n) = Len(t) /\ n[1] = x /\ \A k \in 2..Len(t) : n[k] = t[k]
  BY <1>1, <1>2
<1> HIDE DEF m, n
<1>5. ASSUME NEW k \in 1..Len(ss)
      PROVE  Inside(m[k]) /\ Chars(m[k]) = n[k]
  <2>1. CASE k = 1
    BY <1>3, <1>4, <2>1 DEF x
  <2>2. CASE k # 1
    <3>1. k \in 2..Len(ss)
      BY <2>2
    <3>2. QED
      BY <1>2, <1>3, <1>4, <3>1
  <2>3. QED
    BY <2>1, <2>2
<1>6. Read(m) \in Seq(Seq(Bytes)) /\ Len(Read(m)) = Len(m) /\ \A k \in 1..Len(m) : Read(m)[k] = Chars(m[k])
  BY <1>3, <1>5, ReadsOf
<1>7. Read(m) = n
  BY <1>2, <1>3, <1>4, <1>5, <1>6, SeqEqual
<1>8. QED
  BY <1>3, <1>5, <1>7 DEF m, n, x, t

\* What a call makes of the rest of w behind c, from the i-th of its characters
\* on, with left slices to begin: these slices are the next pieces, all of them
\* or as many as may begin.  The first is a part of w.
Good(w, f, c, r, i, left) ==
  /\ r \in [parts : Seq(SliceType), used : Nat]
  /\ c + r.used <= w.length
  /\ Len(r.parts) \in 1..left
  /\ \A k \in 1..Len(r.parts) : Inside(r.parts[k])
  /\ r.parts[1] = View(w, c + i, r.parts[1].length) /\ c + i + r.parts[1].length <= w.length
  /\ \/ c + r.used = w.length /\ f[c + i] = Read(r.parts)
     \/ Len(r.parts) = left /\ f[c + i] = Read(r.parts) \o f[c + r.used]

\* A slice of no characters.
LEMMA NoSlice ==
  ASSUME NEW w, Inside(w), NEW q \in 0..w.length
  PROVE  /\ Inside(View(w, q, 0)) /\ View(w, q, 0).length = 0
         /\ <<View(w, q, 0)>> \in Seq(SliceType)
         /\ Read(<<View(w, q, 0)>>) = <<<<>>>> /\ Chars(View(w, q, 0)) = <<>>
<1>1. w \in SliceType /\ w.length \in Nat /\ q \in Nat /\ q + 0 <= w.length
  BY DEF Inside, SliceType
<1> DEFINE v == View(w, q, 0)
<1>2. Inside(v)
  BY <1>1, CharsOfView
<1>3. v.length = 0 /\ v \in SliceType
  BY <1>1, ViewIs
<1> HIDE DEF v
<1>4. Chars(v) = <<>>
  BY <1>3 DEF Chars
<1>5. <<v>> \in Seq(SliceType) /\ Len(<<v>>) = 1 /\ <<v>>[1] = v
  BY <1>3
<1>6. Read(<<v>>) = <<<<>>>>
  BY <1>4, <1>5 DEF Read
<1>7. QED
  BY <1>2, <1>3, <1>4, <1>5, <1>6 DEF v

\* At the end of the text: one empty slice.
LEMMA GoodAtEnd ==
  ASSUME NEW w, Inside(w), NEW f, NEW c \in 0..w.length, NEW i \in Nat, c + i = w.length,
         f[w.length] = <<<<>>>>, NEW left \in Nat \ {0}
  PROVE  Good(w, f, c, [parts |-> <<View(w, c + i, 0)>>, used |-> i], i, left)
<1> DEFINE v == View(w, c + i, 0)
           r == [parts |-> <<v>>, used |-> i]
<1>1. w.length \in Nat /\ c + i \in 0..w.length
  BY DEF Inside, SliceType
<1>2. Inside(v) /\ v.length = 0 /\ <<v>> \in Seq(SliceType) /\ Read(<<v>>) = <<<<>>>>
  BY <1>1, NoSlice
<1>3. v = View(w, c + i, v.length)
  BY <1>2
<1> HIDE DEF v
<1>4. r \in [parts : Seq(SliceType), used : Nat] /\ r.parts = <<v>> /\ r.used = i
  BY <1>2
<1>5. Len(<<v>>) = 1 /\ <<v>>[1] = v
  OBVIOUS
<1> HIDE DEF r
<1>6. Good(w, f, c, r, i, left)
  BY <1>1, <1>2, <1>3, <1>4, <1>5 DEF Good
<1>7. QED
  BY <1>6 DEF r, v

\* A delimiter behind the last slice that may begin.
LEMMA GoodAtLast ==
  ASSUME NEW w, Inside(w), NEW f, NEW c \in 0..w.length, NEW i \in Nat, NEW n \in Nat, c + i + n <= w.length,
         f[c + i] = <<<<>>>> \o f[c + (i + n)]
  PROVE  Good(w, f, c, [parts |-> <<View(w, c + i, 0)>>, used |-> i + n], i, 1)
<1> DEFINE v == View(w, c + i, 0)
           r == [parts |-> <<v>>, used |-> i + n]
<1>1. w.length \in Nat /\ c + i \in 0..w.length
  BY DEF Inside, SliceType
<1>2. Inside(v) /\ v.length = 0 /\ <<v>> \in Seq(SliceType) /\ Read(<<v>>) = <<<<>>>>
  BY <1>1, NoSlice
<1>3. v = View(w, c + i, v.length)
  BY <1>2
<1> HIDE DEF v
<1>4. r \in [parts : Seq(SliceType), used : Nat] /\ r.parts = <<v>> /\ r.used = i + n
  BY <1>2
<1>5. Len(<<v>>) = 1 /\ <<v>>[1] = v
  OBVIOUS
<1>6. c + r.used <= w.length /\ c + i + v.length <= w.length /\ 1 \in 1..1
  <2>1. c + (i + n) <= w.length /\ c + i + 0 <= w.length
    BY <1>1
  <2>2. QED
    BY <1>2, <1>4, <2>1
<1> HIDE DEF r
<1>7. f[c + i] = Read(r.parts) \o f[c + r.used]
  BY <1>2, <1>4
<1>8. \A k \in 1..Len(r.parts) : Inside(r.parts[k])
  BY <1>2, <1>4, <1>5
<1>9. Good(w, f, c, r, i, 1)
  BY <1>3, <1>4, <1>5, <1>6, <1>7, <1>8 DEF Good
<1>10. QED
  BY <1>9 DEF r, v

\* A delimiter: an empty slice is in front.
LEMMA GoodAtHit ==
  ASSUME NEW w, Inside(w), NEW f, NEW c \in 0..w.length, NEW i \in Nat, NEW n \in Nat, c + i <= w.length,
         NEW left \in Nat \ {0, 1}, NEW r, Good(w, f, c, r, i + n, left - 1),
         f[c + i] = <<<<>>>> \o f[c + (i + n)], \A q \in 0..w.length : f[q] \in Texts0
  PROVE  Good(w, f, c, [r EXCEPT !.parts = <<View(w, c + i, 0)>> \o @], i, left)
<1> DEFINE v == View(w, c + i, 0)
           ss == r.parts
           m == <<v>> \o ss
           s == [r EXCEPT !.parts = m]
<1>1. w.length \in Nat /\ c + i \in 0..w.length
  BY DEF Inside, SliceType
<1>2. /\ r \in [parts : Seq(SliceType), used : Nat] /\ ss \in Seq(SliceType) /\ r.used \in Nat
      /\ c + r.used <= w.length /\ Len(ss) \in 1..(left - 1) /\ \A k \in 1..Len(ss) : Inside(ss[k])
  BY DEF Good
<1>3. \/ c + r.used = w.length /\ f[c + (i + n)] = Read(ss)
      \/ Len(ss) = left - 1 /\ f[c + (i + n)] = Read(ss) \o f[c + r.used]
  BY DEF Good
<1>4. Inside(v) /\ v.length = 0 /\ Chars(v) = <<>>
  BY <1>1, NoSlice
<1>5. v = View(w, c + i, v.length)
  BY <1>4
<1> HIDE DEF v, ss
<1>6. /\ m \in Seq(SliceType) /\ Len(m) = Len(ss) + 1 /\ m[1] = v /\ \A k \in 1..Len(m) : Inside(m[k])
      /\ Read(m) = <<<<>>>> \o Read(ss)
  BY <1>2, <1>4, ReadsFirst
<1>7. Read(ss) \in Seq(Seq(Bytes))
  BY <1>2, ReadsOf
<1> HIDE DEF m
<1>8. s \in [parts : Seq(SliceType), used : Nat] /\ s.parts = m /\ s.used = r.used
  BY <1>2, <1>6
<1> HIDE DEF s
<1>9. ASSUME f[c + (i + n)] = Read(ss) \o f[c + r.used]
      PROVE  f[c + i] = Read(m) \o f[c + r.used]
  <2> DEFINE a == Read(ss)
             b == f[c + r.used]
             e == <<>>
  <2>1. b \in Seq(Seq(Bytes)) /\ e \in Seq(Bytes)
    <3>1. c + r.used \in 0..w.length
      BY <1>1, <1>2
    <3>2. QED
      BY <3>1 DEF Texts0
  <2>2. a \in Seq(Seq(Bytes))
    BY <1>7
  <2> HIDE DEF a, b, e
  <2>3. <<e>> \o (a \o b) = (<<e>> \o a) \o b
    <3>1. <<e>> \in Seq(Seq(Bytes))
      BY <2>1
    <3>2. QED
      BY <2>1, <2>2, <3>1, ThreeTexts
  <2>4. QED
    BY <1>6, <1>9, <2>3 DEF a, b, e
<1>10. \/ c + r.used = w.length /\ f[c + i] = Read(m)
       \/ Len(m) = left /\ f[c + i] = Read(m) \o f[c + r.used]
  <2>1. CASE c + r.used = w.length /\ f[c + (i + n)] = Read(ss)
    BY <1>6, <2>1
  <2>2. CASE Len(ss) = left - 1 /\ f[c + (i + n)] = Read(ss) \o f[c + r.used]
    <3>1. Len(m) = left
      BY <1>6, <2>2
    <3>2. QED
      BY <1>9, <2>2, <3>1
  <2>3. QED
    BY <1>3, <2>1, <2>2
<1>11. Len(m) \in 1..left /\ c + i + v.length <= w.length
  BY <1>1, <1>2, <1>4, <1>6
<1>12. Good(w, f, c, s, i, left)
  BY <1>2, <1>5, <1>6, <1>8, <1>10, <1>11 DEF Good
<1>13. QED
  BY <1>12 DEF s, m, v, ss

\* A sum, by name: spelled out, the provers would put it wherever n is.
IsSum(a, b, n) == n = a + b

\* Another character: the first slice grows by it.
LEMMA GoodAtChar ==
  ASSUME NEW w, Inside(w), NEW dl \in Seq(Bytes), dl # <<>>, NEW f, Splits(f, Chars(w), dl, 0),
         NEW c \in Nat, NEW i \in Nat, NEW q \in 0..(w.length - 1), IsSum(c, i, q), ~HitAt(Chars(w), dl, q),
         NEW left \in Nat \ {0}, NEW r, Good(w, f, c, r, i + 1, left)
  PROVE  Good(w, f, c, [r EXCEPT !.parts[1] = View(w, c + i, @.length + 1)], i, left)
<1> DEFINE cs == Chars(w)
<1>1. w.length \in Nat /\ w \in SliceType /\ q \in Nat /\ c \in Nat /\ q < w.length
  BY DEF Inside, SliceType
<1>01. q = c + i
  BY DEF IsSum
<1>0. PICK ss : ss = r.parts
  OBVIOUS
<1>2. /\ r \in [parts : Seq(SliceType), used : Nat] /\ ss \in Seq(SliceType) /\ r.used \in Nat
      /\ c + r.used <= w.length /\ Len(ss) \in 1..left /\ \A k \in 1..Len(ss) : Inside(ss[k])
      /\ ss[1] = View(w, c + (i + 1), ss[1].length) /\ c + (i + 1) + ss[1].length <= w.length
  BY <1>0 DEF Good
<1>20. PICK q1 \in Nat : q1 = q + 1
  BY <1>1
<1>21. c + (i + 1) = q1
  BY <1>01, <1>1, <1>20
<1>3. \/ c + r.used = w.length /\ f[q1] = Read(ss)
      \/ Len(ss) = left /\ f[q1] = Read(ss) \o f[c + r.used]
  BY <1>0, <1>21 DEF Good
<1>4. cs \in Seq(Bytes) /\ Len(cs) = w.length
  BY CharsAre
<1>41. 1 \in 1..Len(ss) /\ Len(ss) >= 1
  BY <1>2
<1>42. PICK o : o = ss[1]
  OBVIOUS
<1>5. o \in SliceType /\ o.length \in Nat /\ Inside(o)
  <2>1. Inside(o)
    BY <1>2, <1>41, <1>42
  <2>2. QED
    BY <2>1 DEF Inside, SliceType
<1>50. PICK n \in Nat : n = o.length
  BY <1>5
<1>51. PICK n1 \in Nat : n1 = n + 1
  OBVIOUS
<1>53. o = View(w, q1, n) /\ q1 + n <= w.length
  BY <1>2, <1>21, <1>42, <1>50
<1>52. q + n1 <= w.length /\ q + n1 = q1 + n
  BY <1>1, <1>20, <1>51, <1>53
<1> DEFINE v == View(w, q, n1)
           m == [ss EXCEPT ![1] = v]
           s == [r EXCEPT !.parts = m]
<1>6. Inside(v) /\ Chars(v) = SubSeq(cs, q + 1, q + n1) /\ v = View(w, q, v.length) /\ v.length = n1
  <2>1. Inside(v) /\ Chars(v) = SubSeq(cs, q + 1, q + n1)
    BY <1>1, <1>52, CharsOfView
  <2>2. v.length = n1
    BY <1>1, ViewIs
  <2>3. QED
    BY <2>1, <2>2
<1>7. Chars(o) = SubSeq(cs, q1 + 1, q1 + n)
  BY <1>53, CharsOfView
<1>8. PICK e \in q1..Len(cs), t \in Seq(Seq(Bytes)) :
        f[q1] = <<SubSeq(cs, q1 + 1, e)>> \o t /\ f[q] = <<SubSeq(cs, q + 1, e)>> \o t
  <2>1. q \in 0..(Len(cs) - 1) /\ ~HitAt(cs, dl, q) /\ Splits(f, cs, dl, 0)
    BY <1>1, <1>4
  <2> HIDE DEF cs
  <2>2. QED
    <3>1. GrowsAt(cs, dl, f, q)
      BY <1>4, <2>1, PieceGrows
    <3>2. q + 2 = q1 + 1 /\ q + 1 = q1
      BY <1>1, <1>20
    <3>3. QED
      BY <3>1, <3>2 DEF GrowsAt
<1>9. \A p \in 0..w.length : f[p] \in Texts0
  <2>1. Splits(f, cs, dl, 0)
    OBVIOUS
  <2> HIDE DEF cs
  <2>2. QED
    BY <1>4, <2>1, PiecesAreTexts
<1> HIDE DEF cs, v
<1>10. /\ m \in Seq(SliceType) /\ Len(m) = Len(ss) /\ m[1] = v /\ \A k \in 1..Len(ss) : Inside(m[k])
       /\ Read(m) = [Read(ss) EXCEPT ![1] = Chars(v)]
  <2>1. ss \in Seq(SliceType) /\ (\A k \in 1..Len(ss) : Inside(ss[k])) /\ Len(ss) >= 1 /\ Inside(v)
    BY <1>2, <1>6, <1>41
  <2>2. QED
    BY <2>1, ReadsChanged
<1>11. Read(ss) \in Seq(Seq(Bytes)) /\ Len(Read(ss)) = Len(ss) /\ Read(ss)[1] = Chars(o)
  <2>1. ss \in Seq(SliceType) /\ \A k \in 1..Len(ss) : Inside(ss[k])
    BY <1>2
  <2>2. Read(ss) \in Seq(Seq(Bytes)) /\ Len(Read(ss)) = Len(ss) /\ \A k \in 1..Len(ss) : Read(ss)[k] = Chars(ss[k])
    BY <2>1, ReadsOf
  <2>3. QED
    BY <1>41, <1>42, <2>2
<1>110. Read(m) \in Seq(Seq(Bytes))
  <2>1. m \in Seq(SliceType) /\ \A k \in 1..Len(m) : Inside(m[k])
    BY <1>10
  <2> HIDE DEF m
  <2>2. QED
    BY <2>1, ReadsOf
<1> HIDE DEF m
<1>12. s \in [parts : Seq(SliceType), used : Nat] /\ s.parts = m /\ s.used = r.used
  BY <1>2, <1>10
<1> HIDE DEF s
<1>13. ASSUME NEW b \in Seq(Seq(Bytes)), f[q1] = Read(ss) \o b
       PROVE  f[q] = Read(m) \o b
  <2> DEFINE x == SubSeq(cs, q1 + 1, e)
             y == SubSeq(cs, q + 1, e)
             a == Read(ss)
  <2>0. e \in Nat /\ q1 <= e /\ e <= Len(cs) /\ Len(cs) \in Nat
    BY <1>4, <1>8, <1>20
  <2>1. x \in Seq(Bytes) /\ y \in Seq(Bytes) /\ Len(x) = e - q1
    <3>1. q1 + 1 \in 1..(Len(cs) + 1) /\ q + 1 \in 1..(Len(cs) + 1) /\ e - q1 \in Nat
      BY <1>1, <1>20, <2>0
    <3>5. PICK a1 \in 1..(Len(cs) + 1), a2 \in 1..(Len(cs) + 1) : a1 = q1 + 1 /\ a2 = q + 1
      BY <3>1
    <3>6. e \in 0..Len(cs)
      BY <2>0
    <3>7. /\ Len(SubSeq(cs, a1, e)) = IF a1 <= e THEN e - a1 + 1 ELSE 0
          /\ SubSeq(cs, a1, e) \in Seq(Bytes) /\ SubSeq(cs, a2, e) \in Seq(Bytes)
      BY <1>4, <3>6, LengthOfPart
    <3>2. x \in Seq(Bytes) /\ y \in Seq(Bytes)
      BY <3>5, <3>7
    <3>3. Len(x) = IF q1 + 1 <= e THEN e - (q1 + 1) + 1 ELSE 0
      BY <3>5, <3>7
    <3>4. QED
      BY <1>20, <2>0, <3>2, <3>3
  <2>2. a \in Seq(Seq(Bytes)) /\ Len(a) >= 1
    BY <1>11, <1>41
  <2>20. <<x>> \o t = a \o b
    BY <1>8, <1>13
  <2> HIDE DEF x, y, a
  <2>30. b \in Seq(Seq(Bytes)) /\ t \in Seq(Seq(Bytes))
    BY <1>8, <1>13
  <2>31. Regrown(a, b, t, x, y)
    BY <2>1, <2>2, <2>20, <2>30, RegrowTexts
  <2>3. a[1] = x /\ <<y>> \o t = [a EXCEPT ![1] = y] \o b
    BY <2>31 DEF Regrown
  <2>4. Len(Chars(o)) = n
    BY <1>5, <1>50, CharsAre
  <2>5. e = q + n1
    <3>1. x = Chars(o)
      BY <1>11, <2>3 DEF a
    <3>2. n = e - q1
      BY <2>1, <2>4, <3>1
    <3>3. QED
      BY <1>1, <1>20, <1>50, <1>51, <2>0, <3>2
  <2>6. y = Chars(v)
    BY <1>6, <2>5 DEF y
  <2>7. f[q] = <<y>> \o t
    BY <1>8 DEF y
  <2>8. QED
    BY <1>10, <2>3, <2>6, <2>7 DEF a
<1>14. \/ c + r.used = w.length /\ f[q] = Read(m)
       \/ Len(m) = left /\ f[q] = Read(m) \o f[c + r.used]
  <2>1. CASE c + r.used = w.length /\ f[q1] = Read(ss)
    <3>1. <<>> \in Seq(Seq(Bytes)) /\ Read(ss) \o <<>> = Read(ss) /\ Read(m) \o <<>> = Read(m)
      BY <1>11, <1>110
    <3>2. f[q1] = Read(ss) \o <<>>
      BY <2>1, <3>1
    <3>3. f[q] = Read(m) \o <<>>
      BY <1>13, <3>1, <3>2
    <3>4. QED
      BY <2>1, <3>1, <3>3
  <2>2. CASE Len(ss) = left /\ f[q1] = Read(ss) \o f[c + r.used]
    <3>1. c + r.used \in 0..w.length
      BY <1>1, <1>2
    <3>2. f[c + r.used] \in Seq(Seq(Bytes))
      BY <1>9, <3>1 DEF Texts0
    <3>3. f[q] = Read(m) \o f[c + r.used]
      BY <1>13, <2>2, <3>2
    <3>4. QED
      BY <1>10, <2>2, <3>3
  <2>3. QED
    BY <1>3, <2>1, <2>2
<1>15. q + v.length <= w.length /\ Len(m) \in 1..left
  BY <1>2, <1>6, <1>10, <1>52
<1>16. Good(w, f, c, s, i, left)
  <2>1. /\ s \in [parts : Seq(SliceType), used : Nat]
        /\ c + s.used <= w.length
        /\ Len(s.parts) \in 1..left
        /\ \A k \in 1..Len(s.parts) : Inside(s.parts[k])
    BY <1>2, <1>10, <1>12, <1>15
  <2>2. s.parts[1] = View(w, c + i, s.parts[1].length) /\ c + i + s.parts[1].length <= w.length
    BY <1>01, <1>6, <1>10, <1>12, <1>15
  <2>3. \/ c + s.used = w.length /\ f[c + i] = Read(s.parts)
        \/ Len(s.parts) = left /\ f[c + i] = Read(s.parts) \o f[c + s.used]
    BY <1>01, <1>12, <1>14
  <2>4. QED
    BY <2>1, <2>2, <2>3 DEF Good
<1>17. s = [r EXCEPT !.parts[1] = View(w, c + i, @.length + 1)]
  BY <1>0, <1>01, <1>42, <1>50, <1>51 DEF s, m, v
<1>18. QED
  BY <1>16, <1>17

\* So all a call does is good, from its last character back to its first.
LEMMA CallIsGood ==
  ASSUME NEW w, Inside(w), NEW d, Inside(d), d.length > 0, NEW f, Splits(f, Chars(w), Chars(d), 0),
         NEW c \in 0..w.length, NEW count \in Nat, NEW g, Fills(g, RestOf(w, c), d, count, 0)
  PROVE  \A i \in 0..(w.length - c) : \A left \in 1..count : Good(w, f, c, g[i][left], i, left)
<1> DEFINE s == RestOf(w, c)
           cs == Chars(w)
           dl == Chars(d)
           n == w.length - c
           Wrong == {k \in 0..n : \E left \in 1..count : ~Good(w, f, c, g[n - k][left], n - k, left)}
<1>1. /\ w.length \in Nat /\ d.length \in Nat \ {0} /\ c \in Nat /\ n \in Nat /\ c + n = w.length
      /\ w \in SliceType /\ d \in SliceType
  BY DEF Inside, SliceType
<1>2. cs \in Seq(Bytes) /\ Len(cs) = w.length /\ dl \in Seq(Bytes) /\ Len(dl) = d.length /\ dl # <<>>
  BY <1>1, CharsAre
<1>3. Inside(s) /\ s \in SliceType /\ s.length = n
  BY RestIs DEF Inside
<1>4. Splits(f, cs, dl, 0) /\ \A q \in 0..w.length : f[q] \in Texts0
  <2>1. Splits(f, cs, dl, 0)
    OBVIOUS
  <2> HIDE DEF cs, dl
  <2>2. QED
    BY <1>2, <2>1, PiecesAreTexts
<1>5. SUFFICES ASSUME Wrong # {} PROVE FALSE
  <2>1. \A i \in 0..n : n - i \in 0..n /\ n - (n - i) = i
    BY <1>1
  <2>2. ASSUME NEW i \in 0..n, NEW left \in 1..count
        PROVE  Good(w, f, c, g[i][left], i, left)
    <3>1. n - i \in 0..n /\ n - (n - i) = i /\ n - i \notin Wrong
      BY <1>5, <2>1
    <3>2. QED
      BY <2>2, <3>1
  <2>3. QED
    BY <2>2
<1>6. PICK k \in Wrong : \A m \in Wrong : k <= m
  <2>1. Wrong \in SUBSET Nat
    OBVIOUS
  <2> HIDE DEF Wrong
  <2>2. QED
    BY <1>5, <2>1, LeastNumber
<1> DEFINE i == n - k
<1>7. i \in 0..n /\ k \in 0..n /\ \E left \in 1..count : ~Good(w, f, c, g[i][left], i, left)
  BY <1>1, <1>6
<1>8. ASSUME NEW m \in (i + 1)..n, NEW left \in 1..count
      PROVE  Good(w, f, c, g[m][left], m, left)
  <2>1. n - m \in 0..n /\ n - m < k /\ n - (n - m) = m
    BY <1>1, <1>7
  <2>2. n - m \notin Wrong
    BY <1>1, <1>6, <1>7, <2>1
  <2>3. QED
    BY <2>1, <2>2
<1> HIDE DEF i, Wrong, n, s
<1>9. g[i] = Turn(g, s, d, count, i)
  BY <1>3, <1>7 DEF Fills, s
<1>10. /\ i \in Nat /\ c + i \in 0..w.length /\ c + i \in 0..Len(cs) /\ i \in 0..(w.length - c)
       /\ i # n => c + i < w.length
  BY <1>1, <1>2, <1>7 DEF n
<1>11. View(s, i, 0) = View(w, c + i, 0) /\ \A x : View(s, i, x) = View(w, c + i, x)
  BY <1>1, <1>10, ViewOfView DEF s, RestOf
<1>12. StartsWith(Drop(s, i), d) <=> HitAt(cs, dl, c + i)
  <2>1. Drop(s, i) = RestOf(w, c + i) /\ (StartsWith(RestOf(w, c + i), d) <=> HitAt(Chars(w), Chars(d), c + i))
    BY <1>10, RestStarts DEF s
  <2>2. QED
    BY <2>1
<1>13. ASSUME NEW left \in 1..count
       PROVE  Good(w, f, c, g[i][left], i, left)
  <2>1. left \in 0..count /\ left # 0 /\ left \in Nat \ {0}
    BY <1>13
  <2>2. CASE i = n
    <3>1. g[i][left] = [parts |-> <<View(w, c + i, 0)>>, used |-> i]
      BY <1>3, <1>9, <1>11, <2>1, <2>2 DEF Turn
    <3>2. f[w.length] = <<<<>>>>
      <4> HIDE DEF cs, dl
      <4>1. QED
        BY <1>2, <1>4, NothingBehindEnd
    <3>3. QED
      BY <1>1, <1>10, <2>1, <2>2, <3>1, <3>2, GoodAtEnd
  <2>3. CASE i # n /\ ~HitAt(cs, dl, c + i)
    <3>1. g[i][left] = [g[i + 1][left] EXCEPT !.parts[1] = View(w, c + i, @.length + 1)]
      BY <1>3, <1>9, <1>11, <1>12, <2>1, <2>3 DEF Turn
    <3>2. i + 1 \in (i + 1)..n
      BY <1>1, <1>7, <2>3
    <3>3. Good(w, f, c, g[i + 1][left], i + 1, left)
      BY <1>8, <3>2
    <3>4. PICK q \in 0..(w.length - 1) : q = c + i
      BY <1>1, <1>10, <2>3
    <3>5. ~HitAt(Chars(w), dl, q) /\ Splits(f, Chars(w), dl, 0) /\ IsSum(c, i, q) /\ c \in Nat
      BY <1>1, <2>3, <3>4 DEF IsSum
    <3>6. QED
      <4> HIDE DEF dl
      <4>1. Good(w, f, c, [g[i + 1][left] EXCEPT !.parts[1] = View(w, c + i, @.length + 1)], i, left)
        BY <1>2, <1>10, <2>1, <3>3, <3>5, GoodAtChar
      <4>2. QED
        BY <3>1, <4>1
  <2>4. CASE i # n /\ HitAt(cs, dl, c + i)
    <3>1. f[c + i] = <<<<>>>> \o f[c + (i + d.length)] /\ i + d.length \in (i + 1)..n /\ c + i + d.length <= w.length
      <4>1. PICK q \in 0..Len(cs) : q = c + i
        BY <1>10
      <4>2. HitAt(cs, dl, q) /\ q \in Nat
        BY <1>2, <2>4, <4>1
      <4> HIDE DEF cs, dl
      <4>3. f[q] = <<<<>>>> \o f[q + Len(dl)] /\ q + Len(dl) \in (q + 1)..Len(cs)
        BY <1>2, <1>4, <4>2, NextPieceHere
      <4>4. c \in Nat /\ i \in Nat /\ d.length \in Nat /\ Len(dl) = d.length /\ w.length \in Nat /\ Len(cs) = w.length
        BY <1>1, <1>2, <1>10
      <4>5. q + Len(dl) = c + (i + d.length)
        BY <4>1, <4>4
      <4>6. i + d.length \in (i + 1)..n /\ c + i + d.length <= w.length
        <5>1. c + i + d.length <= w.length /\ c + i + d.length >= c + i + 1
          BY <4>1, <4>3, <4>4
        <5>2. n = w.length - c
          BY DEF n
        <5>3. QED
          BY <4>4, <5>1, <5>2
      <4>7. QED
        BY <4>1, <4>3, <4>5, <4>6
    <3>2. CASE left = 1
      <4>1. g[i][left] = [parts |-> <<View(w, c + i, 0)>>, used |-> i + d.length]
        BY <1>3, <1>9, <1>11, <1>12, <2>1, <2>4, <3>2 DEF Turn
      <4>2. QED
        BY <1>1, <1>10, <3>1, <3>2, <4>1, GoodAtLast
    <3>3. CASE left # 1
      <4>1. g[i][left] = [g[i + d.length][left - 1] EXCEPT !.parts = <<View(w, c + i, 0)>> \o @]
        BY <1>3, <1>9, <1>11, <1>12, <2>1, <2>4, <3>3 DEF Turn
      <4>2. left - 1 \in 1..count /\ left \in Nat \ {0, 1}
        BY <1>13, <3>3
      <4>3. Good(w, f, c, g[i + d.length][left - 1], i + d.length, left - 1)
        BY <1>8, <3>1, <4>2
      <4>4. PICK h : h = g[i + d.length][left - 1]
        OBVIOUS
      <4>5. Good(w, f, c, h, i + d.length, left - 1) /\ c + i <= w.length /\ d.length \in Nat /\ i \in Nat
        BY <1>1, <1>10, <4>3, <4>4
      <4>6. Good(w, f, c, [h EXCEPT !.parts = <<View(w, c + i, 0)>> \o @], i, left)
        BY <1>4, <3>1, <4>2, <4>5, GoodAtHit
      <4>7. QED
        BY <4>1, <4>4, <4>6
    <3>4. QED
      BY <3>2, <3>3
  <2>5. QED
    BY <2>2, <2>3, <2>4
<1>14. QED
  BY <1>7, <1>13

-----------------------------------------------------------------------------
(* Calls, one after the other. *)

\* The slice of part i of ps, as Part has it.
Mended(ps, w, k, i) ==
  IF (i - 1) % k = 0 THEN View(ps[i], 0, ps[i].length - (w.at + w.length - ps[i].at)) ELSE ps[i]

\* What the parts read.
Got(ps, w, k) == [i \in 1..Len(ps) |-> Chars(Mended(ps, w, k, i))]

\* The place of a slice within its call, out of its place among all.
LEMMA WithinACall ==
  ASSUME NEW k \in Nat \ {0}, NEW q \in Nat, NEW m \in 0..(k - 1)
  PROVE  (k * q + m) % k = m
<1>1. PICK v \in Nat : v = k * q
  OBVIOUS
<1>2. PICK d \in Int : d = (v + m) \div k
  BY <1>1
<1>3. PICK e \in Int : e = (v + m) % k
  BY <1>1
<1>4. v + m = k * d + e /\ 0 <= e /\ e < k
  BY <1>1, <1>2, <1>3, Z3
<1>5. d = q
  <2>1. CASE d > q
    <3>1. k * d >= k * (q + 1)
      BY <2>1, Z3
    <3>2. k * (q + 1) = k * q + k
      BY Z3
    <3>3. QED
      BY <1>1, <1>4, <3>1, <3>2
  <2>2. CASE d < q
    <3>1. k * (d + 1) <= k * q
      BY <2>2, Z3
    <3>2. k * (d + 1) = k * d + k
      BY Z3
    <3>3. QED
      BY <1>1, <1>4, <3>1, <3>2
  <2>3. QED
    BY <2>1, <2>2
<1>6. e = m
  BY <1>1, <1>4, <1>5
<1>7. QED
  BY <1>1, <1>3, <1>6

\* A number of slices that some calls filled to the last.
IsMultiple(l, k) == \E q \in Nat : l = k * q

\* A list is the function of its elements.
LEMMA SeqIsFunction ==
  ASSUME NEW S, NEW x \in Seq(S)
  PROVE  x = [j \in 1..Len(x) |-> x[j]]
OBVIOUS

LEMMA InACall ==
  ASSUME NEW k \in Nat \ {0}, NEW l \in Nat, IsMultiple(l, k), NEW m \in 0..(k - 1)
  PROVE  (l + m) % k = m
<1>1. PICK q \in Nat : l = k * q
  BY DEF IsMultiple
<1>2. (k * q + m) % k = m
  BY WithinACall
<1>3. QED
  BY <1>1, <1>2

\* One more call.
LEMMA NextCall ==
  ASSUME NEW k \in Nat \ {0}, NEW l \in Nat, IsMultiple(l, k)
  PROVE  IsMultiple(l + k, k)
<1>1. PICK q \in Nat : l = k * q
  BY DEF IsMultiple
<1>2. k * (q + 1) = k * q + k /\ q + 1 \in Nat
  BY Z3
<1>3. QED
  BY <1>1, <1>2 DEF IsMultiple

\* What joining two lists makes.
Concatenated(S, x, y) ==
  /\ x \o y \in Seq(S) /\ Len(x \o y) = Len(x) + Len(y)
  /\ \A j \in 1..Len(x) : (x \o y)[j] = x[j]
  /\ \A j \in 1..Len(y) : (x \o y)[Len(x) + j] = y[j]

LEMMA ConcatIs ==
  ASSUME NEW S, NEW x \in Seq(S), NEW y \in Seq(S)
  PROVE  Concatenated(S, x, y)
BY DEF Concatenated

\* The slices a call is left with: the first reaches over what it was given.
Opened(ss, w, c) == [ss EXCEPT ![1] = View(RestOf(w, c), 0, @.length + (w.length - c))]

\* A call, put behind those before.
CallGoesOn(ps, r, w, c, k) ==
  LET all == ps \o Opened(r.parts, w, c)
  IN  /\ all \in Seq(SliceType)
      /\ Len(all) = Len(ps) + Len(r.parts)
      /\ Got(all, w, k) \in Seq(Seq(Bytes))
      /\ Got(all, w, k) = Got(ps, w, k) \o Read(r.parts)

\* A call after calls that filled the buffer reads on.
LEMMA CallsGoOn ==
  ASSUME NEW w, Inside(w), NEW f, NEW c \in 0..w.length, NEW k \in Nat \ {0}, NEW r, Good(w, f, c, r, 0, k),
         NEW ps \in Seq(SliceType), IsMultiple(Len(ps), k), Got(ps, w, k) \in Seq(Seq(Bytes))
  PROVE  CallGoesOn(ps, r, w, c, k)
<1>1. w.length \in Nat /\ w.at \in Nat /\ w \in SliceType /\ c \in Nat /\ c <= w.length /\ c + 0 = c
  BY DEF Inside, SliceType
<1>0. PICK ss : ss = r.parts
  OBVIOUS
<1>2. ss \in Seq(SliceType) /\ Len(ss) \in 1..k /\ (\A j \in 1..Len(ss) : Inside(ss[j])) /\ ss[1] = View(w, c, ss[1].length)
  BY <1>0, <1>1 DEF Good
<1>20. 1 \in 1..Len(ss) /\ Len(ss) >= 1 /\ Len(ss) \in Nat
  BY <1>2
<1>21. PICK o : o = ss[1]
  OBVIOUS
<1>3. o \in SliceType /\ o.length \in Nat /\ o = View(w, c, o.length)
  BY <1>2, <1>20, <1>21 DEF Inside, SliceType
<1>30. PICK n \in Nat : n = w.length - c
  BY <1>1
<1>31. PICK len \in Nat : len = o.length + n
  BY <1>3
<1> DEFINE v == View(RestOf(w, c), 0, len)
           l == Len(ps)
           qs == Opened(r.parts, w, c)
           all == ps \o qs
<1>4. v = View(w, c, len) /\ v \in SliceType /\ v.at = w.at + c /\ v.length = len
  <2>1. v = View(w, c + 0, len)
    BY <1>1, ViewOfView DEF RestOf
  <2>2. v = View(w, c, len)
    BY <1>1, <2>1
  <2>3. QED
    BY <1>1, <2>2, ViewIs
<1>5. View(v, 0, v.length - (w.at + w.length - v.at)) = o
  <2>1. v.length - (w.at + w.length - v.at) = o.length
    <3>1. PICK a \in Nat, b \in Nat, e \in Nat : a = w.at /\ b = w.length /\ e = o.length
      BY <1>1, <1>3
    <3>2. n = b - c /\ len = e + n
      BY <1>30, <1>31, <3>1
    <3>3. len - (a + b - (a + c)) = e
      BY <1>1, <3>2
    <3>4. QED
      BY <1>4, <3>1, <3>3
  <2>2. View(View(w, c, len), 0, o.length) = View(w, c + 0, o.length)
    BY <1>1, ViewOfView
  <2>3. QED
    BY <1>1, <1>3, <1>4, <2>1, <2>2
<1>6. qs = [ss EXCEPT ![1] = v]
  BY <1>0, <1>21, <1>30, <1>31 DEF Opened
<1> HIDE DEF v, qs
<1>7. qs \in Seq(SliceType) /\ Len(qs) = Len(ss) /\ qs[1] = v /\ \A j \in 2..Len(ss) : qs[j] = ss[j]
  <2>1. v \in SliceType
    BY <1>4
  <2>2. QED
    BY <1>2, <1>6, <1>20, <2>1
<1>8. /\ all \in Seq(SliceType) /\ Len(all) = l + Len(ss) /\ l \in Nat
      /\ \A j \in 1..l : all[j] = ps[j]
      /\ \A j \in 1..Len(ss) : all[l + j] = qs[j]
  <2>1. qs \in Seq(SliceType) /\ Len(qs) = Len(ss)
    BY <1>7
  <2>2. /\ all \in Seq(SliceType) /\ Len(all) = l + Len(qs)
        /\ \A j \in 1..l : all[j] = ps[j]
        /\ \A j \in 1..Len(qs) : all[l + j] = qs[j]
    <3>1. Concatenated(SliceType, ps, qs)
      BY <2>1, ConcatIs
    <3>2. QED
      BY <3>1 DEF Concatenated
  <2>3. QED
    BY <2>1, <2>2
<1> HIDE DEF all
<1>9. ASSUME NEW j \in 1..Len(ss)
      PROVE  Mended(all, w, k, l + j) = ss[j]
  <2>1. PICK m \in 0..(k - 1) : m = j - 1
    BY <1>2
  <2>2. (l + m) % k = m
    BY <1>8, InACall DEF l
  <2>5. l + j - 1 = l + m
    BY <1>8, <2>1
  <2>3. CASE j = 1
    <3>1. (l + j - 1) % k = 0 /\ all[l + j] = v
      BY <1>7, <1>8, <1>20, <2>1, <2>2, <2>3, <2>5
    <3>2. Mended(all, w, k, l + j) = o
      BY <1>5, <3>1 DEF Mended
    <3>3. QED
      BY <1>21, <2>3, <3>2
  <2>4. CASE j # 1
    <3>1. j \in 2..Len(ss) /\ ~((l + j - 1) % k = 0)
      BY <1>20, <2>1, <2>2, <2>4, <2>5
    <3>2. all[l + j] = ss[j]
      BY <1>7, <1>8, <3>1
    <3>3. QED
      BY <3>1, <3>2 DEF Mended
  <2>6. QED
    BY <2>3, <2>4
<1>10. ASSUME NEW j \in 1..l
       PROVE  Mended(all, w, k, j) = Mended(ps, w, k, j)
  BY <1>8 DEF Mended
<1> DEFINE a == Got(ps, w, k)
           b == Read(ss)
<1>11. a \in Seq(Seq(Bytes)) /\ Len(a) = l /\ \A j \in 1..l : a[j] = Chars(Mended(ps, w, k, j))
  BY <1>8 DEF Got
<1>12. b \in Seq(Seq(Bytes)) /\ Len(b) = Len(ss) /\ \A j \in 1..Len(ss) : b[j] = Chars(ss[j])
  BY <1>2, ReadsOf
<1> HIDE DEF a, b
<1>13. /\ a \o b \in Seq(Seq(Bytes)) /\ Len(a \o b) = l + Len(ss)
       /\ \A j \in 1..l : (a \o b)[j] = a[j]
       /\ \A j \in 1..Len(ss) : (a \o b)[l + j] = b[j]
  <2>1. a \in Seq(Seq(Bytes)) /\ b \in Seq(Seq(Bytes))
    BY <1>11, <1>12
  <2>2. /\ a \o b \in Seq(Seq(Bytes)) /\ Len(a \o b) = Len(a) + Len(b)
        /\ \A j \in 1..Len(a) : (a \o b)[j] = a[j]
        /\ \A j \in 1..Len(b) : (a \o b)[Len(a) + j] = b[j]
    <3>1. Concatenated(Seq(Bytes), a, b)
      BY <2>1, ConcatIs
    <3>2. QED
      BY <3>1 DEF Concatenated
  <2>3. QED
    BY <1>11, <1>12, <2>2
<1>14. ASSUME NEW j \in 1..(l + Len(ss))
       PROVE  Chars(Mended(all, w, k, j)) = (a \o b)[j]
  <2>1. CASE j \in 1..l
    BY <1>10, <1>11, <1>13, <2>1
  <2>2. CASE j \notin 1..l
    <3>1. PICK i \in 1..Len(ss) : l + i = j
      <4>1. j - l \in 1..Len(ss) /\ l + (j - l) = j
        BY <1>8, <1>20, <2>2
      <4>2. QED
        BY <4>1
    <3>2. (a \o b)[j] = b[i]
      BY <1>13, <3>1
    <3>3. Mended(all, w, k, j) = ss[i]
      BY <1>9, <3>1
    <3>4. QED
      BY <1>12, <3>2, <3>3
  <2>3. QED
    BY <2>1, <2>2
<1>15. Got(all, w, k) = [j \in 1..(l + Len(ss)) |-> (a \o b)[j]]
  <2>1. Got(all, w, k) = [j \in 1..(l + Len(ss)) |-> Chars(Mended(all, w, k, j))]
    BY <1>8 DEF Got
  <2>2. QED
    BY <1>14, <2>1
<1>16. Got(all, w, k) = a \o b
  <2> DEFINE z == a \o b
  <2>1. z \in Seq(Seq(Bytes)) /\ Len(z) = l + Len(ss) /\ Got(all, w, k) = [j \in 1..(l + Len(ss)) |-> z[j]]
    BY <1>13, <1>15
  <2> HIDE DEF z
  <2>2. z = [j \in 1..Len(z) |-> z[j]]
    BY <2>1, SeqIsFunction
  <2>3. QED
    BY <2>1, <2>2 DEF z
<1>17. QED
  BY <1>0, <1>8, <1>13, <1>16, <1>20 DEF CallGoesOn, all, qs, a, b

\* A text that is not empty and has one piece is that piece.
LEMMA OnePiece ==
  ASSUME NEW cs \in Seq(Bytes), NEW dl \in Seq(Bytes), dl # <<>>, NEW f, Splits(f, cs, dl, 0),
         NEW i \in 0..Len(cs), Len(f[i]) = 1
  PROVE  f[i] = <<SubSeq(cs, i + 1, Len(cs))>>
<1>1. CASE \A j \in i..Len(cs) : ~HitAt(cs, dl, j)
  BY <1>1, LastPiece
<1>2. ASSUME NEW j \in i..Len(cs), HitAt(cs, dl, j), \A k \in i..(j - 1) : ~HitAt(cs, dl, k)
      PROVE  FALSE
  <2>1. f[i] = <<SubSeq(cs, i + 1, j)>> \o f[j + Len(dl)] /\ j + Len(dl) \in (j + 1)..Len(cs)
    BY <1>2, NextPiece
  <2>2. j + Len(dl) \in 0..Len(cs)
    BY <2>1
  <2>3. f[j + Len(dl)] \in Texts0 /\ SubSeq(cs, i + 1, j) \in Seq(Bytes)
    BY <2>2, PiecesAreTexts
  <2> DEFINE t == f[j + Len(dl)]
             x == SubSeq(cs, i + 1, j)
  <2>4. t \in Seq(Seq(Bytes)) /\ Len(t) > 0 /\ x \in Seq(Bytes)
    BY <2>3 DEF Texts0
  <2> HIDE DEF t, x
  <2>5. Len(<<x>> \o t) > 1
    BY <2>4
  <2>6. QED
    BY <2>1, <2>5 DEF t, x
<1>3. Len(cs) \in Nat
  OBVIOUS
<1>4. QED
  BY <1>1, <1>2, <1>3, NextHit

\* A text that has more has a delimiter.
LEMMA MorePieces ==
  ASSUME NEW cs \in Seq(Bytes), NEW dl \in Seq(Bytes), dl # <<>>, NEW f, Splits(f, cs, dl, 0),
         NEW i \in 0..Len(cs), Len(f[i]) > 1
  PROVE  \E j \in i..Len(cs) :
           /\ HitAt(cs, dl, j) /\ j + Len(dl) \in (j + 1)..Len(cs)
           /\ f[i] = <<SubSeq(cs, i + 1, j)>> \o f[j + Len(dl)]
<1>1. CASE \A j \in i..Len(cs) : ~HitAt(cs, dl, j)
  <2>1. f[i] = <<SubSeq(cs, i + 1, Len(cs))>>
    BY <1>1, LastPiece
  <2>2. QED
    BY <2>1
<1>2. ASSUME NEW j \in i..Len(cs), HitAt(cs, dl, j), \A k \in i..(j - 1) : ~HitAt(cs, dl, k)
      PROVE  f[i] = <<SubSeq(cs, i + 1, j)>> \o f[j + Len(dl)] /\ j + Len(dl) \in (j + 1)..Len(cs)
  BY <1>2, NextPiece
<1>3. Len(cs) \in Nat
  OBVIOUS
<1>4. QED
  BY <1>1, <1>2, <1>3, NextHit

-----------------------------------------------------------------------------
(* Joining. *)

\* What FlattenSeq computes.
Flattened(t) ==
  \E h : /\ h[0] = <<>> /\ FlattenSeq(t) = h[Len(t)]
         /\ \A i \in 1..Len(t) : h[i] = h[i - 1] \o t[i]

LEMMA FlattenIs ==
  ASSUME NEW t \in Seq(Seq(Bytes)), Len(t) >= 1
  PROVE  Flattened(t)
<1> DEFINE n == Len(t)
           Next1(h, i) == IF i = 1 THEN t[i] ELSE h[i - 1] \o t[i]
           Is(h, k) == h = [i \in 1..k |-> Next1(h, i)]
           Has(k) == \E h : Is(h, k)
           Wrong == {k \in 1..n : ~Has(k)}
<1>1. n \in Nat /\ n >= 1 /\ \A i \in 1..n : t[i] \in Seq(Bytes)
  OBVIOUS
<1>2. \A k \in 1..n : Has(k)
  <2> SUFFICES ASSUME Wrong # {} PROVE FALSE
    OBVIOUS
  <2> HIDE DEF Has
  <2>1. PICK k \in Wrong : \A m \in Wrong : k <= m
    <3>1. Wrong \in SUBSET Nat
      OBVIOUS
    <3> HIDE DEF Wrong
    <3>2. QED
      BY <3>1, LeastNumber
  <2>2. k \in 1..n /\ ~Has(k) /\ k \in 1..k /\ k \in Nat
    BY <1>1, <2>1
  <2>3. CASE k = 1
    <3> DEFINE h == [i \in 1..1 |-> t[i]]
    <3>1. h = [i \in 1..1 |-> IF i = 1 THEN t[i] ELSE h[i - 1] \o t[i]]
      <4>1. \A i \in 1..1 : i = 1
        OBVIOUS
      <4> DEFINE e == [i \in 1..1 |-> IF i = 1 THEN t[i] ELSE h[i - 1] \o t[i]]
      <4>2. \A i \in 1..1 : e[i] = t[i]
        BY <4>1
      <4>3. QED
        BY <4>1
    <3>2. Is(h, 1)
      BY <3>1
    <3>3. QED
      BY <2>2, <2>3, <3>2 DEF Has
  <2>4. CASE k # 1
    <3>0. k - 1 \in 1..n /\ k - 1 < k
      BY <1>1, <2>2, <2>4
    <3>1. k - 1 \in 1..n /\ k - 1 \notin Wrong
      BY <2>1, <2>2, <3>0
    <3>2. PICK h : Is(h, k - 1)
      BY <3>1 DEF Has
    <3> DEFINE g == [i \in 1..k |-> IF i = k THEN h[k - 1] \o t[k] ELSE h[i]]
    <3>3. ASSUME NEW i \in 1..k
          PROVE  g[i] = Next1(g, i)
      <4>1. CASE i = k
        <5>1. k - 1 \in 1..k /\ k - 1 # k
          BY <3>1
        <5>2. g[k - 1] = h[k - 1]
          BY <5>1
        <5> HIDE DEF g
        <5>3. g[k] = h[k - 1] \o t[k]
          BY <2>2 DEF g
        <5>4. QED
          BY <2>4, <4>1, <5>2, <5>3
      <4>2. CASE i # k
        <5>1. i \in 1..(k - 1) /\ g[i] = h[i]
          BY <3>1, <4>2
        <5>2. h[i] = Next1(h, i)
          BY <3>2, <5>1
        <5>3. i # 1 => i - 1 \in 1..k /\ i - 1 # k
          BY <3>1, <5>1
        <5>4. i # 1 => g[i - 1] = h[i - 1]
          BY <5>3
        <5> HIDE DEF g
        <5>5. QED
          BY <5>1, <5>2, <5>4
      <4>3. QED
        BY <4>1, <4>2
    <3>4. g = [i \in 1..k |-> g[i]]
      OBVIOUS
    <3> HIDE DEF g, Next1
    <3>5. g = [i \in 1..k |-> Next1(g, i)]
      BY <3>3, <3>4
    <3>6. QED
      BY <2>2, <3>5 DEF Has
  <2>5. QED
    BY <2>3, <2>4
<1>3. n \in 1..n
  BY <1>1
<1>4. \E h : Is(h, n)
  BY <1>2, <1>3
<1> DEFINE flatten == CHOOSE h : h = [i \in 1..Len(t) |-> IF i = 1 THEN t[i] ELSE h[i - 1] \o t[i]]
<1>5. flatten = [i \in 1..Len(t) |-> IF i = 1 THEN t[i] ELSE flatten[i - 1] \o t[i]]
  BY <1>4
<1>6. FlattenSeq(t) = flatten[Len(t)]
  <2>1. Len(t) # 0
    BY <1>1
  <2>2. QED
    BY <2>1 DEF FlattenSeq
<1> HIDE DEF flatten
<1> DEFINE h == [i \in 0..n |-> IF i = 0 THEN <<>> ELSE flatten[i]]
<1>7. h[0] = <<>> /\ \A i \in 1..n : h[i] = flatten[i]
  BY <1>1
<1>8. ASSUME NEW i \in 1..n
      PROVE  h[i] = h[i - 1] \o t[i]
  <2>1. flatten[i] = IF i = 1 THEN t[i] ELSE flatten[i - 1] \o t[i]
    BY <1>5
  <2>2. i # 1 => h[i - 1] = flatten[i - 1]
    BY <1>1
  <2>3. i = 1 => h[i - 1] = <<>>
    BY <1>7
  <2>4. <<>> \o t[i] = t[i]
    BY <1>1
  <2> HIDE DEF h
  <2>5. QED
    BY <1>7, <2>1, <2>2, <2>3, <2>4
<1>9. FlattenSeq(t) = h[n]
  BY <1>1, <1>6, <1>7
<1> HIDE DEF h
<1>10. QED
  BY <1>7, <1>8, <1>9 DEF Flattened

\* Two adjacent parts of a text.
LEMMA Glue ==
  ASSUME NEW cs \in Seq(Bytes), NEW p \in 0..Len(cs), NEW j \in p..Len(cs)
  PROVE  SubSeq(cs, 1, p) \o SubSeq(cs, p + 1, j) = SubSeq(cs, 1, j)
<1> DEFINE a == SubSeq(cs, 1, p)
           b == SubSeq(cs, p + 1, j)
           d == SubSeq(cs, 1, j)
<1>1. /\ a \in Seq(Bytes) /\ Len(a) = p /\ b \in Seq(Bytes) /\ Len(b) = j - p /\ d \in Seq(Bytes) /\ Len(d) = j
  OBVIOUS
<1>2. /\ \A k \in 1..p : a[k] = cs[k]
      /\ \A k \in 1..(j - p) : b[k] = cs[p + k]
      /\ \A k \in 1..j : d[k] = cs[k]
  OBVIOUS
<1> HIDE DEF a, b, d
<1>3. /\ a \o b \in Seq(Bytes) /\ Len(a \o b) = j
      /\ \A k \in 1..p : (a \o b)[k] = a[k]
      /\ \A k \in 1..(j - p) : (a \o b)[p + k] = b[k]
  <2>1. Concatenated(Bytes, a, b)
    BY <1>1, ConcatIs
  <2>2. p + (j - p) = j
    OBVIOUS
  <2>3. QED
    BY <1>1, <2>1, <2>2 DEF Concatenated
<1>4. ASSUME NEW k \in 1..j
      PROVE  (a \o b)[k] = d[k]
  <2>1. CASE k <= p
    <3>1. k \in 1..p
      BY <2>1
    <3>2. QED
      BY <1>2, <1>3, <3>1
  <2>2. CASE ~(k <= p)
    <3>1. k - p \in 1..(j - p) /\ p + (k - p) = k
      BY <2>2
    <3>2. (a \o b)[p + (k - p)] = b[k - p]
      BY <1>3, <3>1
    <3>3. QED
      BY <1>2, <3>1, <3>2
  <2>3. QED
    BY <2>1, <2>2
<1>5. QED
  BY <1>1, <1>3, <1>4, SeqEqual DEF a, b, d

\* The numbers of the last two pieces.
LEMMA LastTwo ==
  ASSUME NEW m \in Nat, NEW n \in Nat, m = n - 1
  PROVE  n - (m - 1) > 1 /\ n - (m - 1 + 1) = 1 /\ m - 1 + 1 + 1 = n
<1>1. m - 1 + 1 = m
  OBVIOUS
<1>2. n - m = 1 /\ m + 1 = n /\ n - (m - 1) > 1
  OBVIOUS
<1>3. QED
  BY <1>1, <1>2

\* The first m pieces, joined.
JoinsTo(cs, dl, ref, got, m) == SbJoin(dl, got, m) \o (IF m = Len(ref) THEN <<>> ELSE dl) = cs

LEMMA JoinsBack ==
  ASSUME NEW cs \in Seq(Bytes), NEW dl \in Seq(Bytes), dl # <<>>, NEW f, Splits(f, cs, dl, 0),
         NEW ref, ref = f[0], NEW m \in 1..Len(ref), NEW got, got = SubSeq(ref, 1, m),
         m = Len(ref) \/ (m = Len(ref) - 1 /\ ref[Len(ref)] = <<>>)
  PROVE  JoinsTo(cs, dl, ref, got, m)
<1> DEFINE n == Len(ref)
           l == Len(cs)
           t == [i \in 1..m |-> IF i < m THEN got[i] \o dl ELSE got[i]]
<1>1. l \in Nat /\ Len(dl) \in Nat \ {0} /\ \A i \in 0..l : f[i] \in Texts0
  BY PiecesAreTexts
<1>2. ref \in Seq(Seq(Bytes)) /\ n \in Nat /\ m \in 1..n
  <2>1. 0 \in 0..l
    BY <1>1
  <2>2. ref \in Seq(Seq(Bytes))
    BY <1>1, <2>1 DEF Texts0
  <2>3. QED
    BY <2>2
<1>3. got \in Seq(Seq(Bytes)) /\ Len(got) = m /\ \A i \in 1..m : got[i] = ref[i] /\ ref[i] \in Seq(Bytes)
  BY <1>2
<1>4. t \in Seq(Seq(Bytes)) /\ Len(t) = m
  <2>1. \A i \in 1..m : t[i] \in Seq(Bytes)
    BY <1>3
  <2>2. QED
    BY <1>2, <2>1
<1>5. \A i \in 1..m : t[i] = IF i < m THEN ref[i] \o dl ELSE ref[i]
  BY <1>3
<1>6. SbJoin(dl, got, m) = FlattenSeq(t)
  <2>1. ~(Len(got) < m)
    BY <1>2, <1>3
  <2>2. QED
    BY <2>1 DEF SbJoin
<1> HIDE DEF t, n, l
<1>7. PICK h : /\ h[0] = <<>> /\ FlattenSeq(t) = h[m]
               /\ \A i \in 1..m : h[i] = h[i - 1] \o t[i]
  <2>1. Len(t) >= 1
    BY <1>2, <1>4
  <2>2. Flattened(t)
    BY <1>4, <2>1, FlattenIs
  <2>3. QED
    BY <1>4, <2>2 DEF Flattened
<1>70. m \in Nat /\ n \in Nat /\ 1 <= m /\ m <= n /\ m \in 1..m
  BY <1>2
<1> DEFINE ReadUpTo(k, p) ==
             /\ h[k] = SubSeq(cs, 1, p) /\ Len(f[p]) = n - k
             /\ \A i \in 1..(n - k) : ref[k + i] = f[p][i]
           Has(k) == \E p \in 0..l : ReadUpTo(k, p)
           Wrong == {k \in 0..(m - 1) : ~Has(k)}
\* A piece that is not the last, and what is behind its delimiter.
<1>8. ASSUME NEW k \in 0..(m - 1), NEW p \in 0..l, ReadUpTo(k, p), n - k > 1
      PROVE  \E j \in p..l :
               /\ j + Len(dl) \in 0..l
               /\ h[k] \o ref[k + 1] = SubSeq(cs, 1, j)
               /\ SubSeq(cs, 1, j) \o dl = SubSeq(cs, 1, j + Len(dl))
               /\ h[k] \o (ref[k + 1] \o dl) = SubSeq(cs, 1, j + Len(dl))
               /\ Len(f[j + Len(dl)]) = n - (k + 1)
               /\ \A i \in 1..(n - (k + 1)) : ref[k + 1 + i] = f[j + Len(dl)][i]
  <2>1. PICK j \in p..Len(cs) :
           /\ HitAt(cs, dl, j) /\ j + Len(dl) \in (j + 1)..Len(cs)
           /\ f[p] = <<SubSeq(cs, p + 1, j)>> \o f[j + Len(dl)]
    <3>1. p \in 0..Len(cs) /\ Len(f[p]) > 1
      BY <1>8 DEF l
    <3>2. QED
      BY <3>1, MorePieces
  <2> DEFINE x == SubSeq(cs, p + 1, j)
             u == f[j + Len(dl)]
             y == SubSeq(cs, 1, p)
  <2>2. j \in p..l /\ j + Len(dl) \in 0..l /\ p \in Nat /\ j \in Nat /\ j <= Len(cs)
    BY <1>1, <2>1 DEF l
  <2>3. x \in Seq(Bytes) /\ y \in Seq(Bytes) /\ u \in Seq(Seq(Bytes)) /\ Len(u) \in Nat
    <3>1. u \in Seq(Seq(Bytes))
      BY <1>1, <2>2 DEF Texts0
    <3>2. QED
      BY <2>2, <3>1
  <2>4. f[p] = <<x>> \o u /\ h[k] = y
    BY <1>8, <2>1
  <2>5. y \o x = SubSeq(cs, 1, j)
    BY <1>1, <2>1, Glue DEF l
  <2>6. SubSeq(cs, 1, j) \o dl = SubSeq(cs, 1, j + Len(dl))
    <3>1. PICK o \in Nat : o = 0
      OBVIOUS
    <3>2. o + 1 = 1 /\ o <= j
      BY <2>2, <3>1
    <3>3. SubSeq(cs, o + 1, j + Len(dl)) = SubSeq(cs, o + 1, j) \o dl
      BY <2>1, <2>2, <3>2, PieceThenHit
    <3>4. QED
      BY <3>2, <3>3
  <2> HIDE DEF x, u, y
  <2>7. Len(<<x>> \o u) = Len(u) + 1 /\ (<<x>> \o u)[1] = x /\ \A i \in 1..Len(u) : (<<x>> \o u)[1 + i] = u[i]
    BY <2>3
  <2>8. Len(u) = n - (k + 1)
    BY <1>2, <1>8, <2>3, <2>4, <2>7
  <2>9. ref[k + 1] = x
    <3>1. 1 \in 1..(n - k)
      BY <1>2, <1>8
    <3>2. QED
      BY <1>8, <2>4, <2>7, <3>1
  <2>10. ASSUME NEW i \in 1..(n - (k + 1))
         PROVE  ref[k + 1 + i] = u[i]
    <3>1. 1 + i \in 1..(n - k) /\ k + (1 + i) = k + 1 + i
      <4>1. n \in Nat /\ k \in Nat
        BY <1>2, <1>8
      <4>2. i \in Nat /\ 1 <= i /\ i <= n - (k + 1)
        BY <4>1
      <4>3. QED
        BY <4>1, <4>2
    <3>2. ref[k + (1 + i)] = f[p][1 + i]
      BY <1>8, <3>1
    <3>3. QED
      BY <2>4, <2>7, <2>8, <3>1, <3>2
  <2>11. y \o (x \o dl) = (y \o x) \o dl
    BY <2>3, ThreeBytes
  <2>12. QED
    BY <2>2, <2>4, <2>5, <2>6, <2>8, <2>9, <2>10, <2>11 DEF u
<1>9. \A k \in 0..(m - 1) : Has(k)
  <2> SUFFICES ASSUME Wrong # {} PROVE FALSE
    OBVIOUS
  <2> HIDE DEF Has
  <2>1. PICK k \in Wrong : \A i \in Wrong : k <= i
    <3>1. Wrong \in SUBSET Nat
      OBVIOUS
    <3> HIDE DEF Wrong
    <3>2. QED
      BY <3>1, LeastNumber
  <2>2. k \in 0..(m - 1) /\ ~Has(k) /\ k \in Nat /\ k < m
    BY <1>70, <2>1
  <2>3. CASE k = 0
    <3>1. 0 \in 0..l /\ n - 0 = n /\ \A i \in 1..n : 0 + i = i
      BY <1>1, <1>2 DEF l
    <3>2. SubSeq(cs, 1, 0) = <<>>
      OBVIOUS
    <3>3. Len(f[0]) = n
      BY DEF n
    <3>4. ReadUpTo(0, 0)
      BY <1>7, <3>1, <3>2, <3>3
    <3>5. QED
      BY <2>2, <2>3, <3>1, <3>4 DEF Has
  <2>4. CASE k # 0
    <3>0. k - 1 \in 0..(m - 1) /\ k - 1 < k /\ k - 1 + 1 = k /\ k \in 1..m /\ k < m
      BY <1>70, <2>2, <2>4
    <3>1. k - 1 \in 0..(m - 1) /\ k - 1 \notin Wrong /\ k - 1 + 1 = k /\ k \in 1..m /\ k < m
      BY <2>1, <2>2, <3>0
    <3>2. PICK p \in 0..l : ReadUpTo(k - 1, p)
      BY <3>1 DEF Has
    <3>3. n - (k - 1) > 1
      BY <1>70, <2>2
    <3> HIDE DEF Wrong
    <3>4. PICK j \in p..l :
            /\ j + Len(dl) \in 0..l
            /\ h[k - 1] \o (ref[k - 1 + 1] \o dl) = SubSeq(cs, 1, j + Len(dl))
            /\ Len(f[j + Len(dl)]) = n - (k - 1 + 1)
            /\ \A i \in 1..(n - (k - 1 + 1)) : ref[k - 1 + 1 + i] = f[j + Len(dl)][i]
      <4> HIDE DEF ReadUpTo
      <4>1. QED
        BY <1>8, <3>1, <3>2, <3>3
    <3>5. h[k] = h[k - 1] \o (ref[k] \o dl)
      BY <1>5, <1>7, <3>1
    <3>6. ReadUpTo(k, j + Len(dl))
      BY <3>1, <3>4, <3>5
    <3>7. QED
      BY <2>2, <3>4, <3>6 DEF Has
  <2>5. QED
    BY <2>3, <2>4
<1>10. m - 1 \in 0..(m - 1) /\ m - 1 + 1 = m /\ m \in 1..m
  BY <1>70
<1>11. PICK p \in 0..l : ReadUpTo(m - 1, p)
  BY <1>9, <1>10
<1>12. h[m] = h[m - 1] \o ref[m]
  <2>1. t[m] = ref[m]
    BY <1>5, <1>70
  <2>2. QED
    BY <1>7, <1>70, <2>1
<1>13. SubSeq(cs, 1, l) = cs
  BY DEF l
<1>14. CASE m = n
  <2>1. Len(f[p]) = 1 /\ ref[m - 1 + 1] = f[p][1]
    BY <1>2, <1>11, <1>14
  <2>2. f[p] = <<SubSeq(cs, p + 1, l)>>
    BY <2>1, OnePiece DEF l
  <2>3. ref[m] = SubSeq(cs, p + 1, l)
    BY <1>10, <2>1, <2>2
  <2>4. h[m - 1] = SubSeq(cs, 1, p)
    BY <1>11
  <2>5. SubSeq(cs, 1, p) \o SubSeq(cs, p + 1, l) = cs
    <3>1. l \in p..l
      BY <1>1
    <3>2. QED
      BY <1>13, <3>1, Glue DEF l
  <2>6. cs \o <<>> = cs
    OBVIOUS
  <2>7. QED
    BY <1>6, <1>7, <1>12, <1>14, <2>3, <2>4, <2>5, <2>6 DEF n, JoinsTo
<1>15. CASE m # n
  <2>1. m = n - 1 /\ ref[n] = <<>>
    BY <1>15 DEF n
  <2>2. n - (m - 1) > 1 /\ n - (m - 1 + 1) = 1 /\ m - 1 + 1 + 1 = n
    <3>1. m = n - 1
      BY <2>1
    <3>2. QED
      BY <1>70, <3>1, LastTwo
  <2>3. PICK j \in p..l :
           /\ j + Len(dl) \in 0..l
           /\ h[m - 1] \o ref[m - 1 + 1] = SubSeq(cs, 1, j)
           /\ SubSeq(cs, 1, j) \o dl = SubSeq(cs, 1, j + Len(dl))
           /\ Len(f[j + Len(dl)]) = 1
           /\ ref[n] = f[j + Len(dl)][1]
    <3>1. \E j \in p..l :
               /\ j + Len(dl) \in 0..l
               /\ h[m - 1] \o ref[m - 1 + 1] = SubSeq(cs, 1, j)
               /\ SubSeq(cs, 1, j) \o dl = SubSeq(cs, 1, j + Len(dl))
               /\ Len(f[j + Len(dl)]) = n - (m - 1 + 1)
               /\ \A i \in 1..(n - (m - 1 + 1)) : ref[m - 1 + 1 + i] = f[j + Len(dl)][i]
      <4> HIDE DEF ReadUpTo
      <4>1. QED
        BY <1>8, <1>10, <1>11, <2>2
    <3>2. 1 \in 1..(n - (m - 1 + 1))
      BY <1>70, <2>2
    <3>3. QED
      BY <2>2, <3>1, <3>2
  <2> DEFINE q == j + Len(dl)
  <2>4. f[q] = <<SubSeq(cs, q + 1, l)>>
    BY <2>3, OnePiece DEF l
  <2>5. q = l
    <3>1. q \in 0..l
      BY <2>3
    <3>2. SubSeq(cs, q + 1, l) = <<>>
      <4>1. PICK x : x = SubSeq(cs, q + 1, l)
        OBVIOUS
      <4>2. f[q] = <<x>> /\ ref[n] = f[q][1] /\ ref[n] = <<>>
        BY <2>1, <2>3, <2>4, <4>1
      <4>3. <<x>>[1] = x
        OBVIOUS
      <4>4. QED
        BY <4>1, <4>2, <4>3
    <3>5. Len(<<>>) = 0
      OBVIOUS
    <3> HIDE DEF q
    <3>3. Len(SubSeq(cs, q + 1, l)) = l - q
      BY <1>1, <3>1 DEF l
    <3>4. QED
      <4>1. l - q = 0
        BY <3>2, <3>3, <3>5
      <4>2. QED
        BY <1>1, <3>1, <4>1
  <2>6. h[m] \o dl = cs
    BY <1>10, <1>12, <1>13, <2>3, <2>5
  <2>7. QED
    BY <1>6, <1>7, <1>15, <2>6 DEF n, JoinsTo
<1>16. QED
  BY <1>14, <1>15

-----------------------------------------------------------------------------
(* The client that splits into a buffer. *)

\* The pieces of the text are those that were read and those of what is left;
\* or all is read, and the last piece is not an empty one that began a call.
BatchInv ==
  /\ SplitTypes
  /\ consumed \in 0..whole.length
  /\ parts \in Seq(SliceType)
  /\ delimiter.length > 0 =>
       /\ Got(parts, whole, outCount) \in Seq(Seq(Bytes))
       /\ \/ /\ IsMultiple(Len(parts), outCount)
             /\ Split(chars, delimiter.buffer)
                  = Got(parts, whole, outCount) \o PiecesOf(chars, delimiter.buffer)[consumed]
          \/ /\ consumed = whole.length
             /\ Split(chars, delimiter.buffer) = Got(parts, whole, outCount)
             /\ Len(parts) > 0
             /\ ~(Got(parts, whole, outCount)[Len(parts)] = <<>> /\ (Len(parts) - 1) % outCount = 0)

\* The invariant of splitting holds initially.
LEMMA BatchStarts ==
  ASSUME SplitInit
  PROVE  BatchInv
<1>1. SplitTypes /\ consumed = 0 /\ parts = <<>>
  BY SplitInitIs
<1>2. whole.length \in Nat
  BY <1>1, TextsAre
<1>3. Got(parts, whole, outCount) = <<>>
  BY <1>1 DEF Got
<1>4. IsMultiple(Len(parts), outCount)
  <2>1. Len(parts) = outCount * 0
    BY <1>1 DEF SplitTypes
  <2>2. QED
    BY <2>1 DEF IsMultiple
<1>5. ASSUME delimiter.length > 0
      PROVE  Split(chars, delimiter.buffer) = Got(parts, whole, outCount) \o PiecesOf(chars, delimiter.buffer)[consumed]
  <2>1. 0 \in 0..whole.length
    BY <1>2
  <2>2. /\ Split(chars, delimiter.buffer) = PiecesOf(chars, delimiter.buffer)[0]
        /\ PiecesOf(chars, delimiter.buffer)[0] \in Texts0
    BY <1>1, <1>5, <2>1, TextsAre
  <2>3. QED
    BY <1>1, <1>3, <2>2 DEF Texts0
<1>6. parts \in Seq(SliceType) /\ consumed \in 0..whole.length /\ <<>> \in Seq(Seq(Bytes))
  BY <1>1, <1>2
<1>7. QED
  BY <1>1, <1>3, <1>4, <1>5, <1>6 DEF BatchInv

\* A call keeps it.
LEMMA EachBatch ==
  ASSUME BatchInv, Batch
  PROVE  BatchInv'
<1> DEFINE d == delimiter.buffer
           F == PiecesOf(chars, d)
           s == RestOf(whole, consumed)
           got == Got(parts, whole, outCount)
           n == whole.length
           r == SplitToOutBuffer(Drop(whole, consumed), delimiter, outCount)
<1>1. /\ SplitTypes /\ consumed < n /\ delimiter.length > 0 /\ UNCHANGED <<whole, delimiter, outCount>>
      /\ parts' = parts \o r.parts /\ consumed' = consumed + r.used
  BY DEF BatchInv, Batch
<1>2. /\ Inside(whole) /\ Inside(delimiter) /\ whole \in SliceType /\ delimiter \in SliceType
      /\ n \in Nat /\ delimiter.length \in Nat
      /\ chars \in Seq(Bytes) /\ Len(chars) = n /\ d \in Seq(Bytes) /\ Len(d) = delimiter.length /\ d # <<>>
      /\ d = Chars(delimiter) /\ chars = Chars(whole) /\ outCount \in Nat \ {0}
  BY <1>1, TextsAre DEF SplitTypes, Inside, chars
<1>3. Splits(F, chars, d, 0) /\ Split(chars, d) = F[0] /\ \A i \in 0..n : F[i] \in Texts0
  BY <1>1, TextsAre
<1>4. SplitTypes' /\ chars' = chars /\ d' = d
  BY <1>1 DEF SplitTypes, Inside, SliceType, Chars, Data, chars
<1>5. consumed \in 0..n /\ parts \in Seq(SliceType) /\ got \in Seq(Seq(Bytes))
  BY <1>1 DEF BatchInv
<1>6. IsMultiple(Len(parts), outCount) /\ Split(chars, d) = got \o F[consumed]
  <2>1. consumed # n
    BY <1>1, <1>2, <1>5
  <2>2. QED
    BY <1>1, <2>1 DEF BatchInv
<1> HIDE DEF F, d
<1>7. s \in SliceType /\ s.length = n - consumed /\ s.length > 0 /\ Drop(whole, consumed) = s
  <2>1. Inside(RestOf(whole, consumed)) /\ RestOf(whole, consumed).length = n - consumed
    BY <1>2, <1>5, RestIs
  <2>2. Drop(whole, consumed) = View(whole, consumed, n - consumed)
    BY <1>2, <1>5, DropIs
  <2>3. QED
    BY <1>1, <1>2, <1>5, <2>1, <2>2 DEF RestOf, Inside
<1> HIDE DEF s, n
<1>8. PICK g : /\ Fills(g, s, delimiter, outCount, 0)
               /\ r = [g[0][outCount] EXCEPT !.parts[1] = View(s, 0, @.length + s.length)]
  <2>1. s \in SliceType /\ delimiter \in SliceType /\ s.length > 0 /\ delimiter.length > 0
    BY <1>1, <1>2, <1>7
  <2>2. \E g : /\ Fills(g, s, delimiter, outCount, 0)
               /\ SplitToOutBuffer(s, delimiter, outCount)
                    = [g[0][outCount] EXCEPT !.parts[1] = View(s, 0, @.length + s.length)]
    BY <1>2, <2>1, CallIs
  <2>3. r = SplitToOutBuffer(s, delimiter, outCount)
    BY <1>7
  <2> HIDE DEF r
  <2>4. QED
    BY <2>2, <2>3
<1> DEFINE o == g[0][outCount]
<1>9. Good(whole, F, consumed, o, 0, outCount)
  <2>1. 0 \in 0..(whole.length - consumed) /\ outCount \in 1..outCount /\ outCount \in Nat
    BY <1>1, <1>2, <1>5 DEF n
  <2>2. \A i \in 0..(whole.length - consumed) : \A left \in 1..outCount : Good(whole, F, consumed, g[i][left], i, left)
    BY <1>1, <1>2, <1>3, <1>5, <1>8, CallIsGood DEF s, n
  <2>3. QED
    BY <2>1, <2>2
<1> HIDE DEF o
<1>10. /\ o \in [parts : Seq(SliceType), used : Nat] /\ o.used \in Nat /\ consumed + o.used <= n
       /\ Len(o.parts) \in 1..outCount /\ \A k \in 1..Len(o.parts) : Inside(o.parts[k])
       /\ \/ consumed + o.used = n /\ F[consumed + 0] = Read(o.parts)
          \/ Len(o.parts) = outCount /\ F[consumed + 0] = Read(o.parts) \o F[consumed + o.used]
  BY <1>9 DEF Good, n
<1>11. r.used = o.used /\ r.parts = [o.parts EXCEPT ![1] = View(s, 0, @.length + (whole.length - consumed))]
  <2>1. r = [o EXCEPT !.parts[1] = View(s, 0, @.length + s.length)]
    BY <1>8 DEF o
  <2> HIDE DEF r
  <2>2. r.used = o.used /\ r.parts = [o.parts EXCEPT ![1] = View(s, 0, o.parts[1].length + s.length)]
    BY <1>10, <2>1
  <2>3. QED
    BY <1>7, <2>2 DEF n
<1> HIDE DEF r
<1>12. /\ parts' \in Seq(SliceType) /\ Len(parts') = Len(parts) + Len(o.parts)
       /\ Got(parts', whole, outCount) \in Seq(Seq(Bytes))
       /\ Got(parts', whole, outCount) = got \o Read(o.parts)
  <2>1. consumed \in 0..whole.length
    BY <1>5 DEF n
  <2>2. r.parts = Opened(o.parts, whole, consumed)
    BY <1>11 DEF s, Opened
  <2>3. parts' = parts \o Opened(o.parts, whole, consumed)
    BY <1>1, <2>2 DEF r
  <2>4. parts \in Seq(SliceType) /\ Got(parts, whole, outCount) \in Seq(Seq(Bytes)) /\ IsMultiple(Len(parts), outCount)
    BY <1>5, <1>6
  <2>5. CallGoesOn(parts, o, whole, consumed, outCount)
    BY <1>2, <1>9, <2>1, <2>4, CallsGoOn
  <2>6. QED
    BY <2>3, <2>5 DEF CallGoesOn
<1>13. consumed' = consumed + o.used /\ consumed' \in 0..n
  BY <1>1, <1>5, <1>10, <1>11
<1> DEFINE b == Read(o.parts)
<1>14. b \in Seq(Seq(Bytes)) /\ Len(b) = Len(o.parts) /\ consumed + 0 = consumed
  BY <1>5, <1>10, ReadsOf
<1> HIDE DEF b, got
<1>15. CASE Len(o.parts) = outCount /\ F[consumed] = b \o F[consumed + o.used]
  <2> DEFINE u == F[consumed + o.used]
  <2>1. u \in Seq(Seq(Bytes))
    BY <1>3, <1>13 DEF Texts0
  <2>2. F[consumed] = b \o u
    BY <1>15
  <2> HIDE DEF u
  <2>3. got \o (b \o u) = (got \o b) \o u
    BY <1>5, <1>14, <2>1, ThreeTexts
  <2>4. Split(chars, d) = Got(parts', whole, outCount) \o F[consumed']
    BY <1>6, <1>12, <1>13, <2>2, <2>3 DEF b, u
  <2>5. IsMultiple(Len(parts'), outCount)
    <3>1. Len(parts) \in Nat /\ Len(parts') = Len(parts) + outCount
      BY <1>5, <1>12, <1>15
    <3>2. IsMultiple(Len(parts) + outCount, outCount)
      BY <1>2, <1>6, <3>1, NextCall
    <3>3. QED
      BY <3>1, <3>2
  <2>6. QED
    BY <1>1, <1>4, <1>12, <1>13, <2>4, <2>5 DEF BatchInv, F, d, n
<1>16. CASE consumed + o.used = n /\ F[consumed] = b
  <2>1. Split(chars, d) = Got(parts', whole, outCount)
    BY <1>6, <1>12, <1>16 DEF b
  <2>2. Len(parts') > 0 /\ Len(parts') \in Nat
    BY <1>5, <1>10, <1>12
  <2>3. ASSUME Got(parts', whole, outCount)[Len(parts')] = <<>>, (Len(parts') - 1) % outCount = 0
        PROVE  FALSE
    <3> DEFINE m == Len(o.parts)
    <3>1. m \in 1..outCount /\ Len(parts) \in Nat /\ Len(parts') = Len(parts) + m
      BY <1>5, <1>10, <1>12
    <3>11. outCount \in Nat \ {0}
      BY <1>2
    <3> HIDE DEF m
    <3>2. PICK i \in 0..(outCount - 1) : i = m - 1
      <4>1. m - 1 \in 0..(outCount - 1)
        BY <3>1, <3>11
      <4>2. QED
        BY <4>1
    <3>3. (Len(parts) + i) % outCount = i
      BY <1>6, <3>1, <3>11, InACall
    <3>31. Len(parts') - 1 = Len(parts) + i
      BY <3>1, <3>2, <3>11
    <3>32. (Len(parts') - 1) % outCount = i
      BY <3>3, <3>31
    <3>33. i = 0
      BY <2>3, <3>32
    <3>4. m = 1
      BY <3>1, <3>2, <3>11, <3>33
    <3>5. Len(F[consumed]) = 1
      BY <1>14, <1>16, <3>4 DEF m
    <3>6. F[consumed] = <<SubSeq(chars, consumed + 1, n)>>
      <4>1. consumed \in 0..Len(chars)
        BY <1>2, <1>5
      <4>2. QED
        <5>1. chars \in Seq(Bytes) /\ d \in Seq(Bytes) /\ d # <<>> /\ Splits(F, chars, d, 0) /\ Len(chars) = n
          BY <1>2, <1>3
        <5>2. F[consumed] = <<SubSeq(chars, consumed + 1, Len(chars))>>
          BY <3>5, <4>1, <5>1, OnePiece
        <5>3. QED
          BY <5>1, <5>2
    <3>7. (got \o b)[Len(parts')] = b[1]
      <4>1. Len(got) = Len(parts)
        BY <1>5 DEF got, Got
      <4>2. Len(parts') = Len(got) + 1 /\ Len(b) = 1
        BY <1>12, <1>14, <3>4, <4>1 DEF m
      <4>3. Concatenated(Seq(Bytes), got, b) /\ 1 \in 1..Len(b)
        BY <1>5, <1>14, <4>2, ConcatIs
      <4>4. QED
        BY <4>2, <4>3 DEF Concatenated
    <3>8. b[1] = SubSeq(chars, consumed + 1, n) /\ Len(SubSeq(chars, consumed + 1, n)) = n - consumed
      BY <1>2, <1>5, <1>16, <3>6
    <3>9. b[1] = <<>>
      BY <1>12, <2>3, <3>7 DEF b
    <3>10. QED
      BY <1>1, <1>2, <1>5, <3>8, <3>9 DEF n
  <2>4. consumed' = whole.length'
    BY <1>1, <1>13, <1>16 DEF n
  <2>5. QED
    BY <1>1, <1>4, <1>12, <1>13, <2>1, <2>2, <2>3, <2>4 DEF BatchInv, F, d, n
<1>17. QED
  BY <1>10, <1>14, <1>15, <1>16 DEF b

\* At the end of the text it is what the property says.
LEMMA BatchesAre ==
  ASSUME BatchInv
  PROVE  BatchesLikeSplit
<1> DEFINE d == delimiter.buffer
           F == PiecesOf(chars, d)
           ref == Split(chars, d)
           n == Len(ref)
           got == Got(parts, whole, outCount)
           lost == ref[n] = <<>> /\ (n - 1) % outCount = 0
<1>1. SplitTypes /\ consumed \in 0..whole.length
  BY DEF BatchInv
<1>2. /\ whole.length \in Nat /\ chars \in Seq(Bytes) /\ Len(chars) = whole.length
      /\ d \in Seq(Bytes) /\ outCount \in Nat \ {0}
  BY <1>1, TextsAre DEF SplitTypes
<1> DEFINE read == [i \in 1..Len(parts) |-> Chars(Part(i))]
<1>3. got = read
  BY DEF Got, Mended, Part
<1>4. ASSUME delimiter.length > 0, whole.length > 0, consumed = whole.length
      PROVE  /\ got = IF lost THEN SubSeq(ref, 1, n - 1) ELSE ref
             /\ SbJoin(d, got, Len(got)) \o (IF lost THEN d ELSE <<>>) = chars
  <2>1. d # <<>> /\ Splits(F, chars, d, 0) /\ ref = F[0] /\ \A i \in 0..whole.length : F[i] \in Texts0
    BY <1>1, <1>4, TextsAre
  <2>2. ref \in Seq(Seq(Bytes)) /\ n \in Nat \ {0}
    <3>1. 0 \in 0..whole.length
      BY <1>2
    <3>2. F[0] \in Seq(Seq(Bytes)) /\ F[0] # <<>>
      BY <2>1, <3>1 DEF Texts0
    <3> HIDE DEF F
    <3>3. QED
      BY <2>1, <3>2
  <2>3. got \in Seq(Seq(Bytes)) /\ Len(got) = Len(parts) /\ Len(parts) \in Nat
    BY <1>4 DEF BatchInv, Got
  <2>4. F[whole.length] = <<<<>>>>
    <3> HIDE DEF F, d
    <3>1. QED
      BY <1>2, <2>1, NothingBehindEnd
  <2>5. \/ /\ IsMultiple(Len(parts), outCount)
           /\ ref = got \o F[consumed]
        \/ /\ ref = got /\ Len(parts) > 0
           /\ ~(got[Len(parts)] = <<>> /\ (Len(parts) - 1) % outCount = 0)
    BY <1>4 DEF BatchInv
  <2> HIDE DEF F, got, ref, n, d
  <2>6. CASE /\ IsMultiple(Len(parts), outCount)
             /\ ref = got \o F[consumed]
    <3> DEFINE e == <<>>
    <3>1. e \in Seq(Bytes) /\ ref = Append(got, e)
      <4>1. got \o <<<<>>>> = Append(got, <<>>)
        BY <2>3
      <4>2. F[consumed] = <<<<>>>>
        BY <1>4, <2>4
      <4>3. ref = got \o <<<<>>>>
        BY <2>6, <4>2
      <4>4. e \in Seq(Bytes)
        OBVIOUS
      <4>5. QED
        BY <4>1, <4>3, <4>4
    <3> HIDE DEF e
    <3>2. n = Len(parts) + 1 /\ ref[n] = e /\ SubSeq(ref, 1, n - 1) = got
      <4>1. n = Len(got) + 1 /\ ref[Len(got) + 1] = e
        BY <2>3, <3>1 DEF n
      <4>2. SubSeq(Append(got, e), 1, Len(got)) = got
        <5>1. Append(got, e) \in Seq(Seq(Bytes)) /\ Len(Append(got, e)) = Len(got) + 1 /\ \A k \in 1..Len(got) : Append(got, e)[k] = got[k]
          BY <2>3, <3>1
        <5> DEFINE a == Append(got, e)
        <5> HIDE DEF a
        <5>2. SubSeq(a, 1, Len(got)) \in Seq(Seq(Bytes)) /\ Len(SubSeq(a, 1, Len(got))) = Len(got) /\ \A k \in 1..Len(got) : SubSeq(a, 1, Len(got))[k] = a[k]
          BY <2>3, <5>1 DEF a
        <5>3. QED
          BY <2>3, <5>1, <5>2, SeqEqual DEF a
      <4>3. n - 1 = Len(got)
        BY <2>3, <4>1
      <4>4. SubSeq(ref, 1, Len(got)) = got
        BY <3>1, <4>2
      <4>5. QED
        BY <2>3, <4>1, <4>3, <4>4
    <3>3. lost
      <4>1. PICK z \in 0..(outCount - 1) : z = 0
        BY <1>2
      <4>2. (Len(parts) + z) % outCount = z
        BY <1>2, <2>3, <2>6, InACall
      <4>3. n - 1 = Len(parts) + z
        BY <2>3, <3>2, <4>1
      <4>4. QED
        BY <3>2, <4>1, <4>2, <4>3 DEF e
    <3>4. n - 1 \in 1..n
      <4>1. n # 1
        <5>1. SUFFICES ASSUME n = 1 PROVE FALSE
          OBVIOUS
        <5>2. 0 \in 0..Len(chars) /\ Len(F[0]) = 1
          BY <1>2, <2>1, <5>1 DEF n
        <5>3. F[0] = <<SubSeq(chars, 0 + 1, Len(chars))>>
          BY <1>2, <2>1, <5>2, OnePiece
        <5>4. SubSeq(chars, 0 + 1, Len(chars)) = <<>>
          BY <2>1, <3>2, <5>1, <5>3 DEF e
        <5>5. SubSeq(chars, 0 + 1, Len(chars)) = chars
          BY <1>2
        <5>6. QED
          BY <1>2, <1>4, <5>4, <5>5
      <4>2. QED
        BY <2>2, <4>1
    <3>5. SbJoin(d, got, n - 1) \o (IF n - 1 = Len(ref) THEN <<>> ELSE d) = chars
      <4>1. /\ n - 1 \in 1..Len(ref) /\ got = SubSeq(ref, 1, n - 1)
            /\ n - 1 = Len(ref) - 1 /\ ref[Len(ref)] = <<>>
        BY <3>2, <3>4 DEF n, e
      <4>2. PICK k : k = n - 1
        OBVIOUS
      <4>3. /\ k \in 1..Len(ref) /\ got = SubSeq(ref, 1, k)
            /\ k = Len(ref) \/ (k = Len(ref) - 1 /\ ref[Len(ref)] = <<>>)
        BY <4>1, <4>2
      <4>4. JoinsTo(chars, d, ref, got, k)
        BY <1>2, <2>1, <4>3, JoinsBack
      <4>5. QED
        BY <4>2, <4>4 DEF JoinsTo
    <3>6. n - 1 # Len(ref) /\ Len(got) = n - 1
      <4>1. PICK x \in Nat, y \in Nat : x = Len(parts) /\ y = n
        BY <2>2, <2>3
      <4>2. y = x + 1 /\ Len(got) = x /\ Len(ref) = y
        BY <2>3, <3>2, <4>1 DEF n
      <4>3. QED
        BY <4>1, <4>2
    <3>7. QED
      BY <3>2, <3>3, <3>5, <3>6
  <2>7. CASE /\ ref = got /\ Len(parts) > 0
             /\ ~(got[Len(parts)] = <<>> /\ (Len(parts) - 1) % outCount = 0)
    <3>1. n = Len(parts) /\ ~lost
      BY <2>3, <2>7 DEF n
    <3>2. SbJoin(d, got, n) \o (IF n = Len(ref) THEN <<>> ELSE d) = chars
      <4>1. n \in 1..Len(ref) /\ got = SubSeq(ref, 1, n) /\ n = Len(ref)
        BY <2>2, <2>7 DEF n
      <4>2. JoinsTo(chars, d, ref, got, n)
        BY <1>2, <2>1, <4>1, JoinsBack
      <4>3. QED
        BY <4>2 DEF JoinsTo
    <3>3. QED
      BY <2>3, <2>7, <3>1, <3>2 DEF n
  <2>8. QED
    BY <2>5, <2>6, <2>7
<1> HIDE DEF got, read
<1>5. delimiter.length > 0 /\ whole.length > 0 /\ consumed = whole.length =>
        /\ read = IF ref[n] = <<>> /\ (n - 1) % outCount = 0 THEN SubSeq(ref, 1, n - 1) ELSE ref
        /\ SbJoin(d, read, Len(read)) \o (IF ref[n] = <<>> /\ (n - 1) % outCount = 0 THEN d ELSE <<>>) = chars
  BY <1>3, <1>4
<1>6. consumed <= whole.length
  BY <1>1, <1>2
<1>7. QED
  BY <1>5, <1>6 DEF BatchesLikeSplit, read

\* Every step keeps it.
LEMMA BatchInvKept ==
  ASSUME BatchInv, [SplitNext]_splitVars
  PROVE  BatchInv'
<1>1. CASE Batch
  BY <1>1, EachBatch
<1>2. CASE Chop \/ UNCHANGED splitVars
  <2>1. UNCHANGED <<whole, delimiter, outCount, consumed, parts>>
    BY <1>2 DEF Chop, splitVars
  <2>2. chars' = chars /\ SplitTypes' = SplitTypes
    BY <2>1 DEF SplitTypes, Inside, SliceType, Chars, Data, chars
  <2>3. QED
    BY <2>1, <2>2 DEF BatchInv
<1>3. QED
  BY <1>1, <1>2 DEF SplitNext

\* Splitting a text some slices at a time gives its pieces, for any texts,
\* delimiters and sizes of the buffer, but for the length of the first slice of
\* each call and an empty piece behind a last delimiter; and joining them gives
\* the text.  No call consumes more than there is.
THEOREM BatchesAreSplits == SplitSpec => []BatchesLikeSplit
<1>1. SplitInit => BatchInv
  BY BatchStarts
<1>2. BatchInv /\ [SplitNext]_splitVars => BatchInv'
  BY BatchInvKept
<1>3. BatchInv => BatchesLikeSplit
  BY BatchesAre
<1>4. QED
  BY <1>1, <1>2, <1>3, PTL DEF SplitSpec

=============================================================================
