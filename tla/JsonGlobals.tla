----------------------------- MODULE JsonGlobals ----------------------------
(***************************************************************************)
(* The global state of src/json_parser/json_parser.c: four atomics that    *)
(* jsonp_init sets, jsonp_destroy clears and every parse copies into a     *)
(* context of its own.  Each atomic operation is a step; a thread may be   *)
(* overtaken between any two.                                              *)
(*                                                                         *)
(* A configuration is one value here: init stores it as the flags, as the  *)
(* depth and as the white space string, so a context that mixes two        *)
(* configurations shows; NULL is what the globals hold before the first.   *)
(***************************************************************************)
EXTENDS Integers

CONSTANTS
  Threads,
  Configs,     \* what clients pass to init
  Addresses,   \* where malloc may put a white space string
  NULL, FREE,  \* no address; the content of an address that is not allocated
  Careful      \* whether clients keep init and destroy apart from the calls
               \* that copy the state, or only follow the header

ASSUME JsonGlobalsAssumption ==
  /\ Careful \in BOOLEAN
  /\ NULL \notin Addresses
  /\ FREE \notin Configs
  /\ NULL \notin Configs

VARIABLES
  is_initialized,
  json_config_flags, pvt_depth_max, pvt_whitespace_chars,
  heap,       \* content of each address
  ready,      \* ghost: init has returned since destroy was last called
  pc,         \* what each thread does next
  arg,        \* each thread's argument to init
  ptr,        \* each thread's local pointer to a white space string
  context     \* each thread's local context: [flags, depth, ws]

globals == <<is_initialized, json_config_flags, pvt_depth_max, pvt_whitespace_chars>>
locals == <<arg, ptr, context>>
globalsVars == <<globals, heap, ready, pc, locals>>

Goto(t, label) == pc' = [pc EXCEPT ![t] = label]

\* No other thread is in a call that reads or writes the globals.
Alone(t) == \A u \in Threads \ {t} : pc[u] \in {"idle", "parsing"}

-----------------------------------------------------------------------------
(* jsonp_init. *)

CallInit(t, c) ==
  /\ pc[t] = "idle"
  /\ Careful => ready \/ Alone(t)
  /\ arg' = [arg EXCEPT ![t] = c]
  /\ Goto(t, "init")
  /\ UNCHANGED <<globals, heap, ready, ptr, context>>

\* Mutant: a second init starts over.
InitCheck_Ignored(t) ==
  /\ pc[t] = "init"
  /\ Goto(t, "init_ws")
  /\ UNCHANGED <<globals, heap, ready, locals>>

InitCheck(t) ==
  /\ pc[t] = "init"
  /\ IF is_initialized
     THEN Goto(t, "idle") /\ ready' = TRUE
     ELSE Goto(t, "init_ws") /\ UNCHANGED ready
  /\ UNCHANGED <<globals, heap, locals>>

\* The copy of the argument is private until it is stored.
InitWhitespace(t) ==
  /\ pc[t] = "init_ws"
  /\ \E a \in Addresses :
       /\ heap[a] = FREE
       /\ heap' = [heap EXCEPT ![a] = arg[t]]
       /\ pvt_whitespace_chars' = a
  /\ Goto(t, "init_flags")
  /\ UNCHANGED <<is_initialized, json_config_flags, pvt_depth_max, ready, locals>>

InitNoMemory(t) ==
  /\ pc[t] = "init_ws"
  /\ Goto(t, "idle")
  /\ UNCHANGED <<globals, heap, ready, locals>>

InitFlags(t) ==
  /\ pc[t] = "init_flags"
  /\ json_config_flags' = arg[t]
  /\ Goto(t, "init_depth")
  /\ UNCHANGED <<is_initialized, pvt_depth_max, pvt_whitespace_chars, heap, ready, locals>>

\* Mutant: the depth limit keeps its old value.
InitDepth_Forgotten(t) ==
  /\ pc[t] = "init_depth"
  /\ Goto(t, "init_done")
  /\ UNCHANGED <<globals, heap, ready, locals>>

InitDepth(t) ==
  /\ pc[t] = "init_depth"
  /\ pvt_depth_max' = arg[t]
  /\ Goto(t, "init_done")
  /\ UNCHANGED <<is_initialized, json_config_flags, pvt_whitespace_chars, heap, ready, locals>>

InitDone(t) ==
  /\ pc[t] = "init_done"
  /\ is_initialized' = TRUE
  /\ ready' = TRUE
  /\ Goto(t, "idle")
  /\ UNCHANGED <<json_config_flags, pvt_depth_max, pvt_whitespace_chars, heap, locals>>

-----------------------------------------------------------------------------
(* jsonp_destroy. *)

CallDestroy(t) ==
  /\ pc[t] = "idle"
  /\ ready
  /\ Careful => Alone(t)
  /\ ready' = FALSE
  /\ Goto(t, "destroy")
  /\ UNCHANGED <<globals, heap, locals>>

\* Mutant: the flag stays up, so that the next init does nothing.
DestroyFlag_Kept(t) ==
  /\ pc[t] = "destroy"
  /\ Goto(t, IF is_initialized THEN "destroy_ws" ELSE "idle")
  /\ UNCHANGED <<globals, heap, ready, locals>>

DestroyFlag(t) ==
  /\ pc[t] = "destroy"
  /\ is_initialized' = FALSE
  /\ Goto(t, IF is_initialized THEN "destroy_ws" ELSE "idle")
  /\ UNCHANGED <<json_config_flags, pvt_depth_max, pvt_whitespace_chars, heap, ready, locals>>

DestroyWhitespace(t) ==
  /\ pc[t] = "destroy_ws"
  /\ ptr' = [ptr EXCEPT ![t] = pvt_whitespace_chars]
  /\ pvt_whitespace_chars' = NULL
  /\ Goto(t, "destroy_free")
  /\ UNCHANGED <<is_initialized, json_config_flags, pvt_depth_max, heap, ready, arg, context>>

DestroyFree(t) ==
  /\ pc[t] = "destroy_free"
  /\ heap' = IF ptr[t] = NULL THEN heap ELSE [heap EXCEPT ![ptr[t]] = FREE]
  /\ ptr' = [ptr EXCEPT ![t] = NULL]
  /\ Goto(t, "idle")
  /\ UNCHANGED <<globals, ready, arg, context>>

-----------------------------------------------------------------------------
(* pvt_copy_global_state, at the beginning of a parse. *)

CallParse(t) ==
  /\ pc[t] = "idle"
  /\ ready
  /\ Goto(t, "copy_flags")
  /\ UNCHANGED <<globals, heap, ready, locals>>

CopyFlags(t) ==
  /\ pc[t] = "copy_flags"
  /\ context' = [context EXCEPT ![t].flags = json_config_flags]
  /\ Goto(t, "copy_depth")
  /\ UNCHANGED <<globals, heap, ready, arg, ptr>>

CopyDepth(t) ==
  /\ pc[t] = "copy_depth"
  /\ context' = [context EXCEPT ![t].depth = pvt_depth_max]
  /\ Goto(t, "load_ws")
  /\ UNCHANGED <<globals, heap, ready, arg, ptr>>

LoadWhitespace(t) ==
  /\ pc[t] = "load_ws"
  /\ ptr' = [ptr EXCEPT ![t] = pvt_whitespace_chars]
  /\ Goto(t, "copy_ws")
  /\ UNCHANGED <<globals, heap, ready, arg, context>>

\* snprintf of the string; of one that is not there, anything may come.
CopyWhitespace(t) ==
  /\ pc[t] = "copy_ws"
  /\ \E ws \in Configs \cup {FREE} :
       /\ ptr[t] # NULL /\ heap[ptr[t]] # FREE => ws = heap[ptr[t]]
       /\ context' = [context EXCEPT ![t].ws = ws]
  /\ ptr' = [ptr EXCEPT ![t] = NULL]
  /\ Goto(t, "parsing")
  /\ UNCHANGED <<globals, heap, ready, arg>>

\* The rest of the parse uses the context alone.
Return(t) ==
  /\ pc[t] = "parsing"
  /\ Goto(t, "idle")
  /\ UNCHANGED <<globals, heap, ready, locals>>

-----------------------------------------------------------------------------

NoContext == [flags |-> NULL, depth |-> NULL, ws |-> NULL]

GlobalsInit ==
  /\ is_initialized = FALSE
  /\ json_config_flags = NULL
  /\ pvt_depth_max = NULL
  /\ pvt_whitespace_chars = NULL
  /\ heap = [a \in Addresses |-> FREE]
  /\ ready = FALSE
  /\ pc = [t \in Threads |-> "idle"]
  /\ arg = [t \in Threads |-> NULL]
  /\ ptr = [t \in Threads |-> NULL]
  /\ context = [t \in Threads |-> NoContext]

GlobalsNext ==
  \E t \in Threads :
    \/ \E c \in Configs : CallInit(t, c)
    \/ InitCheck(t)
    \/ InitWhitespace(t)
    \/ InitNoMemory(t)
    \/ InitFlags(t)
    \/ InitDepth(t)
    \/ InitDone(t)
    \/ CallDestroy(t)
    \/ DestroyFlag(t)
    \/ DestroyWhitespace(t)
    \/ DestroyFree(t)
    \/ CallParse(t)
    \/ CopyFlags(t)
    \/ CopyDepth(t)
    \/ LoadWhitespace(t)
    \/ CopyWhitespace(t)
    \/ Return(t)

GlobalsSpec == GlobalsInit /\ [][GlobalsNext]_globalsVars

-----------------------------------------------------------------------------
(* Properties. *)

Labels ==
  {"idle", "parsing", "init", "init_ws", "init_flags", "init_depth", "init_done",
   "destroy", "destroy_ws", "destroy_free",
   "copy_flags", "copy_depth", "load_ws", "copy_ws"}

Settings == Configs \cup {NULL}

\* Type invariant; the flag is published after everything that it stands for.
GlobalsTypeOK ==
  /\ is_initialized \in BOOLEAN
  /\ Careful /\ is_initialized => NULL \notin {json_config_flags, pvt_depth_max}
  /\ json_config_flags \in Settings /\ pvt_depth_max \in Settings
  /\ pvt_whitespace_chars \in Addresses \cup {NULL}
  /\ heap \in [Addresses -> Configs \cup {FREE}]
  /\ ready \in BOOLEAN
  /\ pc \in [Threads -> Labels]
  /\ arg \in [Threads -> Settings]
  /\ ptr \in [Threads -> Addresses \cup {NULL}]
  /\ context \in [Threads -> [flags : Settings, depth : Settings, ws : Settings \cup {FREE}]]

\* The string that a parse is about to copy is allocated: "any pending parsing
\* in any thread will run to completion, as every parse call uses a local
\* JsonContext" (json_parser.h), whatever init and destroy calls come between.
ParseReadsLiveString ==
  \A t \in Threads :
    pc[t] = "copy_ws" => ptr[t] # NULL /\ heap[ptr[t]] # FREE

\* A parse runs under one configuration, never under the flags of one init
\* with the depth limit or the white space of another.
ContextOfOneInit ==
  \A t \in Threads :
    pc[t] = "parsing" => \E c \in Configs : context[t] = [flags |-> c, depth |-> c, ws |-> c]

\* Every allocated string is the public one or about to be freed, and when no
\* init or destroy is under way there is a public one exactly if initialized.
NoStringLeaks ==
  /\ \A a \in Addresses :
       heap[a] # FREE => \/ pvt_whitespace_chars = a
                         \/ \E t \in Threads : pc[t] = "destroy_free" /\ ptr[t] = a
  /\ (\A t \in Threads : pc[t] \in {"idle", "parsing"}) =>
       (is_initialized <=> pvt_whitespace_chars # NULL)

=============================================================================
