---------------------------- MODULE ParseContext ----------------------------
(***************************************************************************)
(* A JsonContext that a client keeps from parse to parse, and the calls of *)
(* json_parser.c that make it, set it and parse with it.  The parser looks *)
(* for white space in a table, made from a string that has room for        *)
(* FieldRoom characters.  The globals it may be copied from are those of   *)
(* JsonGlobals.                                                            *)
(***************************************************************************)
EXTENDS Integers, SequencesExt

CONSTANTS
  Blanks,          \* white space strings that clients give, to init too
  Flags,           \* JsonConfigFlag
  Depths,          \* maximal depths
  Separators,      \* decimal separators of a client or of the locale
  Printable, Dot,  \* those that a locale may bring, and the default among them
  FieldRoom,       \* 15
  SetRoom,         \* 7, what jsonp_set_context_whitespace_chars uses of them
  SaidRoom,        \* 8, what the header says it uses of them
  NoContext

ASSUME ContextAssumption ==
  /\ FieldRoom \in Nat /\ SetRoom \in 0..FieldRoom
  /\ Dot \in Printable
  /\ \A s \in Blanks : s \in Seq(Range(s))

VARIABLES
  ctx,    \* [whitespace_chars, ws_table, config_flags, depth_max, separator, input], or NoContext;
          \* input is "none", "live", or "gone" when it points into a call that has returned
  given   \* ghost: the white space string the client gave last

contextVars == <<ctx, given>>

Fit(s, room) == SubSeq(s, 1, IF Len(s) < room THEN Len(s) ELSE room)

\* jsonp_make_config_flag_bitset: one bit for each flag of the array.
MakeConfigFlagBitset(flag) == Range(flag)

\* Mutant: the table is not cleared first.
TableFor_Kept(table, chars) == table \cup Range(chars)

\* pvt_init_context_whitespace_table.
TableFor(table, chars) == Range(chars)

\* pvt_get_locale_decimal_separator_char.
LocaleSeparator(c) == IF c \in Printable THEN c ELSE Dot

Fresh(chars, flags, depth, separator) ==
  [whitespace_chars |-> chars, ws_table |-> TableFor({}, chars), config_flags |-> flags,
   depth_max |-> depth, separator |-> separator, input |-> "none"]

-----------------------------------------------------------------------------

\* jsonp_copy_global_context, with pvt_copy_global_state.
CopyGlobalContext(chars, flags, depth, locale) ==
  /\ ctx = NoContext
  /\ ctx' = Fresh(Fit(chars, FieldRoom), flags, depth, LocaleSeparator(locale))
  /\ given' = chars

\* jsonp_make_empty_context: everything is zero.
MakeEmptyContext ==
  /\ ctx = NoContext
  /\ ctx' = Fresh(<<>>, {}, 0, "")
  /\ given' = <<>>

Idle == ctx # NoContext /\ ctx.input # "live"

SetContextWhitespaceChars(chars) ==
  /\ Idle
  /\ LET kept == Fit(chars, SetRoom)
     IN  ctx' = [ctx EXCEPT !.whitespace_chars = kept, !.ws_table = TableFor(@, kept)]
  /\ given' = chars

SetContextConfigFlag(flag) ==
  /\ Idle
  /\ ctx' = [ctx EXCEPT !.config_flags = @ \cup {flag}]
  /\ UNCHANGED given

ClearContextConfigFlag(flag) ==
  /\ Idle
  /\ ctx' = [ctx EXCEPT !.config_flags = @ \ {flag}]
  /\ UNCHANGED given

SetContextMaxDepth(depth) ==
  /\ Idle
  /\ ctx' = [ctx EXCEPT !.depth_max = depth]
  /\ UNCHANGED given

SetContextDecimalSeparator(c) ==
  /\ Idle
  /\ ctx' = [ctx EXCEPT !.separator = c]
  /\ UNCHANGED given

\* pvt_reset_context, first thing in jsonp_parse_string_using_context; the
\* input is the call's own, and the text may be empty.
ParseUsingContext(empty) ==
  /\ Idle
  /\ ctx' = [ctx EXCEPT !.input = IF empty THEN "none" ELSE "live"]
  /\ UNCHANGED given

\* The parse returns, and its input goes out of scope.
ParseReturns ==
  /\ ctx # NoContext /\ ctx.input = "live"
  /\ ctx' = [ctx EXCEPT !.input = "gone"]
  /\ UNCHANGED given

\* free, by the client.
FreeContext ==
  /\ Idle
  /\ ctx' = NoContext
  /\ UNCHANGED given

-----------------------------------------------------------------------------

ContextInit == ctx = NoContext /\ given = <<>>

ContextNext ==
  \/ \E chars \in Blanks, flag \in SeqOf(Flags, 2), depth \in Depths, c \in Separators :
       CopyGlobalContext(chars, MakeConfigFlagBitset(flag), depth, c)
  \/ MakeEmptyContext
  \/ \E chars \in Blanks : SetContextWhitespaceChars(chars)
  \/ \E flag \in Flags : SetContextConfigFlag(flag) \/ ClearContextConfigFlag(flag)
  \/ \E depth \in Depths : SetContextMaxDepth(depth)
  \/ \E c \in Separators : SetContextDecimalSeparator(c)
  \/ \E empty \in BOOLEAN : ParseUsingContext(empty)
  \/ ParseReturns
  \/ FreeContext

-----------------------------------------------------------------------------
(* Properties. *)

\* "Specifies what the parser considers as white space.  Replaces the existing
\* definition" (json_parser.h:402): a parse skips exactly the characters that
\* were given last, to the context or with the globals it was copied from,
\* whatever was given before and parsed between, and they are what the getter
\* returns.  Nothing is said of strings longer than the code keeps.
ParsesAsTold ==
  ctx # NoContext =>
    /\ ctx.ws_table = Range(ctx.whitespace_chars)
    /\ Len(given) <= SetRoom => ctx.ws_table = Range(given)

\* "Only supports max 8 ASCII chars.  Chars after the 8th are ignored"
\* (json_parser.h:415), so that up to 8 of them count.  It does not hold: the
\* string with its NUL is cut to 8 bytes, and the eighth character is ignored.
AllThatIsSaidCounts ==
  ctx # NoContext /\ Len(given) <= SaidRoom => ctx.ws_table = Range(given)

=============================================================================
