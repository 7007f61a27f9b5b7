----------------------------- MODULE StringSlice ----------------------------
(***************************************************************************)
(* src/string/string_slice.c: views of text.  A slice is a place in a      *)
(* buffer and a length; what lies in the buffer around the slice is there  *)
(* for a function that looks too far.  Behind a buffer is its NUL.         *)
(*                                                                         *)
(* The state machine is a client that takes a text apart, on one side with *)
(* slice_chop_by_delimiter until nothing is left (the loop of slice_split) *)
(* and on the other with slice_split_to_out_buffer, some slices at a time. *)
(***************************************************************************)
EXTENDS StringUtils

CONSTANTS
  Buffers,      \* the buffers slices are taken of: sequences of characters
  Delimiters,   \* C strings
  Batches       \* values of out_count

ASSUME StringSliceAssumption ==
  /\ Buffers \subseteq Seq(0..255) /\ Delimiters \subseteq Seq(0..255)
  /\ Batches \subseteq Nat \ {0}

VARIABLES
  whole, delimiter,  \* what is split, a slice, and where
  rest, pieces,      \* the slice being chopped, and the results so far
  outCount,          \* the size of the client's buffer
  consumed, parts    \* what slice_split_to_out_buffer consumed and returned

splitVars == <<whole, delimiter, rest, pieces, outCount, consumed, parts>>

-----------------------------------------------------------------------------
(* Slices. *)

\* Slice s of length n that begins i characters into the slice s.
View(s, i, n) == [buffer |-> s.buffer, at |-> s.at + i, length |-> n]

FromCString(str) == [buffer |-> str, at |-> 0, length |-> Len(str)]

Empty == FromCString(<<>>)

\* s.data[i].
Data(s, i) == IF s.at + i < Len(s.buffer) THEN s.buffer[s.at + i + 1] ELSE 0

Chars(s) == [i \in 1..s.length |-> Data(s, i - 1)]

Upper(c) == IF c \in 97..122 THEN c - 32 ELSE c

Fold(c, ignoreCase) == IF ignoreCase THEN Upper(c) ELSE c

Least(a, b) == IF a < b THEN a ELSE b

Take(s, n) == View(s, 0, Least(n, s.length))

Drop(s, n) == LET m == Least(n, s.length) IN View(s, m, s.length - m)

Substring(s, start, end) ==
  LET e == Least(end, s.length)
  IN  IF start > s.length \/ start >= e THEN Empty ELSE View(s, start, e - start)

\* slice_compare and slice_compare_by_case: by length first.
Compare(s1, s2, ignoreCase) ==
  LET diff(i) == Fold(Data(s1, i), ignoreCase) - Fold(Data(s2, i), ignoreCase)
      differ == {i \in 0..(s1.length - 1) : diff(i) # 0}
  IN  CASE s1.length < s2.length -> -1
        [] s1.length > s2.length -> 1
        [] OTHER -> IF differ = {} THEN 0
                    ELSE diff(CHOOSE i \in differ : \A j \in differ : i <= j)

\* slice_equal and slice_equal_by_case.
Equal(s1, s2, ignoreCase) ==
  /\ s1.length = s2.length
  /\ \A i \in 0..(s1.length - 1) : Fold(Data(s1, i), ignoreCase) = Fold(Data(s2, i), ignoreCase)

EqualArrays(sa1, sa2, ignoreCase) ==
  /\ Len(sa1) = Len(sa2)
  /\ \A i \in 1..Len(sa1) : Equal(sa1[i], sa2[i], ignoreCase)

\* Mutant: a prefix longer than the slice is compared with what lies behind it.
StartsWith_NoLength(s, prefix) ==
  \A i \in 0..(prefix.length - 1) : Data(s, i) = Data(prefix, i)

StartsWith(s, prefix) ==
  /\ prefix.length <= s.length
  /\ \A i \in 0..(prefix.length - 1) : Data(s, i) = Data(prefix, i)

\* Ignoring case, the lengths are not compared.
StartsWithByCase(s, prefix, ignoreCase) ==
  IF ignoreCase
  THEN \A i \in 0..(prefix.length - 1) : Upper(Data(s, i)) = Upper(Data(prefix, i))
  ELSE StartsWith(s, prefix)

\* slice_ends_with and slice_ends_with_by_case: the index runs from one behind
\* the end down to the second character.
EndsWith(s, suffix, ignoreCase) ==
  /\ suffix.length <= s.length
  /\ \A i \in 0..(suffix.length - 1) :
       Fold(Data(s, s.length - i), ignoreCase) = Fold(Data(suffix, suffix.length - i), ignoreCase)

Found(s, subs, ignoreCase) ==
  {i \in 0..(s.length - subs.length) : StartsWithByCase(Drop(s, i), subs, ignoreCase)}

IndexOf(s, subs, ignoreCase) ==
  CASE subs.length > s.length -> -1
    [] subs.length = 0        -> 0
    [] OTHER -> LET at == Found(s, subs, ignoreCase)
                IN  IF at = {} THEN -1 ELSE CHOOSE i \in at : \A j \in at : i <= j

RIndexOf(s, subs, ignoreCase) ==
  CASE subs.length > s.length -> -1
    [] subs.length = 0        -> s.length
    [] OTHER -> LET at == Found(s, subs, ignoreCase)
                IN  IF at = {} THEN -1 ELSE CHOOSE i \in at : \A j \in at : i >= j

\* Mutant: only the blank is a space.
IsSpace_Blank(c) == c = 32

\* isspace of the C locale.
IsSpace(c) == c \in {9, 10, 11, 12, 13, 32}

\* Where the first character that is no space is; the length if there is none.
LeadingSpace(s) ==
  CHOOSE n \in 0..s.length :
    (\A i \in 0..(n - 1) : IsSpace(Data(s, i))) /\ (n < s.length => ~IsSpace(Data(s, n)))

TrimLeft(s) == Drop(s, LeadingSpace(s))

TrimRight(s) ==
  Take(s, CHOOSE n \in 0..s.length :
            (\A i \in n..(s.length - 1) : IsSpace(Data(s, i))) /\ (n > 0 => ~IsSpace(Data(s, n - 1))))

Trim(s) == TrimRight(TrimLeft(s))

\* slice_snprint, slice_as_cstring: at most n characters and a NUL.
SnPrint(s, n) == Chars(Take(s, n))

-----------------------------------------------------------------------------
(* Splitting.                                                               *)

\* Mutant: what is left still begins with the delimiter.
ChopByDelimiter_KeepsDelimiter(s, delim) ==
  LET at == {i \in 0..(s.length - delim.length - 1) : StartsWith(Drop(s, i), delim)}
      i == CHOOSE i \in at : \A j \in at : i <= j
  IN  CASE delim.length = 0 \/ delim.length > s.length \/ s.length = 0 \/ at = {}
             -> [result |-> s, rest |-> Empty]
        [] OTHER -> [result |-> Take(s, i), rest |-> Drop(s, i + 1)]

\* slice_chop_by_delimiter.  A delimiter that is all of s is found; one at the
\* end of s is not, since the loop stops before the last place it could be at.
ChopByDelimiter(s, delim) ==
  LET at == {i \in 0..(s.length - delim.length - 1) : StartsWith(Drop(s, i), delim)}
      i == CHOOSE i \in at : \A j \in at : i <= j
  IN  CASE delim.length = 0 \/ s.length = 0 \/ delim.length > s.length
                              -> [result |-> s, rest |-> Empty]
        [] delim.length = s.length /\ s.length > 0 /\ Equal(s, delim, FALSE)
                              -> [result |-> Empty, rest |-> Empty]
        [] OTHER -> IF at = {} THEN [result |-> s, rest |-> Empty]
                    ELSE [result |-> Take(s, i), rest |-> Drop(s, i + delim.length)]

\* slice_split_to_out_buffer: the slices it writes and the characters it
\* consumes.  The delimiter behind the last slice that fits is consumed.  The
\* length of the first counts up from that of s instead of 0 (line 319), so
\* this slice is too long by all of s.
SplitToOutBuffer(s, delim, count) ==
  LET none(i, used) == [parts |-> <<View(s, i, 0)>>, used |-> used]
      from[i \in 0..s.length] == [left \in 0..count |->  \* s.data is i on, with left slices to begin
        IF i = s.length \/ left = 0 THEN none(i, i)
        ELSE IF ~StartsWith(Drop(s, i), delim)
        THEN [from[i + 1][left] EXCEPT !.parts[1] = View(s, i, @.length + 1)]
        ELSE IF left = 1 THEN none(i, i + delim.length)
        ELSE [from[i + delim.length][left - 1] EXCEPT !.parts = <<View(s, i, 0)>> \o @]]
  IN  IF s.length = 0 \/ count = 0 \/ delim.length = 0 THEN [parts |-> <<>>, used |-> 0]
      ELSE [from[0][count] EXCEPT !.parts[1] = View(s, 0, @.length + s.length)]

-----------------------------------------------------------------------------
(* The client. *)

\* One turn of slice_split's loop.
Chop ==
  /\ rest.length > 0
  /\ LET r == ChopByDelimiter(rest, delimiter)
     IN  /\ rest' = r.rest
         /\ pieces' = Append(pieces, r.result)
  /\ UNCHANGED <<whole, delimiter, outCount, consumed, parts>>

\* One call for what has not been consumed yet.
Batch ==
  /\ consumed < whole.length
  /\ delimiter.length > 0
  /\ LET r == SplitToOutBuffer(Drop(whole, consumed), delimiter, outCount)
     IN  /\ parts' = parts \o r.parts
         /\ consumed' = consumed + r.used
  /\ UNCHANGED <<whole, delimiter, rest, pieces, outCount>>

SplitInit ==
  /\ \E b \in Buffers : \E i \in 0..Len(b) : \E n \in 0..(Len(b) - i) :
       whole = [buffer |-> b, at |-> i, length |-> n]
  /\ delimiter \in {FromCString(d) : d \in Delimiters}
  /\ rest = whole
  /\ pieces = <<>>
  /\ outCount \in Batches
  /\ consumed = 0
  /\ parts = <<>>

SplitNext == Chop \/ Batch

-----------------------------------------------------------------------------
(* What the text is made of. *)

chars == Chars(whole)

\* The text at every place the delimiter is, from the left.
Split(cs, d) ==
  LET from[i \in 0..Len(cs)] ==
        LET hits == {j \in i..(Len(cs) - Len(d)) : SubSeq(cs, j + 1, j + Len(d)) = d}
            j == CHOOSE j \in hits : \A k \in hits : j <= k
        IN  IF hits = {} THEN <<SubSeq(cs, i + 1, Len(cs))>>
            ELSE <<SubSeq(cs, i + 1, j)>> \o from[j + Len(d)]
  IN  from[0]

-----------------------------------------------------------------------------
(* Properties. *)

\* The pieces that the comment on slice_chop_by_delimiter promises to who chops
\* until nothing is left: what precedes each delimiter, and what follows the
\* last one if that is anything.
Promised ==
  LET ref == Split(chars, delimiter.buffer)
  IN  IF ref[Len(ref)] = <<>> THEN SubSeq(ref, 1, Len(ref) - 1) ELSE ref

\* Something, and the delimiter behind it, is the end of the text.
EndsInDelimiter ==
  LET ref == Split(chars, delimiter.buffer)
      n == Len(ref)
  IN  ref[n] = <<>> /\ ref[n - 1] # <<>>

Chopped == [i \in 1..Len(pieces) |-> Chars(pieces[i])]

\* Chopping until nothing is left gives the pieces of the text, every one and
\* in order.  Nothing is said of a text that ends in a delimiter with something
\* before it, where the code does not do what its comment says.
ChopsLikeSplit ==
  rest.length = 0 =>
    /\ chars = <<>> => Chopped = <<>>
    /\ chars # <<>> /\ delimiter.length = 0 => Chopped = <<chars>>
    /\ chars # <<>> /\ delimiter.length > 0 => EndsInDelimiter \/ Chopped = Promised

\* What the comment of slice_chop_by_delimiter says of every text: the piece
\* before a delimiter is returned without it.  It does not hold: the loop stops
\* short of the last place, so a delimiter there stays in the piece.
ChopsAsPromised ==
  rest.length = 0 /\ chars # <<>> /\ delimiter.length > 0 => Chopped = Promised

\* The part number i, the first of each call without the length of what that
\* call was given.
Part(i) ==
  LET given == whole.at + whole.length - parts[i].at
  IN  IF (i - 1) % outCount = 0 THEN View(parts[i], 0, parts[i].length - given) ELSE parts[i]

\* A text split a few slices at a time, each call going on where the count of
\* consumed characters says, gives the pieces of the text, but that the first
\* slice of each call is longer than its piece by exactly what the call was
\* given; and the empty piece behind a last delimiter comes only if the buffer
\* had room for it.  Joined again they are the text.  No call consumes more
\* than there is.
BatchesLikeSplit ==
  LET ref == Split(chars, delimiter.buffer)
      n == Len(ref)
      got == [i \in 1..Len(parts) |-> Chars(Part(i))]
  IN  /\ consumed <= whole.length
      /\ delimiter.length > 0 /\ whole.length > 0 /\ consumed = whole.length =>
           LET lost == ref[n] = <<>> /\ (n - 1) % outCount = 0
           IN  /\ got = IF lost THEN SubSeq(ref, 1, n - 1) ELSE ref
               /\ SbJoin(delimiter.buffer, got, Len(got)) \o (IF lost THEN delimiter.buffer ELSE <<>>) = chars

=============================================================================
