------------------------------ MODULE FileInput -----------------------------
(***************************************************************************)
(* The file and stream source of src/json_parser/json_parser.c: stdio      *)
(* bytes pass through scanner_buffer, which holds the bytes ahead of the   *)
(* parser, to look_behind_buffer, which keeps those it went past for error *)
(* messages.  Both are CharRingBuffers, taken here for the queue they      *)
(* implement (CharQueue).                                                  *)
(*                                                                         *)
(* length_bytes is the size ftell gave before the first read, 0 when there *)
(* was none to give; fread may then find fewer bytes than that.            *)
(***************************************************************************)
EXTENDS Integers, Sequences

CONSTANTS
  Bytes,       \* the bytes a file may hold
  MaxFile,     \* bound: bytes in a file
  LookAhead,   \* LOOK_AHEAD_BUF_SIZE
  MaxLook      \* the most characters the parser looks ahead or advances

\* The one of stdio.
EndOfFile == -1

ASSUME FileInputAssumption ==
  /\ {MaxFile, MaxLook, LookAhead} \subseteq Nat
  /\ MaxLook \in 1..(LookAhead - 1)
  /\ EndOfFile \notin Bytes

VARIABLES
  file,          \* the bytes fread will find
  length_bytes,  \* what the parser was told of their number, 0: nothing
  pos,           \* fread's position
  scan,          \* scanner_buffer's contents
  behind,        \* look_behind_buffer's contents
  index,         \* current_byte_index
  answer         \* what the last call returned: [k, ret, text]

inputVars == <<file, length_bytes, pos, scan, behind, index, answer>>

source == <<file, length_bytes>>

Files == UNION {[1..n -> Bytes] : n \in 0..MaxFile}

Smaller(x, y) == IF x < y THEN x ELSE y

Suffix(s, n) == SubSeq(s, Len(s) - Smaller(Len(s), n) + 1, Len(s))

Out(k, ret, text) == [k |-> k, ret |-> ret, text |-> text]

-----------------------------------------------------------------------------
(* Reading ahead.  A read is [ret, got]: the count returned and the bytes   *)
(* moved from the file to scanner_buffer.                                   *)

\* file_read: with a known length the whole room is asked for.
Read(requested) ==
  LET wanted == Smaller(IF length_bytes > 0 THEN LookAhead ELSE requested,
                       LookAhead - Len(scan))
      remaining == IF length_bytes = 0 THEN wanted ELSE length_bytes - index
      got == SubSeq(file, pos + 1, Smaller(pos + Smaller(remaining, wanted), Len(file)))
  IN  CASE wanted = 0                        -> [ret |-> 0, got |-> <<>>]
        [] wanted # 0 /\ remaining = 0       -> [ret |-> EndOfFile, got |-> <<>>]
        [] OTHER                             -> [ret |-> Len(got), got |-> got]

\* file_ensure_char_ring_buffer_length: n if so many are buffered, and else
\* the number of bytes that were added to the buffer.
FileEnsure(n) ==
  IF Len(scan) >= n THEN [ret |-> n, got |-> <<>>]
  ELSE Read(IF length_bytes = 0 THEN n ELSE Smaller(n, length_bytes - index))

Buffer(read) ==
  /\ scan' = scan \o read.got
  /\ pos' = pos + Len(read.got)

AtKnownEnd(k) == length_bytes > 0 /\ index + k >= length_bytes

-----------------------------------------------------------------------------
(* The functions an Input points to.                                        *)

\* What looking k characters ahead returns when at least `least` must come
\* back from file_ensure.
Look(k, least) ==
  /\ UNCHANGED <<source, behind, index>>
  /\ \/ /\ AtKnownEnd(k)
        /\ answer' = Out(k, EndOfFile, <<>>)
        /\ UNCHANGED <<scan, pos>>
     \/ /\ ~AtKnownEnd(k)
        /\ LET read == FileEnsure(k + 1)
           IN  /\ Buffer(read)
               /\ answer' = Out(k, IF read.ret < least \/ k >= Len(scan') THEN EndOfFile
                                                    ELSE scan'[k + 1], <<>>)

CurrentChar == Look(0, 0)

\* Of the two ends, only the cursor's own is tested before reading.
PeekNextChar ==
  /\ UNCHANGED <<source, behind, index>>
  /\ \/ /\ AtKnownEnd(0)
        /\ answer' = Out(1, EndOfFile, <<>>)
        /\ UNCHANGED <<scan, pos>>
     \/ /\ ~AtKnownEnd(0)
        /\ LET read == FileEnsure(2)
           IN  /\ Buffer(read)
               /\ answer' = Out(1, IF read.ret < 2 \/ 1 >= Len(scan') THEN EndOfFile
                                                ELSE scan'[2], <<>>)

PeekLookaheadChars(k) == Look(k, k)

\* Mutant: the bytes gone past are copied after the scanner has moved on.
AdvanceNBytes_CopiesLate(n) ==
  /\ n <= Len(scan)
  /\ scan' = SubSeq(scan, n + 1, Len(scan))
  /\ behind' = Suffix(behind \o SubSeq(scan', 1, Smaller(n, Len(scan'))), LookAhead)
  /\ index' = index + n
  /\ answer' = Out(n, n, <<>>)
  /\ UNCHANGED <<source, pos>>

\* The parser advances over characters it has seen, so FileEnsure(n) is n.
AdvanceNBytes(n) ==
  /\ n <= Len(scan)
  /\ scan' = SubSeq(scan, n + 1, Len(scan))
  /\ behind' = Suffix(behind \o SubSeq(scan, 1, n), LookAhead)
  /\ IF length_bytes > 0 /\ index + n >= length_bytes
     THEN index' = length_bytes /\ answer' = Out(n, 0, <<>>)
     ELSE index' = index + n /\ answer' = Out(n, n, <<>>)
  /\ UNCHANGED <<source, pos>>

\* Fills the buffer first when the length is known; at the end of the file
\* the caller's text is left as it was.
SprintNLookaheadChars ==
  /\ UNCHANGED <<source, behind, index>>
  /\ \/ /\ AtKnownEnd(0)
        /\ answer' = Out(0, 0, <<>>)
        /\ UNCHANGED <<scan, pos>>
     \/ /\ ~AtKnownEnd(0)
        /\ LET read == IF length_bytes > 0 THEN FileEnsure(LookAhead)
                                           ELSE [ret |-> 0, got |-> <<>>]
           IN  Buffer(read)
        /\ answer' = Out(0, 0, scan')

InputInit ==
  /\ file \in Files
  /\ length_bytes \in {0} \cup Len(file)..(Len(file) + 1)
  /\ pos = 0
  /\ scan = <<>>
  /\ behind = <<>>
  /\ index = 0
  /\ answer = Out(0, 0, <<>>)

InputNext ==
  \/ CurrentChar
  \/ PeekNextChar
  \/ \E k \in 0..MaxLook : PeekLookaheadChars(k)
  \/ \E n \in 1..MaxLook : AdvanceNBytes(n)
  \/ SprintNLookaheadChars

InputSpec == InputInit /\ [][InputNext]_inputVars

-----------------------------------------------------------------------------
(* Properties. *)

\* The source is a cursor over the file: every byte it shows is the one at
\* that distance, and EOF at the cursor means that the file is exhausted.
Cursor == INSTANCE FileCursor WITH Capacity <- LookAhead, EOF <- EndOfFile, out <- answer
IsCursor == Cursor!Spec

=============================================================================
