-------------------------- MODULE FileInputProofs --------------------------
(***************************************************************************)
(* Proof that the byte source of json_parser.c is a cursor over the file,  *)
(* for files of any length and content and any size of the look-ahead      *)
(* buffer: every step of FileInput is one of FileCursor.                   *)
(***************************************************************************)
EXTENDS FileInput, SequenceTheorems, TLAPS

\* The bytes of s behind the first a, up to the b-th.
Between(s, a, b) == SubSeq(s, a + 1, b)

\* scanner_buffer holds what lies between the cursor and fread's position.
IInv ==
  /\ file \in Seq(Bytes)
  /\ length_bytes \in Nat /\ (length_bytes = 0 \/ length_bytes >= Len(file))
  /\ index \in Nat /\ pos \in Nat
  /\ index <= pos /\ pos <= Len(file) /\ pos - index <= LookAhead
  /\ scan = Between(file, index, pos)
  /\ behind \in Seq(Bytes)

-----------------------------------------------------------------------------
(* Stretches of a sequence. *)

LEMMA BetweenBytes ==
  ASSUME NEW s \in Seq(Bytes), NEW a \in Nat, NEW b \in Nat, a <= b, b <= Len(s)
  PROVE  /\ Between(s, a, b) \in Seq(Bytes) /\ Len(Between(s, a, b)) = b - a
         /\ \A k \in 1..(b - a) : Between(s, a, b)[k] = s[a + k]
<1>1. Len(s) \in Nat /\ a + 1 \in Int /\ \A i \in (a + 1)..b : i \in 1..Len(s)
  OBVIOUS
<1>2. \A i \in (a + 1)..b : s[i] \in Bytes
  BY <1>1, ElementOfSeq
<1> DEFINE t == Between(s, a, b)
           m == a + 1
<1>3. m \in Int /\ b - m + 1 = b - a /\ (m <= b <=> a < b)
      /\ \A k \in 1..(b - a) : m + k - 1 = a + k
  OBVIOUS
<1>4. t = SubSeq(s, m, b) /\ \A i \in m..b : s[i] \in Bytes
  BY <1>2 DEF Between
<1> HIDE DEF t, m
<1>5. /\ t \in Seq(Bytes) /\ Len(t) = IF m <= b THEN b - m + 1 ELSE 0
      /\ \A k \in 1..(b - m + 1) : t[k] = s[m + k - 1]
  BY <1>3, <1>4, SubSeqProperties
<1>6. Len(t) = b - a
  BY <1>3, <1>5
<1>7. \A k \in 1..(b - a) : t[k] = s[a + k]
  BY <1>3, <1>5
<1>8. QED
  BY <1>5, <1>6, <1>7 DEF t

LEMMA BetweenJoins ==
  ASSUME NEW s \in Seq(Bytes), NEW a \in Nat, NEW b \in Nat, NEW c \in Nat,
         a <= b, b <= c, c <= Len(s)
  PROVE  Between(s, a, b) \o Between(s, b, c) = Between(s, a, c)
<1>1. Len(s) \in Nat
  OBVIOUS
<1>2. a + 1 \in 1..(Len(s) + 1) /\ b \in ((a + 1) - 1)..Len(s) /\ c \in b..Len(s)
  BY <1>1
<1>3. QED
  BY <1>2, ConcatAdjacentSubSeq DEF Between

LEMMA BetweenWithin ==
  ASSUME NEW s \in Seq(Bytes), NEW a \in Nat, NEW b \in Nat, a <= b, b <= Len(s),
         NEW c \in Nat, NEW d \in Nat, c <= d, d <= b - a
  PROVE  Between(Between(s, a, b), c, d) = Between(s, a + c, a + d)
<1> DEFINE t == Between(s, a, b)
           u == Between(t, c, d)
           v == Between(s, a + c, a + d)
<1>1. t \in Seq(Bytes) /\ Len(t) = b - a /\ \A k \in 1..(b - a) : t[k] = s[a + k]
  BY BetweenBytes
<1> HIDE DEF t
<1>2. u \in Seq(Bytes) /\ Len(u) = d - c /\ \A k \in 1..(d - c) : u[k] = t[c + k]
  BY <1>1, BetweenBytes
<1> DEFINE p == a + c
           q == a + d
<1>3. /\ p \in Nat /\ q \in Nat /\ p <= q /\ q <= Len(s) /\ q - p = d - c
      /\ \A k \in 1..(d - c) : c + k \in 1..(b - a) /\ a + (c + k) = p + k
  BY LenProperties
<1>4. v = Between(s, p, q)
  OBVIOUS
<1> HIDE DEF p, q, u, v
<1>5. v \in Seq(Bytes) /\ Len(v) = d - c /\ \A k \in 1..(d - c) : v[k] = s[p + k]
  <2>1. /\ Between(s, p, q) \in Seq(Bytes) /\ Len(Between(s, p, q)) = q - p
        /\ \A k \in 1..(q - p) : Between(s, p, q)[k] = s[p + k]
    BY <1>3, BetweenBytes
  <2>2. QED
    BY <1>3, <1>4, <2>1
<1>6. \A k \in 1..Len(u) : u[k] = v[k]
  BY <1>1, <1>2, <1>3, <1>5
<1>7. u = v
  BY <1>2, <1>5, <1>6, SeqEqual
<1>8. QED
  BY <1>7 DEF t, u, v

\* The same of the first bytes, and of none.
LEMMA FirstBytes ==
  ASSUME NEW s \in Seq(Bytes), NEW b \in Nat, b <= Len(s)
  PROVE  Between(s, 0, b) \in Seq(Bytes) /\ Len(Between(s, 0, b)) = b
<1>1. PICK a \in Nat : a = 0
  OBVIOUS
<1>2. a <= b /\ b - a = b
  BY <1>1
<1>3. Between(s, a, b) \in Seq(Bytes) /\ Len(Between(s, a, b)) = b - a
  BY <1>2, BetweenBytes
<1>4. QED
  BY <1>1, <1>2, <1>3

LEMMA FirstWithin ==
  ASSUME NEW s \in Seq(Bytes), NEW a \in Nat, NEW b \in Nat, a <= b, b <= Len(s),
         NEW d \in Nat, d <= b - a
  PROVE  Between(Between(s, a, b), 0, d) = Between(s, a, a + d)
<1>1. PICK c \in Nat : c = 0
  OBVIOUS
<1>2. c <= d /\ a + c = a
  BY <1>1
<1>3. Between(Between(s, a, b), c, d) = Between(s, a + c, a + d)
  BY <1>2, BetweenWithin
<1>4. QED
  BY <1>1, <1>2, <1>3

LEMMA NothingBetween ==
  ASSUME NEW s \in Seq(Bytes), NEW a \in Nat, a <= Len(s)
  PROVE  Between(s, a, a) = <<>>
<1>1. a + 1 \in Int /\ a < a + 1
  OBVIOUS
<1>2. QED
  BY <1>1, SubSeqEmpty DEF Between

-----------------------------------------------------------------------------
(* What reading ahead adds. *)

LEMMA ScanFacts ==
  ASSUME IInv
  PROVE  /\ scan \in Seq(Bytes) /\ Len(scan) = pos - index /\ Len(scan) \in Nat
         /\ \A k \in 1..(pos - index) : scan[k] = file[index + k]
         /\ Len(file) \in Nat /\ LookAhead \in Nat /\ Len(scan) <= LookAhead
         /\ (length_bytes > 0 => length_bytes - index \in Nat)
<1>1. /\ scan \in Seq(Bytes) /\ Len(scan) = pos - index
      /\ \A k \in 1..(pos - index) : scan[k] = file[index + k]
  BY BetweenBytes DEF IInv
<1>2. Len(file) \in Nat /\ LookAhead \in Nat
  BY FileInputAssumption, LenProperties DEF IInv
<1>3. QED
  BY <1>1, <1>2 DEF IInv

LEMMA ReadGets ==
  ASSUME IInv, NEW requested \in Nat
  PROVE  /\ Read(requested).ret \in Int
         /\ \E e \in pos..Len(file) : /\ Read(requested).got = Between(file, pos, e)
                                      /\ e - index <= LookAhead
<1> DEFINE wanted == Smaller(IF length_bytes > 0 THEN LookAhead ELSE requested, LookAhead - Len(scan))
           remaining == IF length_bytes = 0 THEN wanted ELSE length_bytes - index
           e == Smaller(pos + Smaller(remaining, wanted), Len(file))
<1>1. wanted \in Nat /\ wanted <= LookAhead - Len(scan)
  BY ScanFacts DEF Smaller
<1>2. remaining \in Nat
  BY <1>1, ScanFacts DEF IInv
<1>3. /\ index \in Nat /\ pos \in Nat /\ pos <= Len(file) /\ Len(file) \in Nat
      /\ Len(scan) = pos - index /\ LookAhead \in Nat /\ pos - index <= LookAhead /\ file \in Seq(Bytes)
  BY ScanFacts DEF IInv
<1> HIDE DEF wanted, remaining
<1>4. Smaller(remaining, wanted) \in Nat /\ Smaller(remaining, wanted) <= wanted
  BY <1>1, <1>2 DEF Smaller
<1>5. e \in pos..Len(file) /\ e - index <= LookAhead /\ e \in Nat
  BY <1>1, <1>3, <1>4 DEF Smaller
<1> DEFINE got == Between(file, pos, e)
<1> HIDE DEF e
<1>6. got \in Seq(Bytes) /\ Len(got) \in Nat
  <2>1. pos <= e /\ e <= Len(file)
    BY <1>5
  <2>2. got \in Seq(Bytes)
    BY <1>3, <1>5, <2>1, BetweenBytes
  <2>3. QED
    BY <2>2, LenProperties
<1>7. Read(requested) = CASE wanted = 0                  -> [ret |-> 0, got |-> <<>>]
                          [] wanted # 0 /\ remaining = 0 -> [ret |-> EndOfFile, got |-> <<>>]
                          [] OTHER                       -> [ret |-> Len(got), got |-> got]
  BY DEF Read, wanted, remaining, e, Between
<1>8. Between(file, pos, pos) = <<>>
  BY <1>3, BetweenBytes, EmptySeq
<1>9. CASE wanted = 0
  BY <1>3, <1>7, <1>8, <1>9
<1>10. CASE wanted # 0 /\ remaining = 0
  BY <1>3, <1>7, <1>8, <1>10 DEF EndOfFile
<1>11. CASE wanted # 0 /\ remaining # 0
  BY <1>5, <1>6, <1>7, <1>11
<1>12. QED
  BY <1>9, <1>10, <1>11

LEMMA EnsureGets ==
  ASSUME IInv, NEW n \in Nat
  PROVE  /\ FileEnsure(n).ret \in Int
         /\ \E e \in pos..Len(file) : /\ FileEnsure(n).got = Between(file, pos, e)
                                      /\ e - index <= LookAhead
<1>1. /\ index \in Nat /\ pos \in Nat /\ pos <= Len(file) /\ Len(file) \in Nat /\ file \in Seq(Bytes)
      /\ (length_bytes > 0 => length_bytes - index \in Nat) /\ pos - index <= LookAhead
  BY ScanFacts DEF IInv
<1>2. CASE Len(scan) >= n
  <2>1. FileEnsure(n) = [ret |-> n, got |-> <<>>]
    BY <1>2 DEF FileEnsure
  <2>2. Between(file, pos, pos) = <<>> /\ pos \in pos..Len(file)
    BY <1>1, NothingBetween
  <2>3. QED
    BY <1>1, <2>1, <2>2
<1>3. CASE ~(Len(scan) >= n)
  <2> DEFINE r == IF length_bytes = 0 THEN n ELSE Smaller(n, length_bytes - index)
  <2>1. r \in Nat
    BY <1>1 DEF Smaller, IInv
  <2>2. FileEnsure(n) = Read(r)
    BY <1>3 DEF FileEnsure
  <2> HIDE DEF r
  <2>3. QED
    BY <2>1, <2>2, ReadGets
<1>4. QED
  BY <1>2, <1>3

\* While the file has a byte at the cursor, looking at the cursor buffers it.
LEMMA FirstByte ==
  ASSUME IInv, ~AtKnownEnd(0)
  PROVE  /\ FileEnsure(1).ret >= 0
         /\ index < Len(file) => Len(scan \o FileEnsure(1).got) >= 1
<1>1. /\ index \in Nat /\ pos \in Nat /\ pos <= Len(file) /\ Len(file) \in Nat /\ file \in Seq(Bytes)
      /\ index <= pos /\ pos - index <= LookAhead
      /\ scan \in Seq(Bytes) /\ Len(scan) = pos - index /\ LookAhead \in Nat /\ LookAhead > 1
      /\ length_bytes \in Nat /\ (length_bytes > 0 => length_bytes - index \in Nat)
  BY ScanFacts, FileInputAssumption DEF IInv
<1>2. length_bytes > 0 => index < length_bytes
  BY <1>1 DEF AtKnownEnd
<1>3. CASE Len(scan) >= 1
  <2>1. FileEnsure(1) = [ret |-> 1, got |-> <<>>]
    BY <1>3 DEF FileEnsure
  <2>2. scan \o <<>> = scan
    BY <1>1, ConcatEmptySeq
  <2>3. QED
    BY <1>3, <2>1, <2>2
<1>4. CASE Len(scan) = 0
  <2>1. pos = index
    BY <1>1, <1>4
  <2> DEFINE r == IF length_bytes = 0 THEN 1 ELSE Smaller(1, length_bytes - index)
             wanted == Smaller(IF length_bytes > 0 THEN LookAhead ELSE r, LookAhead - Len(scan))
             remaining == IF length_bytes = 0 THEN wanted ELSE length_bytes - index
             m == Smaller(remaining, wanted)
             e == Smaller(pos + m, Len(file))
             got == Between(file, pos, e)
  <2>2. r = 1
    BY <1>1, <1>2 DEF Smaller
  <2>3. wanted \in Nat /\ wanted >= 1
    BY <1>1, <1>4, <2>2 DEF Smaller
  <2>4. FileEnsure(1) = Read(r)
    BY <1>4 DEF FileEnsure
  <2> HIDE DEF r
  <2>5. remaining \in Nat /\ remaining >= 1
    BY <1>1, <1>2, <2>3
  <2>6. Read(r) = CASE wanted = 0                  -> [ret |-> 0, got |-> <<>>]
                    [] wanted # 0 /\ remaining = 0 -> [ret |-> EndOfFile, got |-> <<>>]
                    [] OTHER                       -> [ret |-> Len(got), got |-> got]
    BY DEF Read, Between
  <2> HIDE DEF wanted, remaining
  <2>7. m \in Nat /\ m >= 1
    BY <2>3, <2>5 DEF Smaller
  <2> HIDE DEF m
  <2>8. e \in Nat /\ pos <= e /\ e <= Len(file) /\ (pos < Len(file) => pos < e)
    BY <1>1, <2>7 DEF Smaller
  <2> HIDE DEF e
  <2>9. got \in Seq(Bytes) /\ Len(got) = e - pos
    BY <1>1, <2>8, BetweenBytes
  <2> HIDE DEF got
  <2>10. FileEnsure(1).ret = Len(got) /\ FileEnsure(1).got = got
    BY <2>3, <2>4, <2>5, <2>6
  <2>11. Len(scan \o got) = Len(scan) + Len(got)
    BY <1>1, <2>9, ConcatProperties
  <2>12. QED
    BY <1>1, <1>4, <2>1, <2>8, <2>9, <2>10, <2>11
<1>5. QED
  BY <1>1, <1>3, <1>4

\* Bytes that were read are those that follow in the file.
LEMMA BufferKeeps ==
  ASSUME IInv, NEW read, NEW e \in pos..Len(file), read.got = Between(file, pos, e),
         e - index <= LookAhead, Buffer(read), UNCHANGED <<source, behind, index>>
  PROVE  /\ IInv' /\ scan' = Between(file, index, e) /\ scan' = scan \o read.got
         /\ Len(scan') = e - index /\ e \in Nat /\ index <= e /\ e <= Len(file)
         /\ \A k \in 1..(e - index) : scan'[k] = file[index + k]
<1>1. /\ index \in Nat /\ pos \in Nat /\ index <= pos /\ pos <= Len(file) /\ Len(file) \in Nat
      /\ file \in Seq(Bytes) /\ scan = Between(file, index, pos)
  BY ScanFacts DEF IInv
<1>2. e \in Nat /\ pos <= e /\ index <= e /\ e <= Len(file)
  BY <1>1
<1>3. scan' = scan \o read.got /\ pos' = pos + Len(read.got) /\ file' = file /\ index' = index
      /\ length_bytes' = length_bytes /\ behind' = behind
  BY DEF Buffer, source
<1>4. scan' = Between(file, index, e)
  <2>1. Between(file, index, pos) \o Between(file, pos, e) = Between(file, index, e)
    BY <1>1, <1>2, BetweenJoins
  <2>2. QED
    BY <1>1, <1>3, <2>1
<1>5. pos' = e
  <2>1. Len(read.got) = e - pos
    BY <1>1, <1>2, BetweenBytes
  <2>2. QED
    BY <1>1, <1>2, <1>3, <2>1
<1>6. scan' \in Seq(Bytes) /\ Len(scan') = e - index /\ \A k \in 1..(e - index) : scan'[k] = file[index + k]
  BY <1>1, <1>2, <1>4, BetweenBytes
<1>7. IInv'
  BY <1>1, <1>2, <1>3, <1>4, <1>5 DEF IInv, Between
<1>8. QED
  BY <1>2, <1>3, <1>4, <1>6, <1>7

-----------------------------------------------------------------------------
(* Every step is one of the cursor's. *)

\* What a look may show, of the bytes between the cursor and e.
LEMMA LookShows ==
  ASSUME IInv, NEW k \in 0..MaxLook, NEW shown, UNCHANGED <<source, behind, index>>,
         answer' = Out(k, shown, <<>>),
         \/ shown = EndOfFile /\ (k = 0 => index >= Len(file))
         \/ index + k < Len(file) /\ shown = file[index + k + 1]
  PROVE  Cursor!Look(k)
<1>1. file' = file /\ index' = index /\ behind' = behind
  BY DEF source
<1>2. k \in Nat /\ index \in Nat /\ Len(file) \in Nat
  BY FileInputAssumption, LenProperties DEF IInv
<1>3. answer' = [k |-> k, ret |-> shown, text |-> <<>>]
  BY DEF Out
<1>4. CASE shown = EndOfFile /\ k >= 1
  BY <1>1, <1>2, <1>3, <1>4 DEF Cursor!Look
<1>5. CASE shown = EndOfFile /\ k = 0 /\ index >= Len(file)
  BY <1>1, <1>2, <1>3, <1>5 DEF Cursor!Look
<1>6. CASE index + k < Len(file) /\ shown = file[index + k + 1]
  BY <1>1, <1>2, <1>3, <1>6 DEF Cursor!Look
<1>7. QED
  BY <1>2, <1>4, <1>5, <1>6

\* Nothing but the answer changes.
LEMMA AnswerKeeps ==
  ASSUME IInv, UNCHANGED <<source, behind, index, scan, pos>>
  PROVE  IInv'
  BY DEF IInv, source, Between

\* A look whose file_ensure answered what `refused` makes of it.
LEMMA BufferedLook ==
  ASSUME IInv, NEW k \in 0..MaxLook, NEW n \in Nat, NEW refused \in BOOLEAN,
         UNCHANGED <<source, behind, index>>, Buffer(FileEnsure(n)),
         answer' = Out(k, IF refused \/ k >= Len(scan') THEN EndOfFile ELSE scan'[k + 1], <<>>),
         k = 0 => ~refused /\ (index < Len(file) => Len(scan') >= 1)
  PROVE  IInv' /\ Cursor!Look(k)
<1>1. PICK e \in pos..Len(file) : FileEnsure(n).got = Between(file, pos, e) /\ e - index <= LookAhead
  BY EnsureGets
<1>2. /\ IInv' /\ Len(scan') = e - index /\ e \in Nat /\ index <= e /\ e <= Len(file)
      /\ \A j \in 1..(e - index) : scan'[j] = file[index + j]
  BY <1>1, BufferKeeps
<1>3. k \in Nat /\ index \in Nat /\ Len(file) \in Nat
  BY FileInputAssumption, LenProperties DEF IInv
<1>4. CASE refused \/ k >= Len(scan')
  <2>1. k = 0 => index >= Len(file)
    BY <1>2, <1>3, <1>4
  <2>2. answer' = Out(k, EndOfFile, <<>>)
    BY <1>4
  <2>3. QED
    BY <1>2, <2>1, <2>2, LookShows
<1>5. CASE ~(refused \/ k >= Len(scan'))
  <2>1. k + 1 \in 1..(e - index) /\ index + k < Len(file) /\ index + (k + 1) = index + k + 1
    BY <1>2, <1>3, <1>5
  <2>2. answer' = Out(k, file[index + k + 1], <<>>)
    BY <1>2, <1>5, <2>1
  <2>3. QED
    BY <1>2, <2>1, <2>2, LookShows
<1>6. QED
  BY <1>4, <1>5

LEMMA EndShows ==
  ASSUME IInv, AtKnownEnd(0)
  PROVE  index >= Len(file)
  BY LenProperties DEF IInv, AtKnownEnd

LEMMA LookIsLook ==
  ASSUME IInv, NEW k \in 0..MaxLook, Look(k, k)
  PROVE  IInv' /\ Cursor!Look(k)
<1>1. UNCHANGED <<source, behind, index>> /\ k \in Nat /\ k + 1 \in Nat
  BY FileInputAssumption DEF Look
<1>2. CASE AtKnownEnd(k)
  <2>1. answer' = Out(k, EndOfFile, <<>>) /\ UNCHANGED <<scan, pos>>
    BY <1>2 DEF Look
  <2>2. k = 0 => index >= Len(file)
    BY <1>2, EndShows
  <2>3. QED
    BY <1>1, <2>1, <2>2, LookShows, AnswerKeeps
<1>3. CASE ~AtKnownEnd(k)
  <2> DEFINE refused == FileEnsure(k + 1).ret < k
  <2>1. /\ Buffer(FileEnsure(k + 1)) /\ refused \in BOOLEAN
        /\ answer' = Out(k, IF refused \/ k >= Len(scan') THEN EndOfFile ELSE scan'[k + 1], <<>>)
    BY <1>3 DEF Look
  <2>2. k = 0 => ~refused /\ (index < Len(file) => Len(scan') >= 1)
    <3> SUFFICES ASSUME k = 0 PROVE ~refused /\ (index < Len(file) => Len(scan') >= 1)
      OBVIOUS
    <3>1. ~AtKnownEnd(0) /\ FileEnsure(k + 1) = FileEnsure(1)
      BY <1>3
    <3>2. FileEnsure(1).ret \in Int /\ FileEnsure(1).ret >= 0
      BY <3>1, FirstByte, EnsureGets
    <3>3. scan' = scan \o FileEnsure(1).got
      BY <2>1, <3>1 DEF Buffer
    <3>4. QED
      BY <3>1, <3>2, <3>3, FirstByte
  <2> HIDE DEF refused
  <2>3. QED
    BY <1>1, <2>1, <2>2, BufferedLook
<1>4. QED
  BY <1>2, <1>3

LEMMA PeekIsLook ==
  ASSUME IInv, PeekNextChar
  PROVE  IInv' /\ Cursor!Look(1)
<1>1. UNCHANGED <<source, behind, index>> /\ 1 \in 0..MaxLook
  BY FileInputAssumption DEF PeekNextChar
<1>2. CASE AtKnownEnd(0)
  <2>1. answer' = Out(1, EndOfFile, <<>>) /\ UNCHANGED <<scan, pos>>
    BY <1>2 DEF PeekNextChar
  <2>2. QED
    BY <1>1, <2>1, LookShows, AnswerKeeps
<1>3. CASE ~AtKnownEnd(0)
  <2> DEFINE refused == FileEnsure(2).ret < 2
  <2>1. /\ Buffer(FileEnsure(2)) /\ refused \in BOOLEAN
        /\ answer' = Out(1, IF refused \/ 1 >= Len(scan') THEN EndOfFile ELSE scan'[1 + 1], <<>>)
    BY <1>3 DEF PeekNextChar
  <2> HIDE DEF refused
  <2>2. QED
    BY <1>1, <2>1, BufferedLook
<1>4. QED
  BY <1>2, <1>3

LEMMA ShowIsShow ==
  ASSUME IInv, SprintNLookaheadChars
  PROVE  IInv' /\ Cursor!Show
<1>1. UNCHANGED <<source, behind, index>> /\ file' = file /\ index' = index /\ behind' = behind
  BY DEF SprintNLookaheadChars, source
<1>2. /\ index \in Nat /\ pos \in Nat /\ index <= pos /\ pos <= Len(file) /\ Len(file) \in Nat
      /\ file \in Seq(Bytes) /\ scan = Between(file, index, pos) /\ pos - index <= LookAhead
      /\ LookAhead \in Nat
  BY ScanFacts DEF IInv
<1>3. Cursor!Left = Between(file, index, Len(file)) /\ Len(Cursor!Left) = Len(file) - index
  BY <1>2, BetweenBytes DEF Cursor!Left, Between
<1>4. ASSUME NEW e \in Nat, index <= e, e <= Len(file)
      PROVE  Between(file, index, e) \in Cursor!Prefixes(Cursor!Left)
  <2>1. e - index \in 0..Len(Cursor!Left)
    BY <1>2, <1>3, <1>4
  <2>2. Between(file, index, e) = SubSeq(Cursor!Left, 1, e - index)
    <3> DEFINE d == e - index
    <3>1. d \in Nat /\ d <= Len(file) - index /\ index + d = e
      BY <1>2, <1>4
    <3> HIDE DEF d
    <3>2. Between(Between(file, index, Len(file)), 0, d) = Between(file, index, index + d)
      <4>1. file \in Seq(Bytes) /\ index \in Nat /\ Len(file) \in Nat /\ index <= Len(file)
        BY <1>2
      <4>2. QED
        BY ONLY <3>1, <4>1, FirstWithin
    <3>3. Between(Cursor!Left, 0, d) = SubSeq(Cursor!Left, 1, d)
      BY DEF Between
    <3>4. QED
      BY <1>3, <3>1, <3>2, <3>3 DEF d
  <2>3. QED
    BY <2>1, <2>2 DEF Cursor!Prefixes
<1>5. CASE AtKnownEnd(0)
  <2>1. answer' = Out(0, 0, <<>>) /\ UNCHANGED <<scan, pos>>
    BY <1>5 DEF SprintNLookaheadChars
  <2>2. index <= Len(file)
    BY <1>2
  <2>3. <<>> \in Cursor!Prefixes(Cursor!Left)
    BY <1>2, <1>4, <2>2, NothingBetween
  <2>4. QED
    BY <1>1, <2>1, <2>3, AnswerKeeps DEF Cursor!Show, Out
<1>6. CASE ~AtKnownEnd(0)
  <2> DEFINE read == IF length_bytes > 0 THEN FileEnsure(LookAhead) ELSE [ret |-> 0, got |-> <<>>]
  <2>1. Buffer(read) /\ answer' = Out(0, 0, scan')
    BY <1>6 DEF SprintNLookaheadChars
  <2>2. \E e \in pos..Len(file) : read.got = Between(file, pos, e) /\ e - index <= LookAhead
    <3>1. Between(file, pos, pos) = <<>> /\ pos \in pos..Len(file)
      BY <1>2, BetweenBytes, EmptySeq
    <3>2. QED
      BY <1>2, <3>1, EnsureGets
  <2> HIDE DEF read
  <2>3. PICK e \in pos..Len(file) : read.got = Between(file, pos, e) /\ e - index <= LookAhead
    BY <2>2
  <2>4. IInv' /\ scan' = Between(file, index, e) /\ e \in Nat /\ index <= e /\ e <= Len(file)
    BY <1>1, <2>1, <2>3, BufferKeeps
  <2>5. QED
    BY <1>1, <1>4, <2>1, <2>4 DEF Cursor!Show, Out
<1>7. QED
  BY <1>5, <1>6

LEMMA AdvanceIsMove ==
  ASSUME IInv, NEW n \in 1..MaxLook, AdvanceNBytes(n)
  PROVE  IInv' /\ Cursor!Move(n)
<1>1. /\ index \in Nat /\ pos \in Nat /\ index <= pos /\ pos <= Len(file) /\ Len(file) \in Nat
      /\ file \in Seq(Bytes) /\ scan = Between(file, index, pos) /\ pos - index <= LookAhead
      /\ LookAhead \in Nat /\ scan \in Seq(Bytes) /\ Len(scan) = pos - index /\ behind \in Seq(Bytes)
      /\ length_bytes \in Nat /\ (length_bytes = 0 \/ length_bytes >= Len(file))
  BY ScanFacts DEF IInv
<1>2. n \in Nat /\ n <= pos - index
  BY <1>1, FileInputAssumption DEF AdvanceNBytes
<1>3. /\ scan' = Between(scan, n, pos - index) /\ pos' = pos /\ file' = file
      /\ length_bytes' = length_bytes
      /\ behind' = Suffix(behind \o Between(scan, 0, n), LookAhead)
  BY <1>1 DEF AdvanceNBytes, Between, source
<1>4. index' = index + n /\ \E ret \in {0, n} : answer' = Out(n, ret, <<>>)
  BY <1>1, <1>2 DEF AdvanceNBytes
<1>5. scan' = Between(file, index', pos')
  <2> DEFINE d == pos - index
  <2>1. d \in Nat /\ n <= d /\ d <= pos - index /\ index + d = pos
    BY <1>1, <1>2
  <2> HIDE DEF d
  <2>2. Between(Between(file, index, pos), n, d) = Between(file, index + n, index + d)
    <3>1. file \in Seq(Bytes) /\ index \in Nat /\ pos \in Nat /\ index <= pos /\ pos <= Len(file)
      BY <1>1
    <3>2. QED
      BY ONLY <1>2, <2>1, <3>1, BetweenWithin
  <2>3. QED
    BY <1>1, <1>3, <1>4, <2>1, <2>2 DEF d
<1>6. Cursor!Left = Between(file, index, Len(file)) /\ Len(Cursor!Left) = Len(file) - index
  BY <1>1, BetweenBytes DEF Cursor!Left, Between
<1>7. Between(scan, 0, n) = SubSeq(Cursor!Left, 1, n)
  <2>1. /\ Between(Between(file, index, pos), 0, n) = Between(file, index, index + n)
        /\ Between(Between(file, index, Len(file)), 0, n) = Between(file, index, index + n)
    <3>1. /\ file \in Seq(Bytes) /\ index \in Nat /\ pos \in Nat /\ index <= pos /\ pos <= Len(file)
          /\ Len(file) \in Nat /\ index <= Len(file) /\ n <= Len(file) - index
      BY <1>1, <1>2
    <3>2. Between(Between(file, index, pos), 0, n) = Between(file, index, index + n)
      BY ONLY <1>2, <3>1, FirstWithin
    <3>3. Between(Between(file, index, Len(file)), 0, n) = Between(file, index, index + n)
      BY ONLY <1>2, <3>1, FirstWithin
    <3>4. QED
      BY <3>2, <3>3
  <2>2. Between(Cursor!Left, 0, n) = SubSeq(Cursor!Left, 1, n)
    BY DEF Between
  <2>3. QED
    BY <1>1, <1>6, <2>1, <2>2
<1> DEFINE past == behind \o Between(scan, 0, n)
<1>8. past \in Seq(Bytes) /\ Len(past) \in Nat
  <2>1. Between(scan, 0, n) \in Seq(Bytes)
    BY <1>1, <1>2, FirstBytes
  <2>2. past \in Seq(Bytes)
    BY <1>1, <2>1, ConcatProperties
  <2>3. QED
    BY <2>2, LenProperties
<1> HIDE DEF past
<1>9. behind' = Cursor!Recent(past)
  <2>1. Len(past) - Smaller(Len(past), LookAhead) + 1 =
          IF Len(past) > LookAhead THEN Len(past) - LookAhead + 1 ELSE 1
    <3>1. Smaller(Len(past), LookAhead) = IF Len(past) > LookAhead THEN LookAhead ELSE Len(past)
      BY <1>1, <1>8 DEF Smaller
    <3>2. CASE Len(past) > LookAhead
      BY <3>1, <3>2
    <3>3. CASE ~(Len(past) > LookAhead)
      BY <1>8, <3>1, <3>3
    <3>4. QED
      BY <3>2, <3>3
  <2>2. behind' = Suffix(past, LookAhead)
    BY <1>3 DEF past
  <2>3. QED
    BY <2>1, <2>2 DEF Suffix, Cursor!Recent
<1>10. behind' \in Seq(Bytes)
  <2> DEFINE a == Len(past) - Smaller(Len(past), LookAhead)
  <2>1. a \in Nat /\ a <= Len(past)
    BY <1>1, <1>8 DEF Smaller
  <2>2. behind' = Between(past, a, Len(past))
    BY <1>3 DEF Suffix, Between, past
  <2> HIDE DEF a
  <2>3. QED
    BY ONLY <1>8, <2>1, <2>2, BetweenBytes
<1>11. IInv'
  BY <1>1, <1>2, <1>3, <1>4, <1>5, <1>10 DEF IInv, Between
<1>12. Cursor!Move(n)
  <2>1. n <= Len(Cursor!Left)
    BY <1>1, <1>2, <1>6
  <2>2. behind' = Cursor!Recent(behind \o SubSeq(Cursor!Left, 1, n))
    BY <1>7, <1>9 DEF past
  <2>3. QED
    BY <1>3, <1>4, <2>1, <2>2 DEF Cursor!Move, Out
<1>13. QED
  BY <1>11, <1>12

LEMMA StepIsCursors == IInv /\ [InputNext]_inputVars => IInv' /\ [Cursor!Next]_<<file, index, behind, answer>>
<1> SUFFICES ASSUME IInv, [InputNext]_inputVars
             PROVE  IInv' /\ [Cursor!Next]_<<file, index, behind, answer>>
  OBVIOUS
<1>1. CASE CurrentChar
  BY <1>1, FileInputAssumption, LookIsLook DEF CurrentChar, Cursor!Next
<1>2. CASE PeekNextChar
  BY <1>2, FileInputAssumption, PeekIsLook DEF Cursor!Next
<1>3. ASSUME NEW k \in 0..MaxLook, PeekLookaheadChars(k)
      PROVE  IInv' /\ Cursor!Next
  BY <1>3, LookIsLook DEF PeekLookaheadChars, Cursor!Next
<1>4. ASSUME NEW n \in 1..MaxLook, AdvanceNBytes(n)
      PROVE  IInv' /\ Cursor!Next
  BY <1>4, AdvanceIsMove, FileInputAssumption DEF Cursor!Next
<1>5. CASE SprintNLookaheadChars
  BY <1>5, ShowIsShow DEF Cursor!Next
<1>6. CASE UNCHANGED inputVars
  BY <1>6, AnswerKeeps DEF inputVars, source
<1>7. QED
  BY <1>1, <1>2, <1>3, <1>4, <1>5, <1>6 DEF InputNext

\* The functions of an Input over a file or a stream are a cursor: what a look
\* or a message shows is what the file has at that distance, EndOfFile at the cursor
\* means that it has no more, and the bytes gone past are kept in their order.
THEOREM SourceIsACursor == InputSpec => IsCursor
<1>1. InputInit => IInv /\ Cursor!Init
  <2> SUFFICES ASSUME InputInit PROVE IInv /\ Cursor!Init
    OBVIOUS
  <2>1. file \in Seq(Bytes) /\ Len(file) \in Nat /\ <<>> \in Seq(Bytes)
    BY FileInputAssumption, EmptySeq DEF InputInit, Files
  <2>2. Between(file, 0, 0) = <<>>
    BY <2>1, BetweenBytes, EmptySeq
  <2>3. IInv
    BY <2>1, <2>2, FileInputAssumption DEF InputInit, IInv
  <2>4. QED
    BY <2>3 DEF InputInit, Cursor!Init, Out
<1>2. QED
  BY <1>1, StepIsCursors, PTL DEF InputSpec, IsCursor, Cursor!Spec
=============================================================================
