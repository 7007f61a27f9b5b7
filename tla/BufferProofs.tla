---------------------------- MODULE BufferProofs ----------------------------
(***************************************************************************)
(* Theorems about the two buffers that texts are kept in.                  *)
(*                                                                         *)
(* CharRingBuffer, for every capacity and character set.  The struct       *)
(* stores end_index although start_index and length determine it; TypeOK   *)
(* says that the three never disagree, and is inductive.  From it follows  *)
(* what each call does to the contents, and so the refinement of the       *)
(* bounded queue.                                                          *)
(*                                                                         *)
(* StringBuilder, for every arena.  A buffer is the text and then NULs to  *)
(* its end, no two buffers or chunks overlap, and all lie below the cursor *)
(* of the arena; what is older than a temporary scope lies below its mark, *)
(* but for the builders that grew in it.                                   *)
(***************************************************************************)
EXTENDS CharRingBuffer, StringBuilder, SequenceTheorems, TLAPS

-----------------------------------------------------------------------------
(* The ring buffer. *)

\* Within two turns of the buffer, wrapping is subtracting the capacity.
LEMMA WrapTurns ==
  ASSUME NEW i \in Nat, i < Capacity + Capacity
  PROVE  /\ Wrap(i) \in Slots
         /\ i < Capacity => Wrap(i) = i
         /\ Capacity <= i => Wrap(i) = i - Capacity
<1>1. Capacity \in Nat \ {0}
  BY CrbAssumption
<1>2. CASE i < Capacity
  <2>1. Wrap(i) = i
    BY <1>1, <1>2 DEF Wrap
  <2>2. QED
    BY <1>1, <1>2, <2>1 DEF Slots
<1>3. CASE Capacity <= i
  <2>1. (i - Capacity) \in 0..(Capacity - 1)
    BY <1>1, <1>3
  <2>2. Wrap(i) = i - Capacity
    BY <1>1, <1>3, <2>1 DEF Wrap
  <2>3. QED
    BY <1>1, <1>3, <2>1, <2>2 DEF Slots
<1>4. QED
  BY <1>1, <1>2, <1>3

Crb == [buffer : [Slots -> Chars], start_index : Slots, end_index : Slots,
        length : 0..Capacity]

\* The texts that callers add are sequences of characters.
LEMMA TextsAreSeqs == ASSUME NEW s \in Texts PROVE s \in Seq(Chars)
<1>1. PICK n \in 0..MaxAdd : s \in [1..n -> Chars]
  BY DEF Texts
<1>2. n \in Nat
  BY CrbAssumption
<1>3. QED
  BY <1>1, <1>2

\* Storing overwrites slots with characters, so the buffer stays one.
LEMMA StoreFromType ==
  ASSUME NEW buffer \in [Slots -> Chars], NEW e \in Slots, NEW s \in Seq(Chars)
  PROVE  StoreFrom(buffer, e, s) \in [Slots -> Chars]
<1>1. Capacity \in Nat \ {0}
  BY CrbAssumption
<1>2. ASSUME NEW i \in Slots, Ahead(e, i) < Len(s)
      PROVE  s[Ahead(e, i) + 1] \in Chars
  <2>1. Ahead(e, i) \in Nat
    BY <1>1 DEF Ahead, Slots
  <2>2. Ahead(e, i) + 1 \in 1..Len(s)
    BY <1>2, <2>1
  <2>3. QED
    BY <2>2
<1>3. QED
  BY <1>2 DEF StoreFrom

\* The arithmetic of an add of n characters to a buffer of len: the oldest ones
\* that do not fit are pushed out, and the end index is still where the start
\* index and the length say.
LEMMA AddKeepsEnd ==
  ASSUME NEW st \in Slots, NEW len \in 0..Capacity, NEW n \in 0..Capacity,
         NEW kept, kept = Lesser(len + n, Capacity)
  PROVE  /\ kept \in 0..Capacity
         /\ Wrap(st + (len + n - kept)) \in Slots
         /\ Wrap(Wrap(st + len) + n) \in Slots
         /\ Wrap(Wrap(st + len) + n) = Wrap(Wrap(st + (len + n - kept)) + kept)
<1>1. /\ Capacity \in Nat \ {0} /\ len \in Nat /\ n \in Nat /\ st \in Nat
      /\ st < Capacity /\ len <= Capacity /\ n <= Capacity
  BY CrbAssumption DEF Slots
<1>2. /\ kept \in 0..Capacity /\ kept \in Nat
      /\ len + n <= Capacity => kept = len + n
      /\ len + n > Capacity => kept = Capacity
  BY <1>1 DEF Lesser
<1> DEFINE end   == Wrap(st + len)
           start == Wrap(st + (len + n - kept))
<1>3. /\ end \in Slots
      /\ st + len < Capacity => end = st + len
      /\ Capacity <= st + len => end = st + len - Capacity
  <2>1. st + len \in Nat /\ st + len < Capacity + Capacity
    BY <1>1
  <2>2. QED
    BY <1>1, <2>1, WrapTurns
<1>4. /\ start \in Slots
      /\ st + (len + n - kept) < Capacity => start = st + (len + n - kept)
      /\ Capacity <= st + (len + n - kept) => start = st + (len + n - kept) - Capacity
  <2>1. st + (len + n - kept) \in Nat /\ st + (len + n - kept) < Capacity + Capacity
    BY <1>1, <1>2
  <2>2. QED
    BY <1>1, <1>2, <2>1, WrapTurns
<1> HIDE DEF end, start
<1>5. end \in Nat /\ end < Capacity /\ start \in Nat /\ start < Capacity
  BY <1>1, <1>3, <1>4 DEF Slots
<1>6. /\ Wrap(end + n) \in Slots
      /\ end + n < Capacity => Wrap(end + n) = end + n
      /\ Capacity <= end + n => Wrap(end + n) = end + n - Capacity
  <2>1. end + n \in Nat /\ end + n < Capacity + Capacity
    BY <1>1, <1>5
  <2>2. QED
    BY <1>1, <1>5, <2>1, WrapTurns
<1>7. /\ start + kept < Capacity => Wrap(start + kept) = start + kept
      /\ Capacity <= start + kept => Wrap(start + kept) = start + kept - Capacity
  <2>1. start + kept \in Nat /\ start + kept < Capacity + Capacity
    BY <1>1, <1>2, <1>5
  <2>2. QED
    BY <1>1, <1>2, <1>5, <2>1, WrapTurns
<1>8. Wrap(end + n) = Wrap(start + kept)
  <2>1. CASE len + n <= Capacity
    BY <1>1, <1>2, <1>3, <1>4, <1>5, <1>6, <1>7, <2>1
  <2>2. CASE len + n > Capacity
    BY <1>1, <1>2, <1>3, <1>4, <1>5, <1>6, <1>7, <2>2
  <2>3. QED
    BY <1>1, <2>1, <2>2
<1>9. QED
  BY <1>2, <1>4, <1>6, <1>8 DEF end, start

\* The arithmetic of taking n characters from the front.
LEMMA TakeKeepsEnd ==
  ASSUME NEW st \in Slots, NEW len \in 0..Capacity, NEW n \in 0..len
  PROVE  /\ Wrap(st + n) \in Slots
         /\ len - n \in 0..Capacity
         /\ Wrap(st + len) = Wrap(Wrap(st + n) + (len - n))
<1>1. /\ Capacity \in Nat \ {0} /\ len \in Nat /\ n \in Nat /\ st \in Nat
      /\ st < Capacity /\ len <= Capacity /\ n <= len
  BY CrbAssumption DEF Slots
<1> DEFINE start == Wrap(st + n)
<1>2. /\ start \in Slots
      /\ st + n < Capacity => start = st + n
      /\ Capacity <= st + n => start = st + n - Capacity
  <2>1. st + n \in Nat /\ st + n < Capacity + Capacity
    BY <1>1
  <2>2. QED
    BY <1>1, <2>1, WrapTurns
<1> HIDE DEF start
<1>3. start \in Nat /\ start < Capacity
  BY <1>1, <1>2 DEF Slots
<1>4. /\ st + len < Capacity => Wrap(st + len) = st + len
      /\ Capacity <= st + len => Wrap(st + len) = st + len - Capacity
  <2>1. st + len \in Nat /\ st + len < Capacity + Capacity
    BY <1>1
  <2>2. QED
    BY <1>1, <2>1, WrapTurns
<1>5. /\ start + (len - n) < Capacity => Wrap(start + (len - n)) = start + (len - n)
      /\ Capacity <= start + (len - n)
           => Wrap(start + (len - n)) = start + (len - n) - Capacity
  <2>1. start + (len - n) \in Nat /\ start + (len - n) < Capacity + Capacity
    BY <1>1, <1>3
  <2>2. QED
    BY <1>1, <1>3, <2>1, WrapTurns
<1>6. len - n \in 0..Capacity
  BY <1>1
<1>7. Wrap(st + len) = Wrap(start + (len - n))
  BY <1>1, <1>2, <1>3, <1>4, <1>5
<1>8. QED
  BY <1>2, <1>6, <1>7 DEF start

\* The invariant on the struct alone.
CrbOK(r) == r \in Crb /\ r.end_index = Wrap(r.start_index + r.length)

LEMMA TypeOKIsCrbOK == TypeOK <=> CrbOK(crb) /\ overrun = 0
BY DEF TypeOK, CrbOK, Crb

\* Storing keeps the indices in step, whether or not it pushes old characters out.
LEMMA StoreKeepsIndices ==
  ASSUME CrbOK(crb), NEW s \in Seq(Chars), Len(s) <= Capacity
  PROVE  CrbOK(Store(s))
<1>1. /\ crb.buffer \in [Slots -> Chars]
      /\ crb.start_index \in Slots /\ crb.end_index \in Slots
      /\ crb.length \in 0..Capacity
      /\ crb.end_index = Wrap(crb.start_index + crb.length)
  BY DEF CrbOK, Crb
<1>2. Len(s) \in 0..Capacity
  BY CrbAssumption
<1> DEFINE kept  == Lesser(crb.length + Len(s), Capacity)
           start == Wrap(crb.start_index + (crb.length + Len(s) - kept))
           end   == Wrap(crb.end_index + Len(s))
           chars == StoreFrom(crb.buffer, crb.end_index, s)
<1>3. /\ kept \in 0..Capacity /\ start \in Slots /\ end \in Slots
      /\ end = Wrap(start + kept)
  <2>1. /\ kept \in 0..Capacity
        /\ start \in Slots
        /\ Wrap(Wrap(crb.start_index + crb.length) + Len(s)) \in Slots
        /\ Wrap(Wrap(crb.start_index + crb.length) + Len(s)) = Wrap(start + kept)
    <3> DEFINE st  == crb.start_index
               len == crb.length
               n   == Len(s)
    <3>1. st \in Slots /\ len \in 0..Capacity /\ n \in 0..Capacity
      BY <1>1, <1>2
    <3> HIDE DEF st, len, n
    <3>2. /\ Lesser(len + n, Capacity) \in 0..Capacity
          /\ Wrap(st + (len + n - Lesser(len + n, Capacity))) \in Slots
          /\ Wrap(Wrap(st + len) + n) \in Slots
          /\ Wrap(Wrap(st + len) + n)
               = Wrap(Wrap(st + (len + n - Lesser(len + n, Capacity)))
                        + Lesser(len + n, Capacity))
      BY <3>1, AddKeepsEnd
    <3>3. QED
      BY <3>2 DEF st, len, n
  <2>2. QED
    BY <1>1, <2>1
<1>4. chars \in [Slots -> Chars]
  BY <1>1, StoreFromType
<1>5. Store(s) = [buffer |-> chars, start_index |-> start,
                  end_index |-> end, length |-> kept]
  <2>1. Store(s) = [crb EXCEPT !.buffer = chars, !.start_index = start,
                               !.end_index = end, !.length = kept]
    BY DEF Store
  <2> HIDE DEF kept, start, end, chars
  <2>2. QED
    BY <2>1 DEF CrbOK, Crb
<1> HIDE DEF kept, start, end, chars
<1>6. QED
  BY <1>3, <1>4, <1>5 DEF CrbOK, Crb

\* Both adds store part of the caller's text, no longer than the buffer.
LEMMA PartKeepsIndices ==
  ASSUME CrbOK(crb), NEW s \in Seq(Chars), NEW a \in 1..(Len(s) + 1),
         NEW b \in (a - 1)..Len(s), b - a + 1 <= Capacity
  PROVE  CrbOK(Store(SubSeq(s, a, b)))
<1>1. Len(s) \in Nat /\ a \in Nat /\ b \in Nat /\ Capacity \in Nat
  BY CrbAssumption
<1>2. /\ SubSeq(s, a, b) \in Seq(Chars)
      /\ Len(SubSeq(s, a, b)) = IF a <= b THEN b - a + 1 ELSE 0
  BY <1>1, SubSeqProperties
<1>3. Len(SubSeq(s, a, b)) <= Capacity
  BY <1>1, <1>2
<1>4. QED
  BY <1>2, <1>3, StoreKeepsIndices

\* The accepting adds, of a text or of one character.
LEMMA AddKeepsType ==
  ASSUME CrbOK(crb), NEW s \in Seq(Chars), AddStr(s) \/ AddStrStrict(s)
  PROVE  CrbOK(crb') /\ UNCHANGED overrun
<1>1. /\ Len(s) \in Nat /\ Capacity \in Nat \ {0}
      /\ crb.length \in Nat /\ crb.length <= Capacity
  BY CrbAssumption DEF CrbOK, Crb
<1>2. CASE AddStr(s)
  <2>1. PICK n \in Nat : n <= Len(s) /\ n <= Capacity /\ n = Lesser(Len(s), Capacity)
    BY <1>1 DEF Lesser
  <2>2. crb' = Store(SubSeq(s, Len(s) - n + 1, Len(s))) /\ UNCHANGED overrun
    BY <1>2, <2>1 DEF AddStr
  <2>3. /\ Len(s) - n + 1 \in 1..(Len(s) + 1)
        /\ Len(s) \in (Len(s) - n + 1 - 1)..Len(s)
        /\ Len(s) - (Len(s) - n + 1) + 1 <= Capacity
    BY <1>1, <2>1
  <2>4. QED
    BY <2>2, <2>3, PartKeepsIndices
<1>3. CASE AddStrStrict(s)
  <2>1. PICK n \in Nat : n <= Len(s) /\ n <= Capacity /\ n = Lesser(Len(s), Capacity - crb.length)
    BY <1>1 DEF Lesser
  <2>2. crb' = crb \/ crb' = Store(SubSeq(s, 1, n))
    BY <1>3, <2>1 DEF AddStrStrict
  <2>3. 1 \in 1..(Len(s) + 1) /\ n \in (1 - 1)..Len(s) /\ n - 1 + 1 <= Capacity
    BY <1>1, <2>1
  <2>4. CrbOK(Store(SubSeq(s, 1, n)))
    BY <2>3, PartKeepsIndices
  <2>5. UNCHANGED overrun
    BY <1>3 DEF AddStrStrict
  <2>6. QED
    BY <2>2, <2>4, <2>5
<1>4. QED
  BY <1>2, <1>3

\* Taking n characters from the front, as get_next and advance do.
LEMMA TakeKeepsType ==
  ASSUME CrbOK(crb), NEW n \in 0..crb.length,
         crb' = [crb EXCEPT !.start_index = Wrap(crb.start_index + n),
                            !.length = crb.length - n]
  PROVE  CrbOK(crb')
<1>1. /\ crb.start_index \in Slots /\ crb.length \in 0..Capacity
      /\ crb.end_index = Wrap(crb.start_index + crb.length)
  BY DEF CrbOK, Crb
<1> DEFINE st    == crb.start_index
           len   == crb.length
           start == Wrap(st + n)
           rest  == len - n
<1>2. /\ start \in Slots /\ rest \in 0..Capacity
      /\ Wrap(st + len) = Wrap(start + rest)
  BY <1>1, TakeKeepsEnd
<1>3. crb' = [crb EXCEPT !.start_index = start, !.length = rest]
  OBVIOUS
<1> HIDE DEF start, rest
<1>4. QED
  BY <1>1, <1>2, <1>3 DEF CrbOK, Crb

LEMMA AdvanceKeepsType ==
  ASSUME CrbOK(crb), NEW n \in 0..crb.length, Advance(n)
  PROVE  CrbOK(crb') /\ UNCHANGED overrun
<1>1. /\ Word \in Nat /\ Capacity \in Nat /\ MaxAdd \in Nat
      /\ Word > 2 * Capacity + MaxAdd
      /\ crb.length \in Nat /\ crb.length <= Capacity /\ n \in Nat /\ n <= crb.length
  BY CrbAssumption DEF CrbOK, Crb
<1>2. (crb.length - n) % Word = crb.length - n
  <2>1. (crb.length - n) \in 0..(Word - 1)
    BY <1>1
  <2>2. QED
    BY <1>1, <2>1
<1>3. ~(crb.length < n)
  BY <1>1
<1>4. \/ crb' = crb
      \/ crb' = [crb EXCEPT !.start_index = Wrap(crb.start_index + n),
                            !.length = crb.length - n]
  BY <1>2, <1>3 DEF Advance
<1>5. UNCHANGED overrun
  BY DEF Advance
<1>6. QED
  BY <1>4, <1>5, TakeKeepsType

LEMMA GetNextKeepsType ==
  ASSUME CrbOK(crb), GetNext
  PROVE  CrbOK(crb') /\ UNCHANGED overrun
<1>1. UNCHANGED overrun
  BY DEF GetNext
<1>2. CASE crb.length = 0
  BY <1>1, <1>2 DEF GetNext
<1>3. CASE crb.length # 0
  <2>1. 1 \in 0..crb.length
    BY <1>3, CrbAssumption DEF CrbOK, Crb
  <2>2. crb' = [crb EXCEPT !.start_index = Wrap(crb.start_index + 1),
                           !.length = crb.length - 1]
    BY <1>3 DEF GetNext
  <2>3. QED
    BY <1>1, <2>1, <2>2, TakeKeepsType
<1>4. QED
  BY <1>2, <1>3

\* The arithmetic of n characters more, where there is room.
LEMMA FillKeepsEnd ==
  ASSUME NEW st \in Slots, NEW len \in 0..Capacity, NEW n \in Nat, len + n <= Capacity
  PROVE  /\ Wrap(Wrap(st + len) + n) \in Slots
         /\ Wrap(Wrap(st + len) + n) = Wrap(st + (len + n))
<1>1. Capacity \in Nat \ {0} /\ st \in Nat /\ st < Capacity /\ len \in Nat
  BY CrbAssumption DEF Slots
<1>2. n \in 0..Capacity /\ len + n = Lesser(len + n, Capacity)
  BY <1>1 DEF Lesser
<1>3. /\ Wrap(Wrap(st + len) + n) \in Slots
      /\ Wrap(Wrap(st + len) + n) = Wrap(Wrap(st + (len + n - (len + n))) + (len + n))
  BY <1>2, AddKeepsEnd
<1>4. st + (len + n - (len + n)) = st /\ Wrap(st) = st
  BY <1>1, WrapTurns
<1>5. QED
  BY <1>3, <1>4

\* A reader's text goes where there is room, at the end of the contents.
LEMMA FillKeepsType ==
  ASSUME CrbOK(crb), NEW s \in Seq(Chars), Fill(s), overrun = 0
  PROVE  CrbOK(crb') /\ UNCHANGED overrun
<1> DEFINE n      == Lesser(Len(s), FreeSpace)
           inside == Lesser(n, Capacity - crb.end_index)
           end    == Wrap(crb.end_index + n)
           chars  == StoreFrom(crb.buffer, crb.end_index, SubSeq(s, 1, inside))
<1>1. /\ Capacity \in Nat \ {0} /\ Len(s) \in Nat
      /\ crb.buffer \in [Slots -> Chars]
      /\ crb.start_index \in Slots /\ crb.end_index \in Slots
      /\ crb.start_index \in Nat /\ crb.start_index < Capacity
      /\ crb.end_index \in Nat /\ crb.end_index < Capacity
      /\ crb.length \in 0..Capacity /\ crb.length \in Nat
      /\ crb.end_index = Wrap(crb.start_index + crb.length)
  BY CrbAssumption DEF CrbOK, Crb, Slots
<1>2. CASE crb' = crb /\ UNCHANGED overrun
  BY <1>2
<1>3. CASE /\ crb.length < Capacity
           /\ FreeSpace <= Capacity - crb.end_index
           /\ crb' = [crb EXCEPT !.buffer = chars, !.end_index = end, !.length = @ + n]
           /\ overrun' = n - inside
  <2>1. /\ crb.start_index + crb.length < Capacity
             => crb.end_index = crb.start_index + crb.length
        /\ Capacity <= crb.start_index + crb.length
             => crb.end_index = crb.start_index + crb.length - Capacity
    <3>1. /\ crb.start_index + crb.length \in Nat
          /\ crb.start_index + crb.length < Capacity + Capacity
      BY <1>1, <1>3
    <3>2. QED
      BY <1>1, <3>1, WrapTurns
  <2>2. FreeSpace \in Nat /\ FreeSpace + crb.length <= Capacity
    BY <1>1, <1>3, <2>1 DEF FreeSpace
  <2>3. /\ n \in Nat /\ n <= Len(s) /\ n + crb.length <= Capacity
        /\ inside = n
    BY <1>1, <1>3, <2>2 DEF Lesser
  <2>4. chars \in [Slots -> Chars]
    <3>1. SubSeq(s, 1, inside) \in Seq(Chars)
      BY <1>1, <2>3, SubSeqProperties
    <3>2. QED
      BY <1>1, <3>1, StoreFromType
  <2>5. end \in Slots /\ end = Wrap(crb.start_index + (crb.length + n))
    <3> DEFINE st  == crb.start_index
               len == crb.length
               k   == n
    <3>1. st \in Slots /\ len \in 0..Capacity /\ k \in Nat /\ len + k <= Capacity
      BY <1>1, <2>3
    <3> HIDE DEF st, len, k
    <3>2. /\ Wrap(Wrap(st + len) + k) \in Slots
          /\ Wrap(Wrap(st + len) + k) = Wrap(st + (len + k))
      BY <3>1, FillKeepsEnd
    <3>3. QED
      BY <1>1, <3>2 DEF st, len, k
  <2>6. crb.length + n \in 0..Capacity
    BY <1>1, <2>3
  <2>7. overrun' = 0
    BY <1>3, <2>3
  <2> HIDE DEF n, inside, end, chars
  <2>8. crb' = [buffer |-> chars, start_index |-> crb.start_index, end_index |-> end,
                length |-> crb.length + n]
    BY <1>3 DEF CrbOK, Crb
  <2>9. QED
    BY <1>1, <2>4, <2>5, <2>6, <2>7, <2>8 DEF CrbOK, Crb
<1>4. QED
  BY <1>2, <1>3 DEF Fill

LEMMA InitTypeOK == Init => TypeOK
<1> SUFFICES ASSUME Init PROVE CrbOK(crb) /\ overrun = 0
  BY TypeOKIsCrbOK
<1>1. 0 \in Slots /\ 0 \in 0..Capacity /\ Wrap(0 + 0) = 0
  <2>1. 0 \in Nat /\ 0 + 0 = 0 /\ 0 < Capacity /\ 0 < Capacity + Capacity
        /\ Capacity \in Nat
    BY CrbAssumption
  <2>2. QED
    BY <2>1, WrapTurns
<1>2. (CHOOSE c \in Chars : TRUE) \in Chars
  BY CrbAssumption
<1>3. QED
  BY <1>1, <1>2 DEF Init, New, CrbOK, Crb

LEMMA NextTypeOK == TypeOK /\ [Next]_vars => TypeOK'
<1> SUFFICES ASSUME TypeOK, [Next]_vars PROVE CrbOK(crb') /\ overrun' = overrun
  BY TypeOKIsCrbOK DEF TypeOK, CrbOK, Crb
<1>1. CrbOK(crb)
  BY TypeOKIsCrbOK
<1>2. CASE \E s \in Texts : AddStr(s) \/ AddStrStrict(s)
  BY <1>1, <1>2, TextsAreSeqs, AddKeepsType
<1>3. CASE \E c \in Chars : AddChar(c) \/ AddCharStrict(c)
  <2>1. PICK c \in Chars : AddChar(c) \/ AddCharStrict(c)
    BY <1>3
  <2>2. <<c>> \in Seq(Chars) /\ Len(<<c>>) = 1
    OBVIOUS
  <2>3. CASE AddChar(c)
    <3>1. 1 <= Capacity
      BY CrbAssumption
    <3>2. QED
      BY <1>1, <2>2, <2>3, <3>1, StoreKeepsIndices DEF AddChar
  <2>4. CASE AddCharStrict(c)
    BY <1>1, <2>2, <2>4, AddKeepsType DEF AddCharStrict
  <2>5. QED
    BY <2>1, <2>3, <2>4
<1>4. CASE GetNext
  BY <1>1, <1>4, GetNextKeepsType
<1>5. CASE \E k \in 0..Capacity : Peek(k)
  BY <1>1, <1>5 DEF Peek
<1>6. CASE \E n \in 0..crb.length : Advance(n)
  BY <1>1, <1>6, AdvanceKeepsType
<1>7. CASE Sprint
  BY <1>1, <1>7 DEF Sprint
<1>8. CASE UNCHANGED vars
  BY <1>1, <1>8 DEF vars
<1>9. CASE \E s \in Texts : Fill(s)
  BY <1>1, <1>9, TextsAreSeqs, FillKeepsType DEF TypeOK
<1>10. QED
  BY <1>2, <1>3, <1>4, <1>5, <1>6, <1>7, <1>8, <1>9 DEF Next

\* The calls the library makes keep the three indices of the struct consistent
\* and in range, for every capacity, text and order of calls.
THEOREM CrbTypeCorrect == Spec => []TypeOK
<1>1. QED
  BY InitTypeOK, NextTypeOK, PTL DEF Spec

-----------------------------------------------------------------------------
(* The contents of the buffer as a queue.                                   *)

\* The contents of buffer r, oldest first.
ContentsOf(r) == [k \in 1..r.length |-> r.buffer[Wrap(r.start_index + (k - 1))]]

Newest(s, n) == SubSeq(s, Len(s) - Lesser(Len(s), n) + 1, Len(s))

\* WrapTurns in numbers.
LEMMA WrapNat ==
  ASSUME NEW i \in Nat, i < Capacity + Capacity
  PROVE  /\ Wrap(i) \in Slots /\ Wrap(i) \in Nat /\ Wrap(i) < Capacity
         /\ Wrap(i) = i \/ Wrap(i) = i - Capacity
<1>1. Capacity \in Nat /\ Wrap(i) \in Slots
  BY CrbAssumption, WrapTurns
<1>2. Wrap(i) = i \/ Wrap(i) = i - Capacity
  BY <1>1, WrapTurns
<1>3. QED
  BY <1>1, <1>2 DEF Slots

LEMMA ContentsType ==
  ASSUME NEW r, CrbOK(r)
  PROVE  /\ ContentsOf(r) \in Seq(Chars)
         /\ Len(ContentsOf(r)) = r.length
         /\ r.length \in Nat /\ r.length <= Capacity
         /\ \A k \in 1..r.length : ContentsOf(r)[k] = r.buffer[Wrap(r.start_index + (k - 1))]
<1>1. /\ Capacity \in Nat \ {0} /\ r.length \in Nat /\ r.length <= Capacity
      /\ r.start_index \in Nat /\ r.start_index < Capacity
      /\ r.buffer \in [Slots -> Chars]
  BY CrbAssumption DEF CrbOK, Crb, Slots
<1>2. ASSUME NEW k \in 1..r.length
      PROVE  r.buffer[Wrap(r.start_index + (k - 1))] \in Chars
  <2>1. /\ r.start_index + (k - 1) \in Nat
        /\ r.start_index + (k - 1) < Capacity + Capacity
    BY <1>1
  <2>2. Wrap(r.start_index + (k - 1)) \in Slots
    BY <2>1, WrapTurns
  <2>3. QED
    BY <1>1, <2>2
<1>3. ContentsOf(r) \in [1..r.length -> Chars]
  BY <1>2 DEF ContentsOf
<1>4. ContentsOf(r) \in Seq(Chars) /\ Len(ContentsOf(r)) = r.length
  BY <1>1, <1>3
<1>5. QED
  BY <1>1, <1>4 DEF ContentsOf

\* The last characters of a sequence, no more than n.
LEMMA LastProperties ==
  ASSUME NEW s \in Seq(Chars), NEW n \in Nat
  PROVE  /\ Newest(s, n) \in Seq(Chars)
         /\ Len(Newest(s, n)) = Lesser(Len(s), n)
         /\ \A k \in 1..Lesser(Len(s), n) :
              Newest(s, n)[k] = s[Len(s) - Lesser(Len(s), n) + k]
<1> DEFINE m == Lesser(Len(s), n)
<1>1. Len(s) \in Nat /\ m \in Nat /\ m <= Len(s)
  BY DEF Lesser
<1> HIDE DEF m
<1>2. \A i \in (Len(s) - m + 1)..Len(s) : s[i] \in Chars
  BY <1>1
<1>3. /\ SubSeq(s, Len(s) - m + 1, Len(s)) \in Seq(Chars)
      /\ Len(SubSeq(s, Len(s) - m + 1, Len(s))) =
           IF Len(s) - m + 1 <= Len(s) THEN Len(s) - (Len(s) - m + 1) + 1 ELSE 0
      /\ \A k \in 1..(Len(s) - (Len(s) - m + 1) + 1) :
           SubSeq(s, Len(s) - m + 1, Len(s))[k] = s[Len(s) - m + 1 + k - 1]
  BY <1>1, <1>2, SubSeqProperties
<1>4. /\ Len(s) - (Len(s) - m + 1) + 1 = m
      /\ \A k \in 1..m : Len(s) - m + 1 + k - 1 = Len(s) - m + k
      /\ (IF Len(s) - m + 1 <= Len(s) THEN m ELSE 0) = m
  BY <1>1
<1>5. QED
  BY <1>3, <1>4 DEF Newest, m

LEMMA LastOfLong ==
  ASSUME NEW s \in Seq(Chars), NEW n \in Nat, n <= Len(s)
  PROVE  /\ Newest(s, n) \in Seq(Chars)
         /\ Len(Newest(s, n)) = n
         /\ \A k \in 1..n : Newest(s, n)[k] = s[Len(s) - n + k]
<1>1. Len(s) \in Nat /\ Lesser(Len(s), n) = n
  BY DEF Lesser
<1>2. /\ Newest(s, n) \in Seq(Chars)
      /\ Len(Newest(s, n)) = Lesser(Len(s), n)
      /\ \A k \in 1..Lesser(Len(s), n) :
           Newest(s, n)[k] = s[Len(s) - Lesser(Len(s), n) + k]
  BY LastProperties
<1>3. QED
  BY <1>1, <1>2

\* A sequence that is short enough is all last characters.
LEMMA LastOfShort ==
  ASSUME NEW s \in Seq(Chars), NEW n \in Nat, Len(s) <= n
  PROVE  Newest(s, n) = s
<1>1. Lesser(Len(s), n) = Len(s) /\ Len(s) - Len(s) + 1 = 1
  BY DEF Lesser
<1>2. SubSeq(s, 1, Len(s)) = s
  BY SubSeqFull
<1>3. QED
  BY <1>1, <1>2 DEF Newest

\* What an add leaves in front does not depend on the part of the text that
\* does not fit.
LEMMA LastOfConcat ==
  ASSUME NEW q \in Seq(Chars), NEW s \in Seq(Chars), NEW n \in Nat, Len(q) <= n
  PROVE  Newest(q \o Newest(s, n), n) = Newest(q \o s, n)
<1>1. CASE Len(s) <= n
  BY <1>1, LastOfShort
<1>2. CASE n < Len(s)
  <2>1. Len(q) \in Nat /\ Len(s) \in Nat /\ Lesser(Len(s), n) = n
    BY <1>2 DEF Lesser
  <2> DEFINE u == Newest(s, n)
             a == q \o u
             b == q \o s
  <2>2. /\ u \in Seq(Chars) /\ Len(u) = n
        /\ \A k \in 1..n : u[k] = s[Len(s) - n + k]
    BY <1>2, <2>1, LastOfLong
  <2> HIDE DEF u
  <2>3. /\ a \in Seq(Chars) /\ Len(a) = Len(q) + n
        /\ \A k \in 1..(Len(q) + n) : a[k] = IF k <= Len(q) THEN q[k] ELSE u[k - Len(q)]
    BY <2>2, ConcatProperties
  <2>4. /\ b \in Seq(Chars) /\ Len(b) = Len(q) + Len(s)
        /\ \A k \in 1..(Len(q) + Len(s)) : b[k] = IF k <= Len(q) THEN q[k] ELSE s[k - Len(q)]
    BY ConcatProperties
  <2> HIDE DEF a, b
  <2>6. /\ Newest(a, n) \in Seq(Chars) /\ Len(Newest(a, n)) = n
        /\ \A k \in 1..n : Newest(a, n)[k] = a[Len(a) - n + k]
    <3>1. a \in Seq(Chars) /\ Len(a) \in Nat /\ n <= Len(a)
      BY <1>2, <2>1, <2>3
    <3>2. QED
      BY <3>1, LastOfLong
  <2>7. /\ Newest(b, n) \in Seq(Chars) /\ Len(Newest(b, n)) = n
        /\ \A k \in 1..n : Newest(b, n)[k] = b[Len(b) - n + k]
    <3>1. b \in Seq(Chars) /\ Len(b) \in Nat /\ n <= Len(b)
      BY <1>2, <2>1, <2>4
    <3>2. QED
      BY <3>1, LastOfLong
  <2>8. ASSUME NEW k \in 1..n
        PROVE  a[Len(a) - n + k] = b[Len(b) - n + k]
    <3>1. Len(a) - n + k = Len(q) + k /\ Len(q) + k \in 1..(Len(q) + n) /\ ~(Len(q) + k <= Len(q))
          /\ Len(q) + k - Len(q) = k
      BY <2>1, <2>3
    <3>2. a[Len(q) + k] = s[Len(s) - n + k]
      <4>1. a[Len(q) + k] = u[Len(q) + k - Len(q)]
        BY ONLY <2>3, <3>1
      <4>2. QED
        BY ONLY <4>1, <3>1, <2>2
    <3>3. /\ Len(b) - n + k \in 1..(Len(q) + Len(s)) /\ ~(Len(b) - n + k <= Len(q))
          /\ Len(b) - n + k - Len(q) = Len(s) - n + k
      BY <1>2, <2>1, <2>4
    <3>4. b[Len(b) - n + k] = s[Len(b) - n + k - Len(q)]
      BY ONLY <2>4, <3>3
    <3>5. QED
      BY ONLY <3>1, <3>2, <3>3, <3>4
  <2>9. Newest(a, n) = Newest(b, n)
    BY <2>6, <2>7, <2>8, SeqEqual
  <2>10. QED
    BY <2>9 DEF a, b, u
<1>3. QED
  BY <1>1, <1>2

\* Where character p of the old contents followed by the n new ones is after
\* an add: the new ones from the old end on, the others where they were.
LEMMA AddPlaces ==
  ASSUME NEW st \in Slots, NEW len \in 0..Capacity, NEW n \in 0..Capacity,
         NEW k \in 1..Lesser(len + n, Capacity)
  PROVE  LET kept == Lesser(len + n, Capacity)
             p    == len + n - kept + (k - 1)
             slot == Wrap(Wrap(st + (len + n - kept)) + (k - 1))
         IN  /\ slot \in Slots
             /\ p < len => /\ slot = Wrap(st + p)
                           /\ n <= Ahead(Wrap(st + len), slot)
             /\ len <= p => Ahead(Wrap(st + len), slot) = p - len
<1> DEFINE kept == Lesser(len + n, Capacity)
<1>1. /\ Capacity \in Nat \ {0} /\ len \in Nat /\ n \in Nat /\ st \in Nat
      /\ st < Capacity /\ len <= Capacity /\ n <= Capacity
  BY CrbAssumption DEF Slots
<1>2. /\ kept \in Nat /\ kept <= Capacity /\ k \in 1..kept
      /\ len + n <= Capacity => kept = len + n
      /\ len + n > Capacity => kept = Capacity
  BY <1>1 DEF Lesser
<1> HIDE DEF kept
<1> DEFINE d     == len + n - kept
           end   == Wrap(st + len)
           start == Wrap(st + d)
           slot  == Wrap(start + (k - 1))
           p     == d + (k - 1)
           at    == Wrap(st + p)
<1>3. d \in Nat /\ d <= len /\ k \in Nat /\ 1 <= k /\ k <= kept
  BY <1>1, <1>2
<1> HIDE DEF d
<1>4. /\ end \in Nat /\ end < Capacity
      /\ end = st + len \/ end = st + len - Capacity
  <2>1. st + len \in Nat /\ st + len < Capacity + Capacity
    BY <1>1
  <2>2. QED
    BY <1>1, <2>1, WrapNat
<1>5. /\ start \in Nat /\ start < Capacity
      /\ start = st + d \/ start = st + d - Capacity
  <2>1. st + d \in Nat /\ st + d < Capacity + Capacity
    BY <1>1, <1>3
  <2>2. QED
    BY <1>1, <1>3, <2>1, WrapNat
<1> HIDE DEF end, start
<1>6. /\ slot \in Slots /\ slot \in Nat /\ slot < Capacity
      /\ slot = start + (k - 1) \/ slot = start + (k - 1) - Capacity
  <2>1. start + (k - 1) \in Nat /\ start + (k - 1) < Capacity + Capacity
    BY <1>1, <1>2, <1>3, <1>5
  <2>2. QED
    BY <1>1, <1>3, <1>5, <2>1, WrapNat
<1> HIDE DEF slot
<1>7. p \in Nat /\ p = d + (k - 1)
  BY <1>3
<1>8. ASSUME p < len
      PROVE  slot = at
  <2>1. st + p \in Nat /\ st + p < Capacity + Capacity
    BY <1>1, <1>7, <1>8
  <2>2. /\ at \in Nat /\ at < Capacity
        /\ at = st + p \/ at = st + p - Capacity
    BY <1>1, <1>7, <2>1, WrapNat
  <2> HIDE DEF at, p
  <2>3. QED
    BY <1>1, <1>3, <1>5, <1>6, <1>7, <2>2
<1> HIDE DEF at, p
<1>9. ASSUME p < len
      PROVE  n <= Ahead(end, slot)
  <2>1. len - p <= Capacity - n
    BY <1>1, <1>2, <1>3, <1>7, <1>9 DEF d
  <2>2. slot = end + p - len \/ slot = end + p - len + Capacity
    BY <1>1, <1>3, <1>4, <1>5, <1>6, <1>7, <1>9
  <2>3. QED
    BY <1>1, <1>4, <1>6, <1>7, <1>9, <2>1, <2>2 DEF Ahead
<1>10. ASSUME len <= p
       PROVE  Ahead(end, slot) = p - len
  <2>1. p - len < Capacity
    BY <1>1, <1>2, <1>3, <1>7, <1>10 DEF d
  <2>2. slot = end + (p - len) \/ slot = end + (p - len) - Capacity
    BY <1>1, <1>2, <1>3, <1>4, <1>5, <1>6, <1>7, <1>10, <2>1
  <2>3. QED
    BY <1>1, <1>4, <1>6, <1>7, <1>10, <2>1, <2>2 DEF Ahead
<1>11. QED
  BY <1>6, <1>8, <1>9, <1>10 DEF kept, d, end, start, slot, p, at

\* An add of no more than the capacity leaves the last characters of the old
\* contents and the new ones.
LEMMA StoreContents ==
  ASSUME CrbOK(crb), NEW s \in Seq(Chars), Len(s) <= Capacity
  PROVE  ContentsOf(Store(s)) = Newest(ContentsOf(crb) \o s, Capacity)
<1> DEFINE r    == Store(s)
           q    == ContentsOf(crb)
           st   == crb.start_index
           len  == crb.length
           n    == Len(s)
           kept == Lesser(len + n, Capacity)
           end  == crb.end_index
           buf  == crb.buffer
           d    == len + n - kept
           t    == q \o s
<1>1. /\ Capacity \in Nat /\ n \in Nat /\ n <= Capacity /\ st \in Slots /\ st \in Nat
      /\ len \in 0..Capacity /\ len \in Nat /\ n \in 0..Capacity
      /\ end = Wrap(st + len) /\ end \in Nat
  BY CrbAssumption DEF CrbOK, Crb, Slots
<1>2. /\ q \in Seq(Chars) /\ Len(q) = len
      /\ \A k \in 1..len : q[k] = buf[Wrap(st + (k - 1))]
  BY ContentsType
<1>3. /\ CrbOK(r) /\ r.length = kept /\ r.start_index = Wrap(st + d)
      /\ r.buffer = StoreFrom(buf, end, s)
  BY StoreKeepsIndices DEF Store, CrbOK, Crb
<1>4. /\ kept \in Nat /\ kept <= len + n /\ kept <= Capacity /\ d \in Nat /\ d = len + n - kept
  BY <1>1 DEF Lesser
<1>5. /\ ContentsOf(r) \in Seq(Chars) /\ Len(ContentsOf(r)) = kept
      /\ \A k \in 1..kept : ContentsOf(r)[k] = r.buffer[Wrap(r.start_index + (k - 1))]
  BY <1>3, ContentsType
<1> HIDE DEF r, q, st, len, end, buf
<1>6. /\ t \in Seq(Chars) /\ Len(t) = len + n
      /\ \A i \in 1..(len + n) : t[i] = IF i <= len THEN q[i] ELSE s[i - len]
  <2>1. /\ t \in Seq(Chars) /\ Len(t) = Len(q) + Len(s)
        /\ \A i \in 1..(Len(q) + Len(s)) : t[i] = IF i <= Len(q) THEN q[i] ELSE s[i - Len(q)]
    BY <1>2, ConcatProperties
  <2>2. QED
    BY <1>2, <2>1
<1>7. /\ Newest(t, Capacity) \in Seq(Chars) /\ Len(Newest(t, Capacity)) = kept
      /\ \A k \in 1..kept : Newest(t, Capacity)[k] = t[len + n - kept + k]
  <2>1. Len(t) \in Nat /\ Lesser(Len(t), Capacity) = kept
    BY <1>1, <1>6
  <2> HIDE DEF t, kept
  <2>2. QED
    <3>1. /\ Newest(t, Capacity) \in Seq(Chars) /\ Len(Newest(t, Capacity)) = kept
          /\ \A k \in 1..kept : Newest(t, Capacity)[k] = t[Len(t) - kept + k]
      <4>1. /\ t \in Seq(Chars) /\ Len(t) \in Nat /\ kept \in Nat /\ Capacity \in Nat
            /\ Lesser(Len(t), Capacity) = kept
        BY <1>1, <1>4, <1>6, <2>1
      <4>2. QED
        BY ONLY <4>1, LastProperties
    <3>2. QED
      BY <1>1, <1>4, <1>6, <3>1
<1> HIDE DEF t, kept, d, n
<1>8. ASSUME NEW k \in 1..kept
      PROVE  ContentsOf(r)[k] = Newest(t, Capacity)[k]
  <2> DEFINE p    == d + (k - 1)
             slot == Wrap(Wrap(st + d) + (k - 1))
             far  == Ahead(end, slot)
  <2>1. /\ slot \in Slots
        /\ p < len => slot = Wrap(st + p) /\ n <= far
        /\ len <= p => far = p - len
    <3>1. kept = Lesser(len + n, Capacity)
      BY DEF kept
    <3>2. /\ Wrap(Wrap(st + (len + n - kept)) + (k - 1)) \in Slots
          /\ len + n - kept + (k - 1) < len
               => /\ Wrap(Wrap(st + (len + n - kept)) + (k - 1))
                         = Wrap(st + (len + n - kept + (k - 1)))
                  /\ n <= Ahead(Wrap(st + len), Wrap(Wrap(st + (len + n - kept)) + (k - 1)))
          /\ len <= len + n - kept + (k - 1)
               => Ahead(Wrap(st + len), Wrap(Wrap(st + (len + n - kept)) + (k - 1)))
                         = len + n - kept + (k - 1) - len
      <4>1. st \in Slots /\ len \in 0..Capacity /\ n \in 0..Capacity /\ k \in 1..kept
        BY <1>1
      <4>2. QED
        BY ONLY <1>1, <1>4, <4>1, AddPlaces DEF kept
    <3>3. QED
      BY <1>1, <1>4, <3>2
  <2>2. ContentsOf(r)[k] = r.buffer[slot]
    BY <1>3, <1>5
  <2> HIDE DEF slot
  <2>3. r.buffer[slot] = IF far < n THEN s[far + 1] ELSE buf[slot]
    BY <1>3, <2>1 DEF StoreFrom, n
  <2> HIDE DEF far
  <2>4. Newest(t, Capacity)[k] = t[d + k] /\ d + k \in 1..(len + n)
    BY <1>1, <1>4, <1>7
  <2>5. CASE p < len
    <3>1. d + k <= len /\ d + k \in 1..len /\ (d + k) - 1 = p
      BY <1>1, <1>4, <2>5
    <3>2. t[d + k] = buf[Wrap(st + p)]
      BY <1>2, <1>6, <2>4, <3>1
    <3>3. slot = Wrap(st + p) /\ ~(far < n)
      <4>1. far \in Int
        BY <1>1, <2>1 DEF far, Ahead, Slots
      <4>2. QED
        BY <1>1, <2>1, <2>5, <4>1
    <3>4. QED
      BY <2>2, <2>3, <2>4, <3>2, <3>3
  <2>6. CASE len <= p
    <3>1. ~(d + k <= len) /\ far < n /\ far + 1 = d + k - len
      BY <1>1, <1>4, <2>1, <2>6
    <3>2. QED
      BY <1>1, <1>4, <1>6, <2>2, <2>3, <2>4, <3>1
  <2>7. QED
    BY <1>1, <1>4, <2>5, <2>6
<1>9. QED
  BY <1>5, <1>7, <1>8, SeqEqual DEF r, t, q

-----------------------------------------------------------------------------
(* Every call is a call of the queue.                                       *)

LEMMA ContentsAre == Contents = ContentsOf(crb)
  BY DEF Contents, CharAt, ContentsOf

LEMMA NextContentsAre == Contents' = ContentsOf(crb')
  BY DEF Contents, CharAt, ContentsOf

\* What the queue's operators need to know of the contents.
LEMMA ContentsFacts ==
  ASSUME CrbOK(crb)
  PROVE  /\ Contents \in Seq(Chars) /\ Len(Contents) = crb.length
         /\ crb.length \in Nat /\ crb.length <= Capacity
         /\ Capacity \in Nat \ {0}
         /\ \A k \in 1..crb.length : Contents[k] = CharAt(k - 1)
  BY ContentsAre, ContentsType, CrbAssumption DEF CharAt

\* An add that stores s.
LEMMA StoreIsSuffix ==
  ASSUME CrbOK(crb), NEW s \in Seq(Chars), Len(s) <= Capacity, crb' = Store(s)
  PROVE  Contents' = Newest(Contents \o s, Capacity)
  BY ContentsAre, NextContentsAre, StoreContents

\* The same where all of s fits.
LEMMA StoreIsAppend ==
  ASSUME CrbOK(crb), NEW s \in Seq(Chars), crb.length + Len(s) <= Capacity,
         crb' = Store(s)
  PROVE  Contents' = Contents \o s
<1>1. /\ Len(s) \in Nat /\ crb.length \in Nat /\ Capacity \in Nat
      /\ Contents \in Seq(Chars) /\ Len(Contents) = crb.length
  BY ContentsFacts
<1>2. Contents \o s \in Seq(Chars) /\ Len(Contents \o s) <= Capacity
  BY <1>1, ConcatProperties
<1>3. Contents' = Newest(Contents \o s, Capacity)
  BY <1>1, StoreIsSuffix
<1>4. QED
  BY <1>1, <1>2, <1>3, LastOfShort

LEMMA AddStrOverwrites ==
  ASSUME CrbOK(crb), NEW s \in Seq(Chars), AddStr(s)
  PROVE  Queue!Overwrite(s)
<1>1. /\ Capacity \in Nat /\ Contents \in Seq(Chars) /\ Len(Contents) <= Capacity
      /\ Len(s) \in Nat
  BY ContentsFacts
<1>2. crb' = Store(Newest(s, Capacity))
  BY DEF AddStr, Newest
<1>3. Newest(s, Capacity) \in Seq(Chars) /\ Len(Newest(s, Capacity)) <= Capacity
  <2>1. Lesser(Len(s), Capacity) <= Capacity
    BY <1>1 DEF Lesser
  <2>2. QED
    BY <1>1, <2>1, LastProperties
<1>4. Contents' = Newest(Contents \o s, Capacity)
  BY <1>1, <1>2, <1>3, StoreIsSuffix, LastOfConcat
<1>5. QED
  BY <1>4 DEF AddStr, Queue!Overwrite, Queue!Suffix, Queue!Lesser, Newest, Lesser,
              Result, Queue!Result

LEMMA AddStrStrictOffers ==
  ASSUME CrbOK(crb), NEW s \in Seq(Chars), AddStrStrict(s)
  PROVE  Queue!Offer(s)
<1>1. /\ Capacity \in Nat /\ Contents \in Seq(Chars) /\ Len(Contents) = crb.length
      /\ crb.length \in Nat /\ crb.length <= Capacity /\ Len(s) \in Nat
      /\ Queue!Room = Capacity - crb.length
  BY ContentsFacts DEF Queue!Room
<1>2. CASE s # <<>> /\ crb.length >= Capacity
  <2>1. Queue!Room = 0 /\ out' = Result(FULL, <<>>) /\ crb' = crb
    BY <1>1, <1>2 DEF AddStrStrict
  <2>2. Contents' = Contents
    BY <2>1, ContentsAre, NextContentsAre
  <2>3. QED
    BY <1>2, <2>1, <2>2 DEF Queue!Offer, Queue!Result, Result
<1>3. CASE ~(s # <<>> /\ crb.length >= Capacity)
  <2> DEFINE n == Lesser(Len(s), Capacity - crb.length)
  <2>1. ~(s # <<>> /\ Queue!Room = 0)
    BY <1>1, <1>3
  <2>2. n \in Nat /\ n <= Len(s) /\ n <= Capacity - crb.length
    BY <1>1 DEF Lesser
  <2>3. crb' = Store(SubSeq(s, 1, n)) /\ out' = Result(n, <<>>)
    BY <1>3 DEF AddStrStrict
  <2>4. n = Queue!Lesser(Len(s), Queue!Room)
    BY <1>1 DEF Lesser, Queue!Lesser
  <2> HIDE DEF n
  <2>5. SubSeq(s, 1, n) \in Seq(Chars) /\ Len(SubSeq(s, 1, n)) = n
    BY <1>1, <2>2, SubSeqProperties
  <2>6. Contents' = Contents \o SubSeq(s, 1, n)
    <3>1. crb.length + Len(SubSeq(s, 1, n)) <= Capacity
      BY <1>1, <2>2, <2>5
    <3>2. QED
      BY <2>3, <2>5, <3>1, StoreIsAppend
  <2>7. QED
    BY <2>1, <2>3, <2>4, <2>6 DEF Queue!Offer, Queue!Result, Result
<1>4. QED
  BY <1>2, <1>3

\* Going n places and then k more, or all at once.
LEMMA TakePlaces ==
  ASSUME NEW st \in Slots, NEW len \in 0..Capacity, NEW n \in 0..len, NEW k \in 1..(len - n)
  PROVE  Wrap(Wrap(st + n) + (k - 1)) = Wrap(st + (n + (k - 1)))
<1> DEFINE c == Wrap(st + n)
           a == Wrap(c + (k - 1))
           b == Wrap(st + (n + (k - 1)))
<1>1. /\ Capacity \in Nat \ {0} /\ st \in Nat /\ st < Capacity /\ len \in Nat
      /\ len <= Capacity /\ n \in Nat /\ k \in Nat /\ 1 <= k /\ n + k <= len
  BY CrbAssumption DEF Slots
<1>2. c \in Nat /\ c < Capacity /\ (c = st + n \/ c = st + n - Capacity)
  <2>1. st + n \in Nat /\ st + n < Capacity + Capacity
    BY <1>1
  <2>2. QED
    BY <1>1, <2>1, WrapNat
<1>3. /\ b \in Nat /\ b < Capacity
      /\ b = st + (n + (k - 1)) \/ b = st + (n + (k - 1)) - Capacity
  <2>1. st + (n + (k - 1)) \in Nat /\ st + (n + (k - 1)) < Capacity + Capacity
    BY <1>1
  <2>2. QED
    BY <1>1, <2>1, WrapNat
<1> HIDE DEF b, c
<1>4. a \in Nat /\ a < Capacity /\ (a = c + (k - 1) \/ a = c + (k - 1) - Capacity)
  <2>1. c + (k - 1) \in Nat /\ c + (k - 1) < Capacity + Capacity
    BY <1>1, <1>2
  <2>2. QED
    BY <1>1, <1>2, <2>1, WrapNat
<1> HIDE DEF a
<1>5. a = b
  BY <1>1, <1>2, <1>3, <1>4
<1>6. QED
  BY <1>5 DEF a, b, c

\* Taking n characters from the front.
LEMMA TakeContents ==
  ASSUME CrbOK(crb), NEW n \in 0..crb.length,
         crb' = [crb EXCEPT !.start_index = Wrap(crb.start_index + n),
                            !.length = crb.length - n]
  PROVE  Contents' = SubSeq(Contents, n + 1, Len(Contents))
<1> DEFINE st == crb.start_index
           q  == Contents
           u  == SubSeq(q, n + 1, crb.length)
<1>1. /\ q \in Seq(Chars) /\ Len(q) = crb.length
      /\ crb.length \in Nat /\ crb.length <= Capacity /\ Capacity \in Nat \ {0}
      /\ \A k \in 1..crb.length : q[k] = CharAt(k - 1)
  BY ContentsFacts
<1>2. st \in Nat /\ st < Capacity /\ n \in Nat /\ n <= crb.length
  BY <1>1 DEF CrbOK, Crb, Slots
<1>3. CrbOK(crb')
  BY TakeKeepsType
<1>4. /\ crb'.length = crb.length - n /\ crb'.buffer = crb.buffer
      /\ crb'.start_index = Wrap(st + n)
  BY DEF CrbOK, Crb
<1>5. /\ Contents' \in Seq(Chars) /\ Len(Contents') = crb.length - n
      /\ \A k \in 1..(crb.length - n) :
           Contents'[k] = crb.buffer[Wrap(Wrap(st + n) + (k - 1))]
  BY <1>3, <1>4, NextContentsAre, ContentsType
<1> HIDE DEF q
<1>6. /\ u \in Seq(Chars) /\ Len(u) = crb.length - n
      /\ \A k \in 1..(crb.length - n) : u[k] = q[n + k]
  <2>1. \A i \in (n + 1)..crb.length : q[i] \in Chars
    BY <1>1, <1>2
  <2>2. /\ u \in Seq(Chars)
        /\ Len(u) = IF n + 1 <= crb.length THEN crb.length - (n + 1) + 1 ELSE 0
        /\ \A k \in 1..(crb.length - (n + 1) + 1) : u[k] = q[n + 1 + k - 1]
    BY <1>1, <1>2, <2>1, SubSeqProperties
  <2>3. /\ crb.length - (n + 1) + 1 = crb.length - n
        /\ \A k \in 1..(crb.length - n) : n + 1 + k - 1 = n + k
        /\ (IF n + 1 <= crb.length THEN crb.length - n ELSE 0) = crb.length - n
    BY <1>1, <1>2
  <2> HIDE DEF u
  <2>4. QED
    BY <2>2, <2>3
<1> HIDE DEF u
<1>7. ASSUME NEW k \in 1..(crb.length - n)
      PROVE  Contents'[k] = u[k]
  <2>1. k \in Nat /\ n + k \in 1..crb.length /\ (n + k) - 1 = n + (k - 1)
    BY <1>1, <1>2
  <2>2. Wrap(Wrap(st + n) + (k - 1)) = Wrap(st + (n + (k - 1)))
    BY <1>1, <1>2, TakePlaces DEF CrbOK, Crb
  <2>3. u[k] = crb.buffer[Wrap(st + (n + (k - 1)))]
    BY <1>1, <1>6, <2>1 DEF CharAt
  <2>4. QED
    BY <1>5, <2>2, <2>3
<1>8. QED
  BY <1>1, <1>5, <1>6, <1>7, SeqEqual DEF u, q

LEMMA GetNextTakes ==
  ASSUME CrbOK(crb), GetNext
  PROVE  Queue!Take
<1>1. /\ Contents \in Seq(Chars) /\ Len(Contents) = crb.length /\ crb.length \in Nat
      /\ \A k \in 1..crb.length : Contents[k] = CharAt(k - 1)
  BY ContentsFacts
<1>2. CASE crb.length = 0
  <2>1. Contents = <<>> /\ crb' = crb /\ out' = Result(EOF, <<>>)
    BY <1>1, <1>2 DEF GetNext
  <2>2. Contents' = Contents
    BY <2>1, ContentsAre, NextContentsAre
  <2>3. QED
    BY <2>1, <2>2 DEF Queue!Take, Queue!Result, Result
<1>3. CASE crb.length # 0
  <2>1. /\ out' = Result(1, <<CharAt(0)>>) /\ 1 \in 0..crb.length /\ 1 \in 1..crb.length
        /\ 1 - 1 = 0
        /\ crb' = [crb EXCEPT !.start_index = Wrap(crb.start_index + 1),
                              !.length = crb.length - 1]
    BY <1>1, <1>3 DEF GetNext
  <2>2. Contents' = SubSeq(Contents, 1 + 1, Len(Contents))
    BY <2>1, TakeContents
  <2>3. Contents # <<>> /\ Tail(Contents) = SubSeq(Contents, 2, Len(Contents))
    BY <1>1, <1>3, TailIsSubSeq
  <2>4. Head(Contents) = CharAt(0)
    BY <1>1, <2>1, <2>3
  <2>5. QED
    BY <2>1, <2>2, <2>3, <2>4 DEF Queue!Take, Queue!Result, Result
<1>4. QED
  BY <1>2, <1>3

LEMMA PeekLooks ==
  ASSUME CrbOK(crb), NEW k \in 0..Capacity, Peek(k)
  PROVE  Queue!Look(k)
<1>1. /\ Len(Contents) = crb.length /\ crb.length \in Nat /\ Capacity \in Nat
      /\ \A i \in 1..crb.length : Contents[i] = CharAt(i - 1)
  BY ContentsFacts
<1>2. k < crb.length => Contents[k + 1] = CharAt(k)
  <2>1. k \in Nat /\ (k + 1) - 1 = k /\ (k < crb.length => k + 1 \in 1..crb.length)
    BY <1>1
  <2>2. QED
    BY <1>1, <2>1
<1>3. Contents' = Contents
  BY ContentsAre, NextContentsAre DEF Peek
<1>4. QED
  BY <1>1, <1>2, <1>3 DEF Peek, Queue!Look, Queue!Result, Result

LEMMA AdvanceSkips ==
  ASSUME CrbOK(crb), NEW n \in 0..crb.length, Advance(n)
  PROVE  Queue!Skip(n)
<1>1. /\ Contents \in Seq(Chars) /\ Len(Contents) = crb.length /\ crb.length \in Nat
      /\ crb.length <= Capacity /\ Capacity \in Nat /\ n \in Nat /\ n <= crb.length
  BY ContentsFacts
<1>2. CASE crb.length = 0
  <2>1. Contents = <<>> /\ crb' = crb /\ out' = Result(EOF, <<>>)
    BY <1>1, <1>2 DEF Advance
  <2>2. Contents' = Contents
    BY <2>1, ContentsAre, NextContentsAre
  <2>3. QED
    BY <2>1, <2>2 DEF Queue!Skip, Queue!Result, Result
<1>3. CASE crb.length # 0
  <2>1. (crb.length - n) % Word = crb.length - n
    <3>1. Word \in Nat /\ Word > Capacity
      BY CrbAssumption
    <3>2. (crb.length - n) \in 0..(Word - 1)
      BY <1>1, <3>1
    <3>3. QED
      BY <3>1, <3>2
  <2>2. ~(crb.length < n)
    BY <1>1
  <2>3. /\ out' = Result(n, <<>>)
        /\ crb' = [crb EXCEPT !.start_index = Wrap(crb.start_index + n),
                              !.length = crb.length - n]
    BY <1>3, <2>1, <2>2 DEF Advance
  <2>4. Contents' = SubSeq(Contents, n + 1, Len(Contents))
    BY <2>3, TakeContents
  <2>5. Contents # <<>> /\ n = Queue!Lesser(n, Len(Contents))
    BY <1>1, <1>3 DEF Queue!Lesser
  <2>6. QED
    BY <2>3, <2>4, <2>5 DEF Queue!Skip, Queue!Result, Result
<1>4. QED
  BY <1>2, <1>3

\* The two loops write the contents, wherever they wrap.
LEMMA SprintReadsAll ==
  ASSUME CrbOK(crb), Sprint
  PROVE  Queue!ReadAll
<1> DEFINE st     == crb.start_index
           len    == crb.length
           end    == crb.end_index
           first  == Lesser(len, Capacity - st)
           second == IF st >= end THEN Lesser(len - first, end + 1) ELSE 0
           left   == [k \in 1..first |-> crb.buffer[st + k - 1]]
           right  == [k \in 1..second |-> crb.buffer[k - 1]]
<1>1. /\ Contents \in Seq(Chars) /\ Len(Contents) = len /\ len \in Nat
      /\ len <= Capacity /\ Capacity \in Nat \ {0}
      /\ \A k \in 1..len : Contents[k] = CharAt(k - 1)
  BY ContentsFacts
<1>2. /\ st \in Nat /\ st < Capacity /\ end \in Nat /\ end < Capacity
      /\ crb.buffer \in [Slots -> Chars] /\ end = Wrap(st + len)
  BY <1>1 DEF CrbOK, Crb, Slots
<1>3. /\ st + len < Capacity => end = st + len
      /\ Capacity <= st + len => end = st + len - Capacity
  <2>1. st + len \in Nat /\ st + len < Capacity + Capacity
    BY <1>1, <1>2
  <2>2. QED
    BY <1>1, <1>2, <2>1, WrapTurns
<1>4. out' = Result(0, left \o right) /\ crb' = crb
  BY DEF Sprint
<1>5. /\ first \in Nat /\ second \in Nat /\ first + second = len
      /\ first <= Capacity - st /\ second <= Capacity
      /\ second # 0 => first = Capacity - st
  <2>1. CASE len <= Capacity - st
    <3>1. first = len /\ len - first = 0
      BY <1>1, <1>2, <2>1 DEF Lesser
    <3> HIDE DEF first
    <3>2. second = 0
      BY <1>1, <1>2, <3>1 DEF Lesser
    <3> HIDE DEF second
    <3>3. QED
      BY <1>1, <1>2, <2>1, <3>1, <3>2
  <2>2. CASE ~(len <= Capacity - st)
    <3>1. first = Capacity - st /\ end = len - (Capacity - st) /\ st >= end
      BY <1>1, <1>2, <1>3, <2>2 DEF Lesser
    <3> HIDE DEF first
    <3>2. second = end
      BY <1>1, <1>2, <3>1 DEF Lesser
    <3> HIDE DEF second
    <3>3. /\ Capacity \in Nat /\ st \in Nat /\ st < Capacity /\ len \in Nat
          /\ end \in Nat /\ end < Capacity
      BY <1>1, <1>2
    <3>4. QED
      BY ONLY <3>1, <3>2, <3>3
  <2>3. QED
    BY <2>1, <2>2
<1> HIDE DEF first, second
<1>6. \A k \in 1..first : st + k - 1 \in Slots /\ Wrap(st + (k - 1)) = st + k - 1
  <2> TAKE k \in 1..first
  <2>1. /\ st + (k - 1) \in Nat /\ st + (k - 1) < Capacity
        /\ st + (k - 1) < Capacity + Capacity /\ st + (k - 1) = st + k - 1
    BY <1>1, <1>2, <1>5
  <2>2. QED
    BY <1>1, <2>1, WrapTurns
<1>7. \A k \in 1..second : /\ k - 1 \in Slots
                           /\ first + k \in 1..len
                           /\ Wrap(st + ((first + k) - 1)) = k - 1
  <2> TAKE k \in 1..second
  <2>1. /\ k \in Nat /\ first = Capacity - st /\ k - 1 \in 0..(Capacity - 1)
        /\ first + k \in 1..len
    BY <1>1, <1>2, <1>5
  <2>2. /\ st + ((first + k) - 1) = Capacity + (k - 1)
        /\ Capacity + (k - 1) \in Nat /\ Capacity + (k - 1) < Capacity + Capacity
        /\ Capacity <= Capacity + (k - 1) /\ Capacity + (k - 1) - Capacity = k - 1
    BY <1>1, <1>2, <2>1
  <2>3. Wrap(Capacity + (k - 1)) = k - 1
    BY <1>1, <2>1, <2>2, WrapTurns
  <2>4. QED
    BY <2>1, <2>2, <2>3 DEF Slots
<1>8. /\ left \in Seq(Chars) /\ Len(left) = first
      /\ \A k \in 1..first : left[k] = CharAt(k - 1)
  <2>1. left \in [1..first -> Chars]
    BY <1>2, <1>6
  <2>2. left \in Seq(Chars) /\ Len(left) = first
    BY <1>5, <2>1
  <2>3. \A k \in 1..first : left[k] = CharAt(k - 1)
    BY <1>6 DEF CharAt
  <2>4. QED
    BY <2>2, <2>3
<1>9. /\ right \in Seq(Chars) /\ Len(right) = second
      /\ \A k \in 1..second : right[k] = CharAt((first + k) - 1)
  <2>1. right \in [1..second -> Chars]
    BY <1>2, <1>7
  <2>2. right \in Seq(Chars) /\ Len(right) = second
    BY <1>5, <2>1
  <2>3. \A k \in 1..second : right[k] = CharAt((first + k) - 1)
    BY <1>7 DEF CharAt
  <2>4. QED
    BY <2>2, <2>3
<1> HIDE DEF left, right
<1>10. /\ left \o right \in Seq(Chars) /\ Len(left \o right) = len
       /\ \A k \in 1..(first + second) :
            (left \o right)[k] = IF k <= first THEN left[k] ELSE right[k - first]
  BY <1>5, <1>8, <1>9, ConcatProperties
<1>11. ASSUME NEW k \in 1..len
       PROVE  (left \o right)[k] = Contents[k]
  <2>1. CASE k <= first
    <3>1. k \in 1..first /\ k \in 1..(first + second)
      BY <1>1, <1>5, <2>1
    <3>2. QED
      BY <1>1, <1>8, <1>10, <2>1, <3>1
  <2>2. CASE ~(k <= first)
    <3>1. k - first \in 1..second /\ first + (k - first) = k /\ k \in 1..(first + second)
      BY <1>1, <1>5, <2>2
    <3>2. right[k - first] = CharAt(k - 1)
      BY <1>9, <3>1
    <3>3. QED
      BY <1>1, <1>10, <2>2, <3>1, <3>2
  <2>3. QED
    BY <2>1, <2>2
<1>12. left \o right = Contents
  BY <1>1, <1>10, <1>11, SeqEqual
<1>13. Contents' = Contents
  BY <1>4, ContentsAre, NextContentsAre
<1>14. QED
  BY <1>4, <1>12, <1>13 DEF Queue!ReadAll, Queue!Result, Result

\* What a reader gives goes behind the contents.
LEMMA FillFills ==
  ASSUME CrbOK(crb), overrun = 0, NEW s \in Seq(Chars), Fill(s)
  PROVE  Queue!Fill(s)
<1> DEFINE n      == Lesser(Len(s), FreeSpace)
           inside == Lesser(n, Capacity - crb.end_index)
           text   == SubSeq(s, 1, n)
<1>1. /\ Capacity \in Nat \ {0} /\ Len(s) \in Nat
      /\ Contents \in Seq(Chars) /\ Len(Contents) = crb.length
      /\ crb.length \in Nat /\ crb.length <= Capacity
      /\ Queue!Room = Capacity - crb.length
  BY ContentsFacts DEF Queue!Room
<1>2. /\ crb.start_index \in Nat /\ crb.start_index < Capacity /\ crb.start_index \in Slots
      /\ crb.end_index \in Nat /\ crb.end_index < Capacity
      /\ crb.end_index = Wrap(crb.start_index + crb.length)
  BY <1>1 DEF CrbOK, Crb, Slots
<1>3. CASE crb.length >= Capacity
  <2>1. Queue!Room = 0 /\ out' = Result(FULL, <<>>) /\ crb' = crb
    BY <1>1, <1>3 DEF Fill
  <2>2. Contents' = Contents
    BY <2>1, ContentsAre, NextContentsAre
  <2>3. QED
    BY <2>1, <2>2 DEF Queue!Fill, Queue!Result, Result
<1>4. CASE crb.length < Capacity /\ out' = Result(EOF, <<>>) /\ crb' = crb
  <2>1. Queue!Room > 0
    BY <1>1, <1>4
  <2>2. Contents' = Contents
    BY <1>4, ContentsAre, NextContentsAre
  <2>3. QED
    BY <1>4, <2>1, <2>2 DEF Queue!Fill, Queue!Result, Result
<1>5. CASE /\ crb.length < Capacity
           /\ FreeSpace <= Capacity - crb.end_index
           /\ out' = Result(n, <<>>)
           /\ crb' = [crb EXCEPT !.buffer    = StoreFrom(@, crb.end_index, SubSeq(s, 1, inside)),
                                 !.end_index = Wrap(@ + n),
                                 !.length    = @ + n]
  <2>1. /\ crb.start_index + crb.length < Capacity
             => crb.end_index = crb.start_index + crb.length
        /\ Capacity <= crb.start_index + crb.length
             => crb.end_index = crb.start_index + crb.length - Capacity
    <3>1. /\ crb.start_index + crb.length \in Nat
          /\ crb.start_index + crb.length < Capacity + Capacity
      BY <1>1, <1>2
    <3>2. QED
      BY <1>1, <1>2, <3>1, WrapTurns
  <2>2. FreeSpace \in Nat /\ FreeSpace + crb.length <= Capacity
    <3>1. /\ Capacity \in Nat /\ crb.length \in Nat /\ crb.length < Capacity
          /\ crb.start_index \in Nat /\ crb.start_index < Capacity
          /\ crb.end_index \in Nat /\ crb.end_index < Capacity
          /\ FreeSpace <= Capacity - crb.end_index
      BY <1>1, <1>2, <1>5
    <3>2. CASE crb.length = 0
      <4>1. FreeSpace = Capacity
        BY <3>2 DEF FreeSpace
      <4>2. QED
        BY <3>1, <3>2, <4>1
    <3>3. CASE crb.length # 0 /\ crb.start_index + crb.length < Capacity
      <4>1. crb.end_index = crb.start_index + crb.length /\ crb.end_index >= crb.start_index
        BY <2>1, <3>1, <3>3
      <4>2. FreeSpace = Capacity - crb.end_index
        BY <3>3, <4>1 DEF FreeSpace
      <4>3. QED
        BY <3>1, <4>1, <4>2
    <3>4. CASE crb.length # 0 /\ Capacity <= crb.start_index + crb.length
      <4>1. crb.end_index = crb.start_index + crb.length - Capacity /\ ~(crb.end_index >= crb.start_index)
        BY <2>1, <3>1, <3>4
      <4>2. FreeSpace = crb.start_index - crb.end_index
        BY <3>4, <4>1 DEF FreeSpace
      <4>3. QED
        BY <3>1, <4>1, <4>2
    <3>5. QED
      BY <3>1, <3>2, <3>3, <3>4
  <2>3. /\ n \in Nat /\ n <= Len(s) /\ n + crb.length <= Capacity
        /\ inside = n
    <3>1. /\ Len(s) \in Nat /\ FreeSpace \in Nat /\ FreeSpace + crb.length <= Capacity
          /\ Capacity \in Nat /\ crb.length \in Nat /\ crb.end_index \in Nat
          /\ FreeSpace <= Capacity - crb.end_index
      BY <1>1, <1>2, <1>5, <2>2
    <3>2. n \in Nat /\ n <= Len(s) /\ n <= FreeSpace
      BY <3>1 DEF Lesser
    <3> HIDE DEF n
    <3>3. n + crb.length <= Capacity /\ n <= Capacity - crb.end_index
      BY <3>1, <3>2
    <3>4. inside = n
      BY <3>1, <3>2, <3>3 DEF Lesser
    <3>5. QED
      BY <3>2, <3>3, <3>4
  <2> HIDE DEF n, inside
  <2>4. text \in Seq(Chars) /\ Len(text) = n
    BY <1>1, <2>3, SubSeqProperties
  <2>5. crb' = Store(text)
    <3>1. Lesser(crb.length + n, Capacity) = crb.length + n
      BY <1>1, <2>3 DEF Lesser
    <3>2. /\ crb.length + n - (crb.length + n) = 0
          /\ Wrap(crb.start_index + 0) = crb.start_index
      BY <1>1, <1>2, <2>3, WrapTurns
    <3> DEFINE buf == StoreFrom(crb.buffer, crb.end_index, text)
               end == Wrap(crb.end_index + n)
               len == crb.length + n
    <3>3. crb' = [crb EXCEPT !.buffer = buf, !.end_index = end, !.length = len]
      BY <1>5, <2>3
    <3>4. Store(text) = [crb EXCEPT !.buffer = buf, !.start_index = crb.start_index,
                                    !.end_index = end, !.length = len]
      BY <2>4, <3>1, <3>2 DEF Store
    <3> HIDE DEF buf, end, len
    <3>5. QED
      BY <3>3, <3>4 DEF CrbOK, Crb
  <2>6. Contents' = Contents \o text
    <3>1. crb.length + Len(text) <= Capacity
      BY <1>1, <2>3, <2>4
    <3>2. QED
      BY <2>4, <2>5, <3>1, StoreIsAppend
  <2>7. n \in 0..Queue!Lesser(Len(s), Queue!Room) /\ Queue!Room > 0
    BY <1>1, <1>5, <2>3 DEF Queue!Lesser
  <2>8. QED
    BY <1>5, <2>6, <2>7 DEF Queue!Fill, Queue!Result, Result
<1>6. QED
  BY <1>3, <1>4, <1>5 DEF Fill

LEMMA AddCharOverwrites ==
  ASSUME CrbOK(crb), NEW c \in Chars, AddChar(c)
  PROVE  Queue!Overwrite(<<c>>)
<1>1. <<c>> \in Seq(Chars) /\ Len(<<c>>) = 1 /\ 1 <= Capacity
  BY CrbAssumption
<1>2. Contents' = Newest(Contents \o <<c>>, Capacity)
  BY <1>1, StoreIsSuffix DEF AddChar
<1>3. QED
  BY <1>2 DEF AddChar, Queue!Overwrite, Queue!Suffix, Queue!Lesser, Newest, Lesser,
              Result, Queue!Result

\* Every step is one of the queue, or leaves it alone.
LEMMA StepOfQueue ==
  ASSUME TypeOK, [Next]_vars
  PROVE  [Queue!Next]_<<Contents, out>>
<1>1. CrbOK(crb) /\ overrun = 0
  BY TypeOKIsCrbOK
<1>2. \A s \in Texts : s \in Queue!Texts /\ s \in Seq(Chars)
  BY TextsAreSeqs DEF Texts, Queue!Texts
<1>3. \A c \in Chars : <<c>> \in Queue!Texts
  <2> TAKE c \in Chars
  <2>1. 1 \in 0..MaxAdd /\ <<c>> \in [1..1 -> Chars]
    BY CrbAssumption
  <2>2. QED
    BY <2>1 DEF Queue!Texts
<1>4. ASSUME NEW s \in Texts, AddStr(s) \/ AddStrStrict(s) \/ Fill(s)
      PROVE  Queue!Next
  BY <1>1, <1>2, <1>4, AddStrOverwrites, AddStrStrictOffers, FillFills DEF Queue!Next
<1>5. ASSUME NEW c \in Chars, AddChar(c) \/ AddCharStrict(c)
      PROVE  Queue!Next
  <2>1. <<c>> \in Seq(Chars)
    OBVIOUS
  <2>2. Queue!Overwrite(<<c>>) \/ Queue!Offer(<<c>>)
    BY <1>1, <1>5, <2>1, AddCharOverwrites, AddStrStrictOffers DEF AddCharStrict
  <2>3. QED
    BY <1>3, <2>2 DEF Queue!Next
<1>6. CASE GetNext
  BY <1>1, <1>6, GetNextTakes DEF Queue!Next
<1>7. ASSUME NEW k \in 0..Capacity, Peek(k)
      PROVE  Queue!Next
  BY <1>1, <1>7, PeekLooks DEF Queue!Next
<1>8. ASSUME NEW n \in 0..crb.length, Advance(n)
      PROVE  Queue!Next
  <2>1. n \in 0..Capacity
    BY <1>1, ContentsFacts
  <2>2. QED
    BY <1>1, <1>8, <2>1, AdvanceSkips DEF Queue!Next
<1>9. CASE Sprint
  BY <1>1, <1>9, SprintReadsAll DEF Queue!Next
<1>10. CASE UNCHANGED vars
  BY <1>10, ContentsAre, NextContentsAre DEF vars
<1>11. QED
  BY <1>4, <1>5, <1>6, <1>7, <1>8, <1>9, <1>10 DEF Next

\* The ring buffer is a bounded queue of characters: every call of the library
\* returns what the queue would and leaves the contents it would, for every
\* capacity, character set and order of calls, wherever the indices wrap.
THEOREM RingBufferIsAQueue == Spec => ImplementsQueue
<1>1. Init => Queue!Init
  <2> SUFFICES ASSUME Init PROVE Queue!Init
    OBVIOUS
  <2>1. CrbOK(crb) /\ crb.length = 0 /\ out = Result(0, <<>>)
    BY InitTypeOK, TypeOKIsCrbOK DEF Init, New
  <2>2. Contents = <<>>
    BY <2>1, ContentsFacts
  <2>3. QED
    BY <2>1, <2>2 DEF Queue!Init, Queue!Result, Result
<1>2. TypeOK /\ [Next]_vars => [Queue!Next]_<<Contents, out>>
  BY StepOfQueue
<1>3. QED
  BY <1>1, <1>2, CrbTypeCorrect, PTL DEF Spec, ImplementsQueue, Queue!Spec

-----------------------------------------------------------------------------
(* The string builder. *)

BuilderSpec == BuilderInit /\ [][BuilderNext]_builderVars

TextLetters == Int \ {TERMINATOR}
Places == [blk : 1..MaxBlocks, off : 0..BlockBytes]
Memory == [1..Area -> [1..BlockBytes -> Int]]
BuilderRecords ==
  [blk : 1..Area, off : 0..BlockBytes, capacity : Nat, length : Nat, arena : BOOLEAN,
   struct : [blk : Nat, off : Nat]]
ChunkRecords == [blk : 1..MaxBlocks, off : 0..BlockBytes, n : 1..BlockBytes]

\* A place no later than q.
Until(blk, off, q) == blk < q.blk \/ (blk = q.blk /\ off <= q.off)

\* The two memories have the same n bytes there.
Same(mem, mem2, blk, off, n) == \A k \in 1..n : mem2[blk][off + k] = mem[blk][off + k]

\* The buffer, NUL included, and the n bytes do not overlap.
Apart(b, blk, off, n) == b.blk # blk \/ b.off + b.capacity + 1 <= off \/ off + n <= b.off

OwnedAt(b, a) ==
  /\ b.off + b.capacity + 1 <= BlockBytes
  /\ b.arena => b.blk <= MaxBlocks /\ Until(b.blk, b.off + b.capacity + 1, a)
  /\ ~b.arena => b.blk = Area /\ b.off = 0

\* The buffer has the text, and nothing but NULs behind it.
Holds(mem, b, text) ==
  /\ Len(text) = b.length /\ b.length <= b.capacity
  /\ \A k \in 1..(b.capacity + 1) : mem[b.blk][b.off + k] = IF k <= b.length THEN text[k] ELSE TERMINATOR

-----------------------------------------------------------------------------
(* The memory. *)

LEMMA AreaIsLast == Area \in Nat /\ Area = MaxBlocks + 1 /\ MaxBlocks \in 1..Area /\ Area \in 1..Area
  BY BuilderAssumption DEF Area

\* w is the memory with s written there.
WrittenAt(w, mem, blk, off, s) ==
  /\ w \in Memory
  /\ \A d \in 1..Area : d # blk => w[d] = mem[d]
  /\ \A k \in 1..BlockBytes : w[blk][k] = IF k - off \in 1..Len(s) THEN s[k - off] ELSE mem[blk][k]

LEMMA Written ==
  ASSUME NEW mem \in Memory, NEW blk \in 1..Area, NEW off \in Nat, NEW s \in Seq(Int)
  PROVE  WrittenAt(Write(mem, blk, off, s), mem, blk, off, s)
<1> DEFINE row == [k \in 1..BlockBytes |-> IF k - off \in 1..Len(s) THEN s[k - off] ELSE mem[blk][k]]
<1>1. DOMAIN mem[blk] = 1..BlockBytes /\ mem[blk] \in [1..BlockBytes -> Int]
  BY DEF Memory
<1>2. Write(mem, blk, off, s) = [mem EXCEPT ![blk] = row]
  BY <1>1 DEF Write
<1>3. Len(s) \in Nat /\ \A k \in 1..BlockBytes : k - off \in 1..Len(s) => s[k - off] \in Int
  BY ElementOfSeq
<1>4. row \in [1..BlockBytes -> Int]
  BY <1>1, <1>3
<1>5. /\ [mem EXCEPT ![blk] = row] \in Memory /\ [mem EXCEPT ![blk] = row][blk] = row
      /\ \A d \in 1..Area : d # blk => [mem EXCEPT ![blk] = row][d] = mem[d]
  <2> HIDE DEF row
  <2>1. QED
    BY <1>4 DEF Memory
<1>6. \A k \in 1..BlockBytes : row[k] = IF k - off \in 1..Len(s) THEN s[k - off] ELSE mem[blk][k]
  OBVIOUS
<1>7. QED
  BY <1>2, <1>5, <1>6 DEF WrittenAt

LEMMA WrittenElsewhere ==
  ASSUME NEW mem \in Memory, NEW blk \in 1..Area, NEW off \in Nat, NEW s \in Seq(Int),
         NEW d \in 1..Area, NEW o \in Nat, NEW n \in Nat, o + n <= BlockBytes,
         d # blk \/ o + n <= off \/ off + Len(s) <= o
  PROVE  Same(mem, Write(mem, blk, off, s), d, o, n)
<1> DEFINE w == Write(mem, blk, off, s)
<1>1. WrittenAt(w, mem, blk, off, s)
  BY Written
<1> HIDE DEF w
<1>2. CASE d # blk
  BY <1>1, <1>2 DEF Same, WrittenAt, w
<1>3. CASE d = blk
  <2>1. ASSUME NEW k \in 1..n
        PROVE  w[blk][o + k] = mem[blk][o + k]
    <3>1. PICK l \in 1..BlockBytes : l = o + k /\ Len(s) \in Nat /\ ~(l - off \in 1..Len(s))
      BY <1>3, BuilderAssumption
    <3>2. w[blk][l] = mem[blk][l]
      BY <1>1, <3>1 DEF WrittenAt
    <3>3. QED
      BY <3>1, <3>2
  <2>2. QED
    BY <1>3, <2>1 DEF Same, w
<1>4. QED
  BY <1>2, <1>3

LEMMA WrittenHere ==
  ASSUME NEW mem \in Memory, NEW blk \in 1..Area, NEW off \in Nat, NEW s \in Seq(Int),
         NEW k \in 1..Len(s), off + k <= BlockBytes
  PROVE  Write(mem, blk, off, s)[blk][off + k] = s[k]
<1> DEFINE w == Write(mem, blk, off, s)
<1>1. WrittenAt(w, mem, blk, off, s)
  BY Written
<1> HIDE DEF w
<1>2. PICK l \in 1..BlockBytes : l = off + k /\ l - off = k /\ l - off \in 1..Len(s)
  BY BuilderAssumption
<1>3. w[blk][l] = s[l - off]
  BY <1>1, <1>2 DEF WrittenAt
<1>4. QED
  BY <1>2, <1>3 DEF w

\* s is the n bytes that are there.
ReadAt(s, mem, blk, off, n) ==
  s \in Seq(Int) /\ Len(s) = n /\ \A k \in 1..n : s[k] = mem[blk][off + k]

LEMMA ReadIs ==
  ASSUME NEW mem \in Memory, NEW blk \in 1..Area, NEW off \in Nat, NEW n \in Nat, off + n <= BlockBytes
  PROVE  ReadAt(Read(mem, blk, off, n), mem, blk, off, n)
<1>1. \A k \in 1..n : off + k <= BlockBytes /\ off + k \in 1..BlockBytes
  BY BuilderAssumption
<1>2. \A k \in 1..n : mem[blk][off + k] \in Int
  BY <1>1 DEF Memory
<1>3. Read(mem, blk, off, n) = [k \in 1..n |-> mem[blk][off + k]]
  BY <1>1 DEF Read
<1>4. PICK s : s = [k \in 1..n |-> mem[blk][off + k]]
  OBVIOUS
<1>5. s \in Seq(Int) /\ Len(s) = n /\ \A k \in 1..n : s[k] = mem[blk][off + k]
  BY <1>2, <1>4
<1>6. QED
  BY <1>3, <1>4, <1>5 DEF ReadAt

\* w is the memory with n bytes there cleared.
ClearedAt(w, mem, blk, off, n) ==
  /\ w \in Memory
  /\ \A k \in 1..n : off + k <= BlockBytes => w[blk][off + k] = TERMINATOR
  /\ \A d \in 1..Area, o \in Nat, m \in Nat :
       o + m <= BlockBytes /\ (d # blk \/ o + m <= off \/ off + n <= o) => Same(mem, w, d, o, m)

LEMMA Cleared ==
  ASSUME NEW mem \in Memory, NEW blk \in 1..Area, NEW off \in Nat, NEW n \in Nat
  PROVE  ClearedAt(Clear(mem, blk, off, n), mem, blk, off, n)
<1> DEFINE s == [k \in 1..n |-> TERMINATOR]
<1>1. s \in Seq(Int) /\ Len(s) = n /\ \A k \in 1..n : s[k] = TERMINATOR
  BY DEF TERMINATOR
<1>2. Clear(mem, blk, off, n) = Write(mem, blk, off, s)
  BY DEF Clear
<1> HIDE DEF s
<1>3. Write(mem, blk, off, s) \in Memory
  BY <1>1, Written DEF WrittenAt
<1>4. ASSUME NEW k \in 1..n, off + k <= BlockBytes
      PROVE  Write(mem, blk, off, s)[blk][off + k] = TERMINATOR
  BY <1>1, <1>4, WrittenHere
<1>5. ASSUME NEW d \in 1..Area, NEW o \in Nat, NEW m \in Nat,
             o + m <= BlockBytes, d # blk \/ o + m <= off \/ off + n <= o
      PROVE  Same(mem, Write(mem, blk, off, s), d, o, m)
  BY <1>1, <1>5, WrittenElsewhere
<1>6. QED
  BY <1>2, <1>3, <1>4, <1>5 DEF ClearedAt

\* What the arena has given copy, and the area of malloc.
Given(d, e, a) == d = Area \/ Until(d, e, a)

\* An allocation clears what it gives, which the arena has not given copy, and
\* leaves the rest alone.
Allocation(a, mem, n, r) ==
  /\ r.ok \in BOOLEAN /\ r.arena \in Places /\ r.bytes \in Memory /\ Until(a.blk, a.off, r.arena)
  /\ \A d \in 1..Area, o \in Nat, m \in Nat :
       o + m <= BlockBytes /\ Given(d, o + m, a) => Same(mem, r.bytes, d, o, m)
  /\ ~r.ok => r.arena = a
  /\ r.ok =>
       /\ r.blk \in 1..MaxBlocks /\ r.off \in 0..BlockBytes /\ r.off + n <= BlockBytes
       /\ (r.blk = a.blk /\ r.off = a.off) \/ a.blk < r.blk
       /\ r.arena = [blk |-> r.blk, off |-> r.off + n]
       /\ \A k \in 1..n : r.bytes[r.blk][r.off + k] = TERMINATOR

LEMMA Allocated ==
  ASSUME NEW a \in Places, NEW mem \in Memory, NEW n \in 1..BlockBytes
  PROVE  Allocation(a, mem, n, Alloc(a, mem, n))
<1>1. /\ a = [blk |-> a.blk, off |-> a.off] /\ a.blk \in 1..MaxBlocks /\ a.off \in 0..BlockBytes
      /\ BlockBytes \in Nat /\ MaxBlocks \in Nat /\ n \in Nat /\ n >= 1 /\ n <= BlockBytes
  BY BuilderAssumption DEF Places
<1>2. ASSUME NEW nb \in 1..MaxBlocks, NEW no \in 0..BlockBytes, no + n <= BlockBytes,
             (nb = a.blk /\ no = a.off) \/ a.blk < nb,
             NEW r, r = [ok |-> TRUE, arena |-> [blk |-> nb, off |-> no + n], bytes |-> Clear(mem, nb, no, n),
                         blk |-> nb, off |-> no]
      PROVE  Allocation(a, mem, n, r)
  <2>1. /\ r.ok = TRUE /\ r.arena = [blk |-> nb, off |-> no + n] /\ r.bytes = Clear(mem, nb, no, n)
        /\ r.blk = nb /\ r.off = no
    BY <1>2
  <2>2. no \in Nat /\ nb \in 1..Area /\ no + n \in 0..BlockBytes /\ nb # Area
    BY <1>1, <1>2, AreaIsLast
  <2>3. /\ Clear(mem, nb, no, n) \in Memory
        /\ \A k \in 1..n : no + k <= BlockBytes => Clear(mem, nb, no, n)[nb][no + k] = TERMINATOR
        /\ \A d \in 1..Area, o \in Nat, m \in Nat :
              o + m <= BlockBytes /\ (d # nb \/ o + m <= no \/ no + n <= o) =>
                Same(mem, Clear(mem, nb, no, n), d, o, m)
    BY <1>1, <2>2, Cleared DEF ClearedAt
  <2>4. r.arena \in Places /\ Until(a.blk, a.off, r.arena)
    BY <1>1, <1>2, <2>1, <2>2 DEF Places, Until
  <2>5. ASSUME NEW d \in 1..Area, NEW o \in Nat, NEW m \in Nat, o + m <= BlockBytes, Given(d, o + m, a)
        PROVE  Same(mem, r.bytes, d, o, m)
    <3>1. d # nb \/ o + m <= no
      BY <1>1, <1>2, <2>2, <2>5 DEF Given, Until
    <3>2. QED
      BY <2>1, <2>3, <2>5, <3>1
  <2>6. ASSUME NEW k \in 1..n PROVE r.bytes[r.blk][r.off + k] = TERMINATOR
    <3>1. no + k <= BlockBytes
      BY <1>1, <1>2
    <3>2. QED
      BY <2>1, <2>3, <3>1
  <2>7. QED
    BY <1>2, <2>1, <2>3, <2>4, <2>5, <2>6 DEF Allocation
<1>3. CASE a.off + n <= BlockBytes
  <2>1. Alloc(a, mem, n) = [ok |-> TRUE, arena |-> [blk |-> a.blk, off |-> a.off + n],
                            bytes |-> Clear(mem, a.blk, a.off, n), blk |-> a.blk, off |-> a.off]
    BY <1>1, <1>3 DEF Alloc
  <2>2. QED
    BY <1>1, <1>2, <1>3, <2>1
<1>4. CASE ~(a.off + n <= BlockBytes) /\ a.blk < MaxBlocks
  <2>1. Alloc(a, mem, n) = [ok |-> TRUE, arena |-> [blk |-> a.blk + 1, off |-> n],
                            bytes |-> Clear(mem, a.blk + 1, 0, n), blk |-> a.blk + 1, off |-> 0]
    BY <1>4 DEF Alloc
  <2>2. PICK nb \in 1..MaxBlocks : nb = a.blk + 1 /\ a.blk < nb
    BY <1>1, <1>4
  <2>3. 0 \in 0..BlockBytes /\ 0 + n = n
    BY <1>1
  <2>4. QED
    BY <1>1, <1>2, <2>1, <2>2, <2>3
<1>5. CASE ~(a.off + n <= BlockBytes) /\ ~(a.blk < MaxBlocks)
  <2>1. PICK r : r = [ok |-> FALSE, arena |-> a, bytes |-> mem, blk |-> 0, off |-> 0]
    OBVIOUS
  <2>2. Alloc(a, mem, n) = r
    BY <1>5, <2>1 DEF Alloc
  <2>3. r.ok = FALSE /\ r.arena = a /\ r.bytes = mem
    BY <2>1
  <2>4. \A d, o, m : Same(mem, mem, d, o, m)
    BY DEF Same
  <2>5. Allocation(a, mem, n, r)
    <3>1. Until(a.blk, a.off, a)
      BY <1>1 DEF Until
    <3>2. QED
      BY <2>3, <2>4, <3>1 DEF Allocation
  <2>6. QED
    BY <2>2, <2>5
<1>6. QED
  BY <1>3, <1>4, <1>5

LEMMA SameTwice ==
  ASSUME NEW m1, NEW m2, NEW m3, NEW d, NEW o, NEW n, Same(m1, m2, d, o, n), Same(m2, m3, d, o, n)
  PROVE  Same(m1, m3, d, o, n)
  BY DEF Same

-----------------------------------------------------------------------------
(* sb_ensure_capacity. *)

BuilderTypes ==
  /\ arena \in Places /\ bytes \in Memory
  /\ builders \in [Builders -> BuilderRecords \cup {NoBuilder}]
  /\ mark \in Places \cup {NoMark}
  /\ texts \in [Builders -> Seq(TextLetters)]
  /\ chunks \subseteq ChunkRecords

BuilderOK(b, text, a, mem) == OwnedAt(b, a) /\ Holds(mem, b, text)

\* What others have of the arena is as it was, and not the builder's.
Elsewhere(b, c, mem2) ==
  \A d \in 1..MaxBlocks, o \in Nat, n \in Nat \ {0} :
    o + n <= BlockBytes /\ Until(d, o + n, arena) /\ Apart(b, d, o, n) =>
      Same(bytes, mem2, d, o, n) /\ Apart(c, d, o, n)

\* c is b but for where its buffer is and what it has room for.
Alike(c, b) ==
  c \in BuilderRecords /\ c.length = b.length /\ c.arena = b.arena /\ c.struct = b.struct

Ensured(b, text, wanted, r) ==
  /\ r.ok \in BOOLEAN /\ r.lost \in BOOLEAN /\ r.arena \in Places /\ Until(arena.blk, arena.off, r.arena)
  /\ ~r.ok => r.arena = arena /\ ~r.lost
  /\ r.ok =>
       /\ Alike(r.b, b) /\ wanted <= r.b.capacity /\ r.bytes \in Memory
       /\ ~r.lost => BuilderOK(r.b, text, r.arena, r.bytes)
       /\ b.arena /\ r.arena = arena => r.b = b
       /\ ~b.arena => r.arena = arena
       /\ Elsewhere(b, r.b, r.bytes)

LEMMA RoomyIsMore ==
  ASSUME NEW n \in Nat
  PROVE  Roomy(n) \in Nat /\ n <= Roomy(n)
  BY DEF Roomy

LEMMA UntilNow == arena \in Places => Until(arena.blk, arena.off, arena)
  BY DEF Places, Until

\* A buffer whose text stays, with NULs behind it for as far as it is to reach.
LEMMA HoldsMore ==
  ASSUME NEW mem, NEW mem2, NEW b \in BuilderRecords, NEW c \in BuilderRecords, NEW text, Holds(mem, b, text),
         c.blk = b.blk, c.off = b.off, c.length = b.length, b.capacity <= c.capacity,
         Same(mem, mem2, b.blk, b.off, b.capacity),
         \A k \in (b.capacity + 1)..(c.capacity + 1) : mem2[b.blk][b.off + k] = TERMINATOR
  PROVE  Holds(mem2, c, text)
<1>1. b.length \in Nat /\ b.capacity \in Nat /\ c.capacity \in Nat
  BY DEF BuilderRecords
<1>2. b.length <= c.capacity /\ Len(text) = c.length
  BY <1>1 DEF Holds
<1>3. ASSUME NEW k \in 1..(c.capacity + 1)
      PROVE  mem2[b.blk][b.off + k] = IF k <= b.length THEN text[k] ELSE TERMINATOR
  <2>1. CASE k <= b.capacity
    <3>1. k \in 1..b.capacity /\ k \in 1..(b.capacity + 1)
      BY <1>1, <2>1
    <3>2. QED
      BY <3>1 DEF Same, Holds
  <2>2. CASE ~(k <= b.capacity)
    <3>1. k \in (b.capacity + 1)..(c.capacity + 1) /\ ~(k <= b.length)
      BY <1>1, <2>2 DEF Holds
    <3>2. QED
      BY <3>1
  <2>3. QED
    BY <2>1, <2>2
<1>4. QED
  BY <1>2, <1>3 DEF Holds

LEMMA HoldsStill ==
  ASSUME NEW mem, NEW mem2, NEW b, NEW text, Holds(mem, b, text), Same(mem, mem2, b.blk, b.off, b.capacity + 1)
  PROVE  Holds(mem2, b, text)
  BY DEF Holds, Same

LEMMA EnsureStays ==
  ASSUME BuilderTypes, NEW b \in BuilderRecords, NEW text, BuilderOK(b, text, arena, bytes),
         NEW wanted \in Nat, wanted <= b.capacity
  PROVE  Ensured(b, text, wanted, EnsureCapacity(b, wanted))
<1>1. PICK r : r = [ok |-> TRUE, b |-> b, arena |-> arena, bytes |-> bytes, lost |-> FALSE]
  OBVIOUS
<1>2. EnsureCapacity(b, wanted) = r
  <2>1. wanted <= b.capacity /\ ~(wanted > b.capacity)
    BY DEF BuilderRecords
  <2>2. QED
    BY <1>1, <2>1 DEF EnsureCapacity
<1>3. r.ok = TRUE /\ r.b = b /\ r.arena = arena /\ r.bytes = bytes /\ r.lost = FALSE
  BY <1>1
<1>4. Until(arena.blk, arena.off, arena) /\ arena \in Places /\ bytes \in Memory
  BY UntilNow DEF BuilderTypes
<1>5. Elsewhere(b, b, bytes)
  BY DEF Same, Elsewhere
<1>6. Ensured(b, text, wanted, r)
  BY <1>3, <1>4, <1>5 DEF Ensured, Alike
<1>7. QED
  BY <1>2, <1>6

LEMMA EnsureReallocates ==
  ASSUME BuilderTypes, NEW b \in BuilderRecords, NEW text, BuilderOK(b, text, arena, bytes),
         NEW wanted \in Nat, wanted > b.capacity, Roomy(wanted) + 1 <= BlockBytes, ~b.arena
  PROVE  Ensured(b, text, wanted, EnsureCapacity(b, wanted))
<1>1. PICK room \in Nat : room = Roomy(wanted) /\ wanted <= room /\ b.capacity <= room /\ room + 1 <= BlockBytes
  BY RoomyIsMore DEF BuilderRecords
<1>2. PICK c : c = [b EXCEPT !.capacity = room]
  OBVIOUS
<1>3. PICK mem2 : mem2 = Clear(bytes, b.blk, b.off + b.capacity, room - b.capacity + 1)
  OBVIOUS
<1>4. PICK r : r = [ok |-> TRUE, b |-> c, arena |-> arena, bytes |-> mem2, lost |-> FALSE]
  OBVIOUS
<1>5. EnsureCapacity(b, wanted) = r
  <2>1. ~(wanted <= b.capacity)
    BY DEF BuilderRecords
  <2>2. QED
    BY <1>1, <1>2, <1>3, <1>4, <2>1 DEF EnsureCapacity
<1>6. /\ c \in BuilderRecords /\ c.blk = b.blk /\ c.off = b.off /\ c.capacity = room /\ c.length = b.length
      /\ c.arena = b.arena /\ c.struct = b.struct
      /\ b.blk = Area /\ b.off = 0 /\ b.capacity \in Nat /\ b.capacity + 1 <= BlockBytes /\ bytes \in Memory
  BY <1>1, <1>2 DEF BuilderRecords, BuilderOK, OwnedAt, BuilderTypes
<1>7. PICK n \in Nat : n = room - b.capacity + 1
  BY <1>1, <1>6
<1>8. ClearedAt(mem2, bytes, Area, b.capacity, n)
  <2>1. mem2 = Clear(bytes, Area, b.capacity, n)
    BY <1>3, <1>6, <1>7
  <2>2. QED
    BY <1>6, <2>1, AreaIsLast, Cleared
<1>9. Holds(mem2, c, text)
  <2>1. Same(bytes, mem2, b.blk, b.off, b.capacity)
    <3>1. PICK cap \in Nat : cap = b.capacity /\ 0 + cap <= BlockBytes /\ 0 + cap <= cap
      BY <1>6, BuilderAssumption
    <3>2. Same(bytes, mem2, Area, 0, cap)
      BY ONLY <1>8, <3>1, AreaIsLast DEF ClearedAt
    <3>3. QED
      BY <1>6, <3>1, <3>2
  <2>2. ASSUME NEW k \in (b.capacity + 1)..(c.capacity + 1)
        PROVE  mem2[b.blk][b.off + k] = TERMINATOR
    <3>1. PICK l \in 1..n : k = b.capacity + l /\ b.capacity + l <= BlockBytes /\ b.off + k = b.capacity + l
      <4>1. k - b.capacity \in 1..n /\ k = b.capacity + (k - b.capacity) /\ k <= BlockBytes /\ 0 + k = k
        BY <1>1, <1>6, <1>7, BuilderAssumption
      <4>2. QED
        BY <1>6, <4>1
    <3>2. QED
      BY <1>6, <1>8, <3>1 DEF ClearedAt
  <2>3. QED
    BY <1>1, <1>6, <2>1, <2>2, HoldsMore DEF BuilderOK
<1>10. OwnedAt(c, arena)
  BY <1>1, <1>6 DEF OwnedAt
<1>11. Elsewhere(b, c, mem2)
  <2>1. ASSUME NEW d \in 1..MaxBlocks, NEW o \in Nat, NEW m \in Nat \ {0}, o + m <= BlockBytes
        PROVE  Same(bytes, mem2, d, o, m) /\ Apart(c, d, o, m)
    <3>1. d \in 1..Area /\ d # Area
      BY AreaIsLast
    <3>2. QED
      BY <1>6, <1>8, <2>1, <3>1 DEF Apart, ClearedAt
  <2>2. QED
    BY <2>1 DEF Elsewhere
<1>12. Ensured(b, text, wanted, r)
  <2>1. r.ok = TRUE /\ r.b = c /\ r.arena = arena /\ r.bytes = mem2 /\ r.lost = FALSE
    BY <1>4
  <2>2. arena \in Places
    BY DEF BuilderTypes
  <2>3. QED
    BY <1>1, <1>6, <1>8, <1>9, <1>10, <1>11, <2>1, <2>2, UntilNow DEF Ensured, Alike, BuilderOK, ClearedAt
<1>13. QED
  BY <1>5, <1>12

\* A buffer at the top of the arena, extended by what the arena gives next.
LEMMA EnsureExtends ==
  ASSUME BuilderTypes, NEW b \in BuilderRecords, NEW text, BuilderOK(b, text, arena, bytes),
         NEW wanted \in Nat, wanted > b.capacity, Roomy(wanted) + 1 <= BlockBytes, b.arena,
         arena.blk = b.blk, arena.off = b.off + b.capacity + 1
  PROVE  Ensured(b, text, wanted, EnsureCapacity(b, wanted))
<1>1. PICK room \in Nat : room = Roomy(wanted) /\ wanted <= room /\ b.capacity < room /\ room + 1 <= BlockBytes
  BY RoomyIsMore DEF BuilderRecords
<1>2. PICK more \in 1..BlockBytes : more = room - b.capacity
  <2>1. b.capacity \in Nat /\ BlockBytes \in Nat
    BY BuilderAssumption DEF BuilderRecords
  <2>2. QED
    BY <1>1, <2>1
<1>3. PICK x : x = Alloc(arena, bytes, more)
  OBVIOUS
<1>4. arena \in Places /\ bytes \in Memory
  BY DEF BuilderTypes
<1>5. Allocation(arena, bytes, more, x)
  BY <1>3, <1>4, Allocated
<1>6. PICK c : c = [b EXCEPT !.capacity = room]
  OBVIOUS
<1>7. /\ c \in BuilderRecords /\ c.blk = b.blk /\ c.off = b.off /\ c.capacity = room /\ c.length = b.length
      /\ c.arena = b.arena /\ c.struct = b.struct
      /\ b.blk \in 1..Area /\ b.off \in Nat /\ b.capacity \in Nat /\ b.off + b.capacity + 1 <= BlockBytes
      /\ b.blk \in 1..MaxBlocks
  <2>1. /\ c \in BuilderRecords /\ c.blk = b.blk /\ c.off = b.off /\ c.capacity = room /\ c.length = b.length
        /\ c.arena = b.arena /\ c.struct = b.struct
    BY <1>1, <1>6 DEF BuilderRecords
  <2>2. b.blk \in 1..Area /\ b.off \in Nat /\ b.capacity \in Nat
    BY BuilderAssumption DEF BuilderRecords
  <2>3. b.off + b.capacity + 1 <= BlockBytes /\ b.blk <= MaxBlocks
    BY DEF BuilderOK, OwnedAt
  <2>4. QED
    BY <2>1, <2>2, <2>3, AreaIsLast
<1>8. PICK r : r = IF x.ok THEN [ok |-> TRUE, b |-> c, arena |-> x.arena, bytes |-> x.bytes, lost |-> x.blk # b.blk]
                   ELSE [ok |-> FALSE, b |-> b, arena |-> arena, bytes |-> bytes, lost |-> FALSE]
  OBVIOUS
<1>9. EnsureCapacity(b, wanted) = r
  <2>1. ~(wanted <= b.capacity)
    BY <1>7
  <2>2. \/ EnsureCapacity(b, wanted) = [[ok |-> TRUE, b |-> b, arena |-> arena, bytes |-> bytes, lost |-> FALSE]
             EXCEPT !.ok = FALSE] /\ ~x.ok
        \/ EnsureCapacity(b, wanted) = [[ok |-> TRUE, b |-> b, arena |-> arena, bytes |-> bytes, lost |-> FALSE]
             EXCEPT !.b.capacity = room, !.arena = x.arena, !.bytes = x.bytes, !.lost = x.blk # b.blk] /\ x.ok
    BY <1>1, <1>2, <1>3, <2>1 DEF EnsureCapacity
  <2>3. QED
    BY <1>6, <1>8, <2>2
<1>10. CASE ~x.ok
  <2>1. r.ok = FALSE /\ r.arena = arena /\ r.lost = FALSE
    BY <1>8, <1>10
  <2>2. QED
    BY <1>4, <1>9, <2>1, UntilNow DEF Ensured
<1>11. CASE x.ok
  <2>1. r.ok = TRUE /\ r.b = c /\ r.arena = x.arena /\ r.bytes = x.bytes /\ r.lost = (x.blk # b.blk)
    BY <1>8, <1>11
  <2>2. /\ x.arena \in Places /\ x.bytes \in Memory /\ Until(arena.blk, arena.off, x.arena)
        /\ \A d \in 1..Area, o \in Nat, m \in Nat :
             o + m <= BlockBytes /\ Given(d, o + m, arena) => Same(bytes, x.bytes, d, o, m)
        /\ x.blk \in 1..MaxBlocks /\ x.off \in 0..BlockBytes /\ x.off + more <= BlockBytes
        /\ (x.blk = arena.blk /\ x.off = arena.off) \/ arena.blk < x.blk
        /\ x.arena = [blk |-> x.blk, off |-> x.off + more]
        /\ \A k \in 1..more : x.bytes[x.blk][x.off + k] = TERMINATOR
    BY <1>5, <1>11 DEF Allocation
  <2>3. x.arena.blk = x.blk /\ x.arena.off = x.off + more
    BY <2>2
  <2>4. ASSUME x.blk = b.blk
        PROVE  BuilderOK(c, text, x.arena, x.bytes)
    <3>1. x.off = b.off + b.capacity + 1
      BY <1>7, <2>2, <2>4
    <3>2. OwnedAt(c, x.arena)
      <4>1. c.off + c.capacity + 1 = x.off + more
        BY <1>1, <1>2, <1>7, <3>1
      <4>2. QED
        BY <1>7, <2>2, <2>3, <2>4, <4>1 DEF OwnedAt, Until
    <3>3. Same(bytes, x.bytes, b.blk, b.off, b.capacity + 1)
      <4>1. Given(b.blk, b.off + (b.capacity + 1), arena)
        BY <1>7 DEF Given, Until
      <4>2. b.off + (b.capacity + 1) <= BlockBytes /\ b.capacity + 1 \in Nat
        BY <1>7
      <4>3. QED
        BY <1>7, <2>2, <4>1, <4>2
    <3>4. Same(bytes, x.bytes, b.blk, b.off, b.capacity)
      BY <1>7, <3>3 DEF Same
    <3>5. ASSUME NEW k \in (b.capacity + 1)..(c.capacity + 1)
          PROVE  x.bytes[b.blk][b.off + k] = TERMINATOR
      <4>1. CASE k = b.capacity + 1
        <5>1. k \in 1..(b.capacity + 1) /\ ~(k <= b.length) /\ b.length \in Nat
          BY <1>7, <4>1 DEF BuilderOK, Holds, BuilderRecords
        <5>2. bytes[b.blk][b.off + k] = TERMINATOR
          BY <5>1 DEF BuilderOK, Holds
        <5>3. QED
          BY <3>3, <5>1, <5>2 DEF Same
      <4>2. CASE k # b.capacity + 1
        <5>1. PICK l \in 1..more : b.off + k = x.off + l
          <6>1. k - (b.capacity + 1) \in 1..more /\ b.off + k = x.off + (k - (b.capacity + 1))
            BY <1>2, <1>7, <3>1, <4>2
          <6>2. QED
            BY <6>1
        <5>2. QED
          BY <2>2, <2>4, <5>1
      <4>3. QED
        BY <4>1, <4>2
    <3>6. Holds(x.bytes, c, text)
      BY <1>1, <1>7, <3>4, <3>5, HoldsMore DEF BuilderOK
    <3>7. QED
      BY <3>2, <3>6 DEF BuilderOK
  <2>5. Elsewhere(b, c, x.bytes)
    <3>1. ASSUME NEW d \in 1..MaxBlocks, NEW o \in Nat, NEW m \in Nat \ {0}, o + m <= BlockBytes,
                 Until(d, o + m, arena), Apart(b, d, o, m)
          PROVE  Same(bytes, x.bytes, d, o, m) /\ Apart(c, d, o, m)
      <4>1. d \in 1..Area /\ Given(d, o + m, arena) /\ m \in Nat
        BY <3>1, AreaIsLast DEF Given
      <4>2. Apart(c, d, o, m)
        BY <1>7, <3>1 DEF Apart, Until
      <4>3. QED
        BY <2>2, <3>1, <4>1, <4>2
    <3>2. QED
      BY <3>1 DEF Elsewhere
  <2>6. x.arena # arena
    BY <1>2, <1>7, <2>2, <2>3
  <2>7. Ensured(b, text, wanted, r)
    BY <1>1, <1>7, <2>1, <2>2, <2>4, <2>5, <2>6 DEF Ensured, Alike
  <2>8. QED
    BY <1>9, <2>7
<1>12. x.ok \in BOOLEAN
  BY <1>5 DEF Allocation
<1>13. QED
  BY <1>10, <1>11, <1>12

\* A buffer that is copied to where the arena has room.
LEMMA EnsureMoves ==
  ASSUME BuilderTypes, NEW b \in BuilderRecords, NEW text, BuilderOK(b, text, arena, bytes),
         NEW wanted \in Nat, wanted > b.capacity, Roomy(wanted) + 1 <= BlockBytes, b.arena,
         ~(arena.blk = b.blk /\ arena.off = b.off + b.capacity + 1)
  PROVE  Ensured(b, text, wanted, EnsureCapacity(b, wanted))
<1>1. PICK room \in Nat : room = Roomy(wanted) /\ wanted <= room /\ b.capacity < room /\ room + 1 <= BlockBytes
  BY RoomyIsMore DEF BuilderRecords
<1>2. PICK cap \in Nat : cap = b.capacity /\ cap < room
  BY <1>1 DEF BuilderRecords
<1>3. PICK x : x = Alloc(arena, bytes, room + 1)
  OBVIOUS
<1>4. arena \in Places /\ bytes \in Memory /\ BlockBytes \in Nat
  BY BuilderAssumption DEF BuilderTypes
<1>5. Allocation(arena, bytes, room + 1, x)
  <2>1. room + 1 \in 1..BlockBytes
    BY <1>1, <1>4
  <2>2. QED
    BY <1>3, <1>4, <2>1, Allocated
<1>6. /\ b.blk \in 1..MaxBlocks /\ b.blk \in 1..Area /\ b.off \in 0..BlockBytes /\ b.off \in Nat
      /\ b.off + cap + 1 <= BlockBytes /\ Until(b.blk, b.off + cap + 1, arena)
  <2>1. b.blk \in 1..Area /\ b.off \in 0..BlockBytes /\ b.off \in Nat
    BY BuilderAssumption DEF BuilderRecords
  <2>2. b.off + b.capacity + 1 <= BlockBytes /\ b.blk <= MaxBlocks /\ Until(b.blk, b.off + b.capacity + 1, arena)
    BY DEF BuilderOK, OwnedAt
  <2>3. QED
    BY <1>2, <2>1, <2>2, AreaIsLast
<1>7. PICK c : c = [b EXCEPT !.capacity = room, !.blk = x.blk, !.off = x.off]
  OBVIOUS
<1>8. PICK e : e = Clear(x.bytes, b.blk, b.off, cap + 1)
  OBVIOUS
<1>9. PICK s : s = Read(bytes, b.blk, b.off, cap + 1)
  OBVIOUS
<1>10. PICK mem2 : mem2 = Write(e, x.blk, x.off, s)
  OBVIOUS
<1>11. \/ EnsureCapacity(b, wanted) = [[ok |-> TRUE, b |-> b, arena |-> arena, bytes |-> bytes, lost |-> FALSE]
              EXCEPT !.ok = FALSE] /\ ~x.ok
       \/ EnsureCapacity(b, wanted) = [[ok |-> TRUE, b |-> b, arena |-> arena, bytes |-> bytes, lost |-> FALSE]
              EXCEPT !.b.capacity = room, !.b.blk = x.blk, !.b.off = x.off, !.arena = x.arena, !.bytes = mem2] /\ x.ok
  <2>1. ~(wanted <= b.capacity)
    BY <1>2
  <2>2. Erase(x.bytes, b) = e
    BY <1>2, <1>8 DEF Erase
  <2>3. QED
    BY <1>1, <1>2, <1>3, <1>9, <1>10, <2>1, <2>2 DEF EnsureCapacity
<1>12. CASE ~x.ok
  <2>1. PICK r : r = [ok |-> FALSE, b |-> b, arena |-> arena, bytes |-> bytes, lost |-> FALSE]
    OBVIOUS
  <2>2. EnsureCapacity(b, wanted) = r
    BY <1>11, <1>12, <2>1
  <2>3. r.ok = FALSE /\ r.arena = arena /\ r.lost = FALSE
    BY <2>1
  <2>4. QED
    BY <1>4, <2>2, <2>3, UntilNow DEF Ensured
<1>13. CASE x.ok
  <2>1. PICK r : r = [ok |-> TRUE, b |-> c, arena |-> x.arena, bytes |-> mem2, lost |-> FALSE]
    OBVIOUS
  <2>2. EnsureCapacity(b, wanted) = r
    BY <1>7, <1>11, <1>13, <2>1
  <2>3. r.ok = TRUE /\ r.b = c /\ r.arena = x.arena /\ r.bytes = mem2 /\ r.lost = FALSE
    BY <2>1
  <2>4. /\ x.arena \in Places /\ x.bytes \in Memory /\ Until(arena.blk, arena.off, x.arena)
        /\ \A d \in 1..Area, o \in Nat, m \in Nat :
             o + m <= BlockBytes /\ Given(d, o + m, arena) => Same(bytes, x.bytes, d, o, m)
        /\ x.blk \in 1..MaxBlocks /\ x.off \in 0..BlockBytes /\ x.off + (room + 1) <= BlockBytes
        /\ (x.blk = arena.blk /\ x.off = arena.off) \/ arena.blk < x.blk
        /\ x.arena = [blk |-> x.blk, off |-> x.off + (room + 1)]
        /\ \A k \in 1..(room + 1) : x.bytes[x.blk][x.off + k] = TERMINATOR
    BY <1>5, <1>13 DEF Allocation
  <2>5. x.blk \in 1..Area /\ x.off \in Nat /\ x.arena.blk = x.blk /\ x.arena.off = x.off + (room + 1)
    BY <1>4, <2>4, AreaIsLast
  <2>6. /\ c \in BuilderRecords /\ c.blk = x.blk /\ c.off = x.off /\ c.capacity = room /\ c.length = b.length
        /\ c.arena = b.arena /\ c.struct = b.struct
    BY <1>7, <2>4, <2>5 DEF BuilderRecords
  <2>7. ClearedAt(e, x.bytes, b.blk, b.off, cap + 1)
    <3>1. cap + 1 \in Nat
      OBVIOUS
    <3>2. QED
      BY <1>6, <1>8, <2>4, <3>1, Cleared
  <2>8. s \in Seq(Int) /\ Len(s) = cap + 1 /\ \A k \in 1..(cap + 1) : s[k] = bytes[b.blk][b.off + k]
    <3>1. PICK n \in Nat : n = cap + 1 /\ b.off + n <= BlockBytes
      BY <1>6
    <3>2. ReadAt(s, bytes, b.blk, b.off, n)
      BY <1>4, <1>6, <1>9, <3>1, ReadIs
    <3>3. QED
      BY <3>1, <3>2 DEF ReadAt
  <2>9. e \in Memory
    BY <2>7 DEF ClearedAt
  <2>10. ASSUME NEW d \in 1..MaxBlocks, NEW o \in Nat, Until(d, o, arena)
         PROVE  d # x.blk \/ o <= x.off
    BY <1>4, <2>4, <2>10 DEF Until, Places
  <2>11. b.blk # x.blk \/ b.off + (cap + 1) <= x.off
    BY <1>6, <2>10
  <2>12. mem2 \in Memory
    BY <1>10, <2>5, <2>8, <2>9, Written DEF WrittenAt
  <2>13. ASSUME NEW k \in 1..(room + 1)
         PROVE  mem2[c.blk][c.off + k] = IF k <= c.length THEN text[k] ELSE TERMINATOR
    <3>1. CASE k <= cap + 1
      <4>1. k \in 1..Len(s) /\ k \in 1..(b.capacity + 1) /\ x.off + k <= BlockBytes
        <5>1. x.off + k <= BlockBytes
          BY <1>4, <2>4, <2>5
        <5>2. k \in 1..(cap + 1)
          BY <3>1
        <5>3. QED
          BY <1>2, <2>8, <5>1, <5>2
      <4>2. mem2[x.blk][x.off + k] = s[k]
        BY <1>10, <2>5, <2>8, <2>9, <4>1, WrittenHere
      <4>3. bytes[b.blk][b.off + k] = IF k <= b.length THEN text[k] ELSE TERMINATOR
        BY <4>1 DEF BuilderOK, Holds
      <4>4. QED
        BY <1>2, <2>6, <2>8, <4>1, <4>2, <4>3
    <3>2. CASE ~(k <= cap + 1)
      <4>1. PICK o \in Nat : o = x.off + k - 1 /\ o + 1 = x.off + k /\ o + 1 <= BlockBytes /\ x.off + (cap + 1) <= o
        <5>1. x.off + k - 1 \in Nat /\ (x.off + k - 1) + 1 = x.off + k
          BY <2>5
        <5>2. x.off + k <= BlockBytes /\ x.off + (cap + 1) <= x.off + k - 1
          BY <1>4, <2>4, <2>5, <3>2
        <5>3. QED
          BY <5>1, <5>2
      <4>2. Same(e, mem2, x.blk, o, 1)
        BY <1>10, <2>5, <2>8, <2>9, <4>1, WrittenElsewhere
      <4>3. Same(x.bytes, e, x.blk, o, 1)
        <5>1. x.blk # b.blk \/ b.off + (cap + 1) <= o
          BY <1>6, <2>5, <2>11, <4>1
        <5>2. QED
          BY <2>5, <2>7, <4>1, <5>1 DEF ClearedAt
      <4>4. mem2[x.blk][x.off + k] = x.bytes[x.blk][x.off + k]
        BY <4>1, <4>2, <4>3 DEF Same
      <4>5. ~(k <= c.length)
        <5>1. b.length <= b.capacity /\ b.length \in Nat
          BY DEF BuilderOK, Holds, BuilderRecords
        <5>2. QED
          BY <1>2, <2>6, <3>2, <5>1
      <4>6. QED
        BY <2>4, <2>6, <4>4, <4>5
    <3>3. QED
      BY <3>1, <3>2
  <2>14. Holds(mem2, c, text)
    <3>1. Len(text) = c.length /\ c.length <= c.capacity
      <4>1. b.length <= b.capacity /\ b.length \in Nat /\ Len(text) = b.length
        BY DEF BuilderOK, Holds, BuilderRecords
      <4>2. QED
        BY <1>1, <1>2, <2>6, <4>1
    <3>2. QED
      BY <2>6, <2>13, <3>1 DEF Holds
  <2>15. OwnedAt(c, x.arena)
    <3>1. c.off + c.capacity + 1 = x.off + (room + 1)
      BY <1>1, <2>5, <2>6
    <3>2. QED
      BY <2>4, <2>5, <2>6, <3>1 DEF OwnedAt, Until
  <2>16. ASSUME NEW d \in 1..MaxBlocks, NEW o \in Nat, NEW m \in Nat \ {0}, o + m <= BlockBytes,
                Until(d, o + m, arena), Apart(b, d, o, m)
         PROVE  Same(bytes, mem2, d, o, m) /\ Apart(c, d, o, m)
    <3>1. d \in 1..Area /\ Given(d, o + m, arena) /\ m \in Nat /\ o + m \in Nat
      BY <2>16, AreaIsLast DEF Given
    <3>2. d # x.blk \/ o + m <= x.off
      BY <2>10, <2>16, <3>1
    <3>3. Apart(c, d, o, m)
      BY <2>6, <3>2 DEF Apart
    <3>4. Same(bytes, x.bytes, d, o, m)
      BY <2>4, <2>16, <3>1
    <3>5. d # b.blk \/ o + m <= b.off \/ b.off + (cap + 1) <= o
      BY <1>2, <1>6, <2>16 DEF Apart
    <3>6. Same(x.bytes, e, d, o, m)
      BY <2>7, <2>16, <3>1, <3>5 DEF ClearedAt
    <3>7. Same(e, mem2, d, o, m)
      BY <1>10, <2>5, <2>8, <2>9, <2>16, <3>1, <3>2, WrittenElsewhere
    <3>8. QED
      BY <3>3, <3>4, <3>6, <3>7, SameTwice
  <2>17. Elsewhere(b, c, mem2)
    BY <2>16 DEF Elsewhere
  <2>18. x.arena # arena
    <3>1. x.arena.blk = x.blk /\ x.arena.off # x.off
      BY <1>1, <2>5
    <3>2. QED
      BY <1>4, <2>4, <3>1 DEF Places
  <2>19. wanted <= c.capacity
    BY <1>1, <2>6
  <2>20. Ensured(b, text, wanted, r)
    BY <2>3, <2>4, <2>6, <2>12, <2>14, <2>15, <2>17, <2>18, <2>19 DEF Ensured, Alike, BuilderOK
  <2>21. QED
    BY <2>2, <2>20
<1>14. x.ok \in BOOLEAN
  BY <1>5 DEF Allocation
<1>15. QED
  BY <1>12, <1>13, <1>14

LEMMA Ensures ==
  ASSUME BuilderTypes, NEW b \in BuilderRecords, NEW text, BuilderOK(b, text, arena, bytes),
         NEW wanted \in Nat, Roomy(wanted) + 1 <= BlockBytes
  PROVE  Ensured(b, text, wanted, EnsureCapacity(b, wanted))
<1>1. wanted <= b.capacity \/ wanted > b.capacity
  BY DEF BuilderRecords
<1>2. QED
  BY <1>1, EnsureStays, EnsureReallocates, EnsureExtends, EnsureMoves
-----------------------------------------------------------------------------
(* The invariant. *)

\* The builders whose buffer is all theirs.
Whole == Live \ lost

BuildersOK == \A i \in Whole : BuilderOK(builders[i], texts[i], arena, bytes)

\* Two builders share an arena and no byte of it.
BuildersApart ==
  \A i, j \in Whole : i # j =>
    builders[i].arena /\ Apart(builders[i], builders[j].blk, builders[j].off, builders[j].capacity + 1)

ChunkOK(c, a, mem) ==
  /\ c.off + c.n <= BlockBytes /\ Until(c.blk, c.off + c.n, a)
  /\ \A k \in 1..c.n : mem[c.blk][c.off + k] = FILL

\* A chunk is as its client left it, and not in a builder.
ChunksOK ==
  \A c \in chunks :
    ChunkOK(c, arena, bytes) /\ \A i \in Whole : Apart(builders[i], c.blk, c.off, c.n)

\* What is older than the scope ends below its mark: but for the builders that
\* grew.
ScopeOK ==
  mark # NoMark =>
    /\ Until(mark.blk, mark.off, arena)
    /\ \A c \in chunks : Below(c) => Until(c.blk, c.off + c.n, mark)
    /\ \A i \in Whole \ grown : builders[i].arena /\ Below(builders[i].struct) =>
         Until(builders[i].blk, builders[i].off + builders[i].capacity + 1, mark)

BuildersInv == BuilderTypes /\ BuildersOK /\ BuildersApart /\ ChunksOK /\ ScopeOK

LEMMA LiveIsRecord ==
  ASSUME BuilderTypes, NEW i \in Live
  PROVE  i \in Builders /\ builders[i] \in BuilderRecords
  BY DEF Live, BuilderTypes

LEMMA RecordIsLive ==
  ASSUME NEW b \in BuilderRecords
  PROVE  b # NoBuilder
  BY DEF BuilderRecords, NoBuilder

LEMMA UntilLater ==
  ASSUME NEW blk \in Nat, NEW off \in Nat, NEW p \in Places, NEW q \in Places,
         Until(blk, off, p), Until(p.blk, p.off, q)
  PROVE  Until(blk, off, q)
  BY BuilderAssumption DEF Places, Until

-----------------------------------------------------------------------------
(* What all changes of a text have in common. *)

\* text has n letters more than old, and s is it from at on, with or without the NUL.
Spliced(s, at, old, n, text) ==
  /\ at <= Len(old) /\ Len(text) = Len(old) + n
  /\ at + Len(s) = Len(text) \/ at + Len(s) = Len(text) + 1
  /\ \A k \in 1..at : text[k] = old[k]
  /\ \A k \in 1..Len(s) : s[k] = IF at + k <= Len(text) THEN text[at + k] ELSE TERMINATOR

LEMMA PutHolds ==
  ASSUME NEW mem \in Memory, NEW b \in BuilderRecords, NEW old \in Seq(Int), Holds(mem, b, old),
         b.off + b.capacity + 1 <= BlockBytes,
         NEW n \in Nat, NEW at \in Nat, NEW s \in Seq(Int), NEW text \in Seq(Int),
         Spliced(s, at, old, n, text), Len(text) <= b.capacity
  PROVE  Holds(Write(mem, b.blk, b.off + at, s), [b EXCEPT !.length = @ + n], text)
<1>1. PICK c : c = [b EXCEPT !.length = @ + n]
  OBVIOUS
<1>2. PICK w : w = Write(mem, b.blk, b.off + at, s)
  OBVIOUS
<1>3. PICK l \in Nat : l = Len(s)
  OBVIOUS
<1>4. PICK len \in Nat, t \in Nat : len = Len(old) /\ t = Len(text)
  OBVIOUS
<1>5. PICK blk \in 1..Area, off \in Nat, cap \in Nat, last \in Nat :
        blk = b.blk /\ off = b.off /\ cap = b.capacity /\ last = BlockBytes /\ b.length = len
  BY <1>4, BuilderAssumption DEF BuilderRecords, Holds
<1>6. at <= len /\ t = len + n /\ (at + l = t \/ at + l = t + 1) /\ t <= cap /\ off + cap + 1 <= last
  BY <1>3, <1>4, <1>5 DEF Spliced
<1>7. c.blk = blk /\ c.off = off /\ c.capacity = cap /\ c.length = t
  BY <1>1, <1>4, <1>5, <1>6 DEF BuilderRecords
<1>8. ASSUME NEW k \in 1..(cap + 1)
      PROVE  w[blk][off + k] = IF k <= t THEN text[k] ELSE TERMINATOR
  <2>1. k \in Nat /\ k >= 1 /\ off + k <= last
    BY <1>6
  <2>2. mem[blk][off + k] = IF k <= len THEN old[k] ELSE TERMINATOR
    BY <1>5 DEF Holds
  <2>3. CASE k <= at
    <3>1. k \in 1..at /\ k <= t /\ k <= len /\ off + at <= last
      BY <1>6, <2>1, <2>3
    <3>2. Same(mem, w, blk, off, at)
      <4>1. off + at <= off + at /\ off + at \in Nat
        OBVIOUS
      <4>2. QED
        BY <1>2, <1>5, <3>1, <4>1, WrittenElsewhere
    <3>3. QED
      BY <2>2, <3>1, <3>2 DEF Same, Spliced
  <2>4. CASE k > at /\ k <= at + l
    <3>1. PICK m \in 1..Len(s) : m = k - at /\ at + m = k
      <4>1. k - at \in 1..l /\ at + (k - at) = k
        BY <1>3, <2>1, <2>4
      <4>2. QED
        BY <1>3, <4>1
    <3>2. (off + at) + m = off + k
      BY <3>1
    <3>3. w[blk][(off + at) + m] = s[m]
      <4>1. off + at \in Nat /\ (off + at) + m <= last
        BY <2>1, <3>2
      <4>2. w = Write(mem, blk, off + at, s) /\ last = BlockBytes
        BY <1>2, <1>5
      <4>3. Write(mem, blk, off + at, s)[blk][(off + at) + m] = s[m]
        BY <4>1, <4>2, WrittenHere
      <4>4. QED
        BY <4>2, <4>3
    <3>4. s[m] = IF k <= t THEN text[k] ELSE TERMINATOR
      BY <1>4, <3>1 DEF Spliced
    <3>5. QED
      BY <3>2, <3>3, <3>4
  <2>5. CASE k > at + l
    <3>1. PICK o \in Nat : o + 1 = off + k
      <4>1. off + k - 1 \in Nat /\ (off + k - 1) + 1 = off + k
        BY <2>1
      <4>2. QED
        BY <4>1
    <3>2. (off + at) + l <= o /\ o + 1 <= last
      BY <2>1, <2>5, <3>1
    <3>3. Same(mem, w, blk, o, 1)
      <4>1. off + at \in Nat
        OBVIOUS
      <4>2. QED
        BY <1>2, <1>3, <1>5, <3>1, <3>2, <4>1, WrittenElsewhere
    <3>4. w[blk][off + k] = mem[blk][off + k]
      <4>1. 1 \in 1..1 /\ \A j \in 1..1 : w[blk][o + j] = mem[blk][o + j]
        BY <3>3 DEF Same
      <4>2. w[blk][o + 1] = mem[blk][o + 1]
        BY <4>1
      <4>3. QED
        BY <3>1, <4>2
    <3>5. ~(k <= t) /\ ~(k <= len)
      BY <1>6, <2>1, <2>5
    <3>6. QED
      BY <2>2, <3>4, <3>5
  <2>6. QED
    BY <1>3, <2>1, <2>3, <2>4, <2>5
<1>9. Holds(w, c, text)
  BY <1>4, <1>6, <1>7, <1>8 DEF Holds
<1>10. QED
  BY <1>1, <1>2, <1>9
-----------------------------------------------------------------------------
(* What a step leaves alone. *)

LEMMA StandsStill ==
  ASSUME BuildersInv, UNCHANGED builderVars
  PROVE  BuildersInv'
<1>1. Live' = Live /\ Whole' = Whole
  BY DEF builderVars, Whole, Live
<1>2. BuilderTypes' /\ BuildersOK' /\ BuildersApart'
  BY <1>1 DEF builderVars, BuildersInv, BuilderTypes, BuildersOK, BuildersApart
<1>3. ChunksOK' /\ ScopeOK'
  BY <1>1 DEF builderVars, BuildersInv, ChunksOK, ScopeOK, Below
<1>4. QED
  BY <1>2, <1>3 DEF BuildersInv

LEMMA BuilderLater ==
  ASSUME NEW b \in BuilderRecords, NEW text, NEW a \in Places, NEW a2 \in Places, NEW mem, NEW mem2,
         BuilderOK(b, text, a, mem), Until(a.blk, a.off, a2), Same(mem, mem2, b.blk, b.off, b.capacity + 1)
  PROVE  BuilderOK(b, text, a2, mem2)
<1>1. b.blk \in Nat /\ b.off + b.capacity + 1 \in Nat
  BY AreaIsLast, BuilderAssumption DEF BuilderRecords
<1>2. OwnedAt(b, a2)
  BY <1>1, UntilLater DEF BuilderOK, OwnedAt
<1>3. QED
  BY <1>2, HoldsStill DEF BuilderOK

LEMMA ChunkLater ==
  ASSUME NEW c \in ChunkRecords, NEW a \in Places, NEW a2 \in Places, NEW mem, NEW mem2,
         ChunkOK(c, a, mem), Until(a.blk, a.off, a2), Same(mem, mem2, c.blk, c.off, c.n)
  PROVE  ChunkOK(c, a2, mem2)
<1>1. c.blk \in Nat /\ c.off + c.n \in Nat
  BY BuilderAssumption DEF ChunkRecords
<1>2. Until(c.blk, c.off + c.n, a2)
  BY <1>1, UntilLater DEF ChunkOK
<1>3. QED
  BY <1>2 DEF ChunkOK, Same

LEMMA ApartBothWays ==
  ASSUME NEW b \in BuilderRecords, NEW c \in BuilderRecords, Apart(b, c.blk, c.off, c.capacity + 1)
  PROVE  Apart(c, b.blk, b.off, b.capacity + 1)
<1>1. PICK o \in Nat, p \in Nat, m \in Nat, n \in Nat :
        o = b.off /\ p = c.off /\ m = b.capacity /\ n = c.capacity
  BY BuilderAssumption DEF BuilderRecords
<1>2. b.blk # c.blk \/ o + m + 1 <= p \/ p + (n + 1) <= o
  BY <1>1 DEF Apart
<1>3. c.blk # b.blk \/ p + n + 1 <= o \/ o + (m + 1) <= p
  <2>1. o \in Nat /\ p \in Nat /\ m \in Nat /\ n \in Nat
    OBVIOUS
  <2>2. QED
    BY <1>2, <2>1
<1>4. QED
  BY <1>1, <1>3 DEF Apart

\* The text of a builder in the arena is in a place of it.
LEMMA BuilderPlace ==
  ASSUME NEW b \in BuilderRecords, NEW text, NEW a, NEW mem, BuilderOK(b, text, a, mem), b.arena
  PROVE  /\ b.blk \in 1..MaxBlocks /\ b.off \in Nat /\ b.capacity + 1 \in Nat \ {0}
         /\ b.off + (b.capacity + 1) <= BlockBytes /\ Until(b.blk, b.off + (b.capacity + 1), a)
<1>1. b.blk \in 1..MaxBlocks /\ b.off \in Nat /\ b.capacity \in Nat
  BY AreaIsLast, BuilderAssumption DEF BuilderRecords, BuilderOK, OwnedAt
<1>2. b.off + (b.capacity + 1) = b.off + b.capacity + 1 /\ b.capacity + 1 \in Nat \ {0}
  BY <1>1
<1>3. QED
  BY <1>1, <1>2 DEF BuilderOK, OwnedAt

\* r is where there is room for n more letters of builder i, and s is written there.
PutInto(i, n, at, s, text, r) ==
  /\ arena' = r.arena
  /\ lost' = IF r.lost THEN lost \cup {i} ELSE lost
  /\ grown' = IF r.arena # arena THEN grown \cup {i} ELSE grown
  /\ IF r.ok
     THEN /\ builders' = [builders EXCEPT ![i] = [r.b EXCEPT !.length = @ + n]]
          /\ bytes' = Write(r.bytes, r.b.blk, r.b.off + at, s)
          /\ texts' = [texts EXCEPT ![i] = text]
     ELSE UNCHANGED <<builders, bytes, texts>>
  /\ UNCHANGED <<mark, chunks>>

\* Its builder has the text, if the arena has not taken the room from another
\* block, and everyone else has what he had.
LEMMA PutIntoKeeps ==
  ASSUME BuildersInv, lost = {}, NEW i \in Live, NEW n \in Nat, NEW at \in Nat, NEW s \in Seq(Int),
         NEW text \in Seq(TextLetters), Spliced(s, at, texts[i], n, text),
         NEW r, Ensured(builders[i], texts[i], builders[i].length + n, r), PutInto(i, n, at, s, text, r)
  PROVE  BuildersInv'
<1>1. PICK b : b = builders[i]
  OBVIOUS
<1>2. /\ BuilderTypes /\ BuildersOK /\ BuildersApart /\ ChunksOK /\ ScopeOK /\ Whole = Live
      /\ i \in Builders /\ b \in BuilderRecords /\ arena \in Places /\ bytes \in Memory
  BY <1>1, LiveIsRecord DEF BuildersInv, BuilderTypes, Whole
<1>3. BuilderOK(b, texts[i], arena, bytes)
  BY <1>1, <1>2 DEF BuildersOK
<1>4. PICK wanted \in Nat : wanted = b.length + n
  BY <1>2 DEF BuilderRecords
<1>6. /\ arena' = r.arena
      /\ lost' = IF r.lost THEN lost \cup {i} ELSE lost
      /\ grown' = IF r.arena # arena THEN grown \cup {i} ELSE grown
      /\ IF r.ok
         THEN /\ builders' = [builders EXCEPT ![i] = [r.b EXCEPT !.length = @ + n]]
              /\ bytes' = Write(r.bytes, r.b.blk, r.b.off + at, s)
              /\ texts' = [texts EXCEPT ![i] = text]
         ELSE UNCHANGED <<builders, bytes, texts>>
      /\ mark' = mark /\ chunks' = chunks
  BY DEF PutInto
<1>7. Ensured(b, texts[i], wanted, r)
  BY <1>1, <1>4
<1>8. /\ r.ok \in BOOLEAN /\ r.lost \in BOOLEAN /\ r.arena \in Places /\ Until(arena.blk, arena.off, r.arena)
      /\ ~r.ok => r.arena = arena /\ ~r.lost
  BY <1>7 DEF Ensured
<1>9. CASE ~r.ok
  <2>1. UNCHANGED builderVars
    BY <1>6, <1>8, <1>9 DEF builderVars
  <2>2. QED
    BY <2>1, StandsStill
<1>10. CASE r.ok
  <2>1. PICK c : c = r.b
    OBVIOUS
  <2>2. PICK c2 : c2 = [c EXCEPT !.length = @ + n]
    OBVIOUS
  <2>3. PICK w : w = Write(r.bytes, c.blk, c.off + at, s)
    OBVIOUS
  <2>4. /\ Alike(c, b) /\ wanted <= c.capacity /\ r.bytes \in Memory
        /\ ~r.lost => BuilderOK(c, texts[i], r.arena, r.bytes)
        /\ b.arena /\ r.arena = arena => c = b
        /\ ~b.arena => r.arena = arena
        /\ Elsewhere(b, c, r.bytes)
    BY <1>7, <1>10, <2>1 DEF Ensured
  <2>5. c \in BuilderRecords /\ c.length = b.length /\ c.arena = b.arena /\ c.struct = b.struct
    BY <2>4 DEF Alike
  <2>6. /\ c2 \in BuilderRecords /\ c2.blk = c.blk /\ c2.off = c.off /\ c2.capacity = c.capacity
        /\ c2.arena = b.arena /\ c2.struct = b.struct
    <3>1. PICK len \in Nat : len = c.length + n
      BY <2>5 DEF BuilderRecords
    <3>2. c2 = [c EXCEPT !.length = len]
      BY <2>2, <3>1
    <3>3. QED
      BY <2>5, <3>2 DEF BuilderRecords
  <2>7. builders' = [builders EXCEPT ![i] = c2] /\ bytes' = w /\ texts' = [texts EXCEPT ![i] = text]
    BY <1>6, <1>10, <2>1, <2>2, <2>3
  <2>8. /\ builders'[i] = c2 /\ texts'[i] = text
        /\ \A j \in Builders : j # i => builders'[j] = builders[j] /\ texts'[j] = texts[j]
    BY <1>2, <2>7 DEF BuilderTypes
  <2>9. Live' = Live
    BY <1>1, <1>2, <2>6, <2>8, RecordIsLive DEF Live
  <2>10. Whole' \subseteq Live /\ (i \in Whole' => ~r.lost)
    BY <1>6, <2>9 DEF Whole
  <2>11. c.blk \in 1..Area /\ c.off \in Nat /\ c.capacity \in Nat
    BY <2>5, BuilderAssumption DEF BuilderRecords
  <2>12. c.off + at \in Nat /\ w \in Memory
    <3>1. c.off + at \in Nat
      BY <2>11
    <3>2. QED
      BY <2>3, <2>4, <2>11, <3>1, Written DEF WrittenAt
  <2>13. text \in Seq(Int) /\ texts[i] \in Seq(Int)
    <3>1. TextLetters \subseteq Int /\ texts[i] \in Seq(TextLetters)
      BY <1>2 DEF TextLetters, BuilderTypes
    <3>2. QED
      BY <3>1, SeqMonotonic
  <2>14. PICK t \in Nat, l \in Nat : t = Len(text) /\ l = Len(s) /\ t = wanted /\ at + l <= t + 1
    <3>1. Len(texts[i]) = b.length /\ b.length \in Nat
      BY <1>2, <1>3 DEF BuilderOK, Holds, BuilderRecords
    <3>2. Len(text) = wanted /\ (at + Len(s) = Len(text) \/ at + Len(s) = Len(text) + 1)
      BY <1>4, <3>1 DEF Spliced
    <3>3. Len(text) \in Nat /\ Len(s) \in Nat
      OBVIOUS
    <3>4. at + Len(s) <= Len(text) + 1
      BY <3>2, <3>3
    <3>5. QED
      BY <3>2, <3>3, <3>4
  <2>15. ASSUME NEW d \in 1..MaxBlocks, NEW o \in Nat, NEW m \in Nat \ {0},
                o + m <= BlockBytes, Until(d, o + m, arena), Apart(b, d, o, m)
         PROVE  Same(bytes, w, d, o, m) /\ Apart(c2, d, o, m)
    <3>1. Same(bytes, r.bytes, d, o, m) /\ Apart(c, d, o, m)
      BY <2>4, <2>15 DEF Elsewhere
    <3>2. d # c.blk \/ o + m <= c.off + at \/ (c.off + at) + Len(s) <= o
      <4>1. PICK off \in Nat, cap \in Nat : off = c.off /\ cap = c.capacity
        BY <2>11
      <4>2. c.blk # d \/ off + cap + 1 <= o \/ o + m <= off
        BY <3>1, <4>1 DEF Apart
      <4>3. t <= cap
        BY <2>4, <2>14, <4>1
      <4>4. c.blk # d \/ (off + at) + l <= o \/ o + m <= off + at
        <5>1. at + l <= t + 1
          BY <2>14
        <5>2. QED
          BY <4>2, <4>3, <5>1
      <4>5. QED
        BY <2>14, <4>1, <4>4
    <3>3. d \in 1..Area /\ m \in Nat
      BY AreaIsLast
    <3>4. Same(r.bytes, w, d, o, m)
      BY <2>3, <2>4, <2>11, <2>12, <2>15, <3>2, <3>3, WrittenElsewhere
    <3>5. QED
      BY <2>6, <3>1, <3>4, SameTwice DEF Apart
  <2>16. ASSUME NEW j \in Live, j # i
         PROVE  /\ builders[j].arena /\ b.arena /\ builders[j] \in BuilderRecords
                /\ BuilderOK(builders[j], texts[j], r.arena, w)
                /\ Apart(c2, builders[j].blk, builders[j].off, builders[j].capacity + 1)
                /\ Apart(builders[j], c2.blk, c2.off, c2.capacity + 1)
    <3>1. PICK e : e = builders[j]
      OBVIOUS
    <3>2. e \in BuilderRecords /\ BuilderOK(e, texts[j], arena, bytes)
      BY <1>2, <3>1, LiveIsRecord DEF BuildersOK
    <3>3. e.arena /\ b.arena /\ Apart(b, e.blk, e.off, e.capacity + 1)
      BY <1>1, <1>2, <2>16, <3>1 DEF BuildersApart
    <3>4. /\ e.blk \in 1..MaxBlocks /\ e.off \in Nat /\ e.capacity + 1 \in Nat \ {0}
          /\ e.off + (e.capacity + 1) <= BlockBytes /\ Until(e.blk, e.off + (e.capacity + 1), arena)
      BY <3>2, <3>3, BuilderPlace
    <3>5. Same(bytes, w, e.blk, e.off, e.capacity + 1) /\ Apart(c2, e.blk, e.off, e.capacity + 1)
      BY <2>15, <3>3, <3>4
    <3>6. BuilderOK(e, texts[j], r.arena, w)
      BY <1>2, <1>8, <3>2, <3>5, BuilderLater
    <3>7. QED
      BY <2>6, <3>1, <3>2, <3>3, <3>5, <3>6, ApartBothWays
  <2>17. BuilderTypes'
    BY <1>2, <1>6, <1>8, <2>6, <2>7, <2>12 DEF BuilderTypes
  <2>18. BuildersOK'
    <3>1. ASSUME ~r.lost PROVE BuilderOK(c2, text, r.arena, w)
      <4>1. OwnedAt(c2, r.arena)
        BY <2>4, <2>5, <2>6, <3>1 DEF BuilderOK, OwnedAt
      <4>2. c.off + c.capacity + 1 <= BlockBytes /\ Holds(r.bytes, c, texts[i])
        BY <2>4, <3>1 DEF BuilderOK, OwnedAt
      <4>3. Len(text) <= c.capacity
        BY <2>4, <2>14
      <4>4. Holds(w, c2, text)
        BY <2>2, <2>3, <2>4, <2>5, <2>13, <4>2, <4>3, PutHolds
      <4>5. QED
        BY <4>1, <4>4 DEF BuilderOK
    <3>2. ASSUME NEW j \in Whole'
          PROVE  BuilderOK(builders'[j], texts'[j], arena', bytes')
      <4>1. j \in Live /\ j \in Builders
        BY <2>10 DEF Live
      <4>2. CASE j = i
        BY <1>6, <2>7, <2>8, <2>10, <3>1, <4>2
      <4>3. CASE j # i
        BY <1>6, <2>7, <2>8, <2>16, <4>1, <4>3
      <4>4. QED
        BY <4>2, <4>3
    <3>3. QED
      BY <3>2 DEF BuildersOK
  <2>19. BuildersApart'
    <3>1. ASSUME NEW j \in Whole', NEW k \in Whole', j # k
          PROVE  /\ builders'[j].arena
                 /\ Apart(builders'[j], builders'[k].blk, builders'[k].off, builders'[k].capacity + 1)
      <4>1. j \in Live /\ j \in Builders /\ k \in Live /\ k \in Builders
        BY <2>10 DEF Live
      <4>2. CASE j = i
        BY <2>6, <2>8, <2>16, <3>1, <4>1, <4>2
      <4>3. CASE k = i
        BY <2>8, <2>16, <3>1, <4>1, <4>3
      <4>4. CASE j # i /\ k # i
        BY <1>2, <2>8, <3>1, <4>1, <4>4 DEF BuildersApart
      <4>5. QED
        BY <4>2, <4>3, <4>4
    <3>2. QED
      BY <3>1 DEF BuildersApart
  <2>20. ChunksOK'
    <3>1. ASSUME NEW e \in chunks
          PROVE  ChunkOK(e, r.arena, w) /\ \A j \in Whole' : Apart(builders'[j], e.blk, e.off, e.n)
      <4>1. /\ e \in ChunkRecords /\ ChunkOK(e, arena, bytes)
            /\ \A j \in Live : Apart(builders[j], e.blk, e.off, e.n)
        BY <1>2 DEF ChunksOK, BuilderTypes
      <4>2. /\ e.blk \in 1..MaxBlocks /\ e.off \in Nat /\ e.n \in Nat \ {0}
            /\ e.off + e.n <= BlockBytes /\ Until(e.blk, e.off + e.n, arena)
        BY <4>1, BuilderAssumption DEF ChunkRecords, ChunkOK
      <4>3. Same(bytes, w, e.blk, e.off, e.n) /\ Apart(c2, e.blk, e.off, e.n)
        BY <1>1, <2>15, <4>1, <4>2
      <4>4. ChunkOK(e, r.arena, w)
        BY <1>2, <1>8, <4>1, <4>3, ChunkLater
      <4>5. ASSUME NEW j \in Whole' PROVE Apart(builders'[j], e.blk, e.off, e.n)
        <5>1. j \in Live /\ j \in Builders
          BY <2>10 DEF Live
        <5>2. QED
          BY <2>8, <4>1, <4>3, <5>1
      <4>6. QED
        BY <4>4, <4>5
    <3>2. QED
      BY <1>6, <2>7, <3>1 DEF ChunksOK
  <2>21. ScopeOK'
    <3>1. SUFFICES ASSUME mark # NoMark
                   PROVE  /\ Until(mark.blk, mark.off, r.arena)
                          /\ \A e \in chunks : Below(e) => Until(e.blk, e.off + e.n, mark)
                          /\ \A j \in Whole' \ grown' : builders'[j].arena /\ Below(builders'[j].struct) =>
                               Until(builders'[j].blk, builders'[j].off + builders'[j].capacity + 1, mark)
      BY <1>6 DEF ScopeOK, Below
    <3>3. mark \in Places /\ Until(mark.blk, mark.off, arena)
      BY <1>2, <3>1 DEF BuilderTypes, ScopeOK
    <3>4. Until(mark.blk, mark.off, r.arena)
      <4>1. mark.blk \in Nat /\ mark.off \in Nat
        BY <3>3, BuilderAssumption DEF Places
      <4>2. QED
        BY <1>2, <1>8, <3>3, <4>1, UntilLater
    <3>5. \A e \in chunks : Below(e) => Until(e.blk, e.off + e.n, mark)
      BY <1>2, <3>1 DEF ScopeOK
    <3>6. ASSUME NEW j \in Whole' \ grown', builders'[j].arena, Below(builders'[j].struct)
          PROVE  Until(builders'[j].blk, builders'[j].off + builders'[j].capacity + 1, mark)
      <4>1. j \in Live /\ j \in Builders /\ j \notin grown
        BY <1>6, <2>10 DEF Live
      <4>2. builders[j].arena /\ Below(builders[j].struct) =>
               Until(builders[j].blk, builders[j].off + builders[j].capacity + 1, mark)
        BY <1>2, <3>1, <4>1 DEF ScopeOK
      <4>3. CASE j = i
        <5>1. r.arena = arena /\ c2.arena
          BY <1>6, <2>8, <3>6, <4>3
        <5>2. c = b
          BY <2>4, <2>6, <5>1
        <5>3. Below(b.struct)
          BY <2>6, <2>8, <3>6, <4>3
        <5>4. QED
          BY <1>1, <2>6, <2>8, <4>2, <4>3, <5>1, <5>2, <5>3
      <4>4. CASE j # i
        BY <1>6, <2>8, <3>6, <4>1, <4>2, <4>4
      <4>5. QED
        BY <4>3, <4>4
    <3>7. QED
      BY <3>4, <3>5, <3>6
  <2>22. QED
    BY <2>17, <2>18, <2>19, <2>20, <2>21 DEF BuildersInv
<1>11. QED
  BY <1>8, <1>9, <1>10

LEMMA PutKeeps ==
  ASSUME BuildersInv, lost = {}, NEW i \in Live, NEW n \in Nat, NEW at \in Nat, NEW s \in Seq(Int),
         NEW text \in Seq(TextLetters), Spliced(s, at, texts[i], n, text), Put(i, n, at, s, text)
  PROVE  BuildersInv'
<1>1. PICK wanted : wanted = builders[i].length + n
  OBVIOUS
<1>2. PICK r : r = EnsureCapacity(builders[i], wanted)
  OBVIOUS
<1>3. Roomy(wanted) + 1 <= BlockBytes /\ PutInto(i, n, at, s, text, r)
  BY <1>1, <1>2 DEF Put, PutInto
<1>4. /\ BuilderTypes /\ builders[i] \in BuilderRecords /\ wanted \in Nat
      /\ BuilderOK(builders[i], texts[i], arena, bytes)
  <2>1. BuilderTypes /\ builders[i] \in BuilderRecords /\ i \in Whole
    BY LiveIsRecord DEF BuildersInv, Whole
  <2>2. wanted \in Nat
    BY <1>1, <2>1 DEF BuilderRecords
  <2>3. QED
    BY <2>1, <2>2 DEF BuildersInv, BuildersOK
<1>5. Ensured(builders[i], texts[i], wanted, r)
  BY <1>2, <1>3, <1>4, Ensures
<1>6. QED
  BY <1>1, <1>3, <1>5, PutIntoKeeps

-----------------------------------------------------------------------------
(* The operations on a text. *)

LEMMA LettersAreInts == TextLetters \subseteq Int /\ TextLetters = Int \ {0}
  BY DEF TextLetters, TERMINATOR

LEMMA AppendSplices ==
  ASSUME NEW old \in Seq(TextLetters), NEW str \in Seq(TextLetters)
  PROVE  /\ Append(str, TERMINATOR) \in Seq(Int) /\ old \o str \in Seq(TextLetters)
         /\ Spliced(Append(str, TERMINATOR), Len(old), old, Len(str), old \o str)
<1>1. str \in Seq(Int) /\ TERMINATOR \in Int
  BY LettersAreInts, SeqMonotonic DEF TERMINATOR
<1>2. PICK s : s = Append(str, TERMINATOR)
  OBVIOUS
<1>3. PICK len \in Nat, n \in Nat : len = Len(old) /\ n = Len(str)
  OBVIOUS
<1>4. /\ s \in Seq(Int) /\ Len(s) = n + 1 /\ s[n + 1] = TERMINATOR
      /\ \A k \in 1..n : s[k] = str[k]
  BY <1>1, <1>2, <1>3, AppendProperties
<1>5. PICK text \in Seq(TextLetters) : text = old \o str
  BY ConcatProperties
<1>6. Len(text) = len + n /\ \A k \in 1..(len + n) : text[k] = IF k <= len THEN old[k] ELSE str[k - len]
  BY <1>3, <1>5, ConcatProperties
<1>7. \A k \in 1..len : text[k] = old[k]
  BY <1>6
<1>8. ASSUME NEW k \in 1..(n + 1)
      PROVE  s[k] = IF len + k <= len + n THEN text[len + k] ELSE TERMINATOR
  <2>1. CASE k = n + 1
    <3>1. ~(len + k <= len + n)
      BY <2>1
    <3>2. QED
      BY <1>4, <2>1, <3>1
  <2>2. CASE k # n + 1
    <3>1. k \in 1..n /\ len + k \in 1..(len + n) /\ ~(len + k <= len) /\ (len + k) - len = k
      BY <2>2
    <3>2. text[len + k] = str[k] /\ len + k <= len + n
      BY <1>6, <3>1
    <3>3. QED
      BY <1>4, <3>1, <3>2
  <2>3. QED
    BY <2>1, <2>2
<1>9. len <= len /\ len + (n + 1) = (len + n) + 1
  OBVIOUS
<1>10. Spliced(s, len, old, n, text)
  BY <1>3, <1>4, <1>6, <1>7, <1>8, <1>9 DEF Spliced
<1>11. QED
  BY <1>2, <1>3, <1>4, <1>5, <1>10

LEMMA InsertedIs ==
  ASSUME NEW old \in Seq(TextLetters), NEW str \in Seq(TextLetters), NEW index \in 0..Len(old)
  PROVE  /\ Inserted(old, index, str) \in Seq(TextLetters)
         /\ Len(Inserted(old, index, str)) = Len(old) + Len(str)
         /\ \A k \in 1..(Len(old) + Len(str)) : Inserted(old, index, str)[k] =
              IF k <= index THEN old[k]
              ELSE IF k <= index + Len(str) THEN str[k - index] ELSE old[k - Len(str)]
<1>1. PICK len \in Nat, n \in Nat : len = Len(old) /\ n = Len(str)
  OBVIOUS
<1>2. index \in Nat /\ index <= len
  BY <1>1
<1>3. PICK l : l = SubSeq(old, 1, index)
  OBVIOUS
<1>4. PICK r : r = SubSeq(old, index + 1, len)
  OBVIOUS
<1>5. l \in Seq(TextLetters) /\ Len(l) = index /\ \A k \in 1..index : l[k] = old[k]
  <2>1. 1 \in 1..(len + 1) /\ index \in 0..len
    BY <1>2
  <2>2. QED
    BY <1>1, <1>2, <1>3, <2>1
<1>6. r \in Seq(TextLetters) /\ Len(r) = len - index /\ \A k \in 1..(len - index) : r[k] = old[index + k]
  BY <1>1, <1>2, <1>4
<1>7. PICK a : a = l \o str
  OBVIOUS
<1>8. /\ a \in Seq(TextLetters) /\ Len(a) = index + n
      /\ \A k \in 1..(index + n) : a[k] = IF k <= index THEN l[k] ELSE str[k - index]
  BY <1>1, <1>5, <1>7, ConcatProperties
<1>9. PICK t : t = a \o r
  OBVIOUS
<1>10. Inserted(old, index, str) = t
  BY <1>1, <1>3, <1>4, <1>7, <1>9 DEF Inserted
<1>11. (index + n) + (len - index) = len + n
  BY <1>2
<1>12. /\ t \in Seq(TextLetters) /\ Len(t) = len + n
       /\ \A k \in 1..(len + n) : t[k] = IF k <= index + n THEN a[k] ELSE r[k - (index + n)]
  <2>1. /\ t \in Seq(TextLetters) /\ Len(t) = Len(a) + Len(r)
        /\ \A k \in 1..(Len(a) + Len(r)) : t[k] = IF k <= Len(a) THEN a[k] ELSE r[k - Len(a)]
    BY <1>6, <1>8, <1>9, ConcatProperties
  <2>2. Len(a) = index + n /\ Len(a) + Len(r) = len + n
    BY <1>6, <1>8, <1>11
  <2>3. QED
    BY <2>1, <2>2
<1>13. ASSUME NEW k \in 1..(len + n)
       PROVE  t[k] = IF k <= index THEN old[k] ELSE IF k <= index + n THEN str[k - index] ELSE old[k - n]
  <2>1. CASE k <= index
    <3>1. k \in 1..index /\ k \in 1..(index + n) /\ k <= index + n
      BY <1>2, <2>1
    <3>2. QED
      BY <1>5, <1>8, <1>12, <2>1, <3>1
  <2>2. CASE ~(k <= index) /\ k <= index + n
    <3>1. k \in 1..(index + n)
      BY <2>2
    <3>2. QED
      BY <1>8, <1>12, <2>2, <3>1
  <2>3. CASE ~(k <= index + n)
    <3>1. k - (index + n) \in 1..(len - index) /\ index + (k - (index + n)) = k - n /\ ~(k <= index)
      BY <1>2, <2>3
    <3>2. QED
      BY <1>6, <1>12, <2>3, <3>1
  <2>4. QED
    BY <2>1, <2>2, <2>3
<1>14. QED
  BY <1>1, <1>10, <1>12, <1>13

\* What is moved up is the rest of the text, with or without the NUL.
LEMMA InsertSplices ==
  ASSUME NEW old \in Seq(TextLetters), NEW str \in Seq(TextLetters), NEW index \in 0..Len(old),
         NEW rest \in Seq(Int), index + Len(rest) = Len(old) \/ index + Len(rest) = Len(old) + 1,
         \A k \in 1..Len(rest) : rest[k] = IF index + k <= Len(old) THEN old[index + k] ELSE TERMINATOR
  PROVE  str \o rest \in Seq(Int) /\ Spliced(str \o rest, index, old, Len(str), Inserted(old, index, str))
<1>1. str \in Seq(Int)
  BY LettersAreInts, SeqMonotonic
<1>2. PICK len \in Nat, n \in Nat, m \in Nat : len = Len(old) /\ n = Len(str) /\ m = Len(rest)
  OBVIOUS
<1>3. index \in Nat /\ index <= len /\ (index + m = len \/ index + m = len + 1)
  BY <1>2
<1>4. PICK s : s = str \o rest
  OBVIOUS
<1>5. s \in Seq(Int) /\ Len(s) = n + m /\ \A k \in 1..(n + m) : s[k] = IF k <= n THEN str[k] ELSE rest[k - n]
  BY <1>1, <1>2, <1>4, ConcatProperties
<1>6. PICK text : text = Inserted(old, index, str)
  OBVIOUS
<1>7. /\ Len(text) = len + n
      /\ \A k \in 1..(len + n) : text[k] =
           IF k <= index THEN old[k] ELSE IF k <= index + n THEN str[k - index] ELSE old[k - n]
  BY <1>2, <1>6, InsertedIs
<1>8. \A k \in 1..index : text[k] = old[k]
  BY <1>3, <1>7
<1>9. ASSUME NEW k \in 1..(n + m)
      PROVE  s[k] = IF index + k <= len + n THEN text[index + k] ELSE TERMINATOR
  <2>1. CASE k <= n
    <3>1. /\ index + k \in 1..(len + n) /\ ~(index + k <= index) /\ index + k <= index + n
          /\ (index + k) - index = k /\ index + k <= len + n
      BY <1>3, <2>1
    <3>2. QED
      BY <1>5, <1>7, <2>1, <3>1
  <2>2. CASE ~(k <= n)
    <3>1. PICK j \in 1..m : j = k - n /\ k = j + n
      BY <2>2
    <3>2. s[k] = IF index + j <= len THEN old[index + j] ELSE TERMINATOR
      BY <1>2, <1>5, <2>2, <3>1
    <3>3. CASE index + j <= len
      <4>1. /\ index + k \in 1..(len + n) /\ ~(index + k <= index) /\ ~(index + k <= index + n)
            /\ (index + k) - n = index + j /\ index + k <= len + n
        BY <1>3, <3>1, <3>3
      <4>2. QED
        BY <1>7, <3>2, <3>3, <4>1
    <3>4. CASE ~(index + j <= len)
      <4>1. ~(index + k <= len + n)
        BY <1>3, <3>1, <3>4
      <4>2. QED
        BY <3>2, <3>4, <4>1
    <3>5. QED
      BY <3>3, <3>4
  <2>3. QED
    BY <2>1, <2>2
<1>10. index + (n + m) = len + n \/ index + (n + m) = (len + n) + 1
  BY <1>3
<1>11. Spliced(s, index, old, n, text)
  BY <1>2, <1>3, <1>5, <1>7, <1>8, <1>9, <1>10 DEF Spliced
<1>12. QED
  BY <1>2, <1>4, <1>5, <1>6, <1>11

LEMMA AppendKeeps ==
  ASSUME BuildersInv, NEW i \in Builders, NEW str \in Strings, AppendTo(i, str)
  PROVE  BuildersInv'
<1>1. lost = {} /\ i \in Live /\ Put(i, Len(str), builders[i].length, Append(str, TERMINATOR), texts[i] \o str)
  BY DEF AppendTo, Running
<1>2. texts[i] \in Seq(TextLetters) /\ Len(texts[i]) = builders[i].length
  BY <1>1 DEF BuildersInv, BuilderTypes, BuildersOK, Whole, BuilderOK, Holds
<1>3. str \in Seq(TextLetters)
  BY BuilderAssumption, LettersAreInts
<1>4. builders[i].length \in Nat /\ Len(str) \in Nat
  BY <1>2, <1>3
<1>5. /\ Append(str, TERMINATOR) \in Seq(Int) /\ texts[i] \o str \in Seq(TextLetters)
      /\ Spliced(Append(str, TERMINATOR), builders[i].length, texts[i], Len(str), texts[i] \o str)
  BY <1>2, <1>3, AppendSplices
<1>6. QED
  BY <1>1, <1>4, <1>5, PutKeeps

\* The bytes that an insertion moves.
LEMMA MovedIs ==
  ASSUME BuildersInv, lost = {}, NEW i \in Live, NEW index \in 0..builders[i].length,
         NEW n \in Nat, index + n <= builders[i].length + 1
  PROVE  /\ Moved(i, index, n) \in Seq(Int) /\ Len(Moved(i, index, n)) = n
         /\ index \in 0..Len(texts[i]) /\ Len(texts[i]) = builders[i].length
         /\ \A k \in 1..n : Moved(i, index, n)[k] =
              IF index + k <= Len(texts[i]) THEN texts[i][index + k] ELSE TERMINATOR
<1>1. PICK b : b = builders[i]
  OBVIOUS
<1>2. b \in BuilderRecords /\ BuilderOK(b, texts[i], arena, bytes) /\ bytes \in Memory
  BY <1>1, LiveIsRecord DEF BuildersInv, BuilderTypes, BuildersOK, Whole
<1>3. PICK off \in Nat, cap \in Nat, len \in Nat : off = b.off /\ cap = b.capacity /\ len = b.length
  BY <1>2, BuilderAssumption DEF BuilderRecords
<1>4. /\ Len(texts[i]) = len /\ len <= cap /\ b.blk \in 1..Area
      /\ \A k \in 1..(cap + 1) : bytes[b.blk][off + k] = IF k <= len THEN texts[i][k] ELSE TERMINATOR
  BY <1>2, <1>3 DEF BuilderRecords, BuilderOK, Holds
<1>5. off + cap + 1 <= BlockBytes /\ BlockBytes \in Nat
  BY <1>2, <1>3, BuilderAssumption DEF BuilderOK, OwnedAt
<1>6. index \in 0..len /\ index \in Nat /\ index + n <= len + 1
  BY <1>1, <1>3
<1>7. PICK o \in Nat : o = off + index
  BY <1>6
<1>8. o + n <= BlockBytes
  BY <1>4, <1>5, <1>6, <1>7
<1>9. PICK s : s = Read(bytes, b.blk, o, n)
  OBVIOUS
<1>10. ReadAt(s, bytes, b.blk, o, n)
  BY <1>2, <1>4, <1>8, <1>9, ReadIs
<1>11. ASSUME NEW k \in 1..n
       PROVE  s[k] = IF index + k <= len THEN texts[i][index + k] ELSE TERMINATOR
  <2>1. index + k \in 1..(cap + 1) /\ off + (index + k) = o + k
    BY <1>4, <1>6, <1>7
  <2>2. s[k] = bytes[b.blk][o + k]
    BY <1>10 DEF ReadAt
  <2>3. bytes[b.blk][off + (index + k)] = IF index + k <= len THEN texts[i][index + k] ELSE TERMINATOR
    BY <1>4, <2>1
  <2>4. QED
    BY <2>1, <2>2, <2>3
<1>12. Moved(i, index, n) = s
  BY <1>1, <1>3, <1>7, <1>9 DEF Moved
<1>13. QED
  BY <1>1, <1>3, <1>4, <1>6, <1>10, <1>11, <1>12 DEF ReadAt

LEMMA InsertStrKeeps ==
  ASSUME BuildersInv, NEW i \in Builders, NEW str \in Strings, NEW index \in 0..MaxText, InsertStr(i, str, index)
  PROVE  BuildersInv'
<1>1. /\ lost = {} /\ i \in Live /\ index <= builders[i].length
      /\ Put(i, Len(str), index, str \o Moved(i, index, builders[i].length - index), Inserted(texts[i], index, str))
  BY DEF InsertStr, Running
<1>2. builders[i].length \in Nat /\ texts[i] \in Seq(TextLetters) /\ index \in Nat
  BY <1>1, LiveIsRecord, BuilderAssumption DEF BuildersInv, BuilderTypes, BuilderRecords
<1>3. PICK n \in Nat : n = builders[i].length - index /\ index + n = builders[i].length
  BY <1>1, <1>2
<1>4. index \in 0..builders[i].length /\ index + n <= builders[i].length + 1
  BY <1>1, <1>2, <1>3
<1>5. PICK rest : rest = Moved(i, index, n)
  OBVIOUS
<1>6. /\ rest \in Seq(Int) /\ Len(rest) = n
      /\ index \in 0..Len(texts[i]) /\ Len(texts[i]) = builders[i].length
      /\ \A k \in 1..n : rest[k] = IF index + k <= Len(texts[i]) THEN texts[i][index + k] ELSE TERMINATOR
  BY <1>1, <1>4, <1>5, MovedIs
<1>7. str \in Seq(TextLetters)
  BY BuilderAssumption, LettersAreInts
<1>8. str \o rest \in Seq(Int) /\ Spliced(str \o rest, index, texts[i], Len(str), Inserted(texts[i], index, str))
  BY <1>2, <1>3, <1>6, <1>7, InsertSplices
<1>9. Inserted(texts[i], index, str) \in Seq(TextLetters) /\ Len(str) \in Nat
  <2>1. Inserted(texts[i], index, str) \in Seq(TextLetters)
    BY <1>2, <1>6, <1>7, InsertedIs
  <2>2. Len(str) \in Nat
    BY <1>7
  <2>3. QED
    BY <2>1, <2>2
<1>10. Put(i, Len(str), index, str \o rest, Inserted(texts[i], index, str))
  BY <1>1, <1>3, <1>5
<1>11. QED
  BY <1>1, <1>2, <1>8, <1>9, <1>10, PutKeeps

LEMMA InsertCharKeeps ==
  ASSUME BuildersInv, NEW i \in Builders, NEW c \in Letters, NEW index \in 0..MaxText, InsertChar(i, c, index)
  PROVE  BuildersInv'
<1>1. /\ lost = {} /\ i \in Live /\ index <= builders[i].length
      /\ Put(i, 1, index, <<c>> \o Moved(i, index, builders[i].length + 1 - index), Inserted(texts[i], index, <<c>>))
  BY DEF InsertChar, Running
<1>2. builders[i].length \in Nat /\ texts[i] \in Seq(TextLetters) /\ index \in Nat
  BY <1>1, LiveIsRecord, BuilderAssumption DEF BuildersInv, BuilderTypes, BuilderRecords
<1>3. PICK n \in Nat : n = builders[i].length + 1 - index /\ index + n = builders[i].length + 1
  BY <1>1, <1>2
<1>4. index \in 0..builders[i].length /\ index + n <= builders[i].length + 1
  BY <1>1, <1>2, <1>3
<1>5. PICK rest : rest = Moved(i, index, n)
  OBVIOUS
<1>6. /\ rest \in Seq(Int) /\ Len(rest) = n
      /\ index \in 0..Len(texts[i]) /\ Len(texts[i]) = builders[i].length
      /\ \A k \in 1..n : rest[k] = IF index + k <= Len(texts[i]) THEN texts[i][index + k] ELSE TERMINATOR
  BY <1>1, <1>4, <1>5, MovedIs
<1>7. PICK str : str = <<c>>
  OBVIOUS
<1>8. str \in Seq(TextLetters) /\ Len(str) = 1
  BY <1>7, BuilderAssumption, LettersAreInts
<1>9. str \o rest \in Seq(Int) /\ Spliced(str \o rest, index, texts[i], Len(str), Inserted(texts[i], index, str))
  BY <1>2, <1>3, <1>6, <1>8, InsertSplices
<1>10. Inserted(texts[i], index, str) \in Seq(TextLetters)
  BY <1>2, <1>6, <1>8, InsertedIs
<1>11. Put(i, 1, index, str \o rest, Inserted(texts[i], index, str))
  BY <1>1, <1>3, <1>5, <1>7
<1>12. QED
  BY <1>1, <1>2, <1>8, <1>9, <1>10, <1>11, PutKeeps

\* The C string in the buffer is the text.
LEMMA CStringIs ==
  ASSUME NEW mem \in Memory, NEW b \in BuilderRecords, NEW text \in Seq(TextLetters), Holds(mem, b, text),
         b.off + b.capacity + 1 <= BlockBytes
  PROVE  /\ CStringAt(mem, b.blk, b.off) = text
         /\ Read(mem, b.blk, b.off, b.length) = text
<1>1. PICK blk \in 1..Area, off \in Nat, cap \in Nat, len \in Nat :
        blk = b.blk /\ off = b.off /\ cap = b.capacity /\ len = b.length
  BY BuilderAssumption DEF BuilderRecords
<1>2. PICK last \in Nat : last = BlockBytes
  BY BuilderAssumption
<1>3. Len(text) = len /\ len <= cap /\ off + cap + 1 <= last
  BY <1>1, <1>2 DEF Holds
<1>4. \A k \in 1..(cap + 1) : mem[blk][off + k] = IF k <= len THEN text[k] ELSE TERMINATOR
  BY <1>1 DEF Holds
<1>5. Read(mem, blk, off, len) = text
  <2>1. off + len <= last
    BY <1>3
  <2>2. ReadAt(Read(mem, blk, off, len), mem, blk, off, len)
    BY <1>2, <2>1, ReadIs
  <2>3. \A k \in 1..len : mem[blk][off + k] = text[k]
    BY <1>3, <1>4
  <2>4. text \in Seq(Int)
    BY LettersAreInts, SeqMonotonic
  <2>5. PICK s : s = Read(mem, blk, off, len)
    OBVIOUS
  <2>6. s \in Seq(Int) /\ Len(s) = Len(text) /\ \A k \in 1..Len(s) : s[k] = text[k]
    BY <1>3, <2>2, <2>3, <2>5 DEF ReadAt
  <2>7. QED
    BY <2>4, <2>5, <2>6, SeqEqual
<1>6. PICK stop : stop = {k \in off..(last - 1) : mem[blk][k + 1] = TERMINATOR}
  OBVIOUS
<1>7. PICK end \in Nat : end = off + len
  OBVIOUS
<1>8. end \in stop
  <2>1. end \in off..(last - 1) /\ len + 1 \in 1..(cap + 1) /\ ~(len + 1 <= len) /\ off + (len + 1) = end + 1
    BY <1>3, <1>7
  <2>2. mem[blk][end + 1] = TERMINATOR
    BY <1>4, <2>1
  <2>3. QED
    BY <1>6, <2>1, <2>2
<1>9. ASSUME NEW k \in stop PROVE k \in Int /\ end <= k
  <2>1. k \in off..(last - 1) /\ mem[blk][k + 1] = TERMINATOR
    BY <1>6
  <2>2. ASSUME k < end PROVE FALSE
    <3>1. PICK j \in 1..len : off + j = k + 1
      <4>1. k + 1 - off \in 1..len /\ off + (k + 1 - off) = k + 1
        BY <1>7, <2>1, <2>2
      <4>2. QED
        BY <4>1
    <3>2. j \in 1..(cap + 1) /\ j <= len
      BY <1>3
    <3>3. mem[blk][k + 1] = text[j]
      BY <1>4, <3>1, <3>2
    <3>4. text[j] \in TextLetters
      BY <1>3, ElementOfSeq
    <3>5. QED
      BY <2>1, <3>3, <3>4 DEF TextLetters
  <2>3. QED
    BY <2>1, <2>2
<1>10. (CHOOSE k \in stop : \A l \in stop : k <= l) = end
  <2>1. \A l \in stop : end <= l
    BY <1>9
  <2>2. ASSUME NEW k \in stop, \A l \in stop : k <= l PROVE k = end
    BY <1>8, <1>9, <2>2
  <2>3. QED
    BY <1>8, <2>1, <2>2
<1>11. stop # {} /\ end - off = len
  BY <1>7, <1>8
<1>12. CStringAt(mem, blk, off) = Read(mem, blk, off, end - off)
  BY <1>2, <1>6, <1>10, <1>11 DEF CStringAt
<1>13. QED
  BY <1>1, <1>5, <1>11, <1>12

LEMMA ReplaceKeeps ==
  ASSUME BuildersInv, NEW i \in Builders, NEW match, NEW c \in Letters, ReplaceMatch(i, match, c)
  PROVE  BuildersInv'
<1>1. PICK b : b = builders[i]
  OBVIOUS
<1>2. PICK old : old = texts[i]
  OBVIOUS
<1>3. lost = {} /\ i \in Live
  BY DEF ReplaceMatch, Running
<1>4. /\ BuilderTypes /\ b \in BuilderRecords /\ bytes \in Memory /\ arena \in Places
      /\ old \in Seq(TextLetters) /\ BuilderOK(b, old, arena, bytes)
  BY <1>1, <1>2, <1>3, LiveIsRecord DEF BuildersInv, BuilderTypes, BuildersOK, Whole
<1>5. PICK text : text = [k \in DOMAIN old |-> IF old[k] \in match THEN c ELSE old[k]]
  OBVIOUS
<1>6. CStringAt(bytes, b.blk, b.off) = old
  BY <1>4, CStringIs DEF BuilderOK, OwnedAt
<1>7. /\ bytes' = Write(bytes, b.blk, b.off, text)
      /\ texts' = [texts EXCEPT ![i] = text]
      /\ UNCHANGED <<arena, builders, mark, chunks, grown, lost>>
  BY <1>1, <1>2, <1>4, <1>5, <1>6 DEF ReplaceMatch, BuilderTypes
<1>8. text \in Seq(TextLetters) /\ Len(text) = Len(old)
  <2>1. c \in TextLetters
    BY BuilderAssumption, LettersAreInts
  <2>2. Len(old) \in Nat /\ DOMAIN old = 1..Len(old) /\ \A k \in 1..Len(old) : old[k] \in TextLetters
    BY <1>4, ElementOfSeq, LenProperties
  <2>3. \A k \in 1..Len(old) : (IF old[k] \in match THEN c ELSE old[k]) \in TextLetters
    BY <2>1, <2>2
  <2>4. QED
    BY <1>5, <2>2, <2>3
<1>9. PICK r : r = EnsureCapacity(b, b.length)
  OBVIOUS
<1>10. b.length \in Nat /\ b.length <= b.capacity /\ b.length + 0 = b.length /\ b.off + 0 = b.off
  BY <1>4, BuilderAssumption DEF BuilderRecords, BuilderOK, Holds
<1>11. Ensured(b, old, b.length + 0, r)
  BY <1>4, <1>9, <1>10, EnsureStays
<1>12. r = [ok |-> TRUE, b |-> b, arena |-> arena, bytes |-> bytes, lost |-> FALSE]
  <2>1. ~(b.length > b.capacity)
    BY <1>4, <1>10 DEF BuilderRecords
  <2>2. QED
    BY <1>9, <1>10, <2>1 DEF EnsureCapacity
<1>13. r.ok /\ r.b = b /\ r.arena = arena /\ r.bytes = bytes /\ r.lost = FALSE
  BY <1>12
<1>14. builders = [builders EXCEPT ![i] = [r.b EXCEPT !.length = @ + 0]]
  <2>1. PICK b2 : b2 = [b EXCEPT !.length = b.length + 0]
    OBVIOUS
  <2>2. b2 = b
    BY <1>4, <1>10, <2>1 DEF BuilderRecords
  <2>3. QED
    BY <1>1, <1>4, <1>13, <2>1, <2>2 DEF BuilderTypes
<1>15. PutInto(i, 0, 0, text, text, r)
  BY <1>1, <1>7, <1>10, <1>13, <1>14 DEF PutInto
<1>16. Spliced(text, 0, old, 0, text)
  <2>1. PICK len \in Nat : len = Len(old) /\ len = Len(text)
    BY <1>4, <1>8
  <2>2. len = len + 0 /\ 0 <= len /\ 0 + len = len /\ \A k \in 1..len : 0 + k = k /\ 0 + k <= len
    OBVIOUS
  <2>3. QED
    BY <2>1, <2>2 DEF Spliced
<1>17. text \in Seq(Int)
  BY <1>8, LettersAreInts, SeqMonotonic
<1>18. QED
  BY <1>1, <1>2, <1>3, <1>8, <1>11, <1>15, <1>16, <1>17, PutIntoKeeps
-----------------------------------------------------------------------------
(* The allocations of others, and of new builders. *)

\* The arena has given copy more, and what it had given copy is as it was.
Grows(a2, mem2) ==
  /\ a2 \in Places /\ mem2 \in Memory /\ Until(arena.blk, arena.off, a2)
  /\ \A d \in 1..Area, o \in Nat, m \in Nat :
       o + m <= BlockBytes /\ Given(d, o + m, arena) => Same(bytes, mem2, d, o, m)

\* What the arena has not given copy yet.
Fresh(blk, off) == (blk = arena.blk /\ arena.off <= off) \/ arena.blk < blk

LEMMA GrowsKeeps ==
  ASSUME BuildersInv, lost = {}, NEW a2, NEW mem2, Grows(a2, mem2)
  PROVE  /\ \A j \in Live : BuilderOK(builders[j], texts[j], a2, mem2)
         /\ \A e \in chunks : ChunkOK(e, a2, mem2)
         /\ mark # NoMark => Until(mark.blk, mark.off, a2)
<1>1. /\ BuilderTypes /\ BuildersOK /\ ChunksOK /\ ScopeOK /\ Whole = Live /\ arena \in Places
      /\ a2 \in Places /\ Until(arena.blk, arena.off, a2)
  BY DEF BuildersInv, BuilderTypes, Whole, Grows
<1>2. ASSUME NEW j \in Live PROVE BuilderOK(builders[j], texts[j], a2, mem2)
  <2>1. PICK b : b = builders[j]
    OBVIOUS
  <2>2. b \in BuilderRecords /\ BuilderOK(b, texts[j], arena, bytes)
    BY <1>1, <2>1, LiveIsRecord DEF BuildersOK
  <2>3. PICK off \in Nat, cap \in Nat : off = b.off /\ cap = b.capacity
    BY <2>2, BuilderAssumption DEF BuilderRecords
  <2>4. off + cap + 1 = off + (cap + 1) /\ cap + 1 \in Nat
    OBVIOUS
  <2>5. /\ b.blk \in 1..Area /\ b.arena \in BOOLEAN /\ off + (cap + 1) <= BlockBytes
        /\ b.arena => Until(b.blk, off + (cap + 1), arena)
        /\ ~b.arena => b.blk = Area
    BY <2>2, <2>3, <2>4 DEF BuilderRecords, BuilderOK, OwnedAt
  <2>6. Same(bytes, mem2, b.blk, off, cap + 1)
    BY <2>4, <2>5 DEF Grows, Given
  <2>7. QED
    BY <1>1, <2>1, <2>2, <2>3, <2>6, BuilderLater
<1>3. ASSUME NEW e \in chunks PROVE ChunkOK(e, a2, mem2)
  <2>1. e \in ChunkRecords /\ ChunkOK(e, arena, bytes)
    BY <1>1 DEF ChunksOK, BuilderTypes
  <2>2. /\ e.blk \in 1..Area /\ e.off \in Nat /\ e.n \in Nat
        /\ e.off + e.n <= BlockBytes /\ Given(e.blk, e.off + e.n, arena)
    BY <2>1, AreaIsLast, BuilderAssumption DEF ChunkRecords, ChunkOK, Given
  <2>3. Same(bytes, mem2, e.blk, e.off, e.n)
    BY <2>2 DEF Grows
  <2>4. QED
    BY <1>1, <2>1, <2>3, ChunkLater
<1>4. ASSUME mark # NoMark PROVE Until(mark.blk, mark.off, a2)
  <2>1. mark \in Places /\ Until(mark.blk, mark.off, arena)
    BY <1>1, <1>4 DEF BuilderTypes, ScopeOK
  <2>2. mark.blk \in Nat /\ mark.off \in Nat
    BY <2>1, BuilderAssumption DEF Places
  <2>3. QED
    BY <1>1, <2>1, <2>2, UntilLater
<1>5. QED
  BY <1>2, <1>3, <1>4

LEMMA FreshIsApart ==
  ASSUME NEW b \in BuilderRecords, NEW text, arena \in Places, BuilderOK(b, text, arena, bytes), b.arena,
         NEW blk \in Nat, NEW off \in Nat, Fresh(blk, off), NEW n
  PROVE  Apart(b, blk, off, n)
<1>1. arena.blk \in Nat /\ arena.off \in Nat /\ b.blk \in Nat
  BY BuilderAssumption, AreaIsLast DEF Places, BuilderRecords
<1>2. PICK end \in Nat : end = b.off + b.capacity + 1
  BY BuilderAssumption DEF BuilderRecords
<1>3. b.blk < arena.blk \/ (b.blk = arena.blk /\ end <= arena.off)
  BY <1>2 DEF BuilderOK, OwnedAt, Until
<1>4. b.blk # blk \/ end <= off
  BY <1>1, <1>3 DEF Fresh
<1>5. QED
  BY <1>2, <1>4 DEF Apart

LEMMA FreshIsAbove ==
  ASSUME arena \in Places, mark \in Places, Until(mark.blk, mark.off, arena),
         NEW x, x.blk \in Nat, x.off \in Nat, Fresh(x.blk, x.off)
  PROVE  ~Below(x)
  BY BuilderAssumption DEF Places, Until, Fresh, Below

LEMMA AllocatedIsFresh ==
  ASSUME arena \in Places, NEW mem \in Memory, NEW n, NEW r, Allocation(arena, mem, n, r), r.ok
  PROVE  /\ r.blk \in Nat /\ r.off \in Nat /\ Fresh(r.blk, r.off) /\ r.blk \in 1..MaxBlocks /\ r.blk \in 1..Area
         /\ r.off + n <= BlockBytes
<1>1. r.blk \in 1..MaxBlocks /\ r.off \in Nat /\ r.off + n <= BlockBytes
  BY BuilderAssumption DEF Allocation
<1>2. Fresh(r.blk, r.off)
  BY BuilderAssumption DEF Allocation, Fresh, Places
<1>3. QED
  BY <1>1, <1>2, AreaIsLast

LEMMA OtherKeeps ==
  ASSUME BuildersInv, NEW n \in OtherSizes, Other(n)
  PROVE  BuildersInv'
<1>1. PICK r : r = Alloc(arena, bytes, n)
  OBVIOUS
<1>2. PICK s : s = [k \in 1..n |-> FILL]
  OBVIOUS
<1>3. PICK c : c = [blk |-> r.blk, off |-> r.off, n |-> n]
  OBVIOUS
<1>4. PICK w : w = Write(r.bytes, r.blk, r.off, s)
  OBVIOUS
<1>5. /\ lost = {} /\ InArena /\ r.ok /\ arena' = r.arena /\ chunks' = chunks \cup {c} /\ bytes' = w
      /\ UNCHANGED <<builders, mark, texts, grown, lost>>
  BY <1>1, <1>2, <1>3, <1>4 DEF Other, Running
<1>6. /\ BuilderTypes /\ BuildersOK /\ BuildersApart /\ ChunksOK /\ ScopeOK
      /\ Whole = Live /\ Live' = Live /\ Whole' = Live
  BY <1>5 DEF BuildersInv, Whole, Live
<1>7. arena \in Places /\ bytes \in Memory /\ n \in 1..BlockBytes /\ n \in Nat
  BY <1>6, BuilderAssumption DEF BuilderTypes
<1>8. Allocation(arena, bytes, n, r)
  BY <1>1, <1>7, Allocated
<1>9. /\ r.arena \in Places /\ r.bytes \in Memory /\ Until(arena.blk, arena.off, r.arena)
      /\ \A d \in 1..Area, o \in Nat, m \in Nat :
           o + m <= BlockBytes /\ Given(d, o + m, arena) => Same(bytes, r.bytes, d, o, m)
      /\ r.off \in 0..BlockBytes /\ r.arena = [blk |-> r.blk, off |-> r.off + n]
  BY <1>5, <1>8 DEF Allocation
<1>10. r.blk \in Nat /\ r.off \in Nat /\ Fresh(r.blk, r.off) /\ r.blk \in 1..MaxBlocks /\ r.blk \in 1..Area
       /\ r.off + n <= BlockBytes
  BY <1>5, <1>7, <1>8, AllocatedIsFresh
<1>11. s \in Seq(Int) /\ Len(s) = n /\ \A k \in 1..n : s[k] = FILL
  BY <1>2, <1>7 DEF FILL
<1>12. w \in Memory
  BY <1>4, <1>9, <1>10, <1>11, Written DEF WrittenAt
<1>13. Grows(r.arena, w)
  <2>1. ASSUME NEW d \in 1..Area, NEW o \in Nat, NEW m \in Nat, o + m <= BlockBytes, Given(d, o + m, arena)
        PROVE  Same(bytes, w, d, o, m)
    <3>1. d # r.blk \/ o + m <= r.off
      <4>1. d = Area \/ d < arena.blk \/ (d = arena.blk /\ o + m <= arena.off)
        BY <2>1 DEF Given, Until
      <4>2. r.blk # Area
        BY <1>10, AreaIsLast, BuilderAssumption
      <4>3. arena.blk \in Nat /\ arena.off \in Nat
        BY <1>7, BuilderAssumption DEF Places
      <4>4. QED
        BY <1>10, <4>1, <4>2, <4>3 DEF Fresh
    <3>2. Same(r.bytes, w, d, o, m)
      BY <1>4, <1>9, <1>10, <1>11, <2>1, <3>1, WrittenElsewhere
    <3>3. QED
      BY <1>9, <2>1, <3>2, SameTwice
  <2>2. QED
    BY <1>9, <1>12, <2>1 DEF Grows
<1>14. /\ \A j \in Live : BuilderOK(builders[j], texts[j], r.arena, w)
       /\ \A e \in chunks : ChunkOK(e, r.arena, w)
       /\ mark # NoMark => Until(mark.blk, mark.off, r.arena)
  BY <1>5, <1>13, GrowsKeeps
<1>15. c \in ChunkRecords /\ c.blk = r.blk /\ c.off = r.off /\ c.n = n
  BY <1>3, <1>7, <1>9, <1>10 DEF ChunkRecords
<1>16. ChunkOK(c, r.arena, w)
  <2>1. Until(c.blk, c.off + c.n, r.arena)
    BY <1>7, <1>9, <1>10, <1>15 DEF Until
  <2>2. ASSUME NEW k \in 1..n PROVE w[r.blk][r.off + k] = FILL
    <3>1. r.off + k <= BlockBytes /\ k \in 1..Len(s)
      BY <1>7, <1>10, <1>11, BuilderAssumption
    <3>2. QED
      BY <1>4, <1>9, <1>10, <1>11, <3>1, WrittenHere
  <2>3. QED
    BY <1>10, <1>15, <2>1, <2>2 DEF ChunkOK
<1>17. ASSUME NEW j \in Live PROVE Apart(builders[j], c.blk, c.off, c.n)
  <2>1. builders[j] \in BuilderRecords /\ BuilderOK(builders[j], texts[j], arena, bytes) /\ builders[j].arena
    BY <1>5, <1>6, LiveIsRecord DEF BuildersOK, InArena
  <2>2. QED
    BY <1>7, <1>10, <1>15, <2>1, FreshIsApart
<1>18. BuilderTypes' /\ BuildersOK' /\ BuildersApart'
  BY <1>5, <1>6, <1>9, <1>12, <1>14, <1>15 DEF BuilderTypes, BuildersOK, BuildersApart
<1>19. ChunksOK'
  BY <1>5, <1>6, <1>14, <1>16, <1>17 DEF ChunksOK
<1>20. ScopeOK'
  <2>1. mark # NoMark => ~Below(c)
    <3>1. mark # NoMark => mark \in Places /\ Until(mark.blk, mark.off, arena)
      BY <1>6 DEF BuilderTypes, ScopeOK
    <3>2. QED
      BY <1>7, <1>10, <1>15, <3>1, FreshIsAbove
  <2>2. QED
    BY <1>5, <1>6, <1>14, <2>1 DEF ScopeOK, Below
<1>21. QED
  BY <1>18, <1>19, <1>20 DEF BuildersInv

LEMMA BeginTempKeeps ==
  ASSUME BuildersInv, BeginTemp
  PROVE  BuildersInv'
<1>1. PICK r : r = Alloc(arena, bytes, StructBytes)
  OBVIOUS
<1>2. /\ lost = {} /\ InArena /\ r.ok /\ arena' = r.arena /\ bytes' = r.bytes
      /\ mark' = [blk |-> arena.blk, off |-> arena.off]
      /\ UNCHANGED <<builders, texts, chunks, lost>>
  BY <1>1 DEF BeginTemp, Running
<1>3. /\ BuilderTypes /\ BuildersOK /\ BuildersApart /\ ChunksOK /\ ScopeOK
      /\ Whole = Live /\ Live' = Live /\ Whole' = Live
  BY <1>2 DEF BuildersInv, Whole, Live
<1>4. arena \in Places /\ bytes \in Memory /\ StructBytes \in 1..BlockBytes
  BY <1>3, BuilderAssumption DEF BuilderTypes
<1>5. Allocation(arena, bytes, StructBytes, r)
  BY <1>1, <1>4, Allocated
<1>6. Grows(r.arena, r.bytes)
  BY <1>5 DEF Allocation, Grows
<1>7. /\ \A j \in Live : BuilderOK(builders[j], texts[j], r.arena, r.bytes)
      /\ \A e \in chunks : ChunkOK(e, r.arena, r.bytes)
  BY <1>2, <1>6, GrowsKeeps
<1>8. mark' = arena
  BY <1>2, <1>4 DEF Places
<1>9. BuilderTypes' /\ BuildersOK' /\ BuildersApart'
  BY <1>2, <1>3, <1>4, <1>6, <1>7, <1>8 DEF BuilderTypes, BuildersOK, BuildersApart, Grows
<1>10. ChunksOK'
  BY <1>2, <1>3, <1>7 DEF ChunksOK
<1>11. ScopeOK'
  <2>1. Until(arena.blk, arena.off, r.arena)
    BY <1>6 DEF Grows
  <2>2. \A e \in chunks : Until(e.blk, e.off + e.n, arena)
    BY <1>3 DEF ChunksOK, ChunkOK
  <2>3. \A j \in Live : builders[j].arena =>
          Until(builders[j].blk, builders[j].off + builders[j].capacity + 1, arena)
    BY <1>3 DEF BuildersOK, BuilderOK, OwnedAt
  <2>4. QED
    BY <1>2, <1>3, <1>8, <2>1, <2>2, <2>3 DEF ScopeOK
<1>12. QED
  BY <1>9, <1>10, <1>11 DEF BuildersInv

\* Above the mark everything is stale, and below it nothing is.
LEMMA StaleIs ==
  ASSUME NEW mem \in Memory, NEW q \in Places
  PROVE  /\ Stale(mem, q) \in Memory
         /\ \A d \in 1..Area, o \in Nat, m \in Nat :
              o + m <= BlockBytes /\ Given(d, o + m, q) => Same(mem, Stale(mem, q), d, o, m)
<1> DEFINE w == Stale(mem, q)
<1>1. DOMAIN mem = 1..Area /\ \A d \in 1..Area : \A k \in 1..BlockBytes : mem[d][k] \in Int
  BY DEF Memory
<1>2. \A d \in 1..Area : \A k \in 1..BlockBytes :
        w[d][k] = IF d <= MaxBlocks /\ (d > q.blk \/ (d = q.blk /\ k > q.off)) THEN FILL ELSE mem[d][k]
  BY <1>1 DEF Stale
<1>3. w \in Memory
  BY <1>1 DEF Stale, Memory, FILL
<1>4. ASSUME NEW d \in 1..Area, NEW o \in Nat, NEW m \in Nat, o + m <= BlockBytes, Given(d, o + m, q)
      PROVE  Same(mem, w, d, o, m)
  <2>1. ASSUME NEW k \in 1..m PROVE w[d][o + k] = mem[d][o + k]
    <3>1. PICK l \in 1..BlockBytes : l = o + k /\ l <= o + m
      BY <1>4, BuilderAssumption
    <3>2. ~(d <= MaxBlocks /\ (d > q.blk \/ (d = q.blk /\ l > q.off)))
      <4>1. d = MaxBlocks + 1 \/ d < q.blk \/ (d = q.blk /\ o + m <= q.off)
        BY <1>4, AreaIsLast DEF Given, Until
      <4>2. q.blk \in Nat /\ q.off \in Nat /\ MaxBlocks \in Nat
        BY BuilderAssumption DEF Places
      <4>3. CASE d = MaxBlocks + 1
        BY <4>2, <4>3
      <4>4. CASE d < q.blk
        BY <4>2, <4>4, AreaIsLast
      <4>5. CASE d = q.blk /\ o + m <= q.off
        BY <3>1, <4>2, <4>5
      <4>6. QED
        BY <4>1, <4>3, <4>4, <4>5
    <3>3. QED
      BY <1>2, <3>1, <3>2
  <2>2. QED
    BY <2>1 DEF Same
<1>5. QED
  BY <1>3, <1>4

LEMMA EndTempKeeps ==
  ASSUME BuildersInv, EndTemp
  PROVE  BuildersInv'
<1>1. PICK kept : kept = {i \in Live : ~builders[i].arena \/ Below(builders[i].struct)}
  OBVIOUS
<1>2. PICK w : w = Stale(bytes, mark)
  OBVIOUS
<1>3. /\ lost = {} /\ mark # NoMark /\ arena' = mark /\ mark' = NoMark /\ bytes' = w
      /\ chunks' = {c \in chunks : Below(c)}
      /\ builders' = [i \in Builders |-> IF i \in kept THEN builders[i] ELSE NoBuilder]
      /\ texts' = [i \in Builders |-> IF i \in kept THEN texts[i] ELSE <<>>]
      /\ lost' = grown \cap kept
  BY <1>1, <1>2 DEF EndTemp, Running
<1>4. BuilderTypes /\ BuildersOK /\ BuildersApart /\ ChunksOK /\ ScopeOK /\ Whole = Live
  BY <1>3 DEF BuildersInv, Whole
<1>5. mark \in Places /\ bytes \in Memory /\ kept \subseteq Live /\ Live \subseteq Builders
  BY <1>1, <1>3, <1>4 DEF BuilderTypes, Live
<1>6. /\ w \in Memory
      /\ \A d \in 1..Area, o \in Nat, m \in Nat :
           o + m <= BlockBytes /\ Given(d, o + m, mark) => Same(bytes, w, d, o, m)
  BY <1>2, <1>5, StaleIs
<1>7. /\ Live' = kept /\ Whole' = kept \ grown
      /\ \A i \in kept : builders'[i] = builders[i] /\ texts'[i] = texts[i]
  BY <1>3, <1>5 DEF Live, Whole
<1>8. BuilderTypes'
  BY <1>3, <1>4, <1>5, <1>6 DEF BuilderTypes
<1>9. ASSUME NEW i \in Whole' PROVE BuilderOK(builders[i], texts[i], mark, w)
  <2>1. PICK b : b = builders[i]
    OBVIOUS
  <2>2. i \in Live /\ i \in kept /\ i \notin grown /\ i \in Builders
    BY <1>5, <1>7
  <2>3. b \in BuilderRecords /\ BuilderOK(b, texts[i], arena, bytes)
    BY <1>4, <2>1, <2>2, LiveIsRecord DEF BuildersOK
  <2>4. PICK off \in Nat, cap \in Nat : off = b.off /\ cap = b.capacity
    BY <2>3, BuilderAssumption DEF BuilderRecords
  <2>5. off + cap + 1 = off + (cap + 1) /\ cap + 1 \in Nat
    OBVIOUS
  <2>6. b.arena => Until(b.blk, off + (cap + 1), mark)
    BY <1>1, <1>3, <1>4, <2>1, <2>2, <2>4, <2>5 DEF ScopeOK
  <2>7. /\ b.blk \in 1..Area /\ b.arena \in BOOLEAN /\ off + (cap + 1) <= BlockBytes
        /\ ~b.arena => b.blk = Area
    BY <2>3, <2>4, <2>5 DEF BuilderRecords, BuilderOK, OwnedAt
  <2>8. Same(bytes, w, b.blk, off, cap + 1)
    BY <1>6, <2>5, <2>6, <2>7 DEF Given
  <2>9. Holds(w, b, texts[i])
    BY <2>3, <2>4, <2>8, HoldsStill DEF BuilderOK
  <2>10. OwnedAt(b, mark)
    BY <2>3, <2>4, <2>5, <2>6 DEF BuilderOK, OwnedAt
  <2>11. QED
    BY <2>1, <2>9, <2>10 DEF BuilderOK
<1>10. BuildersOK' /\ BuildersApart'
  <2>1. BuildersOK'
    BY <1>3, <1>7, <1>9 DEF BuildersOK
  <2>2. Whole' \subseteq Live /\ \A i \in Whole' : builders'[i] = builders[i]
    BY <1>5, <1>7
  <2>3. QED
    BY <1>4, <2>1, <2>2 DEF BuildersApart
<1>11. ChunksOK'
  <2>1. ASSUME NEW e \in chunks, Below(e)
        PROVE  ChunkOK(e, mark, w) /\ \A i \in Whole' : Apart(builders'[i], e.blk, e.off, e.n)
    <3>1. /\ e \in ChunkRecords /\ ChunkOK(e, arena, bytes) /\ Until(e.blk, e.off + e.n, mark)
          /\ \A i \in Live : Apart(builders[i], e.blk, e.off, e.n)
      BY <1>3, <1>4, <2>1 DEF ChunksOK, BuilderTypes, ScopeOK
    <3>2. /\ e.blk \in 1..Area /\ e.off \in Nat /\ e.n \in Nat
          /\ e.off + e.n <= BlockBytes /\ Given(e.blk, e.off + e.n, mark)
      BY <3>1, AreaIsLast, BuilderAssumption DEF ChunkRecords, ChunkOK, Given
    <3>3. Same(bytes, w, e.blk, e.off, e.n)
      BY <1>6, <3>2
    <3>4. ChunkOK(e, mark, w)
      BY <3>1, <3>3 DEF ChunkOK, Same
    <3>5. QED
      BY <1>5, <1>7, <3>1, <3>4
  <2>2. QED
    BY <1>3, <2>1 DEF ChunksOK
<1>12. ScopeOK'
  BY <1>3 DEF ScopeOK
<1>13. QED
  BY <1>8, <1>10, <1>11, <1>12 DEF BuildersInv

LEMMA DestroyKeeps ==
  ASSUME BuildersInv, NEW i \in Builders, Destroy(i)
  PROVE  BuildersInv'
<1>1. PICK b : b = builders[i]
  OBVIOUS
<1>2. PICK w : w = Erase(bytes, b)
  OBVIOUS
<1>3. /\ lost = {} /\ i \in Live /\ bytes' = w
      /\ builders' = [builders EXCEPT ![i] = NoBuilder] /\ texts' = [texts EXCEPT ![i] = <<>>]
      /\ UNCHANGED <<arena, mark, chunks, grown, lost>>
  BY <1>1, <1>2 DEF Destroy, Running
<1>4. BuilderTypes /\ BuildersOK /\ BuildersApart /\ ChunksOK /\ ScopeOK /\ Whole = Live
  BY <1>3 DEF BuildersInv, Whole
<1>5. arena \in Places /\ bytes \in Memory /\ b \in BuilderRecords
  BY <1>1, <1>3, <1>4, LiveIsRecord DEF BuilderTypes
<1>6. PICK blk \in 1..Area, off \in Nat, cap \in Nat : blk = b.blk /\ off = b.off /\ cap = b.capacity
  BY <1>5, BuilderAssumption DEF BuilderRecords
<1>7. ClearedAt(w, bytes, blk, off, cap + 1)
  <2>1. cap + 1 \in Nat
    OBVIOUS
  <2>2. QED
    BY <1>2, <1>5, <1>6, <2>1, Cleared DEF Erase
<1>8. ASSUME NEW d \in 1..Area, NEW o \in Nat, NEW m \in Nat, o + m <= BlockBytes, Apart(b, d, o, m)
      PROVE  Same(bytes, w, d, o, m)
  <2>1. d # blk \/ o + m <= off \/ off + (cap + 1) <= o
    <3>1. blk # d \/ off + cap + 1 <= o \/ o + m <= off
      BY <1>6, <1>8 DEF Apart
    <3>2. off + cap + 1 = off + (cap + 1)
      OBVIOUS
    <3>3. QED
      BY <3>1, <3>2
  <2>2. QED
    BY <1>7, <1>8, <2>1 DEF ClearedAt
<1>9. /\ Live' = Live \ {i} /\ Whole' = Live \ {i}
      /\ \A j \in Live \ {i} : j \in Builders /\ builders'[j] = builders[j] /\ texts'[j] = texts[j]
  BY <1>3, <1>4 DEF Live, Whole, BuilderTypes
<1>10. BuilderTypes'
  BY <1>3, <1>4, <1>7 DEF BuilderTypes, ClearedAt
<1>11. ASSUME NEW j \in Live \ {i} PROVE BuilderOK(builders[j], texts[j], arena, w)
  <2>1. PICK e : e = builders[j]
    OBVIOUS
  <2>2. e \in BuilderRecords /\ BuilderOK(e, texts[j], arena, bytes) /\ e.arena /\ Apart(b, e.blk, e.off, e.capacity + 1)
    BY <1>1, <1>3, <1>4, <2>1, LiveIsRecord DEF BuildersOK, BuildersApart
  <2>3. /\ e.blk \in 1..Area /\ e.off \in Nat /\ e.capacity + 1 \in Nat /\ e.off + (e.capacity + 1) <= BlockBytes
    BY <2>2, BuilderPlace, AreaIsLast
  <2>4. Same(bytes, w, e.blk, e.off, e.capacity + 1)
    BY <1>8, <2>2, <2>3
  <2>5. QED
    BY <2>1, <2>2, <2>4, HoldsStill DEF BuilderOK
<1>12. BuildersOK' /\ BuildersApart'
  BY <1>3, <1>4, <1>9, <1>11 DEF BuildersOK, BuildersApart
<1>13. ChunksOK'
  <2>1. ASSUME NEW e \in chunks
        PROVE  ChunkOK(e, arena, w) /\ \A j \in Live : Apart(builders[j], e.blk, e.off, e.n)
    <3>1. /\ e \in ChunkRecords /\ ChunkOK(e, arena, bytes) /\ Apart(b, e.blk, e.off, e.n)
          /\ \A j \in Live : Apart(builders[j], e.blk, e.off, e.n)
      BY <1>1, <1>3, <1>4 DEF ChunksOK, BuilderTypes
    <3>2. e.blk \in 1..Area /\ e.off \in Nat /\ e.n \in Nat /\ e.off + e.n <= BlockBytes
      BY <3>1, AreaIsLast, BuilderAssumption DEF ChunkRecords, ChunkOK
    <3>3. Same(bytes, w, e.blk, e.off, e.n)
      BY <1>8, <3>1, <3>2
    <3>4. QED
      BY <3>1, <3>3 DEF ChunkOK, Same
  <2>2. QED
    BY <1>3, <1>9, <2>1 DEF ChunksOK
<1>14. ScopeOK'
  BY <1>3, <1>4, <1>9 DEF ScopeOK, Below
<1>15. QED
  BY <1>10, <1>12, <1>13, <1>14 DEF BuildersInv

LEMMA CapacityIsEnough ==
  ASSUME NEW len \in Nat, NEW capacity \in InitialCapacities
  PROVE  CapacityFor(len, capacity) \in Nat /\ len <= CapacityFor(len, capacity)
<1>1. capacity \in Nat /\ DefaultCapacity \in Nat
  BY BuilderAssumption
<1>2. PICK most \in Nat : most = Larger(len, capacity) /\ len <= most
  BY <1>1 DEF Larger
<1>3. PICK ideal \in Nat : ideal = Roomy(most) /\ len <= ideal
  BY <1>2, RoomyIsMore
<1>4. CapacityFor(len, capacity) = Larger(capacity, IF ideal = 0 THEN DefaultCapacity ELSE ideal)
  BY <1>2, <1>3 DEF CapacityFor
<1>5. PICK room \in Nat : room = (IF ideal = 0 THEN DefaultCapacity ELSE ideal) /\ len <= room
  BY <1>1, <1>3
<1>6. QED
  BY <1>1, <1>4, <1>5 DEF Larger

\* A cleared buffer into which a text is copied, with or without its NUL.
LEMMA FirstText ==
  ASSUME NEW mem \in Memory, NEW b \in BuilderRecords, NEW str \in Seq(TextLetters), b.length = Len(str),
         b.length <= b.capacity, b.off + b.capacity + 1 <= BlockBytes,
         \A k \in 1..(b.capacity + 1) : mem[b.blk][b.off + k] = TERMINATOR,
         NEW s, s = str \/ s = Append(str, TERMINATOR)
  PROVE  s \in Seq(Int) /\ Len(s) <= b.capacity + 1 /\ Holds(Write(mem, b.blk, b.off, s), b, str)
<1>1. PICK n \in Nat, cap \in Nat, off \in Nat : n = Len(str) /\ n = b.length /\ cap = b.capacity /\ off = b.off
  BY BuilderAssumption DEF BuilderRecords
<1>2. PICK e : e = [b EXCEPT !.length = 0]
  OBVIOUS
<1>3. /\ e \in BuilderRecords /\ e.blk = b.blk /\ e.off = off /\ e.capacity = cap /\ e.length = 0
      /\ b = [e EXCEPT !.length = n]
  BY <1>1, <1>2 DEF BuilderRecords
<1>4. PICK none : none = <<>>
  OBVIOUS
<1>5. none \in Seq(Int) /\ none \in Seq(TextLetters) /\ Len(none) = 0 /\ none \o str = str
  BY <1>4, EmptySeq, ConcatEmptySeq
<1>6. Holds(mem, e, none)
  <2>1. \A k \in 1..(cap + 1) : mem[e.blk][off + k] = TERMINATOR /\ ~(k <= 0)
    BY <1>1, <1>3
  <2>2. 0 <= cap
    OBVIOUS
  <2>3. QED
    BY <1>3, <1>5, <2>1, <2>2 DEF Holds
<1>7. str \in Seq(Int)
  BY LettersAreInts, SeqMonotonic
<1>8. Append(str, TERMINATOR) \in Seq(Int) /\ Spliced(Append(str, TERMINATOR), 0, none, n, str)
  BY <1>1, <1>5, AppendSplices
<1>9. Spliced(str, 0, none, n, str)
  <2>1. 0 <= 0 /\ n = 0 + n /\ \A k \in 1..n : 0 + k = k /\ 0 + k <= n
    OBVIOUS
  <2>2. QED
    BY <1>1, <1>5, <2>1 DEF Spliced
<1>10. s \in Seq(Int) /\ Spliced(s, 0, none, n, str)
  BY <1>7, <1>8, <1>9
<1>11. PICK l \in Nat : l = Len(s) /\ l <= n + 1
  <2>1. 0 + Len(s) = n \/ 0 + Len(s) = n + 1
    BY <1>1, <1>10 DEF Spliced
  <2>2. Len(s) \in Nat
    BY <1>10
  <2>3. QED
    BY <2>1, <2>2
<1>12. n <= cap /\ l <= cap + 1 /\ off + 0 = off /\ 0 + n = n
  BY <1>1, <1>11
<1>13. e.off + e.capacity + 1 <= BlockBytes /\ Len(str) <= e.capacity
  BY <1>1, <1>3, <1>12
<1>14. Holds(Write(mem, e.blk, e.off + 0, s), [e EXCEPT !.length = @ + n], str)
  BY <1>3, <1>5, <1>6, <1>7, <1>10, <1>13, PutHolds
<1>15. Holds(Write(mem, b.blk, b.off, s), b, str)
  BY <1>1, <1>3, <1>12, <1>14
<1>16. QED
  BY <1>1, <1>10, <1>11, <1>12, <1>15

\* Two allocations, one after the other.
LEMMA GrowsTwice ==
  ASSUME arena \in Places, NEW n, NEW x, Allocation(arena, bytes, n, x), NEW m, NEW y, Allocation(x.arena, x.bytes, m, y)
  PROVE  Grows(y.arena, y.bytes)
<1>1. /\ x.arena \in Places /\ y.arena \in Places /\ y.bytes \in Memory
      /\ Until(arena.blk, arena.off, x.arena) /\ Until(x.arena.blk, x.arena.off, y.arena)
      /\ arena.blk \in Nat /\ arena.off \in Nat
  BY BuilderAssumption DEF Allocation, Places
<1>2. Until(arena.blk, arena.off, y.arena)
  BY <1>1, UntilLater
<1>3. ASSUME NEW d \in 1..Area, NEW o \in Nat, NEW k \in Nat, o + k <= BlockBytes, Given(d, o + k, arena)
      PROVE  Same(bytes, y.bytes, d, o, k)
  <2>1. Given(d, o + k, x.arena)
    <3>1. d \in Nat /\ o + k \in Nat
      BY AreaIsLast
    <3>2. QED
      BY <1>1, <1>3, <3>1, UntilLater DEF Given
  <2>2. Same(bytes, x.bytes, d, o, k) /\ Same(x.bytes, y.bytes, d, o, k)
    BY <1>3, <2>1 DEF Allocation
  <2>3. QED
    BY <2>2, SameTwice
<1>4. QED
  BY <1>1, <1>2, <1>3 DEF Grows

LEMMA FreshLater ==
  ASSUME arena \in Places, NEW q \in Places, Until(arena.blk, arena.off, q), NEW blk \in Nat, NEW off \in Nat,
         (blk = q.blk /\ off = q.off) \/ q.blk < blk
  PROVE  Fresh(blk, off)
  BY BuilderAssumption DEF Places, Until, Fresh

\* The steps that only take more of the arena.
LEMMA GrowsAlone ==
  ASSUME BuildersInv, lost = {}, Grows(arena', bytes'), UNCHANGED <<builders, mark, texts, chunks, grown, lost>>
  PROVE  BuildersInv'
<1>1. /\ BuilderTypes /\ BuildersApart /\ ChunksOK /\ ScopeOK /\ Whole = Live /\ Live' = Live /\ Whole' = Live
  BY DEF BuildersInv, Whole, Live
<1>2. /\ \A j \in Live : BuilderOK(builders[j], texts[j], arena', bytes')
      /\ \A e \in chunks : ChunkOK(e, arena', bytes')
      /\ mark # NoMark => Until(mark.blk, mark.off, arena')
  BY GrowsKeeps
<1>3. BuilderTypes' /\ BuildersOK' /\ BuildersApart'
  BY <1>1, <1>2 DEF Grows, BuilderTypes, BuildersOK, BuildersApart
<1>4. ChunksOK' /\ ScopeOK'
  BY <1>1, <1>2 DEF ChunksOK, ScopeOK, Below
<1>5. QED
  BY <1>3, <1>4 DEF BuildersInv

LEMMA FromCStringKeeps ==
  ASSUME BuildersInv, NEW i \in Builders, NEW str \in Strings \cup {<<>>}, NEW capacity \in InitialCapacities,
         FromCString(i, str, capacity)
  PROVE  BuildersInv'
<1>1. PICK c : c = CapacityFor(Len(str), capacity)
  OBVIOUS
<1>2. PICK x : x = Alloc(arena, bytes, StructBytes)
  OBVIOUS
<1>3. PICK y : y = Alloc(x.arena, x.bytes, c + 1)
  OBVIOUS
<1>4. PICK b : b = [blk |-> y.blk, off |-> y.off, capacity |-> c, length |-> Len(str), arena |-> TRUE,
                    struct |-> [blk |-> x.blk, off |-> x.off]]
  OBVIOUS
<1>5. PICK s : s = Append(str, TERMINATOR)
  OBVIOUS
<1>6. /\ lost = {} /\ InArena /\ i \notin Live /\ c + 1 <= BlockBytes /\ arena' = y.arena
      /\ IF x.ok /\ y.ok
         THEN /\ builders' = [builders EXCEPT ![i] = b]
              /\ bytes' = Write(y.bytes, y.blk, y.off, s)
              /\ texts' = [texts EXCEPT ![i] = str]
         ELSE bytes' = y.bytes /\ UNCHANGED <<builders, texts>>
      /\ UNCHANGED <<mark, chunks, grown, lost>>
  BY <1>1, <1>2, <1>3, <1>4, <1>5 DEF FromCString, Running
<1>7. /\ BuilderTypes /\ BuildersOK /\ BuildersApart /\ ChunksOK /\ ScopeOK /\ Whole = Live
      /\ arena \in Places /\ bytes \in Memory
  BY <1>6 DEF BuildersInv, Whole, BuilderTypes
<1>8. str \in Seq(TextLetters)
  BY BuilderAssumption, LettersAreInts, EmptySeq
<1>9. c \in Nat /\ Len(str) \in Nat /\ Len(str) <= c
  BY <1>1, <1>8, CapacityIsEnough
<1>10. Allocation(arena, bytes, StructBytes, x)
  BY <1>2, <1>7, BuilderAssumption, Allocated
<1>11. Allocation(x.arena, x.bytes, c + 1, y)
  <2>1. c + 1 \in 1..BlockBytes
    BY <1>6, <1>9, BuilderAssumption
  <2>2. QED
    BY <1>3, <1>10, <2>1, Allocated DEF Allocation
<1>12. Grows(y.arena, y.bytes)
  BY <1>7, <1>10, <1>11, GrowsTwice
<1>13. CASE ~(x.ok /\ y.ok)
  BY <1>6, <1>12, <1>13, GrowsAlone
<1>14. CASE x.ok /\ y.ok
  <2>1. PICK w : w = Write(y.bytes, y.blk, y.off, s)
    OBVIOUS
  <2>2. /\ builders' = [builders EXCEPT ![i] = b] /\ bytes' = w /\ texts' = [texts EXCEPT ![i] = str]
        /\ i \in Builders
    BY <1>6, <1>14, <2>1
  <2>3. x.arena \in Places /\ x.bytes \in Memory /\ Until(arena.blk, arena.off, x.arena)
    BY <1>10 DEF Allocation
  <2>4. x.blk \in Nat /\ x.off \in Nat /\ Fresh(x.blk, x.off)
    BY <1>7, <1>10, <1>14, AllocatedIsFresh
  <2>5. /\ y.blk \in 1..MaxBlocks /\ y.blk \in 1..Area /\ y.blk \in Nat /\ y.off \in Nat /\ y.off \in 0..BlockBytes
        /\ y.off + (c + 1) <= BlockBytes /\ y.bytes \in Memory
        /\ y.arena = [blk |-> y.blk, off |-> y.off + (c + 1)]
        /\ (y.blk = x.arena.blk /\ y.off = x.arena.off) \/ x.arena.blk < y.blk
        /\ \A k \in 1..(c + 1) : y.bytes[y.blk][y.off + k] = TERMINATOR
    <3>1. /\ y.blk \in 1..MaxBlocks /\ y.off \in 0..BlockBytes
          /\ y.off + (c + 1) <= BlockBytes /\ y.bytes \in Memory
          /\ y.arena = [blk |-> y.blk, off |-> y.off + (c + 1)]
          /\ (y.blk = x.arena.blk /\ y.off = x.arena.off) \/ x.arena.blk < y.blk
          /\ \A k \in 1..(c + 1) : y.bytes[y.blk][y.off + k] = TERMINATOR
      BY <1>11, <1>14 DEF Allocation
    <3>2. y.blk \in 1..Area /\ y.blk \in Nat /\ y.off \in Nat
      BY <3>1, AreaIsLast, BuilderAssumption
    <3>3. QED
      BY <3>1, <3>2
  <2>6. Fresh(y.blk, y.off)
    BY <1>7, <2>3, <2>5, FreshLater
  <2>7. /\ b \in BuilderRecords /\ b.blk = y.blk /\ b.off = y.off /\ b.capacity = c /\ b.length = Len(str)
        /\ b.arena = TRUE /\ b.struct.blk = x.blk /\ b.struct.off = x.off
    BY <1>4, <1>9, <2>4, <2>5 DEF BuilderRecords
  <2>8. b.off + b.capacity + 1 <= BlockBytes /\ b.off + b.capacity + 1 = y.off + (c + 1)
    BY <1>9, <2>5, <2>7
  <2>9. s \in Seq(Int) /\ Len(s) <= c + 1 /\ Holds(w, b, str)
    BY <1>5, <1>8, <1>9, <2>1, <2>5, <2>7, <2>8, FirstText
  <2>10. w \in Memory
    BY <2>1, <2>5, <2>9, Written DEF WrittenAt
  <2>11. ASSUME NEW d \in 1..Area, NEW o \in Nat, NEW m \in Nat, o + m <= BlockBytes, Given(d, o + m, arena)
         PROVE  Same(bytes, w, d, o, m)
    <3>1. d # y.blk \/ o + m <= y.off
      <4>1. d = Area \/ d < arena.blk \/ (d = arena.blk /\ o + m <= arena.off)
        BY <2>11 DEF Given, Until
      <4>2. y.blk # Area
        BY <2>5, AreaIsLast, BuilderAssumption
      <4>3. arena.blk \in Nat /\ arena.off \in Nat
        BY <1>7, BuilderAssumption DEF Places
      <4>4. QED
        BY <2>5, <2>6, <4>1, <4>2, <4>3 DEF Fresh
    <3>2. Same(y.bytes, w, d, o, m)
      BY <2>1, <2>5, <2>9, <2>11, <3>1, WrittenElsewhere
    <3>3. Same(bytes, y.bytes, d, o, m)
      BY <1>12, <2>11 DEF Grows
    <3>4. QED
      BY <3>2, <3>3, SameTwice
  <2>12. Grows(y.arena, w)
    BY <1>12, <2>10, <2>11 DEF Grows
  <2>13. /\ \A j \in Live : BuilderOK(builders[j], texts[j], y.arena, w)
         /\ \A e \in chunks : ChunkOK(e, y.arena, w)
         /\ mark # NoMark => Until(mark.blk, mark.off, y.arena)
    BY <1>6, <2>12, GrowsKeeps
  <2>14. BuilderOK(b, str, y.arena, w)
    <3>1. y.arena.blk = y.blk /\ y.arena.off = y.off + (c + 1)
      BY <2>5
    <3>2. Until(b.blk, b.off + b.capacity + 1, y.arena)
      BY <1>9, <2>5, <2>7, <2>8, <3>1 DEF Until
    <3>3. QED
      BY <2>5, <2>7, <2>8, <2>9, <3>2 DEF BuilderOK, OwnedAt
  <2>15. /\ builders'[i] = b /\ texts'[i] = str
         /\ \A j \in Builders : j # i => builders'[j] = builders[j] /\ texts'[j] = texts[j]
    BY <1>7, <2>2 DEF BuilderTypes
  <2>16. /\ Live' = Live \cup {i} /\ Whole' = Live \cup {i} /\ Live \subseteq Builders
    BY <1>6, <2>7, <2>15, RecordIsLive DEF Live, Whole
  <2>17. ASSUME NEW j \in Live
         PROVE  /\ builders[j].arena /\ Apart(builders[j], b.blk, b.off, b.capacity + 1)
                /\ Apart(b, builders[j].blk, builders[j].off, builders[j].capacity + 1)
    <3>1. builders[j] \in BuilderRecords /\ BuilderOK(builders[j], texts[j], arena, bytes) /\ builders[j].arena
      BY <1>6, <1>7, LiveIsRecord DEF BuildersOK, InArena
    <3>2. Apart(builders[j], b.blk, b.off, b.capacity + 1)
      BY <1>7, <2>5, <2>6, <2>7, <3>1, FreshIsApart
    <3>3. QED
      BY <2>7, <3>1, <3>2, ApartBothWays
  <2>18. BuilderTypes'
    BY <1>6, <1>7, <1>8, <1>12, <2>2, <2>7, <2>10 DEF BuilderTypes, Grows
  <2>19. BuildersOK'
    BY <1>6, <2>2, <2>13, <2>14, <2>15, <2>16 DEF BuildersOK
  <2>20. BuildersApart'
    <3>1. ASSUME NEW j \in Live \cup {i}, NEW k \in Live \cup {i}, j # k
          PROVE  /\ builders'[j].arena
                 /\ Apart(builders'[j], builders'[k].blk, builders'[k].off, builders'[k].capacity + 1)
      <4>1. CASE j = i
        BY <1>6, <2>7, <2>15, <2>16, <2>17, <3>1, <4>1
      <4>2. CASE k = i
        BY <1>6, <2>15, <2>16, <2>17, <3>1, <4>2
      <4>3. CASE j # i /\ k # i
        BY <1>7, <2>15, <2>16, <3>1, <4>3 DEF BuildersApart
      <4>4. QED
        BY <4>1, <4>2, <4>3
    <3>2. QED
      BY <2>16, <3>1 DEF BuildersApart
  <2>21. ChunksOK'
    <3>1. ASSUME NEW e \in chunks PROVE Apart(b, e.blk, e.off, e.n)
      <4>1. e \in ChunkRecords /\ ChunkOK(e, arena, bytes)
        BY <1>7 DEF ChunksOK, BuilderTypes
      <4>2. PICK end \in Nat : end = e.off + e.n /\ e.blk \in Nat
        BY <4>1, BuilderAssumption DEF ChunkRecords
      <4>3. e.blk < arena.blk \/ (e.blk = arena.blk /\ end <= arena.off)
        BY <4>1, <4>2 DEF ChunkOK, Until
      <4>4. arena.blk \in Nat /\ arena.off \in Nat
        BY <1>7, BuilderAssumption DEF Places
      <4>5. b.blk # e.blk \/ end <= b.off
        BY <2>5, <2>6, <2>7, <4>2, <4>3, <4>4 DEF Fresh
      <4>6. QED
        BY <4>2, <4>5 DEF Apart
    <3>2. \A e \in chunks : \A j \in Live : Apart(builders[j], e.blk, e.off, e.n)
      BY <1>7 DEF ChunksOK
    <3>3. QED
      BY <1>6, <2>2, <2>13, <2>15, <2>16, <3>1, <3>2 DEF ChunksOK
  <2>22. ScopeOK'
    <3>1. mark # NoMark => ~Below(b.struct)
      <4>1. mark # NoMark => mark \in Places /\ Until(mark.blk, mark.off, arena)
        BY <1>7 DEF BuilderTypes, ScopeOK
      <4>2. QED
        BY <1>7, <2>4, <2>7, <4>1, FreshIsAbove
    <3>2. SUFFICES ASSUME mark # NoMark
                   PROVE  /\ Until(mark.blk, mark.off, y.arena)
                          /\ \A e \in chunks : Below(e) => Until(e.blk, e.off + e.n, mark)
                          /\ \A j \in Whole' \ grown : builders'[j].arena /\ Below(builders'[j].struct) =>
                               Until(builders'[j].blk, builders'[j].off + builders'[j].capacity + 1, mark)
      BY <1>6 DEF ScopeOK, Below
    <3>3. \A e \in chunks : Below(e) => Until(e.blk, e.off + e.n, mark)
      BY <1>7, <3>2 DEF ScopeOK
    <3>4. ASSUME NEW j \in Whole' \ grown, builders'[j].arena, Below(builders'[j].struct)
          PROVE  Until(builders'[j].blk, builders'[j].off + builders'[j].capacity + 1, mark)
      <4>1. j # i
        BY <2>15, <3>1, <3>2, <3>4
      <4>2. j \in Live /\ builders'[j] = builders[j]
        BY <2>15, <2>16, <4>1
      <4>3. QED
        BY <1>7, <3>2, <3>4, <4>2 DEF ScopeOK
    <3>5. QED
      BY <2>13, <3>2, <3>3, <3>4
  <2>23. QED
    BY <2>18, <2>19, <2>20, <2>21, <2>22 DEF BuildersInv
<1>15. QED
  BY <1>13, <1>14

LEMMA SbInitKeeps ==
  ASSUME BuildersInv, NEW i \in Builders, NEW str \in Strings \cup {<<>>}, NEW capacity \in InitialCapacities,
         SbInit(i, str, capacity)
  PROVE  BuildersInv'
<1>1. PICK c : c = CapacityFor(Len(str), capacity)
  OBVIOUS
<1>2. PICK b : b = [NoBuilder EXCEPT !.blk = Area, !.capacity = c, !.length = Len(str)]
  OBVIOUS
<1>3. PICK filled : filled = [bytes EXCEPT ![Area] = [k \in DOMAIN @ |-> FILL]]
  OBVIOUS
<1>4. PICK clear : clear = Clear(filled, Area, 0, c + 1)
  OBVIOUS
<1>5. PICK w : w = Write(clear, Area, 0, str)
  OBVIOUS
<1>6. /\ lost = {} /\ Live = {} /\ arena = Start /\ c + 1 <= BlockBytes
      /\ builders' = [builders EXCEPT ![i] = b] /\ bytes' = w /\ texts' = [texts EXCEPT ![i] = str]
      /\ UNCHANGED <<arena, mark, chunks, grown, lost>>
  BY <1>1, <1>2, <1>3, <1>4, <1>5 DEF SbInit, Running
<1>7. BuilderTypes /\ ChunksOK /\ ScopeOK /\ arena \in Places /\ bytes \in Memory
  BY DEF BuildersInv, BuilderTypes
<1>8. str \in Seq(TextLetters)
  BY BuilderAssumption, LettersAreInts, EmptySeq
<1>9. c \in Nat /\ Len(str) \in Nat /\ Len(str) <= c
  BY <1>1, <1>8, CapacityIsEnough
<1>10. /\ b \in BuilderRecords /\ b.blk = Area /\ b.off = 0 /\ b.capacity = c /\ b.length = Len(str)
       /\ b.arena = FALSE
  <2>1. b = [blk |-> Area, off |-> 0, capacity |-> c, length |-> Len(str), arena |-> FALSE,
             struct |-> [blk |-> 0, off |-> 0]]
    BY <1>2 DEF NoBuilder
  <2>2. Area \in 1..Area /\ 0 \in 0..BlockBytes
    BY AreaIsLast, BuilderAssumption
  <2>3. QED
    BY <1>9, <2>1, <2>2 DEF BuilderRecords
<1>11. filled \in Memory
  <2>1. DOMAIN bytes[Area] = 1..BlockBytes
    BY <1>7, AreaIsLast DEF Memory
  <2>2. PICK row : row = [k \in 1..BlockBytes |-> FILL]
    OBVIOUS
  <2>3. row \in [1..BlockBytes -> Int] /\ filled = [bytes EXCEPT ![Area] = row]
    BY <1>3, <2>1, <2>2 DEF FILL
  <2>4. QED
    BY <1>7, <2>3, AreaIsLast DEF Memory
<1>12. ClearedAt(clear, filled, Area, 0, c + 1)
  <2>1. c + 1 \in Nat
    BY <1>9
  <2>2. QED
    BY <1>4, <1>11, <2>1, AreaIsLast, Cleared
<1>13. clear \in Memory /\ \A k \in 1..(c + 1) : clear[Area][0 + k] = TERMINATOR
  <2>1. ASSUME NEW k \in 1..(c + 1) PROVE 0 + k <= BlockBytes
    BY <1>6, <1>9, BuilderAssumption
  <2>2. QED
    BY <1>12, <2>1 DEF ClearedAt
<1>14. b.off + b.capacity + 1 <= BlockBytes
  BY <1>6, <1>9, <1>10
<1>15. str \in Seq(Int) /\ Holds(w, b, str)
  BY <1>5, <1>8, <1>9, <1>10, <1>13, <1>14, FirstText
<1>16. w \in Memory
  BY <1>5, <1>13, <1>15, AreaIsLast, Written DEF WrittenAt
<1>17. builders'[i] = b /\ texts'[i] = str /\ \A j \in Builders : j # i => builders'[j] = builders[j]
  BY <1>6, <1>7 DEF BuilderTypes
<1>18. Live' = {i} /\ Whole' = {i}
  BY <1>6, <1>10, <1>17, RecordIsLive DEF Live, Whole
<1>19. chunks = {}
  <2>1. ASSUME NEW e \in chunks PROVE FALSE
    <3>1. e \in ChunkRecords /\ Until(e.blk, e.off + e.n, arena)
      BY <1>7 DEF ChunksOK, ChunkOK, BuilderTypes
    <3>2. arena.blk = 1 /\ arena.off = 0
      BY <1>6 DEF Start
    <3>3. e.blk \in Nat /\ e.off \in Nat /\ e.n \in Nat /\ e.n >= 1 /\ e.blk >= 1
      BY <3>1, BuilderAssumption DEF ChunkRecords
    <3>4. QED
      BY <3>1, <3>2, <3>3 DEF Until
  <2>2. QED
    BY <2>1
<1>20. BuilderTypes'
  BY <1>6, <1>7, <1>8, <1>10, <1>16 DEF BuilderTypes
<1>21. BuildersOK' /\ BuildersApart' /\ ChunksOK'
  <2>1. OwnedAt(b, arena)
    BY <1>10, <1>14 DEF OwnedAt
  <2>2. QED
    BY <1>6, <1>15, <1>17, <1>18, <1>19, <2>1 DEF BuildersOK, BuildersApart, ChunksOK, BuilderOK
<1>22. ScopeOK'
  BY <1>6, <1>7, <1>10, <1>17, <1>18, <1>19 DEF ScopeOK
<1>23. QED
  BY <1>20, <1>21, <1>22 DEF BuildersInv

LEMMA BuildersStart == BuilderInit => BuildersInv
<1> SUFFICES ASSUME BuilderInit PROVE BuildersInv
  OBVIOUS
<1>1. Live = {} /\ Whole = {} /\ chunks = {} /\ mark = NoMark
  BY DEF BuilderInit, Live, Whole
<1>2. Start \in Places
  BY BuilderAssumption DEF Start, Places
<1>3. <<>> \in Seq(TextLetters)
  BY EmptySeq
<1>4. [k \in 1..Area |-> [o \in 1..BlockBytes |-> TERMINATOR]] \in Memory
  BY DEF Memory, TERMINATOR
<1>5. BuilderTypes
  BY <1>1, <1>2, <1>3, <1>4 DEF BuilderInit, BuilderTypes
<1>6. QED
  BY <1>1, <1>5 DEF BuildersInv, BuildersOK, BuildersApart, ChunksOK, ScopeOK

LEMMA BuildersStep == BuildersInv /\ [BuilderNext]_builderVars => BuildersInv'
<1> SUFFICES ASSUME BuildersInv, [BuilderNext]_builderVars PROVE BuildersInv'
  OBVIOUS
<1>1. ASSUME NEW i \in Builders, NEW s \in Strings \cup {<<>>}, NEW c \in InitialCapacities, FromCString(i, s, c)
      PROVE  BuildersInv'
  BY <1>1, FromCStringKeeps
<1>2. ASSUME NEW i \in Builders, NEW s \in Strings \cup {<<>>}, NEW c \in InitialCapacities, SbInit(i, s, c)
      PROVE  BuildersInv'
  BY <1>2, SbInitKeeps
<1>3. ASSUME NEW i \in Builders, Destroy(i) PROVE BuildersInv'
  BY <1>3, DestroyKeeps
<1>4. ASSUME NEW i \in Builders, NEW s \in Strings, AppendTo(i, s) PROVE BuildersInv'
  BY <1>4, AppendKeeps
<1>5. ASSUME NEW i \in Builders, NEW s \in Strings, NEW k \in 0..MaxText, InsertStr(i, s, k) PROVE BuildersInv'
  BY <1>5, InsertStrKeeps
<1>6. ASSUME NEW i \in Builders, NEW c \in Letters, NEW k \in 0..MaxText, InsertChar(i, c, k) PROVE BuildersInv'
  BY <1>6, InsertCharKeeps
<1>7. ASSUME NEW i \in Builders, NEW s \in Strings, NEW c \in Letters, ReplaceMatch(i, Range(s), c)
      PROVE  BuildersInv'
  BY <1>7, ReplaceKeeps
<1>8. ASSUME NEW n \in OtherSizes, Other(n) PROVE BuildersInv'
  BY <1>8, OtherKeeps
<1>9. CASE BeginTemp
  BY <1>9, BeginTempKeeps
<1>10. CASE EndTemp
  BY <1>10, EndTempKeeps
<1>11. CASE UNCHANGED builderVars
  BY <1>11, StandsStill
<1>12. QED
  BY <1>1, <1>2, <1>3, <1>4, <1>5, <1>6, <1>7, <1>8, <1>9, <1>10, <1>11 DEF BuilderNext

\* A copy in a buffer that was clear.
LEMMA CopyIs ==
  ASSUME NEW i, NEW text \in Seq(TextLetters), Len(text) = builders[i].length,
         Read(bytes, builders[i].blk, builders[i].off, builders[i].length) = text, NEW n \in 1..MaxText
  PROVE  LET copy == CopyTo(i, [k \in 1..n |-> TERMINATOR])
             m == IF builders[i].length < n THEN builders[i].length ELSE n - 1
         IN  SubSeq(copy, 1, m) = SubSeq(text, 1, m) /\ copy[m + 1] = TERMINATOR
<1>1. PICK b : b = builders[i]
  OBVIOUS
<1>2. PICK len \in Nat : len = Len(text) /\ len = b.length
  BY <1>1
<1>3. n \in Nat /\ n >= 1
  BY BuilderAssumption
<1>4. PICK m \in Nat : m = (IF len < n THEN len ELSE n - 1) /\ m <= len /\ m < n
  BY <1>3
<1>5. PICK lim \in Nat : lim = (IF len < n THEN len ELSE n) /\ m <= lim /\ lim <= len
  <2>1. CASE len < n
    <3>1. m = len
      BY <1>4, <2>1
    <3>2. QED
      BY <2>1, <3>1
  <2>2. CASE ~(len < n)
    <3>1. n <= len
      BY <1>3, <2>2
    <3>2. QED
      BY <1>3, <1>4, <2>2, <3>1
  <2>3. QED
    BY <2>1, <2>2
<1>6. PICK blank : blank = [k \in 1..n |-> TERMINATOR]
  OBVIOUS
<1>7. blank \in Seq(Int) /\ Len(blank) = n /\ \A k \in 1..n : blank[k] = TERMINATOR
  BY <1>3, <1>6 DEF TERMINATOR
<1>8. PICK copied : copied = Read(bytes, b.blk, b.off, lim)
  OBVIOUS
<1>9. \A k \in 1..lim : copied[k] = text[k]
  <2>1. ASSUME NEW k \in 1..lim PROVE copied[k] = text[k]
    <3>1. k \in 1..len
      BY <1>5
    <3>2. text[k] = IF b.off + k <= BlockBytes THEN bytes[b.blk][b.off + k] ELSE FILL
      BY <1>1, <1>2, <3>1 DEF Read
    <3>3. copied[k] = IF b.off + k <= BlockBytes THEN bytes[b.blk][b.off + k] ELSE FILL
      BY <1>8 DEF Read
    <3>4. QED
      BY <3>2, <3>3
  <2>2. QED
    BY <2>1
<1>10. PICK copy : copy = CopyTo(i, blank)
  OBVIOUS
<1>11. copy = [k \in 1..n |-> IF k = n THEN TERMINATOR ELSE IF k <= lim THEN copied[k] ELSE blank[k]]
  BY <1>1, <1>2, <1>5, <1>7, <1>8, <1>10 DEF CopyTo
<1>12. \A k \in 1..n : copy[k] = IF k = n THEN TERMINATOR ELSE IF k <= lim THEN copied[k] ELSE TERMINATOR
  BY <1>7, <1>11
<1>13. ASSUME NEW k \in 1..m PROVE copy[k] = text[k]
  <2>1. k \in 1..n /\ k # n /\ k \in 1..lim /\ k <= lim
    BY <1>3, <1>4, <1>5
  <2>2. QED
    BY <1>9, <1>12, <2>1
<1>14. copy[m + 1] = TERMINATOR
  <2>1. m + 1 \in 1..n
    BY <1>3, <1>4
  <2>2. m + 1 = n \/ ~(m + 1 <= lim)
    BY <1>3, <1>4, <1>5
  <2>3. QED
    BY <1>12, <2>1, <2>2
<1>15. SubSeq(copy, 1, m) = SubSeq(text, 1, m)
  <2>1. SubSeq(copy, 1, m) = [k \in 1..m |-> copy[k]] /\ SubSeq(text, 1, m) = [k \in 1..m |-> text[k]]
    OBVIOUS
  <2>2. QED
    BY <1>13, <2>1
<1>16. QED
  BY <1>1, <1>2, <1>4, <1>6, <1>10, <1>14, <1>15

\* What the invariant is for.
LEMMA InvariantKeepsTexts == BuildersInv => TextsAreKept
<1> SUFFICES ASSUME BuildersInv PROVE TextsAreKept
  OBVIOUS
<1>1. ASSUME NEW i \in Live, i \notin lost
      PROVE  LET b == builders[i]
             IN  /\ Owned(b)
                 /\ b.length = Len(texts[i]) /\ b.length <= b.capacity
                 /\ Read(bytes, b.blk, b.off, b.length) = texts[i]
                 /\ CStringAt(bytes, b.blk, b.off) = texts[i]
                 /\ \A n \in 1..MaxText :
                      LET copy == CopyTo(i, [k \in 1..n |-> TERMINATOR])
                          m == IF b.length < n THEN b.length ELSE n - 1
                      IN  SubSeq(copy, 1, m) = SubSeq(texts[i], 1, m) /\ copy[m + 1] = TERMINATOR
  <2>1. PICK b : b = builders[i]
    OBVIOUS
  <2>2. PICK text : text = texts[i]
    OBVIOUS
  <2>3. /\ b \in BuilderRecords /\ bytes \in Memory /\ text \in Seq(TextLetters)
        /\ BuilderOK(b, text, arena, bytes)
    BY <1>1, <2>1, <2>2, LiveIsRecord DEF BuildersInv, BuilderTypes, BuildersOK, Whole
  <2>4. Owned(b)
    BY <2>3 DEF BuilderOK, OwnedAt, Owned, Until
  <2>5. b.length = Len(text) /\ b.length <= b.capacity
    BY <2>3 DEF BuilderOK, Holds
  <2>6. CStringAt(bytes, b.blk, b.off) = text /\ Read(bytes, b.blk, b.off, b.length) = text
    BY <2>3, CStringIs DEF BuilderOK, OwnedAt
  <2>7. \A n \in 1..MaxText :
          LET copy == CopyTo(i, [k \in 1..n |-> TERMINATOR])
              m == IF builders[i].length < n THEN builders[i].length ELSE n - 1
          IN  SubSeq(copy, 1, m) = SubSeq(text, 1, m) /\ copy[m + 1] = TERMINATOR
    BY <2>1, <2>3, <2>5, <2>6, CopyIs
  <2>8. QED
    BY <2>1, <2>2, <2>4, <2>5, <2>6, <2>7
<1>2. \A c \in chunks : \A k \in 1..c.n : bytes[c.blk][c.off + k] = FILL
  BY DEF BuildersInv, ChunksOK, ChunkOK
<1>3. QED
  BY <1>1, <1>2 DEF TextsAreKept

\* Whatever happens to the arena, a builder has the text that its client has
\* built, and the chunks of others what they put there: for every size of the
\* blocks and the struct, all strings and any number of builders.
THEOREM TextsStayKept == BuilderSpec => []TextsAreKept
<1>1. BuilderSpec => []BuildersInv
  BY BuildersStart, BuildersStep, PTL DEF BuilderSpec
<1>2. QED
  BY <1>1, InvariantKeepsTexts, PTL

=============================================================================
