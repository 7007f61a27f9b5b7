------------------------------ MODULE ColValues -----------------------------
(***************************************************************************)
(* Comparing and hashing what collections hold: collections.c, the key     *)
(* functions of hashmap.c, and ref_objects.c.  A value is its type and its *)
(* content; of the numbers a hash is made into, only what they are made of *)
(* matters.                                                                *)
(***************************************************************************)
EXTENDS Integers, SequencesExt

CONSTANT PointerSize   \* sizeof(char *), the room RefString has for a short text

NONE == "none"
LONG == "long"
DOUBLE == "double"
TEXT == "string"
VOID_PTR == "void*"
NULL == "null"

\* Doubles other than these two are equal if their bits are.
NaN == "nan"
MinusZero == "-0.0"
PlusZero == "0.0"

\* if (d == 0.0) d = 0.0.
Normal(d) == IF d = MinusZero THEN PlusZero ELSE d

\* col_equals_double.
EqualsDouble(d1, d2) == NaN \notin {d1, d2} /\ Normal(d1) = Normal(d2)

\* col_equals_RefString: the text of each, for strcmp, and their lengths.
EqualsRefString(s, t) == Len(s) = Len(t) /\ s = t

\* col_equals_ColValue.
Equals(a, b) ==
  /\ a.type = b.type
  /\ CASE a.type = NONE       -> FALSE
       [] a.type = NULL       -> TRUE
       [] a.type = DOUBLE     -> EqualsDouble(a.content, b.content)
       [] OTHER               -> a.content = b.content

\* map_equals_MapKey, the key as it is kept against the one that is sought.
EqualsKey(k1, k2) ==
  /\ k1.type = k2.type /\ k1.type \notin {NONE}
  /\ \/ k1.type = NULL
     \/ k1.type = DOUBLE /\ EqualsDouble(k1.content, k2.content)
     \/ k1.type \in {LONG, TEXT, VOID_PTR} /\ k1.content = k2.content

\* Mutant: a double is hashed as it is.
RawHash_Signed(k) ==
  IF k.type \in {NONE, NULL} THEN <<"zero">> ELSE <<k.type, k.content>>

\* What map_hash_function hands to the mixer; bits of a double, the product of
\* a long, the djb2 hash of a string, an address, 0.
RawHash(k) ==
  CASE k.type \in {NONE, NULL} -> <<"zero">>
    [] k.type = DOUBLE         -> <<"bits", IF k.content = MinusZero THEN PlusZero ELSE k.content>>
    [] OTHER                   -> <<k.type, k.content>>

-----------------------------------------------------------------------------
(* The two djb2 hashes, of texts of unsigned bytes, in words of 16 bits.    *)

Djb2(codes) == FoldLeft(LAMBDA hash, c : (hash * 33 + c) % 65536, 5381, codes)

\* map_hash_string.
HashString(text) == Djb2(text)

\* ref_djb2_hash_string reads a char, which has a sign.
RefHash(text) ==
  Djb2([i \in DOMAIN text |-> IF text[i] < 128 THEN text[i] ELSE text[i] - 256])

-----------------------------------------------------------------------------
(* RefString: a length, and a short text in place or a pointer to it. *)

\* Where col_equals_RefString and col_policy_value_set_default look for it.
InPlace(length) == length < PointerSize

\* Where ref_equals_RefString, ref_hash_code_RefString and
\* ref_compare_RefString do: length < REF_MAX_SSO_LENGTH.
RefInPlace(length) == length < PointerSize - 1

\* ref_compare_RefString, 0 for equal ones: the common prefix, then the length.
RefCompare(s, t) ==
  LET common == IF Len(s) < Len(t) THEN Len(s) ELSE Len(t)
      differ == {i \in 1..common : s[i] # t[i]}
      first == CHOOSE i \in differ : \A j \in differ : i <= j
  IN  IF differ # {} THEN s[first] - t[first]
      ELSE IF Len(s) < Len(t) THEN -1 ELSE IF Len(s) > Len(t) THEN 1 ELSE 0
=============================================================================
