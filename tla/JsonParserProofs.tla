-------------------------- MODULE JsonParserProofs -------------------------
(***************************************************************************)
(* Proofs about the parser's control: that depth_current is the nesting at *)
(* every step, on every way in and out of pvt_parse_array and              *)
(* pvt_parse_object, for any texts and any limit.  What is said of the     *)
(* characters does not enter; nor does the fairness of Spec.               *)
(***************************************************************************)
EXTENDS JsonParser, SequenceTheorems, TLAPS

Labels == {"start", "value", "key", "loop", "fail", "end", "done"}

Kinds == {"array", "object"}

\* Which labels run within an object or an array, and which outside of all.
IInv ==
  /\ conf \in Confs
  /\ pc \in Labels
  /\ frames \in Seq(Kinds)
  /\ depth_current = Len(frames)
  /\ depth_current <= conf.depth_max
  /\ pc \in {"start", "end", "done"} => frames = <<>>
  /\ pc \in {"loop", "key"} => frames # <<>>

\* Returning from the innermost frame.
LEMMA PopFrame ==
  ASSUME NEW s \in Seq(Kinds), s # <<>>
  PROVE  /\ SubSeq(s, 1, Len(s) - 1) \in Seq(Kinds)
         /\ Len(SubSeq(s, 1, Len(s) - 1)) = Len(s) - 1
         /\ Len(s) = 1 => SubSeq(s, 1, Len(s) - 1) = <<>>
         /\ Len(s) # 1 => SubSeq(s, 1, Len(s) - 1) # <<>>
<1> DEFINE m == Len(s) - 1
           t == SubSeq(s, 1, m)
<1>1. Len(s) \in Nat /\ m \in Nat /\ (m = 0 <=> Len(s) = 1) /\ \A i \in 1..m : i \in 1..Len(s)
  BY EmptySeq
<1>2. \A i \in 1..m : s[i] \in Kinds
  BY <1>1, ElementOfSeq
<1> HIDE DEF m
<1>3. t \in Seq(Kinds) /\ Len(t) = IF 1 <= m THEN m - 1 + 1 ELSE 0
  BY <1>1, <1>2, SubSeqProperties
<1> HIDE DEF t
<1>4. Len(t) = m
  BY <1>1, <1>3
<1>5. m = 0 => t = <<>>
  BY <1>3, <1>4, EmptySeq
<1>6. m # 0 => t # <<>>
  BY <1>4, EmptySeq
<1>7. QED
  BY <1>1, <1>3, <1>4, <1>5, <1>6 DEF t, m

LEMMA PushFrame ==
  ASSUME NEW s \in Seq(Kinds), NEW kind \in Kinds
  PROVE  /\ Append(s, kind) \in Seq(Kinds) /\ Append(s, kind) # <<>>
         /\ Len(Append(s, kind)) = Len(s) + 1
<1>1. Append(s, kind) \in Seq(Kinds) /\ Len(Append(s, kind)) = Len(s) + 1
  OBVIOUS
<1>2. QED
  BY <1>1, EmptySeq

\* An action that leaves the frames alone and goes where they may be.
LEMMA FramesKept ==
  ASSUME IInv, conf' = conf, Keep, pc' \in Labels,
         pc' \in {"start", "end", "done"} => frames = <<>>,
         pc' \in {"loop", "key"} => frames # <<>>
  PROVE  IInv'
  BY DEF IInv, Keep

LEMMA CloseKeeps ==
  ASSUME IInv, pc = "loop", NEW i, Close(i)
  PROVE  IInv'
<1>1. /\ frames \in Seq(Kinds) /\ frames # <<>> /\ depth_current = Len(frames) /\ Len(frames) \in Nat
      /\ conf \in Confs /\ conf.depth_max \in Nat /\ depth_current <= conf.depth_max
  BY JsonParserAssumption DEF IInv
<1>2. /\ frames' = SubSeq(frames, 1, Len(frames) - 1) /\ depth_current' = depth_current - 1
      /\ conf' = conf /\ pc' = IF Len(frames) = 1 THEN "end" ELSE "loop"
  BY DEF Close, Goto, input
<1>3. frames' \in Seq(Kinds) /\ depth_current' = Len(frames') /\ depth_current' <= conf'.depth_max
  BY <1>1, <1>2, PopFrame
<1>4. /\ pc' \in {"start", "end", "done"} => frames' = <<>>
      /\ pc' \in {"loop", "key"} => frames' # <<>>
  BY <1>1, <1>2, PopFrame
<1>5. QED
  BY <1>1, <1>2, <1>3, <1>4 DEF IInv, Labels

LEMMA OpenKeeps ==
  ASSUME IInv, NEW kind \in Kinds, NEW opener, NEW first \in {"value", "key"},
         Open(kind, opener, first)
  PROVE  IInv'
<1>1. /\ frames \in Seq(Kinds) /\ depth_current = Len(frames) /\ Len(frames) \in Nat
      /\ conf \in Confs /\ conf.depth_max \in Nat /\ depth_current <= conf.depth_max
  BY JsonParserAssumption DEF IInv
<1>2. CASE MaxDepthExceeded
  <2>1. pc' = "fail" /\ conf' = conf /\ Keep
    BY <1>2 DEF Open, Fail, input, Keep
  <2>2. QED
    BY <2>1, FramesKept DEF Labels
<1>3. CASE ~MaxDepthExceeded
  <2>1. /\ frames' = Append(frames, kind) /\ depth_current' = depth_current + 1
        /\ conf' = conf /\ pc' \in {"loop", first}
    BY <1>3 DEF Open, Goto, input
  <2>2. depth_current' <= conf'.depth_max
    BY <1>1, <1>3, <2>1 DEF MaxDepthExceeded
  <2>3. QED
    BY <1>1, <2>1, <2>2, PushFrame DEF IInv, Labels
<1>4. QED
  BY <1>2, <1>3

LEMMA StepKeeps == IInv /\ [Next]_vars => IInv'
<1> SUFFICES ASSUME IInv, [Next]_vars PROVE IInv'
  OBVIOUS
<1>1. CASE Start
  <2>1. conf' = conf /\ Keep /\ pc' \in {"fail", "value"}
    BY <1>1 DEF Start, Fail, Goto, input
  <2>2. QED
    BY <2>1, FramesKept DEF Labels
<1>2. CASE ParseScalar
  <2>1. conf' = conf /\ Keep /\ pc' \in {"fail", IF frames = <<>> THEN "end" ELSE "loop"}
    BY <1>2 DEF ParseScalar, Fail, Goto, input, Keep
  <2>2. QED
    BY <2>1, FramesKept DEF Labels
<1>3. CASE OpenArray
  BY <1>3, OpenKeeps DEF OpenArray, Kinds
<1>4. CASE OpenObject
  BY <1>4, OpenKeeps DEF OpenObject, Kinds
<1>5. CASE ParseKey
  <2>1. conf' = conf /\ Keep /\ pc' \in {"fail", "value"}
    BY <1>5 DEF ParseKey, Fail, Goto, input, Keep
  <2>2. QED
    BY <2>1, FramesKept DEF Labels
<1>6. CASE CloseAfterElement
  BY <1>6, CloseKeeps DEF CloseAfterElement
<1>7. CASE Comma
  <2> DEFINE i == SkipWhitespace(SkipWhitespace(index) + 1)
  <2>1. \/ conf' = conf /\ Keep /\ pc' \in {"value", "key", "fail"}
        \/ Close(i)
    BY <1>7 DEF Comma, Fail, Goto, input
  <2>2. pc = "loop" /\ frames # <<>>
    BY <1>7 DEF Comma, IInv
  <2> HIDE DEF i
  <2>3. CASE conf' = conf /\ Keep /\ pc' \in {"value", "key", "fail"}
    BY <2>2, <2>3, FramesKept DEF Labels
  <2>4. QED
    BY <2>1, <2>2, <2>3, CloseKeeps
<1>8. CASE NoComma
  <2>1. conf' = conf /\ Keep /\ pc' = "fail"
    BY <1>8 DEF NoComma, Fail, input
  <2>2. QED
    BY <2>1, FramesKept DEF Labels
<1>9. CASE ReturnNull
  <2>1. /\ frames # <<>> /\ pc' = "fail" /\ conf' = conf
        /\ frames' = SubSeq(frames, 1, Len(frames) - 1) /\ depth_current' = depth_current - 1
    BY <1>9 DEF ReturnNull, input
  <2>2. /\ frames \in Seq(Kinds) /\ depth_current = Len(frames) /\ Len(frames) \in Nat
        /\ conf \in Confs /\ conf.depth_max \in Nat /\ depth_current <= conf.depth_max
    BY JsonParserAssumption DEF IInv
  <2>3. frames' \in Seq(Kinds) /\ depth_current' = Len(frames') /\ depth_current' <= conf'.depth_max
    BY <2>1, <2>2, PopFrame
  <2>4. QED
    BY <2>1, <2>2, <2>3 DEF IInv, Labels
<1>10. CASE GiveUp
  <2>1. conf' = conf /\ Keep /\ pc' = "done" /\ frames = <<>>
    BY <1>10 DEF GiveUp, input, Keep
  <2>2. QED
    BY <2>1, FramesKept DEF Labels
<1>11. CASE Finish
  <2>1. conf' = conf /\ Keep /\ pc' = "done" /\ pc = "end"
    BY <1>11 DEF Finish, input, Keep
  <2>2. frames = <<>>
    BY <2>1 DEF IInv
  <2>3. QED
    BY <2>1, <2>2, FramesKept DEF Labels
<1>12. CASE UNCHANGED vars
  BY <1>12 DEF vars, IInv
<1>13. QED
  BY <1>1, <1>2, <1>3, <1>4, <1>5, <1>6, <1>7, <1>8, <1>9, <1>10, <1>11, <1>12 DEF Next

\* depth_current is the number of objects and arrays that are being parsed, it
\* stays within the context's limit, and is zero again when the call returns.
THEOREM DepthIsTheNesting == Spec => []DepthIsNesting
<1>1. Init => IInv
  <2> SUFFICES ASSUME Init PROVE IInv
    OBVIOUS
  <2>1. conf \in Confs /\ conf.depth_max \in Nat /\ frames = <<>> /\ depth_current = 0 /\ pc = "start"
    BY JsonParserAssumption DEF Init
  <2>2. frames \in Seq(Kinds) /\ Len(frames) = 0
    BY <2>1
  <2>3. QED
    BY <2>1, <2>2 DEF IInv, Labels
<1>2. IInv => DepthIsNesting
  <2> SUFFICES ASSUME IInv PROVE DepthIsNesting
    OBVIOUS
  <2>1. frames = <<>> => Len(frames) = 0
    OBVIOUS
  <2>2. QED
    BY <2>1 DEF IInv, DepthIsNesting
<1>3. QED
  BY <1>1, <1>2, StepKeeps, PTL DEF Spec
=============================================================================
