---------------------------- MODULE Base64_proofs ----------------------------
(***************************************************************************)
(* Proofs about Base64's enumeration of inputs, for every bound and every  *)
(* set of byte values and code units: the output of encode64array on any  *)
(* byte array is a sequence of indices into the key string.                *)
(***************************************************************************)
EXTENDS Base64, Base64Groups_proofs

\* The enumerated byte values are bytes.
LEMMA ByteValsAreBytes == ByteVals \subseteq Bytes
<1>1. ByteVals \subseteq 0 .. 255
  BY ConstantsAssumption
<1> QED BY <1>1 DEF Bytes

(* encode64array writes only characters of the key string: every index it *)
(* emits, on an array of any length, is a digit (0..63) or the pad '='.   *)
(* The do-while loop runs at least once and each run reads one to three   *)
(* bytes, so each group is an EncGroup of bytes with a count in 1..3.     *)
LEMMA EncodeIndices ==
    ASSUME NEW b \in Seq(Bytes)
    PROVE  encode64array(b) \in Seq(0 .. Pad)
<1> DEFINE n == Len(b)
           groups == IF n = 0 THEN 1 ELSE (n + 2) \div 3
           chr(j) == IF j < n THEN b[j + 1] ELSE 0
           count(g) == IF n = 0 THEN 1
                       ELSE IF n - 3 * g >= 3 THEN 3 ELSE n - 3 * g
           enc(g) == EncGroup(chr(3 * g), chr(3 * g + 1), chr(3 * g + 2), count(g))
<1>1. encode64array(b) = [k \in 1 .. 4 * groups |-> enc((k - 1) \div 4)[((k - 1) % 4) + 1]]
  BY DEF encode64array
<1>2. n \in Nat /\ groups \in Nat \ {0}
  OBVIOUS
<1>3. \A j \in Nat : chr(j) \in Bytes
  <2> SUFFICES ASSUME NEW j \in Nat, j < n PROVE b[j + 1] \in Bytes
    BY DEF Bytes
  <2> QED BY ElementOfSeq
<1>4. \A g \in 0 .. groups - 1 : count(g) \in 1 .. 3
  OBVIOUS
<1>5. \A g \in 0 .. groups - 1 : \A i \in 1 .. 4 : enc(g)[i] \in 0 .. Pad
  <2> SUFFICES ASSUME NEW g \in 0 .. groups - 1
               PROVE  \A i \in 1 .. 4 : enc(g)[i] \in 0 .. Pad
    OBVIOUS
  <2>1. chr(3 * g) \in Bytes /\ chr(3 * g + 1) \in Bytes /\ chr(3 * g + 2) \in Bytes
    BY <1>3
  <2>2. count(g) \in 1 .. 3
    BY <1>4
  <2>3. \A x1, x2, x3 \in Bytes, ct \in 1 .. 3 :
          \A i \in 1 .. 4 : EncGroup(x1, x2, x3, ct)[i] \in 0 .. Pad
    <3> SUFFICES ASSUME NEW x1 \in Bytes, NEW x2 \in Bytes, NEW x3 \in Bytes,
                        NEW ct \in 1 .. 3, NEW i \in 1 .. 4
                 PROVE  EncGroup(x1, x2, x3, ct)[i] \in 0 .. Pad
      OBVIOUS
    <3>1. /\ EncGroup(x1, x2, x3, ct)[1] \in 0 .. 63
          /\ EncGroup(x1, x2, x3, ct)[2] \in 0 .. 63
          /\ EncGroup(x1, x2, x3, ct)[3] \in 0 .. Pad
          /\ EncGroup(x1, x2, x3, ct)[4] \in 0 .. Pad
      BY EncGroupIndices
    <3>2. i = 1 \/ i = 2 \/ i = 3 \/ i = 4
      OBVIOUS
    <3>3. 0 .. 63 \subseteq 0 .. Pad
      BY DEF Pad
    <3> QED BY <3>1, <3>2, <3>3, Zenon
  <2> HIDE DEF chr, count
  <2> QED BY <2>1, <2>2, <2>3
<1>6. ASSUME NEW k \in 1 .. 4 * groups
      PROVE  (k - 1) \div 4 \in 0 .. groups - 1 /\ ((k - 1) % 4) + 1 \in 1 .. 4
  BY <1>2
<1>7. [k \in 1 .. 4 * groups |-> enc((k - 1) \div 4)[((k - 1) % 4) + 1]]
        \in [1 .. 4 * groups -> 0 .. Pad]
  BY <1>5, <1>6
<1>8. [1 .. 4 * groups -> 0 .. Pad] \subseteq Seq(0 .. Pad)
  <2>1. 4 * groups \in Nat
    BY <1>2
  <2>2. Seq(0 .. Pad) = UNION {[1 .. m -> 0 .. Pad] : m \in Nat}
    BY SeqDef
  <2> QED BY <2>1, <2>2
<1> QED BY <1>1, <1>7, <1>8

(* The type invariant the base64 run checks holds in every state: the     *)
(* inputs are arrays of the enumerated values, and encode64array emits    *)
(* only key-string indices on every array the enumeration builds.         *)
THEOREM TypeCorrect == Spec => []TypeOK
<1>1. ASSUME NEW b \in Seq(ByteVals)
      PROVE  \A k \in 1 .. Len(encode64array(b)) : encode64array(b)[k] \in 0 .. Pad
  <2>1. b \in Seq(Bytes)
    BY ByteValsAreBytes, SeqMonotonic
  <2>2. encode64array(b) \in Seq(0 .. Pad)
    BY <2>1, EncodeIndices
  <2> QED BY <2>2, ElementOfSeq
<1>2. Init => TypeOK
  <2>1. << >> \in Seq(ByteVals) /\ << >> \in Seq(Units)
    BY EmptySeq
  <2> QED BY <1>1, <2>1 DEF Init, TypeOK
<1>3. TypeOK /\ [Next]_vars => TypeOK'
  <2> SUFFICES ASSUME TypeOK, [Next]_vars PROVE TypeOK'
    OBVIOUS
  <2>1. CASE ExtendBytes
    <3>1. PICK v \in ByteVals : bytes' = Append(bytes, v)
      BY <2>1 DEF ExtendBytes
    <3>2. bytes' \in Seq(ByteVals)
      BY <3>1 DEF TypeOK
    <3> QED BY <2>1, <3>2, <1>1 DEF ExtendBytes, TypeOK
  <2>2. CASE ExtendText
    <3>1. PICK u \in Units : text' = Append(text, u)
      BY <2>2 DEF ExtendText
    <3> QED BY <2>2, <3>1, <1>1 DEF ExtendText, TypeOK
  <2>3. CASE UNCHANGED vars
    BY <2>3 DEF vars, TypeOK
  <2> QED BY <2>1, <2>2, <2>3 DEF Next
<1> QED BY <1>2, <1>3, PTL DEF Spec

=============================================================================
