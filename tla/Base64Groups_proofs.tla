------------------------- MODULE Base64Groups_proofs -------------------------
(***************************************************************************)
(* What one iteration of the base64 and UTF-8 loops of cxf-utils.js        *)
(* computes, for every byte and every code unit.  Base64's runs check the  *)
(* loops on arrays of a few enumerated values; these theorems cover the    *)
(* whole range of the values themselves.                                   *)
(***************************************************************************)
EXTENDS Base64Groups, SequenceTheorems, TLAPS

Bytes == 0 .. 255

\* The count bytes a group of encode64array read.
GroupBytes(c1, c2, c3, count) == SubSeq(<< c1, c2, c3 >>, 1, count)

(* The tuples a group's bytes are put together from. *)
LEMMA TupleConcat ==
    ASSUME NEW a, NEW b, NEW c
    PROVE  /\ << a >> \o << b >> = << a, b >>
           /\ << a >> \o << b >> \o << c >> = << a, b, c >>
<1> DEFINE S == {a, b, c}
<1>1. << a >> \in Seq(S) /\ << b >> \in Seq(S) /\ << c >> \in Seq(S)
      /\ << a, b >> \in Seq(S) /\ << a, b, c >> \in Seq(S)
  OBVIOUS
<1>2. << a >> \o << b >> = << a, b >>
  <2>1. << a >> \o << b >> \in Seq(S) /\ Len(<< a >> \o << b >>) = 2
        /\ \A i \in 1 .. 2 : (<< a >> \o << b >>)[i] = << a, b >>[i]
    BY <1>1, ConcatProperties
  <2> QED BY <1>1, <2>1, SeqEqual
<1>3. << a, b >> \o << c >> = << a, b, c >>
  <2>1. << a, b >> \o << c >> \in Seq(S) /\ Len(<< a, b >> \o << c >>) = 3
        /\ \A i \in 1 .. 3 : (<< a, b >> \o << c >>)[i] = << a, b, c >>[i]
    BY <1>1, ConcatProperties
  <2> QED BY <1>1, <2>1, SeqEqual
<1> QED BY <1>2, <1>3

(* The first one, two or three of three values. *)
LEMMA TuplePrefix ==
    ASSUME NEW a, NEW b, NEW c
    PROVE  /\ SubSeq(<< a, b, c >>, 1, 1) = << a >>
           /\ SubSeq(<< a, b, c >>, 1, 2) = << a, b >>
           /\ SubSeq(<< a, b, c >>, 1, 3) = << a, b, c >>
<1> DEFINE S == {a, b, c}
<1>1. \A i \in 1 .. 3 : << a, b, c >>[i] \in S
  OBVIOUS
<1>2. ASSUME NEW n \in 1 .. 3
      PROVE  /\ SubSeq(<< a, b, c >>, 1, n) \in Seq(S)
             /\ Len(SubSeq(<< a, b, c >>, 1, n)) = n
             /\ \A i \in 1 .. n : SubSeq(<< a, b, c >>, 1, n)[i] = << a, b, c >>[i]
  <2>1. \A i \in 1 .. n : << a, b, c >>[i] \in S
    BY <1>1
  <2> QED BY <2>1, SubSeqProperties
<1>3. << a >> \in Seq(S) /\ << a, b >> \in Seq(S) /\ << a, b, c >> \in Seq(S)
  OBVIOUS
<1>4. SubSeq(<< a, b, c >>, 1, 1) = << a >>
  <2>1. /\ SubSeq(<< a, b, c >>, 1, 1) \in Seq(S)
        /\ Len(SubSeq(<< a, b, c >>, 1, 1)) = Len(<< a >>)
        /\ \A i \in 1 .. Len(<< a >>) : SubSeq(<< a, b, c >>, 1, 1)[i] = << a >>[i]
    BY <1>2
  <2> QED BY <1>3, <2>1, SeqEqual
<1>5. SubSeq(<< a, b, c >>, 1, 2) = << a, b >>
  <2>1. /\ SubSeq(<< a, b, c >>, 1, 2) \in Seq(S)
        /\ Len(SubSeq(<< a, b, c >>, 1, 2)) = Len(<< a, b >>)
        /\ \A i \in 1 .. Len(<< a, b >>) : SubSeq(<< a, b, c >>, 1, 2)[i] = << a, b >>[i]
    BY <1>2
  <2> QED BY <1>3, <2>1, SeqEqual
<1>6. SubSeq(<< a, b, c >>, 1, 3) = << a, b, c >>
  <2>1. /\ SubSeq(<< a, b, c >>, 1, 3) \in Seq(S)
        /\ Len(SubSeq(<< a, b, c >>, 1, 3)) = Len(<< a, b, c >>)
        /\ \A i \in 1 .. Len(<< a, b, c >>) : SubSeq(<< a, b, c >>, 1, 3)[i] = << a, b, c >>[i]
    BY <1>2
  <2> QED BY <1>3, <2>1, SeqEqual
<1> QED BY <1>4, <1>5, <1>6

(* encode64array emits only key-string indices: the first two of a group *)
(* are digits, the third is '=' exactly when the group read one byte, the *)
(* fourth exactly when it read fewer than three.                           *)
THEOREM EncGroupIndices ==
    ASSUME NEW c1 \in Bytes, NEW c2 \in Bytes, NEW c3 \in Bytes, NEW count \in 1 .. 3
    PROVE  LET g == EncGroup(c1, c2, c3, count) IN
           /\ g[1] \in 0 .. 63 /\ g[2] \in 0 .. 63
           /\ g[3] \in 0 .. Pad /\ (g[3] = Pad <=> count = 1)
           /\ g[4] \in 0 .. Pad /\ (g[4] = Pad <=> count < 3)
BY DEF EncGroup, Pad, Bytes

(* One iteration of decode64array undoes one of encode64array: the four  *)
(* indices of a group that read count bytes decode to those bytes, for    *)
(* every value of the bytes and of the ones the group did not read.       *)
THEOREM GroupRoundTrip ==
    ASSUME NEW c1 \in Bytes, NEW c2 \in Bytes, NEW c3 \in Bytes, NEW count \in 1 .. 3
    PROVE  LET g == EncGroup(c1, c2, c3, count) IN
           DecGroup(g[1], g[2], g[3], g[4]) = GroupBytes(c1, c2, c3, count)
<1> DEFINE g == EncGroup(c1, c2, c3, count)
           chr2 == (g[2] % 16) * 16 + g[3] \div 4
           chr3 == (g[3] % 4) * 64 + g[4]
<1> SUFFICES DecGroup(g[1], g[2], g[3], g[4]) = GroupBytes(c1, c2, c3, count)
  OBVIOUS
<1>1. /\ g[1] = c1 \div 4
      /\ g[2] = (c1 % 4) * 16 + c2 \div 16
      /\ g[3] = IF count > 1 THEN (c2 % 16) * 4 + c3 \div 64 ELSE Pad
      /\ g[4] = IF count > 2 THEN c3 % 64 ELSE Pad
  BY DEF EncGroup
<1>2. Chr1(g[1], g[2]) = c1
  BY <1>1 DEF Chr1, Pad, Bytes
<1>3. CASE count = 1
  <2>1. g[3] = Pad /\ g[4] = Pad
    BY <1>1, <1>3
  <2>2. DecGroup(g[1], g[2], g[3], g[4]) = << c1 >>
    BY <1>2, <2>1 DEF DecGroup
  <2> QED BY <1>3, <2>2, TuplePrefix DEF GroupBytes
<1>4. CASE count = 2
  <2>1. g[3] # Pad /\ g[4] = Pad
    BY <1>1, <1>4 DEF Pad, Bytes
  <2>2. chr2 = c2
    BY <1>1, <1>4 DEF Pad, Bytes
  <2>3. DecGroup(g[1], g[2], g[3], g[4]) = << c1 >> \o << c2 >>
    BY <1>2, <2>1, <2>2 DEF DecGroup
  <2>4. << c1 >> \o << c2 >> = << c1, c2 >>
    BY TupleConcat
  <2>5. GroupBytes(c1, c2, c3, count) = << c1, c2 >>
    BY <1>4, TuplePrefix DEF GroupBytes
  <2> QED BY <2>3, <2>4, <2>5
<1>5. CASE count = 3
  <2>1. g[3] # Pad /\ g[4] # Pad
    BY <1>1, <1>5 DEF Pad, Bytes
  <2>2. chr2 = c2 /\ chr3 = c3
    BY <1>1, <1>5 DEF Pad, Bytes
  <2>3. DecGroup(g[1], g[2], g[3], g[4]) = << c1 >> \o << c2 >> \o << c3 >>
    BY <1>2, <2>1, <2>2 DEF DecGroup
  <2>4. << c1 >> \o << c2 >> \o << c3 >> = << c1, c2, c3 >>
    BY TupleConcat
  <2>5. GroupBytes(c1, c2, c3, count) = << c1, c2, c3 >>
    BY <1>5, TuplePrefix DEF GroupBytes
  <2> QED BY <2>3, <2>4, <2>5
<1> QED BY <1>3, <1>4, <1>5


(* What decode64array makes of a short last group whose '=' pads were left *)
(* off (spec.md 4.2 says such a text is flagged): charAt past the end is   *)
(* "" and indexOf("") is 0, so the missing indices are 'A', both chr2 and  *)
(* chr3 are emitted, and the group gains zero bytes: one read byte comes   *)
(* back as three, two as three.                                            *)
THEOREM UnpaddedGroupGainsZeros ==
    ASSUME NEW c1 \in Bytes, NEW c2 \in Bytes
    PROVE  /\ LET g == EncGroup(c1, 0, 0, 1) IN DecGroup(g[1], g[2], 0, 0) = << c1, 0, 0 >>
           /\ LET g == EncGroup(c1, c2, 0, 2) IN DecGroup(g[1], g[2], g[3], 0) = << c1, c2, 0 >>
<1>1. LET g == EncGroup(c1, 0, 0, 1) IN DecGroup(g[1], g[2], 0, 0) = << c1, 0, 0 >>
  <2> DEFINE g == EncGroup(c1, 0, 0, 1)
  <2> SUFFICES DecGroup(g[1], g[2], 0, 0) = << c1, 0, 0 >>
    OBVIOUS
  <2>1. g[1] = c1 \div 4 /\ g[2] = (c1 % 4) * 16
    BY DEF EncGroup, Bytes
  <2>2. Chr1(g[1], g[2]) = c1 /\ (g[2] % 16) * 16 + 0 \div 4 = 0 /\ (0 % 4) * 64 + 0 = 0
    BY <2>1 DEF Chr1, Pad, Bytes
  <2>3. DecGroup(g[1], g[2], 0, 0) = << c1 >> \o << 0 >> \o << 0 >>
    BY <2>2 DEF DecGroup, Pad
  <2> QED BY <2>3, TupleConcat
<1>2. LET g == EncGroup(c1, c2, 0, 2) IN DecGroup(g[1], g[2], g[3], 0) = << c1, c2, 0 >>
  <2> DEFINE g == EncGroup(c1, c2, 0, 2)
  <2> SUFFICES DecGroup(g[1], g[2], g[3], 0) = << c1, c2, 0 >>
    OBVIOUS
  <2>1. /\ g[1] = c1 \div 4 /\ g[2] = (c1 % 4) * 16 + c2 \div 16
        /\ g[3] = (c2 % 16) * 4
    BY DEF EncGroup, Bytes
  <2>2. /\ Chr1(g[1], g[2]) = c1 /\ g[3] # Pad
        /\ (g[2] % 16) * 16 + g[3] \div 4 = c2 /\ (g[3] % 4) * 64 + 0 = 0
    <3>0. g[2] < Pad /\ g[2] \div 16 = c1 % 4
      BY <2>1 DEF Pad, Bytes
    <3>1. Chr1(g[1], g[2]) = c1
      BY <2>1, <3>0 DEF Chr1, Bytes
    <3>2. /\ g[2] % 16 = c2 \div 16 /\ g[3] \div 4 = c2 % 16 /\ g[3] % 4 = 0
          /\ g[3] < Pad
      BY <2>1 DEF Pad, Bytes
    <3>3. (c2 \div 16) * 16 + (c2 % 16) = c2
      BY DEF Bytes
    <3> QED BY <2>1, <3>1, <3>2, <3>3 DEF Pad
  <2>3. DecGroup(g[1], g[2], g[3], 0) = << c1 >> \o << c2 >> \o << 0 >>
    BY <2>2 DEF DecGroup, Pad
  <2> QED BY <2>3, TupleConcat
<1> QED BY <1>1, <1>2

(* One iteration of decode64UTF8 undoes one of encode64UTF8: the bytes of *)
(* every code unit are bytes, the lead byte makes the decoder consume      *)
(* exactly them, and the unit it composes is the code unit, whatever       *)
(* follows (the next unit's bytes, or 0 past the end of the array).        *)
THEOREM Utf8UnitRoundTrip ==
    ASSUME NEW u \in Nat, u < 65536, NEW x \in Nat, NEW y \in Nat
    PROVE  LET b == UnitBytes(u) IN
           /\ \A j \in 1 .. Len(b) : b[j] \in Bytes
           /\ Utf8Width(b[1]) = Len(b)
           /\ Utf8Unit(b[1], IF Len(b) >= 2 THEN b[2] ELSE x,
                             IF Len(b) >= 3 THEN b[3] ELSE y) = u
<1>1. CASE u < 128
  <2>1. UnitBytes(u) = << u >>
    BY <1>1 DEF UnitBytes
  <2>2. Utf8Width(u) = 1 /\ Utf8Unit(u, x, y) = u
    BY <1>1 DEF Utf8Width, Utf8Unit
  <2> QED BY <1>1, <2>1, <2>2 DEF Bytes
<1>2. CASE 128 <= u /\ u < 2048
  <2> DEFINE b1 == u \div 64 + 192
             b2 == (u % 64) + 128
  <2>1. UnitBytes(u) = << b1, b2 >>
    BY <1>2 DEF UnitBytes
  <2>2. b1 \in 194 .. 223 /\ b2 \in 128 .. 191
    BY <1>2
  <2>3. Utf8Width(b1) = 2 /\ Utf8Unit(b1, b2, y) = (b1 % 32) * 64 + (b2 % 64)
    BY <2>2 DEF Utf8Width, Utf8Unit
  <2>4. (b1 % 32) * 64 + (b2 % 64) = u
    BY <1>2
  <2> QED BY <2>1, <2>2, <2>3, <2>4 DEF Bytes
<1>3. CASE 2048 <= u
  <2> DEFINE b1 == u \div 4096 + 224
             b2 == ((u \div 64) % 64) + 128
             b3 == (u % 64) + 128
  <2>1. UnitBytes(u) = << b1, b2, b3 >>
    BY <1>3 DEF UnitBytes
  <2>2. b1 \in 224 .. 239 /\ b2 \in 128 .. 191 /\ b3 \in 128 .. 191
    BY <1>3
  <2>3. Utf8Width(b1) = 3
        /\ Utf8Unit(b1, b2, b3) = (b1 % 16) * 4096 + (b2 % 64) * 64 + (b3 % 64)
    BY <2>2 DEF Utf8Width, Utf8Unit
  <2>4. b1 % 16 = u \div 4096 /\ b2 % 64 = (u \div 64) % 64 /\ b3 % 64 = u % 64
    BY <1>3
  <2>5. (u \div 4096) * 4096 + ((u \div 64) % 64) * 64 + (u % 64) = u
    BY <1>3
  <2> QED BY <2>1, <2>2, <2>3, <2>4, <2>5 DEF Bytes
<1> QED BY <1>1, <1>2, <1>3


(* What one iteration of decode64array gives on any four key-string       *)
(* indices, a malformed group from a server included (spec.md leaves that *)
(* open): chr2 and chr3, when emitted, are bytes; chr1 is one exactly     *)
(* when the group's first character is not '=', and is at most 260.  So a *)
(* '=' in second place (64 >> 4 = 4 or-ed into chr1) still gives a byte,  *)
(* and the only non-byte a decoded array can hold is a chr1 of a group    *)
(* starting with '='.                                                      *)
THEOREM DecGroupRange ==
    ASSUME NEW e1 \in 0 .. Pad, NEW e2 \in 0 .. Pad, NEW e3 \in 0 .. Pad, NEW e4 \in 0 .. Pad
    PROVE  LET d == DecGroup(e1, e2, e3, e4) IN
           /\ d \in Seq(Nat)
           /\ d[1] \in 0 .. 260 /\ (d[1] \in Bytes <=> e1 # Pad)
           /\ \A k \in 2 .. Len(d) : d[k] \in Bytes
<1> DEFINE c1 == Chr1(e1, e2)
           v2 == (e2 % 16) * 16 + e3 \div 4
           v3 == (e3 % 4) * 64 + e4
           X  == IF e3 # Pad THEN << v2 >> ELSE << >>
           Y  == IF e4 # Pad THEN << v3 >> ELSE << >>
           XY == X \o Y
<1> SUFFICES /\ << c1 >> \o X \o Y \in Seq(Nat)
             /\ (<< c1 >> \o X \o Y)[1] \in 0 .. 260
             /\ ((<< c1 >> \o X \o Y)[1] \in Bytes <=> e1 # Pad)
             /\ \A k \in 2 .. Len(<< c1 >> \o X \o Y) : (<< c1 >> \o X \o Y)[k] \in Bytes
  BY DEF DecGroup
<1>1. c1 \in 0 .. 260 /\ (c1 \in Bytes <=> e1 # Pad)
  BY DEF Chr1, Pad, Bytes
<1>2. /\ e3 # Pad => v2 \in Bytes
      /\ e4 # Pad => v3 \in Bytes
  BY DEF Pad, Bytes
<1>3. X \in Seq(Bytes) /\ X \in Seq(Nat)
  <2>1. CASE e3 # Pad
    BY <1>2, <2>1 DEF Bytes
  <2>2. CASE e3 = Pad
    BY <2>2, EmptySeq
  <2> QED BY <2>1, <2>2
<1>4. Y \in Seq(Bytes) /\ Y \in Seq(Nat)
  <2>1. CASE e4 # Pad
    BY <1>2, <2>1 DEF Bytes
  <2>2. CASE e4 = Pad
    BY <2>2, EmptySeq
  <2> QED BY <2>1, <2>2
<1>5. XY \in Seq(Bytes)
  BY <1>3, <1>4, ConcatProperties
<1>6. XY \in Seq(Nat)
  BY <1>3, <1>4, ConcatProperties
<1>7. << c1 >> \in Seq(Nat)
  BY <1>1
<1>8. << c1 >> \o X \o Y = << c1 >> \o XY
  BY <1>3, <1>4, <1>7, ConcatAssociative
<1>9. /\ << c1 >> \o XY \in Seq(Nat) /\ Len(<< c1 >> \o XY) = 1 + Len(XY)
      /\ (<< c1 >> \o XY)[1] = c1
      /\ \A k \in 2 .. 1 + Len(XY) : (<< c1 >> \o XY)[k] = XY[k - 1]
  BY <1>6, <1>7, ConcatProperties
<1>10. \A k \in 2 .. 1 + Len(XY) : XY[k - 1] \in Bytes
  BY <1>5, ElementOfSeq
<1> QED BY <1>1, <1>8, <1>9, <1>10


(* One unit of decode64Unicode undoes one of encode64Unicode: the two     *)
(* bytes the encoder writes for a code unit, low byte first, are bytes,   *)
(* and the swapped read that the mark FF FE selects, (b[x + 1] << 8) |     *)
(* b[x], gives the unit back.                                              *)
THEOREM Utf16UnitRoundTrip ==
    ASSUME NEW u \in Nat, u < 65536
    PROVE  LET lo == u % 256
               hi == (u \div 256) % 256
           IN  lo \in Bytes /\ hi \in Bytes /\ Utf16Unit(hi, lo) = u
<1> DEFINE lo == u % 256
           hi == (u \div 256) % 256
<1>1. lo \in Bytes /\ hi \in Bytes /\ hi = u \div 256
  BY DEF Bytes
<1>2. Or16(hi, lo) = hi * 256 + lo
  BY <1>1 DEF Or16, Bytes
<1>3. hi * 256 + lo = u
  BY <1>1
<1> QED BY <1>1, <1>2, <1>3 DEF Utf16Unit

=============================================================================
