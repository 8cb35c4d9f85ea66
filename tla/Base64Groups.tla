---------------------------- MODULE Base64Groups ----------------------------
(***************************************************************************)
(* The arithmetic of cxf-utils.js's base64 codec on one group and of its   *)
(* UTF-8 conversion on one code unit: the bodies of the loops of           *)
(* encode64array, decode64array, encode64UTF8 and decode64UTF8.  Base64    *)
(* runs the loops around them.  Shifts and masks are division and          *)
(* remainder by powers of two; an '|' whose operands have no bit in        *)
(* common is a sum.  The one '|' whose operands can share a bit, chr1      *)
(* with enc2 = '=', is written out on the operands' ranges (Chr1), and     *)
(* Base64 checks it against the bit-by-bit or.                             *)
(***************************************************************************)
EXTENDS Naturals, Sequences

\* Index of '=' in org_apache_cxf_base64_keyStr.
Pad == 64

(***************************************************************************)
(* One iteration of encode64array: the four key-string indices of three   *)
(* bytes, count of which were read; enc3/enc4 are '=' when fewer than two *)
(* / three were.                                                           *)
(***************************************************************************)
EncGroupUnmasked(c1, c2, c3, count) ==
    << c1 \div 4,
       (c1 % 4) * 16 + c2 \div 16,
       IF count > 1 THEN c2 * 4 + c3 \div 64 ELSE Pad,
       IF count > 2 THEN (c3 % 64) ELSE Pad >>

EncGroupTwoPad(c1, c2, c3, count) ==
    << c1 \div 4,
       (c1 % 4) * 16 + c2 \div 16,
       IF count >= 1 THEN (c2 % 16) * 4 + c3 \div 64 ELSE Pad,
       IF count > 2 THEN (c3 % 64) ELSE Pad >>

EncGroup(c1, c2, c3, count) ==
    << c1 \div 4,
       (c1 % 4) * 16 + c2 \div 16,
       IF count > 1 THEN (c2 % 16) * 4 + c3 \div 64 ELSE Pad,
       IF count > 2 THEN (c3 % 64) ELSE Pad >>

(***************************************************************************)
(* One iteration of decode64array on the indices e1..e4 (0 .. Pad).       *)
(* chr1 = (enc1 << 2) | (enc2 >> 4): enc1 << 2 has its two low bits clear, *)
(* so below enc2 = '=' the or is a sum; enc2 = '=' gives 64 >> 4 = 4, bit  *)
(* 2, which enc1 << 2 already has when enc1 is odd.  chr2 and chr3 are     *)
(* only emitted when enc3 / enc4 is not '=', and then their operands are   *)
(* disjoint.                                                               *)
(***************************************************************************)
Chr1(e1, e2) ==
    e1 * 4 + (IF e2 = Pad /\ e1 % 2 = 1 THEN 0 ELSE e2 \div 16)

DecGroup(e1, e2, e3, e4) ==
    << Chr1(e1, e2) >>
    \o (IF e3 # Pad THEN << (e2 % 16) * 16 + e3 \div 4 >> ELSE << >>)
    \o (IF e4 # Pad THEN << (e3 % 4) * 64 + e4 >> ELSE << >>)

(***************************************************************************)
(* One iteration of encode64UTF8: the 1, 2 or 3 bytes of a code unit      *)
(* (charCodeAt is below 0x10000, so the 4-byte branch is never taken).    *)
(* The high part and the marker bits are disjoint.                        *)
(***************************************************************************)
UnitBytesWide(u) ==
    IF u < 128 THEN << u >>
    ELSE IF u <= 2048 THEN << u \div 64 + 192, (u % 64) + 128 >>
    ELSE << u \div 4096 + 224, ((u \div 64) % 64) + 128, (u % 64) + 128 >>

UnitBytes(u) ==
    IF u < 128 THEN << u >>
    ELSE IF u < 2048 THEN << u \div 64 + 192, (u % 64) + 128 >>
    ELSE << u \div 4096 + 224, ((u \div 64) % 64) + 128, (u % 64) + 128 >>

(***************************************************************************)
(* One iteration of decode64UTF8 at a byte c followed by c2 and c3 (0 for *)
(* a byte past the end: undefined & 63 is 0): how many bytes it consumes  *)
(* and the code unit it appends.                                           *)
(***************************************************************************)
Utf8Width(c) ==
    IF c < 128 THEN 1
    ELSE IF c > 191 /\ c < 224 THEN 2
    ELSE 3

Utf8Unit(c, c2, c3) ==
    IF c < 128 THEN c
    ELSE IF c > 191 /\ c < 224 THEN (c % 32) * 64 + (c2 % 64)
    ELSE (c % 16) * 4096 + (c2 % 64) * 64 + (c3 % 64)

(***************************************************************************)
(* One iteration of decode64Unicode: the unit (hi << 8) | lo of two        *)
(* decoded values (0 for one past the end), of which fromCharCode keeps    *)
(* the low 16 bits.  A decoded value is at most 260 (a group starting      *)
(* with '='), so lo and hi << 8 can only share bit 8: when lo > 255 and    *)
(* hi is odd.                                                              *)
(***************************************************************************)
Or16(hi, lo) == hi * 256 + lo - (IF lo > 255 /\ hi % 2 = 1 THEN 256 ELSE 0)

Utf16Unit(hi, lo) == Or16(hi, lo) % 65536

=============================================================================
