------------------------------- MODULE Base64 -------------------------------
(***************************************************************************)
(* The base64 codec of cxf-utils.js (the org_apache_cxf_base64_ functions). *)
(*                                                                         *)
(* A base64 text is a sequence of indices into the key string              *)
(* "A..Za..z0..9+/=": 0..63 are the digits and 64 is the pad '='.  A       *)
(* character outside the key string (a line break, a space) is the value  *)
(* Junk.  A JavaScript string is the sequence of its UTF-16 code units     *)
(* (charCodeAt).  The shifts and masks of the code are written as          *)
(* division and remainder by powers of two; where the two operands of a   *)
(* '|' can share a bit, BitOr computes the real or.                        *)
(*                                                                         *)
(* The operators are pure.  The two variables only enumerate the inputs    *)
(* the properties are checked on: a byte array and a string, each grown    *)
(* one element at a time up to a named bound.                              *)
(***************************************************************************)
EXTENDS Naturals, Sequences, SequencesExt, Base64Groups

CONSTANTS
    ByteVals,   \* the byte values an input array is built from
    Units,      \* the UTF-16 code units an input string is built from
    MaxBytes,   \* longest byte array enumerated
    MaxChars    \* longest string enumerated

ASSUME ConstantsAssumption ==
    /\ ByteVals \subseteq 0 .. 255
    /\ \A u \in Units : u \in Nat /\ u < 65536
    /\ MaxBytes \in Nat
    /\ MaxChars \in Nat

Junk == -1
(* a | b on naturals, bit by bit. *)
BitOr(a, b) ==
    LET or[x \in Nat, y \in Nat] ==
            IF x = 0 THEN y
            ELSE IF y = 0 THEN x
            ELSE 2 * or[x \div 2, y \div 2]
                   + (IF (x % 2) = 1 \/ (y % 2) = 1 THEN 1 ELSE 0)
    IN  or[a, b]

(* Chr1 is the or of chr1 on every pair of indices decode64array meets,  *)
(* and Or16 the or of decode64Unicode on every pair of decoded values.   *)
ASSUME BitOrCases ==
    /\ \A e1, e2 \in 0 .. Pad : Chr1(e1, e2) = BitOr(e1 * 4, e2 \div 16)
    /\ \A hi, lo \in 0 .. 260 : Or16(hi, lo) = BitOr(hi * 256, lo)

(***************************************************************************)
(* encode64array(input): a do-while loop over groups of three bytes.  The  *)
(* body runs once even for an empty array, reading input[0] = undefined,   *)
(* which every shift and mask turns into 0.  A byte that is not read is 0. *)
(* count is the number of bytes the group read; enc3/enc4 are '=' when it  *)
(* read fewer than two/three.  Each iteration appends four characters, so  *)
(* character k of the output is character (k-1) % 4 of group (k-1) \div 4. *)
(***************************************************************************)
encode64array(input) ==
    LET n       == Len(input)
        groups  == IF n = 0 THEN 1 ELSE (n + 2) \div 3
        chr(j)  == IF j < n THEN input[j + 1] ELSE 0
        count(g) == IF n = 0 THEN 1
                    ELSE IF n - 3 * g >= 3 THEN 3 ELSE n - 3 * g
        enc(g)  == EncGroup(chr(3 * g), chr(3 * g + 1), chr(3 * g + 2), count(g))
    IN  [k \in 1 .. 4 * groups |-> enc((k - 1) \div 4)[((k - 1) % 4) + 1]]

(***************************************************************************)
(* decode64array(input): the regular expression first drops every          *)
(* character outside the key string; then a do-while loop over groups of  *)
(* four.  charAt past the end is "" and keyStr.indexOf("") is 0, so a      *)
(* short last group is completed with 'A's.  chr2 and chr3 are emitted     *)
(* only when enc3 / enc4 is not '='; chr1 always is.  In chr1 the operands *)
(* overlap when enc2 is '=' (64 >> 4 = 4), hence BitOr; in chr2 and chr3   *)
(* they are disjoint whenever the value is emitted.                        *)
(***************************************************************************)
decode64array(input) ==
    LET s      == SelectSeq(input, LAMBDA ch : ch \in 0 .. Pad)
        m      == Len(s)
        groups == IF m = 0 THEN 1 ELSE (m + 3) \div 4
        enc(j) == IF j < m THEN s[j + 1] ELSE 0
        grp(g) ==
            LET e1 == enc(4 * g)      e2 == enc(4 * g + 1)
                e3 == enc(4 * g + 2)  e4 == enc(4 * g + 3)
            IN  DecGroup(e1, e2, e3, e4)
    IN  FlattenSeq([g \in 1 .. groups |-> grp(g - 1)])

(* The array encode64UTF8 builds before it calls encode64array. *)
Utf8Data(str) == FlattenSeq([k \in 1 .. Len(str) |-> UnitBytes(str[k])])

(* The array encode64Unicode builds: a little-endian byte-order mark, then *)
(* each code unit low byte first.                                          *)
Utf16Data(str) ==
    << 255, 254 >>
    \o FlattenSeq([k \in 1 .. Len(str) |-> << str[k] % 256, (str[k] \div 256) % 256 >>])

(***************************************************************************)
(* decode64UTF8(input): walks the decoded bytes; a byte below 128 is one   *)
(* unit, a lead in 192..223 takes one continuation byte, anything else     *)
(* takes two.  A byte past the end is undefined and undefined & 63 is 0.  *)
(* The composed values stay below 0x10000, so fromCharCode keeps them.    *)
(***************************************************************************)
decode64UTF8(input) ==
    LET b      == decode64array(input)
        n      == Len(b)
        at(j)  == IF j < n THEN b[j + 1] ELSE 0
        dec[i \in Nat] ==
            IF i >= n THEN << >>
            ELSE LET c == b[i + 1] IN
                 << Utf8Unit(c, at(i + 1), at(i + 2)) >> \o dec[i + Utf8Width(c)]
    IN  dec[0]

(***************************************************************************)
(* decode64Unicode(input): swap is set by the mark FF FE; FE FF and a      *)
(* missing mark (after the confirm dialog) both leave it unset, which      *)
(* reads the units high byte first.  Units are read from byte 2 in steps   *)
(* of two; a missing odd byte is 0; fromCharCode keeps the low 16 bits.    *)
(***************************************************************************)
decode64UnicodeMarkSwapped(input) ==
    LET b     == decode64array(input)
        n     == Len(b)
        at(j) == IF j < n THEN b[j + 1] ELSE 0
        swap  == n >= 2 /\ b[1] = 254 /\ b[2] = 255
        unit(x) == IF swap THEN Utf16Unit(at(x + 1), at(x))
                           ELSE Utf16Unit(at(x), at(x + 1))
    IN  [k \in 1 .. (IF n > 2 THEN (n - 1) \div 2 ELSE 0) |-> unit(2 * k)]

decode64Unicode(input) ==
    LET b     == decode64array(input)
        n     == Len(b)
        at(j) == IF j < n THEN b[j + 1] ELSE 0
        swap  == n >= 2 /\ b[1] = 255 /\ b[2] = 254
        unit(x) == IF swap THEN Utf16Unit(at(x + 1), at(x))
                           ELSE Utf16Unit(at(x), at(x + 1))
    IN  [k \in 1 .. (IF n > 2 THEN (n - 1) \div 2 ELSE 0) |-> unit(2 * k)]

-----------------------------------------------------------------------------
(* The input enumeration: a byte array or a string of code units is built *)
(* up one element at a time; each state holds one input, the other empty. *)
VARIABLES bytes, text

vars == << bytes, text >>

Init == bytes = << >> /\ text = << >>

ExtendBytes ==
    /\ text = << >>
    /\ Len(bytes) < MaxBytes
    /\ \E v \in ByteVals : bytes' = Append(bytes, v)
    /\ UNCHANGED text

ExtendText ==
    /\ bytes = << >>
    /\ Len(text) < MaxChars
    /\ \E u \in Units : text' = Append(text, u)
    /\ UNCHANGED bytes

Next == ExtendBytes \/ ExtendText

Spec == Init /\ [][Next]_vars

-----------------------------------------------------------------------------
(* Type: the inputs are arrays of the enumerated values and encode64array *)
(* only emits indices of the key string (charAt past it would give "").   *)
TypeOK ==
    /\ bytes \in Seq(ByteVals)
    /\ text \in Seq(Units)
    /\ \A k \in 1 .. Len(encode64array(bytes)) : encode64array(bytes)[k] \in 0 .. Pad

(* encode64array followed by decode64array gives back every non-empty     *)
(* byte array, whatever padding its last group needs and with line breaks *)
(* inserted into the text between the two.                                *)
RoundTripNonEmpty ==
    bytes # << >> =>
        LET t == encode64array(bytes)
        IN  /\ decode64array(t) = bytes
            /\ decode64array(<< Junk >> \o t \o << Junk >>) = bytes

(* The round trip of spec.md section 8, for every byte array, the empty  *)
(* one included.                                                           *)
RoundTrip == decode64array(encode64array(bytes)) = bytes

(* decode64UTF8 inverts the UTF-8 conversion of encode64UTF8 (through      *)
(* encode64array) on every non-empty string of code units, surrogates     *)
(* included.                                                               *)
Utf8RoundTrip ==
    text # << >> => decode64UTF8(encode64array(Utf8Data(text))) = text

(* decode64Unicode inverts encode64Unicode on every string. *)
Utf16RoundTrip == decode64Unicode(encode64array(Utf16Data(text))) = text

(* spec.md section 4.2: decoding a text whose cleaned length is not a    *)
(* multiple of 4 is flagged and does not silently corrupt data.  Here:    *)
(* the encoding of a non-empty array with its '=' pads left off decodes   *)
(* to the array itself.                                                    *)
UnpaddedNotCorrupted ==
    bytes # << >> =>
        decode64array(SelectSeq(encode64array(bytes), LAMBDA ch : ch # Pad)) = bytes

(* Standard UTF-8 of a string, as a server writes it: a surrogate pair   *)
(* becomes the 4 bytes of its code point; other units as in UnitBytes.    *)
StdUtf8(str) ==
    LET n     == Len(str)
        pair(i) == i < n /\ str[i] \in 55296 .. 56319 /\ str[i + 1] \in 56320 .. 57343
        cp(i)   == 65536 + (str[i] - 55296) * 1024 + (str[i + 1] - 56320)
        enc[i \in Nat] ==
            IF i > n THEN << >>
            ELSE IF pair(i)
                 THEN << 240 + cp(i) \div 262144, 128 + ((cp(i) \div 4096) % 64),
                         128 + ((cp(i) \div 64) % 64), 128 + (cp(i) % 64) >> \o enc[i + 2]
                 ELSE UnitBytes(str[i]) \o enc[i + 1]
    IN  enc[1]

(* decode64UTF8, which deserializeBase64orMom applies to inline base64     *)
(* content, gives back every non-empty string from its standard UTF-8,    *)
(* characters above 0xFFFF (4 bytes, spec.md section 4.2) included.       *)
Utf8DecodeStandard ==
    text # << >> => decode64UTF8(encode64array(StdUtf8(text))) = text

=============================================================================
