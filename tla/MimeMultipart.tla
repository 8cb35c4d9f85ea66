---------------------------- MODULE MimeMultipart ----------------------------
(***************************************************************************)
(* The MTOM text of cxf-utils.js: packageMtom (933-941) queues a part on   *)
(* utils.client.mtomparts, request (690-751) wraps the XML and the queued  *)
(* parts in a multipart/related body with boundary "@_bOuNDaRy_<uuid>",   *)
(* and parseMultipartRelated (796-878) splits such a body back into a     *)
(* primary part and an attachment table keyed by Content-ID.              *)
(*                                                                         *)
(* Text is a sequence of tokens.  CR, LF, the space and the characters    *)
(* the code searches for (: ; = " ' < > -) are tokens of their own; a      *)
(* run of other characters the code never looks inside (a header name, a  *)
(* MIME type, a uuid, the boundary) is one token.  String positions are   *)
(* 0-based as in JavaScript; -1 is "not found".                            *)
(***************************************************************************)
EXTENDS Naturals, Integers, Sequences, SequencesExt

CONSTANTS
    Uuids,     \* the uuids make_uuid may return for content ids
    Values,    \* the attachment strings a serializer may hand to packageMtom
    MaxParts   \* bound on the number of attachments of one request

CR == "CR"
LF == "LF"
Whitespace == {" ", CR, LF}          \* what \s matches here

\* toLowerCase on the tokens that carry capitals.
LowerOf == ("Content-Type" :> "content-type") @@ ("Content-ID" :> "content-id")
           @@ ("Content-Id" :> "content-id") @@ ("Multipart/Related" :> "multipart/related")
           @@ ("Boundary" :> "boundary")
Lower(s) == [i \in 1 .. Len(s) |-> IF s[i] \in DOMAIN LowerOf THEN LowerOf[s[i]] ELSE s[i]]

-----------------------------------------------------------------------------
(* JavaScript string primitives, on 0-based positions.                     *)

\* s.indexOf(ch, from)
IndexOf(s, ch, from) ==
    LET i == SelectInSubSeq(s, from + 1, Len(s), LAMBDA c : c = ch)
    IN  IF i = 0 THEN -1 ELSE i - 1

\* s.charAt(i); "" past the end
CharAt(s, i) == IF 0 <= i /\ i < Len(s) THEN s[i + 1] ELSE ""

\* s.slice(a, b) with a >= 0; a negative b counts from the end
Slice(s, a, b) == LET e == IF b < 0 THEN Len(s) + b ELSE b IN SubSeq(s, a + 1, e)

\* s.substr(a) and s.substr(a, n) with a >= 0; a negative n gives ""
Substr(s, a) == SubSeq(s, a + 1, Len(s))
SubstrN(s, a, n) == SubSeq(s, a + 1, IF a + n < Len(s) THEN a + n ELSE Len(s))

\* s.split(d) for a non-empty string d: the pieces between occurrences.
IndexOfSeq(s, d) ==
    LET I == {i \in 0 .. Len(s) - Len(d) : SubSeq(s, i + 1, i + Len(d)) = d}
    IN  IF I = {} THEN -1 ELSE Min(I)
RECURSIVE Split(_, _)
Split(s, d) ==
    LET i == IndexOfSeq(s, d)
    IN  IF i = -1 THEN << s >>
        ELSE << SubSeq(s, 1, i) >> \o Split(SubSeq(s, i + Len(d) + 1, Len(s)), d)

\* Blanks stripped at the start and at the end of s.
RECURSIVE TrimLeft(_), TrimRight(_)
TrimLeft(s) == IF s # << >> /\ Head(s) \in Whitespace THEN TrimLeft(Tail(s)) ELSE s
TrimRight(s) == IF s # << >> /\ Last(s) \in Whitespace THEN TrimRight(Front(s)) ELSE s

\* org_apache_cxf_trim_string: str.replace(/^\s+|\s+$/g, '')
Trim(s) == TrimRight(TrimLeft(s))

\* contentType.split(/\s*;\s*/): split on ';' and drop the blanks around it.
SplitParams(s) ==
    LET seg == Split(s, << ";" >>)
    IN  [k \in 1 .. Len(seg) |->
            LET l == IF k > 1 THEN TrimLeft(seg[k]) ELSE seg[k]
            IN  IF k < Len(seg) THEN TrimRight(l) ELSE l]

\* A dictionary of the code (result[k] = v, headers[name] = value).
Put(dict, k, v) == [n \in DOMAIN dict \cup {k} |-> IF n = k THEN v ELSE dict[n]]
NoEntries == [k \in {} |-> << >>]
Undefined == << "(undefined)" >>
Get(dict, k) == IF k \in DOMAIN dict THEN dict[k] ELSE Undefined

-----------------------------------------------------------------------------
(* Sending: packageMtom and the body of request.                           *)

\* The mtomObject packageMtom pushes for content id u and string value v.
MtomObject(u, v) ==
    << "Content-Type", ":", " ", "text/plain; charset=\"utf-8\";", CR, LF,
       "Content-ID", ":", " ", "<", u, ">", CR, LF, CR, LF >> \o v \o << CR, LF >>

\* mimeBoundary = '@_bOuNDaRy_' + uuid, and the Content-Type header it heads.
Boundary == << "@_bOuNDaRy_uuid" >>
RequestContentType ==
    << "multipart/related", ";", " ", "start-info", "=", "\"", "text/xml", "\"",
       ";", " ", "type", "=", "\"", "application/xop+xml", "\"",
       ";", " ", "boundary", "=", "\"" >> \o Boundary \o << "\"" >>

\* ORG_APACHE_CXF_MTOM_REQUEST_HEADER
MtomRequestHeader == << "Content-Type", ":", " ", "application/xop+xml", CR, LF >>

\* dataToSend when mtomparts is not empty.
RequestBody(xml, mtomparts) ==
    LET delim == << "-", "-" >> \o Boundary
    IN  delim \o << CR, LF >> \o MtomRequestHeader \o << CR, LF >> \o xml
        \o FlattenSeq([i \in 1 .. Len(mtomparts) |->
                          << CR, LF, CR, LF >> \o delim \o << CR, LF >> \o mtomparts[i]])
        \o delim \o << "-", "-", CR, LF >>

-----------------------------------------------------------------------------
(* Receiving: parseMultipartRelated.                                       *)

(* The value of one "key=value" parameter: trimmed, then one pair of      *)
(* double quotes and then one pair of single quotes taken off (by         *)
(* position, whatever the last character is).                             *)
ParamValueUntrimmed(str, valequal) ==
    LET v0 == Substr(str, valequal + 1)
        v1 == IF CharAt(v0, 0) = "\"" THEN SubstrN(v0, 1, Len(v0) - 2) ELSE v0
    IN  IF CharAt(v1, 0) = "'" THEN SubstrN(v1, 1, Len(v1) - 2) ELSE v1

ParamValue(str, valequal) ==
    LET v0 == Trim(Substr(str, valequal + 1))
        v1 == IF CharAt(v0, 0) = "\"" THEN SubstrN(v0, 1, Len(v0) - 2) ELSE v0
    IN  IF CharAt(v1, 0) = "'" THEN SubstrN(v1, 1, Len(v1) - 2) ELSE v1

\* org_apache_cxf_parse_mime_keyword_value_pairs(strings), from index 1
RECURSIVE KeywordValuePairs(_, _)
KeywordValuePairs(strings, x) ==
    IF x >= Len(strings) THEN NoEntries
    ELSE LET str      == strings[x + 1]
             valequal == IndexOf(str, "=", 0)
             rest     == KeywordValuePairs(strings, x + 1)   \* later keys win
         IN  IF valequal = -1 THEN rest
             ELSE rest @@ (Trim(Lower(Slice(str, 0, valequal))) :> ParamValue(str, valequal))

(* One header line "Name: value": the name lower-cased, the value trimmed. *)
(* Without a colon, slice(0, -1) drops the last character.                *)
AddHeader(headers, line) ==
    LET colon == IndexOf(line, ":", 0)
    IN  Put(headers, Lower(Slice(line, 0, colon)), Trim(Substr(line, colon + 1)))

(* The nextHeaderLine loop from position x: lines end at CR, a following   *)
(* LF is skipped; a blank line before the first header is skipped, the    *)
(* first blank line after one ends the loop by 'break', which leaves x at  *)
(* the start of that blank line.  Without a CR the loop ends with x after  *)
(* the last line it read.                                                  *)
RECURSIVE ScanHeaders(_, _, _, _)
ScanHeaders(pt, x, seen, headers) ==
    LET endX == IndexOf(pt, CR, x)
        line == Slice(pt, x, endX)
        next == IF CharAt(pt, endX + 1) = LF THEN endX + 2 ELSE endX + 1
    IN  IF endX = -1 \/ (line = << >> /\ seen)
        THEN [x |-> x, headers |-> headers]
        ELSE ScanHeaders(pt, next, seen \/ line # << >>,
                         IF line = << >> THEN headers ELSE AddHeader(headers, line))

\* One part: its data (from x, or x + 1 when that is LF) and its headers,
\* from the result s of the header loop.
PartFrom(pt, s) ==
    LET x == IF CharAt(pt, s.x + 1) = LF THEN s.x + 1 ELSE s.x
    IN  [data |-> Substr(pt, x), contentType |-> Get(s.headers, << "content-type" >>),
         cid |-> Get(s.headers, << "content-id" >>)]
ParsePart(pt) == PartFrom(pt, ScanHeaders(pt, 0, FALSE, NoEntries))

\* cid.substr(1, cid.length - 2)
CidKeepsBrackets(cid) == cid
StripCid(cid) == SubstrN(cid, 1, Len(cid) - 2)

(* The loop over the parts between the first and the last boundary       *)
(* (px from 1 to parts.length - 2, 0-based): the first is the primary     *)
(* part, each later one goes into this.parts under its Content-ID, a later *)
(* part with the same id replacing an earlier one; a missing Content-ID   *)
(* throws at cid.substr and ends the loop.                                 *)
RECURSIVE PartsLoop(_, _, _), PartStep(_, _, _, _)
PartsLoop(parts, px, res) ==
    IF px >= Len(parts) - 1 THEN res ELSE PartStep(parts, px, res, ParsePart(parts[px + 1]))
PartStep(parts, px, res, p) ==
    IF px > 1 /\ p.cid = Undefined THEN [res EXCEPT !.outcome = "TypeError"]
    ELSE PartsLoop(parts, px + 1,
                   IF px = 1 THEN [res EXCEPT !.primary = p.data]
                   ELSE [res EXCEPT !.table = Put(@, StripCid(p.cid), p)])

\* A parse that returns false or throws before the loop: nothing assigned.
Fails(o) == [outcome |-> o, primary |-> << >>, table |-> NoEntries]

(* parseMultipartRelated once the Content-Type is split into ctPart and   *)
(* its boundary parameter read: returns false unless the main type is     *)
(* multipart/related and the boundary is there, else splits the text on   *)
(* "--" + boundary and runs the loop.                                      *)
ParseSplit(contentType, text, ctPart, boundary) ==
    CASE contentType = << >> -> Fails("NotMultipart")
      [] Lower(ctPart[1]) # << "multipart/related" >> -> Fails("NotMultipart")
      [] boundary \in {Undefined, << >>} -> Fails("NotMultipart")
      [] OTHER -> PartsLoop(Split(text, << "-", "-" >> \o boundary), 1, Fails("parsed"))

(* The result of parseMultipartRelated on a Content-Type header and a body: *)
(* outcome "NotMultipart" when it returns false, "TypeError" when an      *)
(* attachment part has no Content-ID, else the primary part's data and    *)
(* this.parts.                                                             *)
ParseWithParams(contentType, text, ctPart) ==
    ParseSplit(contentType, text, ctPart, Get(KeywordValuePairs(ctPart, 1), << "boundary" >>))
ParseMultipartRelated(contentType, text) ==
    ParseWithParams(contentType, text, SplitParams(contentType))

-----------------------------------------------------------------------------
(* One request's attachments: the serializer calls packageMtom once per    *)
(* MTOM value, each time with a fresh uuid; request then sends the body.  *)
(* attached is the history of packageMtom's arguments, kept to state the  *)
(* properties; contentType is the header the body comes back with: the    *)
(* one request set, or the same boundary written as a server may write it *)
(* (any case, blanks around ';' and '=', quoted, single-quoted or bare,   *)
(* among other parameters).                                                *)
VARIABLES mtomparts, attached, contentType

vars == << mtomparts, attached, contentType >>

\* The serialized request XML, placeholders included.
Xml == << "<soap-env:Envelope ... />" >>

ContentTypeForms ==
    { RequestContentType,
      << "multipart/related", ";", "boundary", "=" >> \o Boundary,
      << "Multipart/Related", " ", ";", " ", "Boundary", " ", "=", " ", "\"" >>
         \o Boundary \o << "\"" >>,
      << "multipart/related", ";", " ", "type", "=", "\"", "application/xop+xml", "\"",
         ";", " ", "boundary", "=", "'" >> \o Boundary
         \o << "'", ";", " ", "start", "=", "\"", "<", "root", ">", "\"" >> }

Init ==
    /\ mtomparts = << >>
    /\ attached = << >>
    /\ contentType \in ContentTypeForms

\* packageMtom(value): this.client.mtomparts.push(mtomObject)
PackageMtom ==
    /\ Len(mtomparts) < MaxParts
    /\ \E u \in Uuids \ {attached[i].cid : i \in 1 .. Len(attached)}, v \in Values :
          /\ mtomparts' = Append(mtomparts, MtomObject(u, v))
          /\ attached' = Append(attached, [cid |-> u, value |-> v])
    /\ UNCHANGED contentType

Spec == Init /\ [][PackageMtom]_vars

-----------------------------------------------------------------------------
(* The body request sends, parsed back by parseMultipartRelated. *)
Sent == ParseMultipartRelated(contentType, RequestBody(Xml, mtomparts))
SentParts == Split(RequestBody(Xml, mtomparts), << "-", "-" >> \o Boundary)

\* The parse result s keys exactly the attached content ids, with their type.
RoundTripOf(s) ==
    /\ s.outcome = "parsed"
    /\ DOMAIN s.table = {<< attached[i].cid >> : i \in 1 .. Len(attached)}
    /\ \A k \in DOMAIN s.table :
          s.table[k].contentType = << "text/plain; charset=\"utf-8\";" >>

(* Parsing the body request builds, under any of the header forms, gives   *)
(* an attachment table keyed by exactly the content ids packageMtom        *)
(* generated, each part keeping its Content-Type: the boundary survives   *)
(* the header's quoting and case, and the angle brackets are stripped     *)
(* from every Content-ID.                                                  *)
RequestRoundTrip == attached # << >> => RoundTripOf(Sent)

(* The text after the first blank line (CR LF CR LF) of a part. *)
AfterBlankLine(pt) ==
    LET i == IndexOfSeq(pt, << CR, LF, CR, LF >>) IN Substr(pt, i + 4)

\* Each part's data in the parse result s is the text after its blank line
\* in the parts sp of the body.
VerbatimOf(s, sp) ==
    /\ s.primary = AfterBlankLine(sp[2])
    /\ \A px \in 3 .. Len(sp) - 1 :
          s.table[StripCid(ParsePart(sp[px]).cid)].data = AfterBlankLine(sp[px])

(* spec.md section 4.4: after the header block, everything after the blank *)
(* line is the part's body, verbatim - for the primary part and for every  *)
(* attachment of a body that request built.                                *)
PartDataVerbatim == attached # << >> => VerbatimOf(Sent, SentParts)

=============================================================================
