--------------------------- MODULE NamespaceNames ---------------------------
(***************************************************************************)
(* The per-element half of the namespace resolver of cxf-utils.js: the    *)
(* name helpers getPrefix and getLocalName (141-158), and findNamespace    *)
(* (70-90), which looks through one element's attributes for the           *)
(* declaration of a prefix.  Namespaces walks the ancestors with it.       *)
(* Names are sequences of tokens; ":" is a token of its own.               *)
(***************************************************************************)
EXTENDS Naturals, Sequences, SequencesExt, JsValues

CONSTANT
    AttrOrder   \* the attribute names, in the order attributes.item(x) lists them

(* A name is a string, never null: no token of a name is the one the      *)
(* model writes null with.                                                 *)
ASSUME AttrOrderAssumption ==
    /\ AttrOrder \in Seq(Seq(STRING))
    /\ \A n \in Range(AttrOrder) : \A j \in DOMAIN n : << n[j] >> # Null

\* tagName.indexOf(":"): the 0-based index of the first ':', -1 when absent.
ColonIndex(tagName) ==
    LET I == {i \in 1 .. Len(tagName) : tagName[i] = ":"}
    IN  IF I = {} THEN -1 ELSE Min(I) - 1

\* getPrefix: the text before the first ':', or null.
GetPrefix(tagName) ==
    IF ColonIndex(tagName) = -1 THEN Null ELSE SubSeq(tagName, 1, ColonIndex(tagName))

\* getLocalName: the text after the first ':', or the whole name.
GetLocalName(tagName) ==
    IF ColonIndex(tagName) = -1 THEN tagName
    ELSE SubSeq(tagName, ColonIndex(tagName) + 2, Len(tagName))

\* Mutant: a default declaration xmlns="..." answers every prefix.
DeclaresAnyPrefix(n, prefix) ==
    \/ GetPrefix(n) = Null /\ GetLocalName(n) = << "xmlns" >>
    \/ GetPrefix(n) = << "xmlns" >> /\ GetLocalName(n) = prefix

(* The test of findNamespace's loop: attribute n declares the default     *)
(* namespace and the prefix looked for is null, or n is xmlns:<prefix>.  *)
Declares(n, prefix) ==
    \/ prefix = Null /\ GetPrefix(n) = Null /\ GetLocalName(n) = << "xmlns" >>
    \/ GetPrefix(n) = << "xmlns" >> /\ GetLocalName(n) = prefix

(* findNamespace on an element whose attributes are the function attrs:  *)
(* the loop visits them in AttrOrder and returns the value of the first   *)
(* declaring one, else null.  With no attributes at all it returns        *)
(* undefined, which the caller's '== null' does not tell from null.       *)
FindNamespace(attrs, prefix) ==
    LET I == {i \in 1 .. Len(AttrOrder) :
                AttrOrder[i] \in DOMAIN attrs /\ Declares(AttrOrder[i], prefix)}
    IN  IF I = {} THEN Null ELSE attrs[AttrOrder[Min(I)]]

\* The declaration of prefix p as the XML namespaces recommendation names it.
DeclName(p) == IF p = Null THEN << "xmlns" >> ELSE << "xmlns", ":" >> \o p

=============================================================================
