------------------------------ MODULE AnyType ------------------------------
(***************************************************************************)
(* The xsd:any support of cxf-utils.js, on the DOM of Namespaces:          *)
(*   - org_apache_cxf_any_ns_matcher (101-139, module AnyMatcher), on the *)
(*     namespace URI and local name the resolver gives an element;         *)
(*   - get_xsi_type and deserialize_anyType (979-1040): the xsi:type       *)
(*     attribute of an element, and the value it stands for: a parsed      *)
(*     XML Schema simple value, an object of a registered deserializer,    *)
(*     or the element itself.                                              *)
(* Both are pure functions of the DOM; a generated deserializer calls them *)
(* on the elements of a response, with the names the resolver gives.       *)
(***************************************************************************)
EXTENDS Namespaces, AnyMatcher

CONSTANTS
    XsiUri,    \* org_apache_cxf_XSI_namespace_uri
    XsdUri,    \* org_apache_cxf_XSD_namespace_uri
    Text,      \* Text[e]: nodeValue of e's firstChild, Null when there is none
    Registry,  \* the qualified names globalElementDeserializers has a function for
    Matchers   \* the wildcards of the content models: [style, tns, nslist, nextLocalPart]

\* The JS booleans a deserializer may return for xsd:boolean.
True == << "(true)" >>
False == << "(false)" >>

ASSUME AnyTypeAssumption ==
    /\ Text \in [Elements -> Seq(STRING) \cup {Null}]
    /\ \A m \in Matchers : m.style \in Styles /\ m.nslist \in Seq(Seq(STRING))

-----------------------------------------------------------------------------
(* xsi:type dispatch (979-1040).                                           *)

\* Mutant: the first attribute named type is taken, whatever its namespace.
GetXsiTypeAnyNamespace(e) ==
    LET L == AttrList(e)
        i == SelectInSeq(L, LAMBDA n : GetLocalName(n) = << "type" >>)
    IN  IF i = 0 THEN Null ELSE attrs[e][L[i]]

\* get_xsi_type: the value of the first attribute named <prefix>:type or
\* type whose prefix the resolver maps to the XSI namespace, else null.
GetXsiType(e) ==
    LET L == AttrList(e)
        i == SelectInSeq(L, LAMBDA n : GetLocalName(n) = << "type" >>
                                       /\ GetNamespaceURI(e, GetPrefix(n)) = XsiUri)
    IN  IF i = 0 THEN Null ELSE attrs[e][L[i]]

(* What deserialize_anyType does with the text of an xsd-typed element:    *)
(* parseInt for the integer types, parseFloat for float and double, the    *)
(* comparison with 'true' for boolean, and the text itself otherwise.      *)
Convert(localName, text) ==
    CASE localName \in {<< "int" >>, << "unsignedInt" >>, << "long" >>, << "unsignedLong" >>}
                                  -> [kind |-> "parseInt", val |-> text]
      [] localName \in {<< "float" >>, << "double" >>}
                                  -> [kind |-> "parseFloat", val |-> text]
      [] localName = << "boolean" >> -> [kind |-> "boolean", val |-> IF text = << "true" >> THEN True ELSE False]
      [] OTHER                    -> [kind |-> "text", val |-> text]

\* The element returned as it is, and the value of a registered deserializer.
AsElement(e) == [kind |-> "element", val |-> e]
Deserialized(qname, e) == [kind |-> "object", val |-> << qname, e >>]

(* deserialize_anyType: no xsi:type gives the element; a type in the XSD   *)
(* namespace converts the first child's text (null without one); another  *)
(* type goes to the deserializer registered for {uri}localName, if any,   *)
(* and gives the element otherwise.                                        *)
DeserializeAnyType(e) ==
    LET type == GetXsiType(e)
        localName == GetLocalName(type)
        uri == GetNamespaceURI(e, GetPrefix(type))
    IN  CASE type = Null                  -> AsElement(e)
          [] uri = XsdUri /\ Text[e] = Null -> [kind |-> "null", val |-> Null]
          [] uri = XsdUri                 -> Convert(localName, Text[e])
          [] << uri, localName >> \in Registry -> Deserialized(<< uri, localName >>, e)
          [] OTHER                        -> AsElement(e)

-----------------------------------------------------------------------------
(* Properties, on the elements of the document after any DOM edits.       *)

(* spec.md 4.3 (SpecMatch) on the elements of the document: the matcher *)
(* agrees with it, for wildcards whose caller supplies the next expected  *)
(* local part, on the namespace the resolver gives the element's tag in   *)
(* the current DOM.                                                        *)
MatchFollowsSpec ==
    LET anc == AncestorOrSelf IN
    \A e \in Elements : anc[e, Doc] =>
        \A m \in Matchers : m.nextLocalPart # Null =>
            LET ns == InScope(e, GetPrefix(Tag[e]), anc)
                ln == GetLocalName(Tag[e])
            IN  Match(m, GetElementNamespaceURI(e), ln) = SpecMatch(m, ns, ln)

(* spec.md 4.5: the value deserialize_anyType gives an element is decided  *)
(* by its xsi:type attribute, an attribute named type whose prefix is      *)
(* bound in scope to the XSI namespace, and by the namespace in scope for  *)
(* the prefix written in its value: the XSD namespace converts the text,   *)
(* a registered {uri}localName calls its deserializer, and anything else,  *)
(* as well as no xsi:type, returns the element.                            *)
ExpectedValue(e, anc) ==
    LET isType(n) == GetLocalName(n) = << "type" >> /\ InScope(e, GetPrefix(n), anc) = XsiUri
        typed == {n \in DOMAIN attrs[e] : isType(n)}
        type  == attrs[e][CHOOSE n \in typed : TRUE]
        uri   == InScope(e, GetPrefix(type), anc)
        qname == << uri, GetLocalName(type) >>
    IN  CASE typed = {}                     -> AsElement(e)
          [] uri = XsdUri /\ Text[e] = Null -> [kind |-> "null", val |-> Null]
          [] uri = XsdUri                   -> Convert(GetLocalName(type), Text[e])
          [] qname \in Registry             -> Deserialized(qname, e)
          [] OTHER                          -> AsElement(e)

DeserializeFollowsXsiType ==
    LET anc == AncestorOrSelf IN
    \A e \in Elements : anc[e, Doc] => DeserializeAnyType(e) = ExpectedValue(e, anc)

=============================================================================
