----------------------------- MODULE AnyMatcher -----------------------------
(***************************************************************************)
(* org_apache_cxf_any_ns_matcher of cxf-utils.js (101-139): does an        *)
(* element, given by its namespace URI and local name, match a wildcard   *)
(* [style, tns, nslist, nextLocalPart] of style ##any, ##other, ##local   *)
(* or listed.  A pure function; AnyType applies it to the names the       *)
(* resolver gives the elements of a DOM.  Next to it, what spec.md 4.3    *)
(* says a wildcard matches.                                                *)
(***************************************************************************)
EXTENDS Sequences, JsValues

\* The four styles, as the constants ANY, OTHER, LOCAL and LISTED spell them.
Styles == {<< "##any" >>, << "##other" >>, << "##local" >>, << "listed" >>}

\* The entry of nslist that stands for the unqualified elements.
LocalEntry == << "##local" >>

\* Mutant: the LOCAL test forgets the empty namespace of xmlns="".
UnqualifiedNullOnly(ns) == ns = Null

\* namespaceURI == null || namespaceURI == ''
Unqualified(ns) == ns \in {Null, << >>}

(* One entry x of nslist: "##local" matches an unqualified element whose   *)
(* local name is not the next expected one, any other entry its own URI.  *)
ListedHit(m, x, ns, ln) ==
    IF m.nslist[x] = LocalEntry
    THEN Unqualified(ns) /\ m.nextLocalPart # Null /\ ln # m.nextLocalPart
    ELSE m.nslist[x] = ns

\* match(namespaceURI, localName), switched on the style.
Match(m, ns, ln) ==
    CASE m.style = << "##any" >>   -> TRUE
      [] m.style = << "##other" >> -> ns # m.tns
      [] m.style = << "##local" >> -> Unqualified(ns)
      [] m.style = << "listed" >>  -> \E x \in DOMAIN m.nslist : ListedHit(m, x, ns, ln)

-----------------------------------------------------------------------------
\* The namespaces a list names.
Entries(nslist) == {nslist[x] : x \in DOMAIN nslist}

(* spec.md 4.3, for the wildcards whose caller supplies the next expected  *)
(* local part: ##any matches everything, ##other what is not in the target *)
(* namespace, ##local what is unqualified (no namespace, or xmlns=""),     *)
(* and a list its namespaces, plus, with "##local" listed, an unqualified  *)
(* element not named as the next one.                                      *)
SpecMatch(m, ns, ln) ==
    CASE m.style = << "##any" >>   -> TRUE
      [] m.style = << "##other" >> -> ns # m.tns
      [] m.style = << "##local" >> -> ns = Null \/ ns = << >>
      [] m.style = << "listed" >>  ->
            \/ ns \in Entries(m.nslist)
            \/ LocalEntry \in Entries(m.nslist) /\ (ns = Null \/ ns = << >>)
               /\ ln # m.nextLocalPart
=============================================================================
