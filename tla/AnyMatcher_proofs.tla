--------------------------- MODULE AnyMatcher_proofs ---------------------------
(***************************************************************************)
(* The xsd:any matcher of cxf-utils.js agrees with spec.md 4.3, for every  *)
(* wildcard, namespace and local name.  AnyType's run checks the same on   *)
(* the names a small DOM resolves to; this is the pure function's part.    *)
(***************************************************************************)
EXTENDS AnyMatcher, TLAPS

(* The listed style: some entry of nslist is hit exactly when the         *)
(* namespace is listed, or "##local" is listed and the element is          *)
(* unqualified and not the next one.  A namespace equal to the entry      *)
(* "##local" itself is excluded: the loop tests that entry before it      *)
(* compares, so it never matches it.                                       *)
LEMMA ListedMatch ==
    ASSUME NEW m, m.nextLocalPart # Null, NEW ns, ns # LocalEntry, NEW ln
    PROVE  (\E x \in DOMAIN m.nslist : ListedHit(m, x, ns, ln))
           <=> \/ ns \in Entries(m.nslist)
               \/ LocalEntry \in Entries(m.nslist) /\ (ns = Null \/ ns = << >>)
                  /\ ln # m.nextLocalPart
<1>1. ASSUME NEW x \in DOMAIN m.nslist, ListedHit(m, x, ns, ln)
      PROVE  \/ ns \in Entries(m.nslist)
             \/ LocalEntry \in Entries(m.nslist) /\ (ns = Null \/ ns = << >>)
                /\ ln # m.nextLocalPart
  <2>1. CASE m.nslist[x] = LocalEntry
    BY <1>1, <2>1 DEF ListedHit, Unqualified, Entries
  <2>2. CASE m.nslist[x] # LocalEntry
    BY <1>1, <2>2 DEF ListedHit, Entries
  <2> QED BY <2>1, <2>2
<1>2. ASSUME ns \in Entries(m.nslist)
      PROVE  \E x \in DOMAIN m.nslist : ListedHit(m, x, ns, ln)
  <2>1. PICK x \in DOMAIN m.nslist : m.nslist[x] = ns
    BY <1>2 DEF Entries
  <2>2. m.nslist[x] # LocalEntry
    BY <2>1
  <2> QED BY <2>1, <2>2 DEF ListedHit
<1>3. ASSUME LocalEntry \in Entries(m.nslist), ns = Null \/ ns = << >>,
             ln # m.nextLocalPart
      PROVE  \E x \in DOMAIN m.nslist : ListedHit(m, x, ns, ln)
  <2>1. PICK x \in DOMAIN m.nslist : m.nslist[x] = LocalEntry
    BY <1>3 DEF Entries
  <2> QED BY <1>3, <2>1 DEF ListedHit, Unqualified
<1> QED BY <1>1, <1>2, <1>3

(* match(namespaceURI, localName) answers as spec.md 4.3 says a wildcard  *)
(* matches, for each of the four styles, whenever the generated code      *)
(* passes the next expected local part (nextLocalPart # null) and the     *)
(* namespace is a URI (not the token "##local").                          *)
THEOREM MatchAgreesWithSpec ==
    ASSUME NEW m, m.style \in Styles, m.nextLocalPart # Null,
           NEW ns, ns # LocalEntry, NEW ln
    PROVE  Match(m, ns, ln) = SpecMatch(m, ns, ln)
<1>1. CASE m.style = << "##any" >>
  BY <1>1 DEF Match, SpecMatch
<1>2. CASE m.style = << "##other" >>
  BY <1>2 DEF Match, SpecMatch
<1>3. CASE m.style = << "##local" >>
  BY <1>3 DEF Match, SpecMatch, Unqualified
<1>4. CASE m.style = << "listed" >>
  <2>1. Match(m, ns, ln) = \E x \in DOMAIN m.nslist : ListedHit(m, x, ns, ln)
    BY <1>4 DEF Match
  <2>2. SpecMatch(m, ns, ln) =
          \/ ns \in Entries(m.nslist)
          \/ LocalEntry \in Entries(m.nslist) /\ (ns = Null \/ ns = << >>)
             /\ ln # m.nextLocalPart
    BY <1>4 DEF SpecMatch
  <2> QED BY <2>1, <2>2, ListedMatch
<1> QED BY <1>1, <1>2, <1>3, <1>4 DEF Styles

=============================================================================
