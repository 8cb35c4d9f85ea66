----------------------------- MODULE MC_AnyType -----------------------------
(* Instances of AnyType for TLC: three elements, one prefixed; the default *)
(* declaration (XSD or ""), xmlns:a (XSI or XSD) and an a:type attribute   *)
(* of value T: an xsd type or a registered one by the default in scope.  *)
EXTENDS AnyType

CONSTANTS e1, e2, e3

MC_Elements == {e1, e2, e3}
MC_Tag == (e1 :> << "a", ":", "x" >>) @@ (e2 :> << "y" >>) @@ (e3 :> << "z" >>)
MC_AttrOrder == << << "xmlns" >>, << "xmlns", ":", "a" >>, << "a", ":", "type" >> >>
MC_XsiUri == << "http://www.w3.org/2001/XMLSchema-instance" >>
MC_XsdUri == << "http://www.w3.org/2001/XMLSchema" >>
MC_AttrValues ==
    (<< "xmlns" >> :> {MC_XsdUri, << >>})
    @@ (<< "xmlns", ":", "a" >> :> {MC_XsiUri, MC_XsdUri})
    @@ (<< "a", ":", "type" >> :> {<< "T" >>})
MC_Text == (e1 :> << "42" >>) @@ (e2 :> Null) @@ (e3 :> << "true" >>)
MC_Registry == { << << >>, << "T" >> >> }
MC_Matchers ==
    { [style |-> << "##any" >>, tns |-> << "urn:t" >>, nslist |-> << >>, nextLocalPart |-> << "y" >>],
      [style |-> << "##other" >>, tns |-> MC_XsdUri, nslist |-> << >>, nextLocalPart |-> << "y" >>],
      [style |-> << "##local" >>, tns |-> << "urn:t" >>, nslist |-> << >>, nextLocalPart |-> << "y" >>],
      [style |-> << "listed" >>, tns |-> << "urn:t" >>,
       nslist |-> << MC_XsiUri, << "##local" >> >>, nextLocalPart |-> << "y" >>] }
=============================================================================
