---------------------------- MODULE MC_Namespaces ----------------------------
(* Instances of Namespaces for TLC: three elements, two of them prefixed,  *)
(* the default and one prefix declaration, a URI and the empty string.     *)
EXTENDS Namespaces

CONSTANTS e1, e2, e3

MC_Elements == {e1, e2, e3}
MC_Tag == (e1 :> << "a", ":", "x" >>) @@ (e2 :> << "y" >>) @@ (e3 :> << "a", ":", "z" >>)
MC_AttrOrder == << << "xmlns" >>, << "xmlns", ":", "a" >> >>
MC_AttrValues == [n \in Range(MC_AttrOrder) |-> { << "urn:u" >>, << >> }]
=============================================================================
