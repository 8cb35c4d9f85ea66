----------------------------- MODULE Namespaces -----------------------------
(***************************************************************************)
(* The namespace resolver of cxf-utils.js (lines 53-97; the name helpers  *)
(* and findNamespace are in NamespaceNames): a                             *)
(* generated deserializer asks getElementNamespaceURI for the namespace   *)
(* of an element's prefix, and getNamespaceURI finds it by walking the    *)
(* element and its ancestors, looking at each one's attributes for        *)
(* xmlns or xmlns:<prefix>, until it reaches the document node.           *)
(*                                                                         *)
(* The DOM is the state: which node is each element's parent and which    *)
(* attributes each element carries.  The page may edit the DOM between    *)
(* two lookups (attributes set and removed, elements appended and         *)
(* removed), since the resolver caches nothing.  Names and values are     *)
(* sequences of tokens; ":" is a token of its own, so indexOf(":") and    *)
(* substring work on positions as the code's do.                          *)
(***************************************************************************)
EXTENDS Naturals, Integers, Sequences, FiniteSets, SequencesExt, NamespaceNames

CONSTANTS
    Elements,   \* the element nodes of the page
    Doc,        \* the document node (nodeType 9)
    NoNode,     \* model value: parentNode is null (the element is detached)
    Tag,        \* Tag[e]: the element's nodeName, as a token sequence
    AttrValues  \* AttrValues[n]: the values attribute n is given (URIs, "" included)

\* The element nodes and the document.
Nodes == Elements \cup {Doc}

ASSUME NamespacesAssumption ==
    /\ Doc \notin Elements /\ NoNode \notin Nodes
    /\ Tag \in [Elements -> Seq(STRING)]
    /\ AttrValues \in [Range(AttrOrder) -> SUBSET Seq(STRING)]
    /\ \A n \in Range(AttrOrder) : Null \notin AttrValues[n] /\ TypeError \notin AttrValues[n]

VARIABLES
    parent,  \* parent[e]: e's parentNode (an element, the document, or NoNode)
    attrs    \* attrs[e]: e's attributes, a function from names to values

vars == << parent, attrs >>

-----------------------------------------------------------------------------
(* The resolver (53-97), with findNamespace from NamespaceNames.         *)

\* The names of e's attributes, in attributes.item(x) order.
AttrList(e) == SelectSeq(AttrOrder, LAMBDA n : n \in DOMAIN attrs[e])

(* getNamespaceURI: null at the document node; otherwise this element's   *)
(* declaration, or the parent's answer.  A null parentNode is read as     *)
(* elementNode.nodeType, which throws.                                    *)
RECURSIVE GetNamespaceURI(_, _)
GetNamespaceURI(n, prefix) ==
    CASE n = Doc    -> Null
      [] n = NoNode -> TypeError
      [] OTHER      -> LET ns == FindNamespace(attrs[n], prefix)
                       IN  IF ns = Null THEN GetNamespaceURI(parent[n], prefix) ELSE ns

\* getElementNamespaceURI: the namespace of the element's own prefix.
GetElementNamespaceURI(e) == GetNamespaceURI(e, GetPrefix(Tag[e]))

-----------------------------------------------------------------------------
(* The page's edits of the DOM (host operations, not runtime code).        *)

(* Climb[k][x]: the node k parentNode steps above x (NoNode past a         *)
(* detached element or the document).                                      *)
Climb[k \in Nat] ==
    IF k = 0 THEN [x \in Nodes \cup {NoNode} |-> x]
    ELSE LET below == Climb[k - 1]
         IN  [x \in Nodes \cup {NoNode} |-> IF below[x] \in Elements THEN parent[below[x]] ELSE NoNode]

\* AncestorOrSelf[x, y]: y is x or one of its ancestors.
AncestorOrSelf ==
    LET up == [k \in 0..Cardinality(Elements) |-> Climb[k]]
    IN  [x, y \in Nodes |-> \E k \in DOMAIN up : up[k][x] = y]

\* e.setAttribute(n, v): a new attribute, or a new value for it.
SetAttribute(e, n, v) ==
    /\ attrs' = [attrs EXCEPT ![e] = (n :> v) @@ @]
    /\ UNCHANGED parent

\* e.removeAttribute(n)
RemoveAttribute(e, n) ==
    /\ n \in DOMAIN attrs[e]
    /\ attrs' = [attrs EXCEPT ![e] = [m \in DOMAIN @ \ {n} |-> @[m]]]
    /\ UNCHANGED parent

(* p.appendChild(e): e moves under p; a node cannot go under itself or     *)
(* its descendants, and the document has one element child.  anc is the    *)
(* AncestorOrSelf relation of the current state.                           *)
AppendChild(p, e, anc) ==
    /\ ~anc[p, e]
    /\ p = Doc => \A d \in Elements \ {e} : parent[d] # Doc
    /\ parent' = [parent EXCEPT ![e] = p]
    /\ UNCHANGED attrs

\* e.parentNode.removeChild(e): e is detached.
RemoveChild(e) ==
    /\ parent[e] # NoNode
    /\ parent' = [parent EXCEPT ![e] = NoNode]
    /\ UNCHANGED attrs

Init ==
    /\ parent = [e \in Elements |-> NoNode]
    /\ attrs = [e \in Elements |-> << >>]

Next ==
    LET anc == AncestorOrSelf IN
    \E e \in Elements :
        \/ \E n \in Range(AttrOrder) : \E v \in AttrValues[n] : SetAttribute(e, n, v)
        \/ \E n \in Range(AttrOrder) : RemoveAttribute(e, n)
        \/ \E p \in Nodes \ {e} : AppendChild(p, e, anc)
        \/ RemoveChild(e)

Spec == Init /\ [][Next]_vars

-----------------------------------------------------------------------------
(* Properties.                                                             *)

\* The lookups a deserializer makes: the default namespace, each prefix of a
\* declaration, and each element's own prefix.
LookedUpPrefixes ==
    {Null} \cup {GetLocalName(n) : n \in {m \in Range(AttrOrder) : GetPrefix(m) = << "xmlns" >>}}
           \cup {GetPrefix(Tag[e]) : e \in Elements}


(* The namespace in scope for p at e: the declaration of the nearest       *)
(* ancestor-or-self element that declares p, or null when none does.      *)
(* anc is the AncestorOrSelf relation of the state.                        *)
InScope(e, p, anc) ==
    LET D == {d \in Elements : anc[e, d] /\ DeclName(p) \in DOMAIN attrs[d]}
        nearest == {d \in D : \A m \in D : anc[m, d] => m = d}
    IN  IF D = {} THEN Null ELSE attrs[CHOOSE d \in nearest : TRUE][DeclName(p)]

(* For every element of the document and every prefix, after any sequence  *)
(* of DOM edits, getNamespaceURI returns the namespace in scope: the walk  *)
(* stops at the nearest declaration, a default declaration answers only   *)
(* the null prefix, xmlns="" yields "" and not the outer default, and an   *)
(* undeclared prefix gives null.                                           *)
ResolvesInScopeNamespace ==
    LET anc == AncestorOrSelf IN
    \A e \in Elements : anc[e, Doc] =>
        \A p \in LookedUpPrefixes : GetNamespaceURI(e, p) = InScope(e, p, anc)

(* spec.md 4.1: the walk returns null for an unresolved prefix, when it     *)
(* reaches the document node or runs out of ancestors; no error is raised. *)
UnresolvedIsNull ==
    \A e \in Elements : \A p \in LookedUpPrefixes : GetNamespaceURI(e, p) # TypeError

=============================================================================
