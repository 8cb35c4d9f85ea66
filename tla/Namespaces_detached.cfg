\* The same DOM edits; the lookup is also made on detached elements.
CONSTANTS
    e1 = e1  e2 = e2  e3 = e3
    Doc = Doc  NoNode = NoNode
    Elements <- MC_Elements
    Tag <- MC_Tag
    AttrOrder <- MC_AttrOrder
    AttrValues <- MC_AttrValues
SPECIFICATION Spec
INVARIANT UnresolvedIsNull
