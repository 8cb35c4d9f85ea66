\* Three elements under any sequence of attribute and tree edits: each element of the
\* document resolves its names to the declarations in scope, matches each wildcard as
\* spec.md 4.3 says, and deserializes as its xsi:type attribute says.
CONSTANTS
    e1 = e1  e2 = e2  e3 = e3
    Doc = Doc  NoNode = NoNode
    Elements <- MC_Elements
    Tag <- MC_Tag
    AttrOrder <- MC_AttrOrder
    AttrValues <- MC_AttrValues
    XsiUri <- MC_XsiUri
    XsdUri <- MC_XsdUri
    Text <- MC_Text
    Registry <- MC_Registry
    Matchers <- MC_Matchers
SPECIFICATION Spec
INVARIANT ResolvesInScopeNamespace
INVARIANT MatchFollowsSpec
INVARIANT DeserializeFollowsXsiType
