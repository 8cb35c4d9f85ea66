------------------------ MODULE NamespaceNames_proofs ------------------------
(***************************************************************************)
(* What findNamespace answers on one element, for every list of attribute  *)
(* names and every prefix: the value of the attribute the namespaces       *)
(* recommendation declares the prefix with, or null.  The walk over the    *)
(* ancestors (getNamespaceURI, recursive) stays with Namespaces' run.      *)
(***************************************************************************)
EXTENDS NamespaceNames, SequenceTheorems, WellFoundedInduction, TLAPS

\* A name the model can tell from null: no token of it is null's token.
NotNullToken(n) == \A j \in DOMAIN n : << n[j] >> # Null

-----------------------------------------------------------------------------
(* The least index, which SelectInSeq and indexOf return.                  *)

\* Every non-empty set of naturals has a least element.
LEMMA LeastElement ==
    ASSUME NEW S \in SUBSET Nat, S # {}
    PROVE  \E m \in S : \A k \in S : m <= k
<1>1. PICK x \in S : \A y \in S : ~(<< y, x >> \in OpToRel(<, Nat))
  BY NatLessThanWellFounded, WFMin
<1>2. \A y \in S : ~(y < x)
  BY <1>1 DEF OpToRel
<1> QED BY <1>2

\* Min, as SelectInSeq uses it, is the least element of a non-empty set of naturals.
LEMMA MinIsLeast ==
    ASSUME NEW S \in SUBSET Nat, S # {}
    PROVE  Min(S) \in S /\ \A k \in S : Min(S) <= k
BY LeastElement DEF Min

-----------------------------------------------------------------------------
(* getPrefix and getLocalName on the names the recommendation gives.       *)

(* xmlns:<p> has its first ':' at index 1: getPrefix gives "xmlns" and     *)
(* getLocalName gives p back, whatever ':' p itself contains.             *)
LEMMA DeclNameSplits ==
    ASSUME NEW T, NEW p \in Seq(T)
    PROVE  /\ GetPrefix(<< "xmlns", ":" >> \o p) = << "xmlns" >>
           /\ GetLocalName(<< "xmlns", ":" >> \o p) = p
<1> DEFINE U == T \cup {"xmlns", ":"}
           d == << "xmlns", ":" >> \o p
           I == {i \in 1 .. Len(d) : d[i] = ":"}
<1>1. d \in Seq(U) /\ Len(d) = 2 + Len(p)
      /\ d[1] = "xmlns" /\ d[2] = ":" /\ \A i \in 1 .. Len(p) : d[2 + i] = p[i]
  <2>1. << "xmlns", ":" >> \in Seq(U) /\ Len(<< "xmlns", ":" >>) = 2
    OBVIOUS
  <2>2. p \in Seq(U)
    BY SeqMonotonic
  <2> QED BY <2>1, <2>2, ConcatProperties
<1>2. /\ 2 \in I /\ 1 \notin I /\ I \subseteq 1 .. Len(d)
      /\ ColonIndex(d) = IF I = {} THEN -1 ELSE Min(I) - 1
  BY <1>1 DEF ColonIndex
<1> HIDE DEF d, I
<1>3. Min(I) = 2 /\ Min(I) \in Nat
  <2>1. I \subseteq Nat /\ I # {}
    BY <1>1, <1>2
  <2>2. Min(I) \in I /\ \A k \in I : Min(I) <= k
    BY <2>1, MinIsLeast
  <2>3. Min(I) \in Nat
    BY <2>1, <2>2, Zenon
  <2> QED BY <1>2, <2>2, <2>3
<1>4. ColonIndex(d) = 1
  BY <1>2, <1>3
<1>5. SubSeq(d, 1, 1) = << "xmlns" >>
  <2>1. SubSeq(d, 1, 1) \in Seq(U) /\ Len(SubSeq(d, 1, 1)) = 1
        /\ SubSeq(d, 1, 1)[1] = "xmlns"
    BY <1>1, SubSeqProperties
  <2>2. << "xmlns" >> \in Seq(U) /\ Len(<< "xmlns" >>) = 1 /\ << "xmlns" >>[1] = "xmlns"
    OBVIOUS
  <2>3. \A i \in 1 .. 1 : i = 1
    OBVIOUS
  <2> QED BY <2>1, <2>2, <2>3, SeqEqual, Zenon
<1>6. SubSeq(d, 3, Len(d)) = p
  <2>1. SubSeq(d, 3, Len(d)) \in Seq(U) /\ Len(SubSeq(d, 3, Len(d))) = Len(p)
        /\ \A i \in 1 .. Len(p) : SubSeq(d, 3, Len(d))[i] = p[i]
    BY <1>1, SubSeqProperties
  <2>2. p \in Seq(U)
    BY SeqMonotonic
  <2> QED BY <2>1, <2>2, SeqEqual, Zenon
<1>7. GetPrefix(d) = << "xmlns" >> /\ GetLocalName(d) = p
  <2>1. ColonIndex(d) # -1 /\ ColonIndex(d) + 2 = 3
    BY <1>4
  <2> QED BY <1>4, <1>5, <1>6, <2>1, Zenon DEF GetPrefix, GetLocalName
<1> QED BY <1>7, Zenon DEF d

(* The first ':' of a name, when it has one: a token ':' at index c + 1    *)
(* with no ':' before it (c is indexOf's 0-based answer).                  *)
LEMMA ColonIndexFirst ==
    ASSUME NEW T, NEW n \in Seq(T), ColonIndex(n) # -1
    PROVE  /\ ColonIndex(n) \in 0 .. Len(n) - 1 /\ n[ColonIndex(n) + 1] = ":"
           /\ \A i \in 1 .. ColonIndex(n) : n[i] # ":"
<1> DEFINE I == {i \in 1 .. Len(n) : n[i] = ":"}
<1>1. Len(n) \in Nat /\ I \subseteq Nat
  OBVIOUS
<1>2. /\ ColonIndex(n) = IF I = {} THEN -1 ELSE Min(I) - 1
      /\ \A i : i \in I <=> i \in 1 .. Len(n) /\ n[i] = ":"
  BY DEF ColonIndex
<1> HIDE DEF I
<1>3. I # {}
  BY <1>2
<1>4. Min(I) \in I /\ \A k \in I : Min(I) <= k
  BY <1>1, <1>3, MinIsLeast
<1>5. Min(I) \in Nat
  BY <1>1, <1>4, Zenon
<1>6. ColonIndex(n) = Min(I) - 1 /\ ColonIndex(n) \in Int
  <2>1. ColonIndex(n) = Min(I) - 1
    BY <1>2, <1>3
  <2> QED BY <1>5, <2>1
<1>7. \A m \in Nat, c \in Int :
        m \in I /\ (\A k \in I : m <= k) /\ c = m - 1
        => /\ c \in 0 .. Len(n) - 1 /\ n[c + 1] = ":"
           /\ \A i \in 1 .. c : n[i] # ":"
  BY <1>1, <1>2
<1> QED BY <1>4, <1>5, <1>6, <1>7, Zenon

-----------------------------------------------------------------------------
(* The test of findNamespace's loop.                                       *)

(* SubSeqProperties for a slice within the sequence.                     *)
LEMMA SubSeqFacts ==
    ASSUME NEW S, NEW s \in Seq(S), NEW m \in Int, NEW k \in Int,
           1 <= m, k <= Len(s)
    PROVE  /\ SubSeq(s, m, k) \in Seq(S)
           /\ Len(SubSeq(s, m, k)) = IF m <= k THEN k - m + 1 ELSE 0
           /\ \A i \in 1 .. k - m + 1 : SubSeq(s, m, k)[i] = s[m + i - 1]
<1>1. \A i \in m .. k : s[i] \in S
  OBVIOUS
<1> QED BY <1>1, SubSeqProperties

(* A slice of a sequence that equals a one-element sequence is one       *)
(* element long, and that element is the one at its start.               *)
LEMMA SubSeqOne ==
    ASSUME NEW S, NEW s \in Seq(S), NEW m \in Int, NEW k \in Int, NEW x,
           1 <= m, k <= Len(s)
    PROVE  SubSeq(s, m, k) = << x >> => k = m /\ s[m] = x
<1>1. /\ Len(SubSeq(s, m, k)) = IF m <= k THEN k - m + 1 ELSE 0
      /\ \A i \in 1 .. k - m + 1 : SubSeq(s, m, k)[i] = s[m + i - 1]
  BY SubSeqFacts
<1>2. Len(<< x >>) = 1 /\ << x >>[1] = x
  OBVIOUS
<1> QED BY <1>1, <1>2

(* A sequence of two or more elements is its first two followed by the   *)
(* rest.                                                                   *)
LEMMA SplitAtTwo ==
    ASSUME NEW S, NEW n \in Seq(S), Len(n) >= 2
    PROVE  n = << n[1], n[2] >> \o SubSeq(n, 3, Len(n))
<1> DEFINE r == SubSeq(n, 3, Len(n))
           h == << n[1], n[2] >>
<1> HIDE DEF r, h
<1>1. /\ r \in Seq(S) /\ Len(r) = Len(n) - 2
      /\ \A i \in 1 .. Len(n) - 2 : r[i] = n[i + 2]
  <2>1. 3 \in Int /\ Len(n) \in Int /\ 1 <= 3 /\ Len(n) <= Len(n)
    OBVIOUS
  <2>2. /\ r \in Seq(S)
        /\ Len(r) = IF 3 <= Len(n) THEN Len(n) - 3 + 1 ELSE 0
        /\ \A i \in 1 .. Len(n) - 3 + 1 : r[i] = n[3 + i - 1]
    BY <2>1, SubSeqFacts DEF r
  <2>3. Len(r) = Len(n) - 2
    <3>1. Len(n) \in Nat /\ Len(r) \in Nat
      BY <2>2
    <3>2. \A a, b \in Nat : a >= 2 /\ b = (IF 3 <= a THEN a - 3 + 1 ELSE 0) => b = a - 2
      OBVIOUS
    <3> QED BY <2>2, <3>1, <3>2, Zenon
  <2>4. \A i \in 1 .. Len(n) - 2 : i \in 1 .. Len(n) - 3 + 1 /\ 3 + i - 1 = i + 2
    OBVIOUS
  <2> QED BY <2>2, <2>3, <2>4, Zenon
<1>2. h \in Seq(S) /\ Len(h) = 2 /\ h[1] = n[1] /\ h[2] = n[2]
  BY ElementOfSeq DEF h
<1>3. /\ h \o r \in Seq(S) /\ Len(h \o r) = Len(n)
      /\ \A i \in 1 .. Len(n) : (h \o r)[i] = IF i <= 2 THEN h[i] ELSE r[i - 2]
  <2>1. \A s1, s2 \in Seq(S) :
          /\ s1 \o s2 \in Seq(S) /\ Len(s1 \o s2) = Len(s1) + Len(s2)
          /\ \A i \in 1 .. Len(s1) + Len(s2) :
                (s1 \o s2)[i] = IF i <= Len(s1) THEN s1[i] ELSE s2[i - Len(s1)]
    BY ConcatProperties
  <2>2. /\ h \o r \in Seq(S) /\ Len(h \o r) = Len(h) + Len(r)
        /\ \A i \in 1 .. Len(h) + Len(r) :
              (h \o r)[i] = IF i <= Len(h) THEN h[i] ELSE r[i - Len(h)]
    BY <1>1, <1>2, <2>1, Zenon
  <2> QED BY <1>1, <1>2, <2>2
<1>4. \A i \in 1 .. Len(n) : n[i] = (h \o r)[i]
  BY <1>1, <1>2, <1>3
<1> QED BY <1>3, <1>4, SeqEqual DEF r, h

(* Where a name has a ':', getPrefix and getLocalName are the slices      *)
(* before and after the first one.                                         *)
LEMMA ColonSplit ==
    ASSUME NEW T, NEW n \in Seq(T), ColonIndex(n) # -1
    PROVE  \E c \in 0 .. Len(n) - 1 :
               /\ ColonIndex(n) = c /\ n[c + 1] = ":"
               /\ GetPrefix(n) = SubSeq(n, 1, c)
               /\ GetLocalName(n) = SubSeq(n, c + 2, Len(n))
<1>1. ColonIndex(n) \in 0 .. Len(n) - 1 /\ n[ColonIndex(n) + 1] = ":"
  BY ColonIndexFirst
<1>2. /\ GetPrefix(n) = SubSeq(n, 1, ColonIndex(n))
      /\ GetLocalName(n) = SubSeq(n, ColonIndex(n) + 2, Len(n))
  BY DEF GetPrefix, GetLocalName
<1> QED BY <1>1, <1>2, Zenon

(* No slice of a name that holds no null token is null.                    *)
LEMMA SliceNotNull ==
    ASSUME NEW T, NEW n \in Seq(T), NotNullToken(n),
           NEW m \in Int, NEW k \in Int, 1 <= m, k <= Len(n)
    PROVE  SubSeq(n, m, k) # Null
<1>1. SubSeq(n, m, k) = << "(null)" >> => k = m /\ n[m] = "(null)"
  BY SubSeqOne
<1>2. k = m => << n[m] >> # << "(null)" >>
  BY DEF NotNullToken, Null
<1>3. ~(k = m /\ n[m] = "(null)")
  BY <1>2
<1> QED BY <1>1, <1>3 DEF Null

(* An attribute declares a prefix in findNamespace's test exactly when    *)
(* its name is the recommendation's declaration of that prefix: xmlns     *)
(* for null, xmlns:p for p.  A default declaration answers no prefix but   *)
(* null, and a prefix is not matched by a name that merely ends in it.    *)
LEMMA DeclaresIsDeclName ==
    ASSUME NEW T, NEW n \in Seq(T), NotNullToken(n),
           NEW p \in Seq(T) \cup {Null}
    PROVE  Declares(n, p) <=> n = DeclName(p)
<1>1. << "xmlns" >> # Null
  BY DEF Null
<1>2. p # Null => /\ DeclName(p) = << "xmlns", ":" >> \o p /\ p \in Seq(T)
                  /\ GetPrefix(DeclName(p)) = << "xmlns" >>
                  /\ GetLocalName(DeclName(p)) = p
  <2> SUFFICES ASSUME p # Null
               PROVE  /\ DeclName(p) = << "xmlns", ":" >> \o p /\ p \in Seq(T)
                      /\ GetPrefix(DeclName(p)) = << "xmlns" >>
                      /\ GetLocalName(DeclName(p)) = p
    OBVIOUS
  <2>1. DeclName(p) = << "xmlns", ":" >> \o p /\ p \in Seq(T)
    BY DEF DeclName
  <2> QED BY <2>1, DeclNameSplits
<1>3. DeclName(Null) = << "xmlns" >>
  BY DEF DeclName
<1>4. CASE ColonIndex(n) = -1
  <2>1. GetPrefix(n) = Null /\ GetLocalName(n) = n
    BY <1>4 DEF GetPrefix, GetLocalName
  <2>2. p # Null => n # DeclName(p)
    BY <1>1, <1>2, <2>1
  <2> QED BY <1>1, <1>3, <2>1, <2>2, Zenon DEF Declares
<1>5. CASE ColonIndex(n) # -1
  <2>1. PICK c \in 0 .. Len(n) - 1 :
               /\ ColonIndex(n) = c /\ n[c + 1] = ":"
               /\ GetPrefix(n) = SubSeq(n, 1, c)
               /\ GetLocalName(n) = SubSeq(n, c + 2, Len(n))
    BY <1>5, ColonSplit
  <2>2. GetPrefix(n) # Null /\ GetLocalName(n) # Null
    <3>0. /\ 1 \in Int /\ c \in Int /\ c + 2 \in Int /\ Len(n) \in Int
          /\ 1 <= 1 /\ 1 <= c + 2 /\ c <= Len(n) /\ Len(n) <= Len(n)
      OBVIOUS
    <3>1. SubSeq(n, 1, c) # Null
      BY <3>0, SliceNotNull
    <3>2. SubSeq(n, c + 2, Len(n)) # Null
      BY <3>0, SliceNotNull
    <3> QED BY <2>1, <3>1, <3>2, Zenon
  <2>3. n # << "xmlns" >>
    <3>1. n = << "xmlns" >> => Len(n) = 1 /\ n[1] = "xmlns"
      OBVIOUS
    <3> QED BY <2>1, <3>1
  <2>4. CASE p = Null
    BY <1>3, <2>2, <2>3, <2>4, Zenon DEF Declares
  <2>5. CASE p # Null
    <3>1. ASSUME GetPrefix(n) = << "xmlns" >>, GetLocalName(n) = p
          PROVE  n = << "xmlns", ":" >> \o p
      <4>1. SubSeq(n, 1, c) = << "xmlns" >> => c = 1 /\ n[1] = "xmlns"
        BY <2>1, SubSeqOne
      <4>2. c = 1 /\ n[1] = "xmlns"
        <5>1. SubSeq(n, 1, c) = << "xmlns" >>
          BY <2>1, <3>1, Zenon
        <5> QED BY <4>1, <5>1, Zenon
      <4>5. c + 1 = 2 /\ c + 2 = 3 /\ Len(n) >= 2
        BY <4>2
      <4>6. n[2] = ":"
        BY <2>1, <4>5, Zenon
      <4>3. SubSeq(n, 3, Len(n)) = p
        BY <2>1, <3>1, <4>5, Zenon
      <4>4. n = << n[1], n[2] >> \o SubSeq(n, 3, Len(n))
        BY <4>5, SplitAtTwo
      <4> QED BY <4>2, <4>3, <4>4, <4>6, Zenon
    <3> QED BY <1>2, <2>5, <3>1, Zenon DEF Declares
  <2> QED BY <2>4, <2>5
<1> QED BY <1>4, <1>5

-----------------------------------------------------------------------------
(* findNamespace on one element.                                           *)

(* For every prefix, findNamespace returns the value of the element's     *)
(* attribute xmlns (null prefix) or xmlns:p, and null when the element    *)
(* has no such attribute: the loop order and any other attribute,         *)
(* xmlns:p's look-alikes included, do not change the answer.  This is the *)
(* step of getNamespaceURI's walk that ResolvesInScopeNamespace rests on; *)
(* that property itself, over the recursive walk, is checked by TLC.      *)
THEOREM FindNamespaceFindsDeclaration ==
    ASSUME NEW attrs, DOMAIN attrs \subseteq Range(AttrOrder),
           NEW p \in Seq(STRING) \cup {Null}
    PROVE  FindNamespace(attrs, p) =
               IF DeclName(p) \in DOMAIN attrs THEN attrs[DeclName(p)] ELSE Null
<1> DEFINE D == DeclName(p)
           I == {i \in 1 .. Len(AttrOrder) :
                   AttrOrder[i] \in DOMAIN attrs /\ Declares(AttrOrder[i], p)}
<1>1. AttrOrder \in Seq(Seq(STRING))
      /\ \A i \in 1 .. Len(AttrOrder) : AttrOrder[i] \in Seq(STRING)
                                        /\ NotNullToken(AttrOrder[i])
  BY AttrOrderAssumption, ElementOfSeq DEF Range, NotNullToken
<1>2. \A i : i \in I <=> /\ i \in 1 .. Len(AttrOrder)
                        /\ AttrOrder[i] \in DOMAIN attrs /\ AttrOrder[i] = D
  <2>1. ASSUME NEW i \in 1 .. Len(AttrOrder)
        PROVE  Declares(AttrOrder[i], p) <=> AttrOrder[i] = D
    BY <1>1, DeclaresIsDeclName
  <2> QED BY <2>1 DEF I
<1>3. FindNamespace(attrs, p) = IF I = {} THEN Null ELSE attrs[AttrOrder[Min(I)]]
  BY DEF FindNamespace
<1> HIDE DEF I
<1>4. CASE D \in DOMAIN attrs
  <2>1. PICK x \in DOMAIN AttrOrder : AttrOrder[x] = D
    BY <1>4 DEF Range
  <2>2. x \in I /\ I \subseteq Nat
    <3>1. DOMAIN AttrOrder = 1 .. Len(AttrOrder)
      BY <1>1
    <3>2. x \in I
      BY <1>2, <1>4, <2>1, <3>1, Zenon
    <3>3. I \subseteq Nat
      BY <1>2
    <3> QED BY <3>2, <3>3
  <2>3. Min(I) \in I
    BY <2>2, MinIsLeast
  <2>4. AttrOrder[Min(I)] = D
    BY <1>2, <2>3, Zenon
  <2> QED BY <1>3, <1>4, <2>2, <2>4, Zenon
<1>5. CASE D \notin DOMAIN attrs
  <2>1. I = {}
    BY <1>2, <1>5, Zenon
  <2> QED BY <1>3, <1>5, <2>1, Zenon
<1> QED BY <1>4, <1>5

=============================================================================
